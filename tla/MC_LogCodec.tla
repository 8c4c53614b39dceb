---------------------------- MODULE MC_LogCodec ----------------------------
EXTENDS LogCodec

(* The header of log_defs.h: log_type_ at 0, then lsn_, log_tot_len_,      *)
(* log_tid_, prev_lsn_, 4 bytes each; the payload at LOG_HEADER_SIZE = 20. *)
MC_Layout == [lsn |-> 4, totLen |-> 8, tid |-> 12, prev |-> 16, data |-> 20]

(* Table "t1", records of one and two bytes, one index on column "a",   *)
(* and two page images of the scaled-down PAGE_SIZE.                      *)
MC_NameT1 == <<116, 49>>
MC_Names == {MC_NameT1}
MC_Payloads == {<<65>>, <<66, 67>>}
MC_ColLists == {<< <<97>> >>}
MC_PageImgs == {<<0, 0>>, <<5, 6>>}

(* The records of transactions and of the heap: what the executors, the    *)
(* heap and the transaction manager append.                                 *)
MC_TxnKinds == {0, 1, 2, 3, 4, 5, 6, 7, 8}
(* With the index DDL records of sm_manager.cpp: for table "t1" and one    *)
(* column their length is one byte short, the case LogRoundTrip must      *)
(* survive.                                                                 *)
MC_AllKinds == MC_TxnKinds \cup {10, 11}
====
