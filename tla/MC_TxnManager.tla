---------------------------- MODULE MC_TxnManager ----------------------------
(* Transactions of up to three writes over a heap of two pages of two      *)
(* slots: enough for a transaction to fill a page, empty it and put rows   *)
(* back on it within one rollback.                                         *)
EXTENDS TxnManager

MC_PerPage  == 2
MC_MaxPages == 2
MC_MaxOps   == 3

\* A table without indexes.
MC_NoIndexes == << >>

\* Rows (a, b) and the table's two unique indexes, on a and on b, in the
\* order tab_.indexes lists them: (2, 1) is new to the first and a
\* duplicate in the second once (1, 1) is in the table.
MC_Rows == {<<1, 1>>, <<2, 1>>}
MC_TwoIndexes == << [v \in MC_Rows |-> v[1]], [v \in MC_Rows |-> v[2]] >>
=============================================================================
