----------------------------- MODULE MC_Recovery -----------------------------
(* Model-checking instance of logging and recovery: one data page of two *)
(* slots, three transactions of one write each, and a log of up to 15     *)
(* records: enough for a committed insert followed by a delete that is    *)
(* rolled back to its END, or for two crashes around a commit.            *)
EXTENDS Recovery

MC_PerPage  == 2
MC_MaxPages == 1
MC_MaxTxns  == 3
MC_MaxOps   == 1
MC_MaxLog   == 15
====
