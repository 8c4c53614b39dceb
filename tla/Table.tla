-------------------------------- MODULE Table --------------------------------
(***************************************************************************)
(* What the record heap promises its callers (spec section 4.2): a table   *)
(* addressed by record identifiers.  An insert places a record at some     *)
(* empty rid, a delete empties an occupied rid, an update rewrites an      *)
(* occupied rid, and a rid is stable for the lifetime of its record.       *)
(* size is the number of records the table reports holding.               *)
(***************************************************************************)
EXTENDS Integers

CONSTANTS Rids, Vals, NoRecord

VARIABLES table, size

vars == <<table, size>>

Init == table = [r \in Rids |-> NoRecord] /\ size = 0

InsertRow == \E r \in Rids, v \in Vals :
                /\ table[r] = NoRecord
                /\ table' = [table EXCEPT ![r] = v]
                /\ size' = size + 1

DeleteRow == \E r \in Rids :
                /\ table[r] # NoRecord
                /\ table' = [table EXCEPT ![r] = NoRecord]
                /\ size' = size - 1

UpdateRow == \E r \in Rids, v \in Vals :
                /\ table[r] # NoRecord
                /\ table' = [table EXCEPT ![r] = v]
                /\ UNCHANGED size

Next == InsertRow \/ DeleteRow \/ UpdateRow

Spec == Init /\ [][Next]_vars
=============================================================================
