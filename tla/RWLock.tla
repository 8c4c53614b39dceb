-------------------------------- MODULE RWLock --------------------------------
(***************************************************************************)
(* What the table-level lock manager promises (spec section 4.6, in the   *)
(* {S, X} subset the code implements): per table, a set of holders and     *)
(* whether the lock is exclusive.  A shared grant never joins an exclusive *)
(* lock held by another; an exclusive grant, fresh or by upgrade, leaves   *)
(* its requester the only holder.                                          *)
(***************************************************************************)
CONSTANTS Txns, Tables

VARIABLES holders, exclusive

vars == <<holders, exclusive>>

Init ==
    /\ holders = [tab \in Tables |-> {}]
    /\ exclusive = [tab \in Tables |-> FALSE]

AcquireShared(t, tab) ==
    /\ ~exclusive[tab] \/ holders[tab] = {t}
    /\ holders' = [holders EXCEPT ![tab] = @ \cup {t}]
    /\ UNCHANGED exclusive

AcquireExclusive(t, tab) ==
    /\ holders[tab] \subseteq {t}
    /\ holders' = [holders EXCEPT ![tab] = {t}]
    /\ exclusive' = [exclusive EXCEPT ![tab] = TRUE]

Release(t, tab) ==
    /\ t \in holders[tab]
    /\ holders' = [holders EXCEPT ![tab] = @ \ {t}]
    /\ exclusive' = [exclusive EXCEPT ![tab] = @ /\ holders'[tab] # {}]

Next == \E t \in Txns, tab \in Tables :
            AcquireShared(t, tab) \/ AcquireExclusive(t, tab) \/ Release(t, tab)

Spec == Init /\ [][Next]_vars
=============================================================================
