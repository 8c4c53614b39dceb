----------------------------- MODULE LockManager -----------------------------
(***************************************************************************)
(* Table locks (src/src/transaction/concurrency/lock_manager.cpp) taken by *)
(* concurrent transactions and released by their commit or abort          *)
(* (src/src/transaction/transaction_manager.cpp).                          *)
(*                                                                         *)
(* lock_table_ maps a table to {shared_num, mode}; each transaction keeps  *)
(* its lock set.  A request that cannot be granted returns false at once;  *)
(* the executor throws TransactionAbortException and the session loop     *)
(* aborts the transaction.  Commit and abort release the lock set one     *)
(* unlock call at a time, each under the lock-table latch, and clear the   *)
(* set only after the loop, so other transactions run between the calls.  *)
(* Row locks are no-ops in the code and IS/IX always succeed without       *)
(* touching the table, so neither has state to model.                      *)
(***************************************************************************)
EXTENDS Integers, FiniteSets

CONSTANTS Txns, Tables, NoLock

VARIABLES
    lockTable,  \* lock_table_: table -> [mode, shared] or NoLock
    lockSet,    \* txn->get_lock_set()
    txnState,   \* txn->get_state()
    pc,         \* where each transaction's session is
    toRelease   \* locks the commit/abort loop has not unlocked yet

vars == <<lockTable, lockSet, txnState, pc, toRelease>>

States == {"DEFAULT", "GROWING", "SHRINKING", "COMMITTED", "ABORTED"}
\* "idle": not begun; "running": executing statements; "failed": a lock
\* request returned false and the abort exception is on its way;
\* "committing"/"aborting": inside the unlock loop; "done": finished.
Pcs == {"idle", "running", "failed", "committing", "aborting", "done"}

Entry(m, n) == [mode |-> m, shared |-> n]

-----------------------------------------------------------------------------
(* The transaction holds tab: it is in the lock set and, inside the unlock *)
(* loop, not yet unlocked.                                                 *)
Holds(t, tab) ==
    /\ tab \in lockSet[t]
    /\ pc[t] \in {"committing", "aborting"} => tab \in toRelease[t]
Holders(tab) == {t \in Txns : Holds(t, tab)}

Grant(t, tab, e) ==
    /\ lockTable' = [lockTable EXCEPT ![tab] = e]
    /\ lockSet' = [lockSet EXCEPT ![t] = @ \cup {tab}]
    /\ UNCHANGED pc

Refuse(t) ==
    /\ pc' = [pc EXCEPT ![t] = "failed"]
    /\ UNCHANGED <<lockTable, lockSet>>

-----------------------------------------------------------------------------
(* TransactionManager::begin.                                              *)
Begin(t) ==
    /\ pc[t] = "idle"
    /\ pc' = [pc EXCEPT ![t] = "running"]
    /\ txnState' = [txnState EXCEPT ![t] = "DEFAULT"]
    /\ UNCHANGED <<lockTable, lockSet, toRelease>>

(* Fault of lock_shared_on_table that the properties must catch: joining  *)
(* a shared lock without counting the new holder.                         *)
LockSharedUncounted(t, tab) ==
    IF tab \in lockSet[t] THEN UNCHANGED <<lockTable, lockSet, pc>>
    ELSE IF lockTable[tab] # NoLock
         THEN IF lockTable[tab].mode = "S" THEN Grant(t, tab, lockTable[tab]) ELSE Refuse(t)
         ELSE Grant(t, tab, Entry("S", 1))

(* lock_shared_on_table, after txn state := GROWING: granted if already   *)
(* held in any mode; joins a shared lock; refused on an exclusive one;     *)
(* creates {1, S} when the table is unlocked.                             *)
LockSharedOnTable(t, tab) ==
    IF tab \in lockSet[t] THEN UNCHANGED <<lockTable, lockSet, pc>>
    ELSE IF lockTable[tab] # NoLock
         THEN IF lockTable[tab].mode = "S"
              THEN Grant(t, tab, [lockTable[tab] EXCEPT !.shared = @ + 1])
              ELSE Refuse(t)
         ELSE Grant(t, tab, Entry("S", 1))

(* Fault of lock_exclusive_on_table that the properties must catch: the   *)
(* S -> X upgrade without the shared_num > 1 test.                        *)
LockExclusiveAnyUpgrade(t, tab) ==
    IF tab \in lockSet[t]
    THEN /\ lockTable' = [lockTable EXCEPT ![tab].mode = "X"]
         /\ UNCHANGED <<lockSet, pc>>
    ELSE IF lockTable[tab] # NoLock THEN Refuse(t)
         ELSE Grant(t, tab, Entry("X", 0))

(* lock_exclusive_on_table, after txn state := GROWING: if already held,  *)
(* an S lock is upgraded when shared_num <= 1 and refused otherwise, an X  *)
(* lock is granted; if not held, refused when any entry exists, else       *)
(* {0, X} is created.                                                      *)
LockExclusiveOnTable(t, tab) ==
    IF tab \in lockSet[t]
    THEN IF lockTable[tab].mode = "S"
         THEN IF lockTable[tab].shared > 1 THEN Refuse(t)
              ELSE /\ lockTable' = [lockTable EXCEPT ![tab].mode = "X"]
                   /\ UNCHANGED <<lockSet, pc>>
         ELSE UNCHANGED <<lockTable, lockSet, pc>>
    ELSE IF lockTable[tab] # NoLock THEN Refuse(t)
         ELSE Grant(t, tab, Entry("X", 0))

(* The executors' lock requests: seq/index scans take S, insert, delete,   *)
(* update and DDL take X.                                                  *)
LockShared(t, tab) ==
    /\ pc[t] = "running"
    /\ txnState' = [txnState EXCEPT ![t] = "GROWING"]
    /\ LockSharedOnTable(t, tab)
    /\ UNCHANGED toRelease

LockExclusive(t, tab) ==
    /\ pc[t] = "running"
    /\ txnState' = [txnState EXCEPT ![t] = "GROWING"]
    /\ LockExclusiveOnTable(t, tab)
    /\ UNCHANGED toRelease

(* TransactionManager::commit up to its unlock loop (the log records are   *)
(* the log module's business).                                             *)
Commit(t) ==
    /\ pc[t] = "running"
    /\ pc' = [pc EXCEPT ![t] = "committing"]
    /\ toRelease' = [toRelease EXCEPT ![t] = lockSet[t]]
    /\ UNCHANGED <<lockTable, lockSet, txnState>>

(* TransactionManager::abort up to its unlock loop, called by the session *)
(* on ROLLBACK or on TransactionAbortException.                           *)
Abort(t) ==
    /\ pc[t] \in {"running", "failed"}
    /\ pc' = [pc EXCEPT ![t] = "aborting"]
    /\ toRelease' = [toRelease EXCEPT ![t] = lockSet[t]]
    /\ UNCHANGED <<lockTable, lockSet, txnState>>

(* Fault of unlock that the properties must catch: --shared_num for every *)
(* mode, erasing the entry only when it reaches exactly zero.             *)
UnlockUniform(t, tab) ==
    IF lockTable[tab] = NoLock THEN UNCHANGED lockTable
    ELSE IF lockTable[tab].shared - 1 = 0
         THEN lockTable' = [lockTable EXCEPT ![tab] = NoLock]
         ELSE lockTable' = [lockTable EXCEPT ![tab].shared = @ - 1]

(* LockManager::unlock, after txn state := SHRINKING: false if the entry  *)
(* is gone; an S entry loses one holder and is erased at shared_num <= 0;  *)
(* an X entry is erased.                                                   *)
UnlockEntry(t, tab) ==
    IF lockTable[tab] = NoLock THEN UNCHANGED lockTable
    ELSE IF lockTable[tab].mode = "S" /\ lockTable[tab].shared - 1 > 0
         THEN lockTable' = [lockTable EXCEPT ![tab].shared = @ - 1]
         ELSE lockTable' = [lockTable EXCEPT ![tab] = NoLock]

(* One iteration of the unlock loop in commit or abort.                    *)
Unlock(t, tab) ==
    /\ pc[t] \in {"committing", "aborting"}
    /\ tab \in toRelease[t]
    /\ txnState' = [txnState EXCEPT ![t] = "SHRINKING"]
    /\ UnlockEntry(t, tab)
    /\ toRelease' = [toRelease EXCEPT ![t] = @ \ {tab}]
    /\ UNCHANGED <<lockSet, pc>>

(* After the loop: lockset->clear(), state COMMITTED or ABORTED.          *)
Finish(t) ==
    /\ pc[t] \in {"committing", "aborting"}
    /\ toRelease[t] = {}
    /\ lockSet' = [lockSet EXCEPT ![t] = {}]
    /\ txnState' = [txnState EXCEPT ![t] =
                        IF pc[t] = "committing" THEN "COMMITTED" ELSE "ABORTED"]
    /\ pc' = [pc EXCEPT ![t] = "done"]
    /\ UNCHANGED <<lockTable, toRelease>>

-----------------------------------------------------------------------------
Init ==
    /\ lockTable = [tab \in Tables |-> NoLock]
    /\ lockSet = [t \in Txns |-> {}]
    /\ txnState = [t \in Txns |-> "DEFAULT"]
    /\ pc = [t \in Txns |-> "idle"]
    /\ toRelease = [t \in Txns |-> {}]

Next == \E t \in Txns :
    \/ Begin(t)
    \/ \E tab \in Tables : LockShared(t, tab) \/ LockExclusive(t, tab) \/ Unlock(t, tab)
    \/ Commit(t)
    \/ Abort(t)
    \/ Finish(t)

Spec == Init /\ [][Next]_vars

-----------------------------------------------------------------------------
TypeOK ==
    /\ lockTable \in [Tables -> {NoLock} \cup
                        [mode : {"S", "X"}, shared : 0..Cardinality(Txns)]]
    /\ lockSet \in [Txns -> SUBSET Tables]
    /\ txnState \in [Txns -> States]
    /\ pc \in [Txns -> Pcs]
    /\ toRelease \in [Txns -> SUBSET Tables]

(* The lock table agrees with the transactions' lock sets: an entry exists *)
(* exactly while some transaction holds the table, an S entry counts its   *)
(* holders, an X entry has one holder.  Joins, upgrades and the unlock     *)
(* loops of several transactions interleave, each step under the latch.    *)
LockTableConsistent ==
    \A tab \in Tables :
        /\ (lockTable[tab] = NoLock) <=> (Holders(tab) = {})
        /\ lockTable[tab] # NoLock /\ lockTable[tab].mode = "S"
              => lockTable[tab].shared = Cardinality(Holders(tab))
        /\ lockTable[tab] # NoLock /\ lockTable[tab].mode = "X"
              => Cardinality(Holders(tab)) = 1

(* The lock manager implements a readers-writer lock per table (module    *)
(* RWLock): no shared grant joins another's exclusive lock, and an         *)
(* exclusive grant or upgrade leaves its requester the sole holder.        *)
ExclusiveView == [tab \in Tables |-> lockTable[tab] # NoLock /\ lockTable[tab].mode = "X"]
Abstract == INSTANCE RWLock WITH holders <- [tab \in Tables |-> Holders(tab)],
                                 exclusive <- ExclusiveView
RWLockRefinement == Abstract!Spec
=============================================================================
