----------------------------- MODULE TxnManager -----------------------------
(***************************************************************************)
(* Transactions writing one table, and their commit and abort               *)
(* (src/src/transaction/transaction_manager.cpp), composed with the record *)
(* heap of module RmFile and the rollback primitives of                    *)
(* src/src/system/sm_manager.cpp.                                          *)
(*                                                                         *)
(* Every DML executor takes the table's exclusive lock before it touches   *)
(* the heap, and locks are held until commit or abort, so the writers of   *)
(* one table run one transaction at a time: `active` is that transaction.  *)
(* Each executor step maintains the table's unique indexes, applies the    *)
(* heap operation and appends its write record (type, rid, old image) to   *)
(* the write set; abort undoes the write set from newest to oldest, each   *)
(* rollback primitive repairing the indexes too.  An index is its          *)
(* contract (the B+tree is not in the source tree): a set of (key, rid)    *)
(* entries whose insert fails on a key it holds.  Log records and locks    *)
(* are left to their own modules: neither changes the heap, the indexes or *)
(* the write set.                                                          *)
(***************************************************************************)
EXTENDS Integers, Sequences, FiniteSets

CONSTANTS PerPage, MaxPages, Vals, Zero, NoPage   \* as in RmFile
CONSTANT MaxOps     \* bound on the write-set length of one transaction
CONSTANT Indexes    \* tab_.indexes in order: each maps a row to its INT key

ASSUME MaxOps \in Nat \ {0}

VARIABLES
    heap,       \* the table's heap file, as in RmFile
    index,      \* index[i]: the (key, rid) entries of the i-th index
    writeSet,   \* txn->get_write_set(): <<[type, rid, old]>>, oldest first
    active,     \* a transaction has begun and not yet committed or aborted
    before      \* history: the heap when the active transaction began

vars == <<heap, index, writeSet, active, before>>

H == INSTANCE RmFile

WTypes == {"INSERT_TUPLE", "DELETE_TUPLE", "UPDATE_TUPLE"}
WriteRecord(t, r, old) == [type |-> t, rid |-> r, old |-> old]

-----------------------------------------------------------------------------
Ixs == DOMAIN Indexes
\* The key of a row; a zeroed slot (Zero, what delete_record leaves) has
\* the INT key 0.
Key(i, v) == IF v = Zero THEN 0 ELSE Indexes[i][v]
HasKey(ix, k) == \E e \in ix : e[1] = k

\* delete_entry(key): the key's entry goes, whichever rid it names.
DeleteEntry(ix, k) == {e \in ix : e[1] # k}

\* insert_entry(key, rid): no change when the key is already present.
InsertEntry(ix, k, r) == IF HasKey(ix, k) THEN ix ELSE ix \cup {<<k, r>>}

\* The first index in S, or one past the last when S is empty: the index a
\* loop over tab_.indexes throws at.
FirstOf(S) == IF S = {} THEN Len(Indexes) + 1 ELSE CHOOSE i \in S : \A k \in S : i <= k

\* std::strcmp(old_key, new_key) == 0 on the keys' bytes (an INT key is
\* four little-endian bytes): the bytes agree up to the first NUL.
Byte(x, n) == (x \div (2 ^ (8 * (n - 1)))) % 256
StrcmpSame(x, y) ==
    LET d == {n \in 1..4 : Byte(x, n) # Byte(y, n) \/ Byte(x, n) = 0}
    IN  d = {} \/ Byte(x, FirstOf(d)) = Byte(y, FirstOf(d))

(* The rollback primitive for one write record, as abort dispatches it,    *)
(* on s = [h |-> heap, ix |-> indexes]:                                    *)
(*  rollback_insert: get_record(rid), delete its key from every index,     *)
(*                   then delete_record(rid);                              *)
(*  rollback_delete: insert_record(old image), at whatever rid the heap    *)
(*                   picks, and insert its key with that rid into every    *)
(*                   index, the result unchecked;                          *)
(*  rollback_update: for every index whose key strcmp finds changed,       *)
(*                   delete the current key and insert the old one, then   *)
(*                   update_record(rid, old image).                        *)
RollbackEntry(s, e) ==
    LET cur == H!GetRecord(s.h, e.rid) IN
    CASE e.type = "INSERT_TUPLE" ->
            [h |-> H!DeleteRecord(s.h, e.rid),
             ix |-> [i \in Ixs |-> DeleteEntry(s.ix[i], Key(i, cur))]]
      [] e.type = "DELETE_TUPLE" ->
            LET res == H!InsertRecord(s.h, e.old)
            IN  [h |-> res.heap,
                 ix |-> [i \in Ixs |-> InsertEntry(s.ix[i], Key(i, e.old), res.rid)]]
      [] e.type = "UPDATE_TUPLE" ->
            [h |-> H!UpdateRecord(s.h, e.rid, e.old),
             ix |-> [i \in Ixs |->
                       IF StrcmpSame(Key(i, cur), Key(i, e.old)) THEN s.ix[i]
                       ELSE InsertEntry(DeleteEntry(s.ix[i], Key(i, cur)),
                                        Key(i, e.old), e.rid)]]

(* The while loop of TransactionManager::abort: pop the newest write      *)
(* record and roll it back, until the write set is empty.                 *)
RECURSIVE Rollback(_, _)
Rollback(s, ws) ==
    IF ws = <<>> THEN s
    ELSE Rollback(RollbackEntry(s, ws[Len(ws)]), SubSeq(ws, 1, Len(ws) - 1))

-----------------------------------------------------------------------------
Init ==
    /\ heap = H!InitHeap
    /\ index = [i \in Ixs |-> {}]
    /\ writeSet = <<>>
    /\ active = FALSE
    /\ before = H!InitHeap

(* TransactionManager::begin with a fresh transaction.                     *)
Begin ==
    /\ ~active
    /\ active' = TRUE
    /\ writeSet' = <<>>
    /\ before' = heap
    /\ UNCHANGED <<heap, index>>

CanWrite == active /\ Len(writeSet) < MaxOps

(* InsertExecutor::Next: insert_record, then insert_entry into each index  *)
(* in turn; on a duplicate key delete_record and throw (the statement      *)
(* fails, the transaction stays), leaving the entries already added;       *)
(* otherwise the INSERT_TUPLE write record.                                *)
InsertExec(v) ==
    /\ CanWrite
    /\ H!HasRoom(heap)
    /\ LET res  == H!InsertRecord(heap, v)
           stop == FirstOf({i \in Ixs : HasKey(index[i], Key(i, v))})
       IN  /\ index' = [i \in Ixs |->
                          IF i < stop THEN index[i] \cup {<<Key(i, v), res.rid>>}
                          ELSE index[i]]
           /\ IF stop > Len(Indexes)
              THEN /\ heap' = res.heap
                   /\ writeSet' = Append(writeSet, WriteRecord("INSERT_TUPLE", res.rid, Zero))
              ELSE /\ heap' = H!DeleteRecord(res.heap, res.rid)
                   /\ UNCHANGED writeSet
    /\ UNCHANGED <<active, before>>

(* DeleteExecutor::Next for one rid of its scan: get_record, delete_entry  *)
(* of its key from each index in turn, throwing at the first that finds    *)
(* none; then delete_record and the DELETE_TUPLE write record.             *)
DeleteExec(r) ==
    /\ CanWrite
    /\ r \in H!Occupied(heap)
    /\ LET old  == H!GetRecord(heap, r)
           stop == FirstOf({i \in Ixs : ~HasKey(index[i], Key(i, old))})
       IN  /\ index' = [i \in Ixs |->
                          IF i < stop THEN DeleteEntry(index[i], Key(i, old)) ELSE index[i]]
           /\ IF stop > Len(Indexes)
              THEN /\ heap' = H!DeleteRecord(heap, r)
                   /\ writeSet' = Append(writeSet, WriteRecord("DELETE_TUPLE", r, old))
              ELSE UNCHANGED <<heap, writeSet>>
    /\ UNCHANGED <<active, before>>

(* UpdateExecutor::Next for one rid of its scan: for each index whose key  *)
(* strcmp finds changed, insert_entry of the new key (throwing on a        *)
(* duplicate) and delete_entry of the old; then update_record and the      *)
(* UPDATE_TUPLE write record.                                              *)
UpdateExec(r, v) ==
    /\ CanWrite
    /\ r \in H!Occupied(heap)
    /\ LET old     == H!GetRecord(heap, r)
           changed == {i \in Ixs : ~StrcmpSame(Key(i, old), Key(i, v))}
           stop    == FirstOf({i \in changed : HasKey(index[i], Key(i, v))})
       IN  /\ index' = [i \in Ixs |->
                          IF i < stop /\ i \in changed
                          THEN DeleteEntry(index[i], Key(i, old)) \cup {<<Key(i, v), r>>}
                          ELSE index[i]]
           /\ IF stop > Len(Indexes)
              THEN /\ heap' = H!UpdateRecord(heap, r, v)
                   /\ writeSet' = Append(writeSet, WriteRecord("UPDATE_TUPLE", r, old))
              ELSE UNCHANGED <<heap, writeSet>>
    /\ UNCHANGED <<active, before>>

(* TransactionManager::commit: clear the write set, state COMMITTED.       *)
Commit ==
    /\ active
    /\ active' = FALSE
    /\ writeSet' = <<>>
    /\ UNCHANGED <<heap, index, before>>

(* TransactionManager::abort: roll back the whole write set, newest first, *)
(* state ABORTED.                                                          *)
Abort ==
    /\ active
    /\ LET s == Rollback([h |-> heap, ix |-> index], writeSet)
       IN  heap' = s.h /\ index' = s.ix
    /\ writeSet' = <<>>
    /\ active' = FALSE
    /\ UNCHANGED before

Next ==
    \/ Begin
    \/ \E v \in Vals : InsertExec(v)
    \/ \E r \in H!Rids : DeleteExec(r)
    \/ \E r \in H!Rids, v \in Vals : UpdateExec(r, v)
    \/ Commit
    \/ Abort

TxnSpec == Init /\ [][Next]_vars

-----------------------------------------------------------------------------
TxnTypeOK ==
    /\ H!TypeOK
    /\ writeSet \in Seq([type : WTypes, rid : H!Rids, old : Vals \cup {Zero}])
    /\ Len(writeSet) <= MaxOps
    /\ active \in BOOLEAN

(* How many rows of each value the table holds.                            *)
RowBag(h) == [v \in Vals |-> Cardinality({r \in H!Occupied(h) : H!RowAt(h, r) = v})]

(* Round-trip law of the spec: begin; <ops>; abort restores the table's    *)
(* rows.  Abort replays rollback primitives against the rids recorded in   *)
(* the write set, while rollback_delete re-inserts at a rid of the heap's  *)
(* choosing: the rids of older write records may then name another row.    *)
AbortRestoresRows == [][Abort => RowBag(heap') = RowBag(before)]_vars

(* Index maintenance: every index holds exactly one entry per row of the  *)
(* table, its key and its rid, across failed statements and rollbacks:     *)
(* the insert executor's duplicate-key path deletes the record but not the *)
(* entries the earlier indexes took, the update executor's leaves the      *)
(* earlier indexes moved, and strcmp on binary keys can miss a change.     *)
IndexMatchesHeap ==
    \A i \in Ixs :
        index[i] = {<<Key(i, H!GetRecord(heap, r)), r>> : r \in H!Occupied(heap)}

(* The heap stays well-formed across rollback: rollback_insert deletes by  *)
(* rid without checking the slot is still occupied.                        *)
HeapIntegrity == H!RecordCountMatchesBitmap /\ H!FreeListExact
=============================================================================
