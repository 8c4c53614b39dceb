------------------------------ MODULE Recovery ------------------------------
(***************************************************************************)
(* Logging, crash and restart recovery of one table                        *)
(* (src/src/recovery/log_recovery.cpp), with the log records the heap,     *)
(* the executors and the transaction manager write.                        *)
(*                                                                         *)
(* The heap is RmFile's.  Every heap change made with a context logs full  *)
(* PAGE_SET images: insert_record and delete_record one of the data page   *)
(* and one of the file header (page 0), update_record one of the page.     *)
(* Each image is taken before set_page_lsn, so it carries the page's       *)
(* previous LSN.  The executor then logs the logical INSERT, DELETE or     *)
(* UPDATE record, and the write record.  The LSN of a record is its        *)
(* position in the log; 0 stands for INVALID_LSN.                          *)
(*                                                                         *)
(* Writers of the table run one transaction at a time (table X lock).     *)
(* Other sessions are present only through what they do to the shared     *)
(* log and pool: a flush_log_to_disk between any two appends, and the    *)
(* pool writing a dirty page back (EvictPage) whatever its LSN.           *)
(* The heap file header is written to disk only when the file is closed,   *)
(* which a crash never does, so the disk header is the one of the empty    *)
(* file.  A crash loses memory and the undurable log tail; restart runs    *)
(* analyze and redo (one step) and then undo one log record per step, so   *)
(* pages may be written back and the process may crash again during       *)
(* undo.                                                                   *)
(***************************************************************************)
EXTENDS Integers, Sequences, FiniteSets, SequencesExt

CONSTANTS PerPage, MaxPages, Vals, Zero, NoPage   \* as in RmFile
CONSTANTS
    MaxTxns,        \* transactions begun over the whole run (ids 1..MaxTxns)
    MaxOps,         \* bound on the writes of one transaction
    MaxLog,         \* bound on the log length
    MaxCrashes      \* bound on crashes

VARIABLES
    heap,       \* the in-memory heap (pages in the pool, file_hdr_)
    memLsn,     \* page LSNs in memory; index 0 is file_hdr_.lsn
    diskPage,   \* data pages on disk: [pg, lsn]
    log,        \* the log, durable prefix and buffer
    durable,    \* length of the durable prefix
    txn,        \* the writer transaction, or NoTxn
    nextTxn,    \* next_txn_id_
    stage,      \* "run", "down" (crashed), "undo" (restart undo phase)
    att,        \* active_txn_: txn id -> last lsn, 0 when absent
    status,     \* txn_status
    cursor,     \* the undo walk in progress, or NoCursor
    crashes,    \* crashes so far
    settled,    \* history: rows after the last transaction whose outcome
                \* record (COMMIT, or END of an abort) is durable
    pending     \* history: the outcome not yet durable, or NoPending

vars == <<heap, memLsn, diskPage, log, durable, txn, nextTxn, stage, att,
          status, cursor, crashes, settled, pending>>

H == INSTANCE RmFile

TxnIds == 1..MaxTxns
HdrNo == 0
NoTxn == [id |-> 0]
NoCursor == [tid |-> 0]
NoPending == [lsn |-> 0]

(* How many rows of each value the table holds.                            *)
RowBag(h) == [v \in Vals |-> Cardinality({r \in H!Occupied(h) : H!RowAt(h, r) = v})]

Hdr(h) == [firstFree |-> h.firstFree, numPages |-> h.numPages]

-----------------------------------------------------------------------------
(* Log records (log_manager.h): the common header fields type, txn id and  *)
(* prev_lsn, and the payload each type carries.                            *)
Rec(ty, t, prev) == [type |-> ty, tid |-> t, prev |-> prev]
PageSet(t, prev, pno, img, imgLsn) ==
    [type |-> "PAGE_SET", tid |-> t, prev |-> prev, pno |-> pno,
     img |-> img, imgLsn |-> imgLsn]
TupleRec(ty, t, prev, rid, val) ==
    [type |-> ty, tid |-> t, prev |-> prev, rid |-> rid, val |-> val]
UndoNextRec(t, prev, u) ==
    [type |-> "UNDO_NEXT", tid |-> t, prev |-> prev, undoNext |-> u]

(* The heap operation of one write, without logging.                      *)
HeapStep(kind, h, r, v) ==
    CASE kind = "insert" -> H!InsertRecord(h, v)
      [] kind = "delete" -> [heap |-> H!DeleteRecord(h, r), rid |-> r]
      [] kind = "update" -> [heap |-> H!UpdateRecord(h, r, v), rid |-> r]

(* Fault of the logging in insert_record/delete_record that PrevLsnChain   *)
(* must catch: the header record chained to the transaction's prev_lsn     *)
(* instead of the page record.                                             *)
LoggedStepHdrUnchained(kind, h, r, v, lsns, t, prev, base) ==
    LET res == HeapStep(kind, h, r, v)
        p   == res.rid[1]
        old == IF p > h.numPages THEN 0 ELSE lsns[p]
    IN [heap |-> res.heap, rid |-> res.rid,
        recs |-> IF kind = "update" THEN <<PageSet(t, prev, p, res.heap.page[p], old)>>
                 ELSE <<PageSet(t, prev, p, res.heap.page[p], old),
                        PageSet(t, prev, HdrNo, Hdr(res.heap), lsns[HdrNo])>>,
        lsns |-> IF kind = "update" THEN [lsns EXCEPT ![p] = base + 1]
                 ELSE [lsns EXCEPT ![p] = base + 1, ![HdrNo] = base + 2],
        prev |-> IF kind = "update" THEN base + 1 ELSE base + 2]

(* The heap operation with a context: the PAGE_SET of the data page,      *)
(* chained to the transaction's prev_lsn and stamped on the page; for      *)
(* insert and delete also the PAGE_SET of the file header, chained to the  *)
(* first and stamped on file_hdr_.  A page just made by new_page carries  *)
(* INVALID_LSN.  Returns the heap, the rid, the records, the page LSNs and *)
(* the transaction's new prev_lsn.                                         *)
LoggedStep(kind, h, r, v, lsns, t, prev, base) ==
    LET res == HeapStep(kind, h, r, v)
        h2  == res.heap
        p   == res.rid[1]
        old == IF p > h.numPages THEN 0 ELSE lsns[p]
        pageRec == PageSet(t, prev, p, h2.page[p], old)
        hdrRec  == PageSet(t, base + 1, HdrNo, Hdr(h2), lsns[HdrNo])
    IN IF kind = "update"
       THEN [heap |-> h2, rid |-> res.rid, recs |-> <<pageRec>>,
             lsns |-> [lsns EXCEPT ![p] = base + 1], prev |-> base + 1]
       ELSE [heap |-> h2, rid |-> res.rid, recs |-> <<pageRec, hdrRec>>,
             lsns |-> [lsns EXCEPT ![p] = base + 1, ![HdrNo] = base + 2],
             prev |-> base + 2]

(* new_page writes the zeroed page to disk at once.                        *)
NewPageOnDisk(h, h2) ==
    IF h2.numPages > h.numPages
    THEN [diskPage EXCEPT ![h2.numPages] = [pg |-> H!EmptyPage, lsn |-> 0]]
    ELSE diskPage

(* The durable lengths an action appending n records may leave when other *)
(* sessions flush the log while it runs: a flush after its k-th append,   *)
(* 0 < k < n.  A flush after the last append is the action FlushLog.       *)
MidFlush(n) ==
    {durable} \cup {Len(log) + k : k \in 1..(n - 1)}

(* History: the outcome pend becomes settled once the durable prefix d     *)
(* contains its record.                                                    *)
SettleWith(pend, d) ==
    IF pend # NoPending /\ pend.lsn <= d
    THEN settled' = pend.rows /\ pending' = NoPending
    ELSE settled' = settled /\ pending' = pend

Running == stage = "run" /\ txn # NoTxn

-----------------------------------------------------------------------------
(* TransactionManager::begin: BEGIN with the new transaction's prev_lsn   *)
(* (INVALID); the transaction then remembers the record's LSN.             *)
Begin ==
    /\ stage = "run" /\ txn = NoTxn
    /\ nextTxn <= MaxTxns /\ Len(log) + 1 <= MaxLog
    /\ log' = Append(log, Rec("BEGIN", nextTxn, 0))
    /\ txn' = [id |-> nextTxn, prev |-> Len(log) + 1, ws |-> <<>>, phase |-> "running"]
    /\ nextTxn' = nextTxn + 1
    /\ UNCHANGED <<heap, memLsn, diskPage, durable, stage, att, status, cursor,
                   crashes, settled, pending>>

(* InsertExecutor::Next, DeleteExecutor::Next (one rid), UpdateExecutor:: *)
(* Next (one rid): the heap call with the context, which logs its PAGE_SET *)
(* images, then the logical record, chained to the transaction's prev_lsn, *)
(* and the write record holding that record's LSN.                        *)
Write(kind, r, v) ==
    LET t    == txn
        st   == LoggedStep(kind, heap, r, v, memLsn, t.id, t.prev, Len(log))
        lsn  == Len(log) + Len(st.recs) + 1
        old  == IF kind = "insert" THEN v ELSE H!GetRecord(heap, r)
        ty   == CASE kind = "insert" -> "INSERT" [] kind = "delete" -> "DELETE"
                  [] kind = "update" -> "UPDATE"
        recs == st.recs \o <<TupleRec(ty, t.id, lsn - 1, st.rid, old)>>
    IN /\ Running /\ t.phase = "running" /\ Len(t.ws) < MaxOps
       /\ Len(log) + Len(recs) <= MaxLog
       /\ heap' = st.heap
       /\ memLsn' = st.lsns
       /\ diskPage' = NewPageOnDisk(heap, st.heap)
       /\ log' = log \o recs
       /\ durable' \in MidFlush(Len(recs))
       /\ txn' = [t EXCEPT !.prev = lsn,
                           !.ws = Append(@, [type |-> ty, rid |-> st.rid, val |-> old, lsn |-> lsn])]
       /\ UNCHANGED <<nextTxn, stage, att, status, cursor, crashes, settled, pending>>

Insert(v) == H!HasRoom(heap) /\ Write("insert", <<0, 0>>, v)
Delete(r) == r \in H!Occupied(heap) /\ Write("delete", r, Zero)
Update(r, v) == r \in H!Occupied(heap) /\ Write("update", r, v)

(* TransactionManager::commit up to its flush: COMMIT and END appended;    *)
(* the flush follows in CommitFlush, and the process may crash between.   *)
Commit ==
    /\ Running /\ txn.phase = "running" /\ Len(log) + 2 <= MaxLog
    /\ log' = log \o <<Rec("COMMIT", txn.id, txn.prev), Rec("END", txn.id, Len(log) + 1)>>
    /\ durable' \in MidFlush(2)
    /\ SettleWith([lsn |-> Len(log) + 1, rows |-> RowBag(heap)], durable')
    /\ txn' = [txn EXCEPT !.prev = Len(log) + 1, !.phase = "committing"]
    /\ UNCHANGED <<heap, memLsn, diskPage, nextTxn, stage, att, status, cursor, crashes>>

(* commit: flush_log_to_disk, clear the write set, release the locks.     *)
CommitFlush ==
    /\ Running /\ txn.phase = "committing"
    /\ durable' = Len(log)
    /\ SettleWith(pending, durable')
    /\ txn' = NoTxn
    /\ UNCHANGED <<heap, memLsn, diskPage, log, nextTxn, stage, att, status, cursor, crashes>>

(* TransactionManager::abort up to its rollback loop: ABORT appended and  *)
(* flushed.                                                                *)
Abort ==
    /\ Running /\ txn.phase = "running" /\ Len(log) + 1 <= MaxLog
    /\ log' = Append(log, Rec("ABORT", txn.id, txn.prev))
    /\ durable' = Len(log) + 1
    /\ SettleWith(pending, durable')
    /\ txn' = [txn EXCEPT !.prev = Len(log) + 1, !.phase = "aborting"]
    /\ UNCHANGED <<heap, memLsn, diskPage, nextTxn, stage, att, status, cursor, crashes>>

(* One iteration of abort's rollback loop: the newest write record is     *)
(* undone by rollback_insert (delete_record), rollback_delete              *)
(* (insert_record) or rollback_update (update_record), each with the       *)
(* context and so logged, then UNDO_NEXT names the LSN of the write record *)
(* before it (INVALID for the first).                                      *)
RollbackKind(e) ==
    CASE e.type = "INSERT" -> "delete" [] e.type = "DELETE" -> "insert"
      [] e.type = "UPDATE" -> "update"
AbortRollback ==
    LET t    == txn
        e    == Last(t.ws)
        st   == LoggedStep(RollbackKind(e), heap, e.rid, e.val, memLsn, t.id, t.prev, Len(log))
        un   == IF Len(t.ws) = 1 THEN 0 ELSE t.ws[Len(t.ws) - 1].lsn
        recs == st.recs \o <<UndoNextRec(t.id, Len(log) + Len(st.recs), un)>>
    IN /\ Running /\ t.phase = "aborting" /\ t.ws # <<>>
       /\ e.type = "DELETE" => H!HasRoom(heap)
       /\ Len(log) + Len(recs) <= MaxLog
       /\ heap' = st.heap
       /\ memLsn' = st.lsns
       /\ diskPage' = NewPageOnDisk(heap, st.heap)
       /\ log' = log \o recs
       /\ durable' \in MidFlush(Len(recs))
       /\ txn' = [t EXCEPT !.prev = Len(log) + Len(recs), !.ws = Front(@)]
       /\ UNCHANGED <<nextTxn, stage, att, status, cursor, crashes, settled, pending>>

(* abort after the loop: END appended and flushed, locks released.        *)
AbortEnd ==
    /\ Running /\ txn.phase = "aborting" /\ txn.ws = <<>>
    /\ Len(log) + 1 <= MaxLog
    /\ log' = Append(log, Rec("END", txn.id, txn.prev))
    /\ durable' = Len(log) + 1
    /\ SettleWith([lsn |-> Len(log) + 1, rows |-> RowBag(heap)], durable')
    /\ txn' = NoTxn
    /\ UNCHANGED <<heap, memLsn, diskPage, nextTxn, stage, att, status, cursor, crashes>>

-----------------------------------------------------------------------------
(* Other sessions' flush_log_to_disk (a commit, or add_log_to_buffer      *)
(* finding the buffer full).                                               *)
FlushLog ==
    /\ stage = "run" /\ durable < Len(log)
    /\ durable' = Len(log)
    /\ SettleWith(pending, durable')
    /\ UNCHANGED <<heap, memLsn, diskPage, log, txn, nextTxn, stage, att, status,
                   cursor, crashes>>

(* The pool writes a dirty data page back (eviction or flush_page); it     *)
(* does not consult the log, so the page's LSN may be beyond the durable  *)
(* log (buffer_pool_manager.cpp update_page and flush_page).               *)
EvictPage(p) ==
    /\ stage \in {"run", "undo"} /\ p \in 1..heap.numPages
    /\ diskPage[p] # [pg |-> heap.page[p], lsn |-> memLsn[p]]
    /\ diskPage' = [diskPage EXCEPT ![p] = [pg |-> heap.page[p], lsn |-> memLsn[p]]]
    /\ UNCHANGED <<heap, memLsn, log, durable, txn, nextTxn, stage, att, status,
                   cursor, crashes, settled, pending>>

(* The process stops: the pool and the log buffer are lost.  On restart   *)
(* the heap is what the disk holds (the header of the empty file) and the *)
(* log is its durable prefix; next_txn_id_ and the LSN counter continue.   *)
Crash ==
    /\ stage \in {"run", "undo"} /\ crashes < MaxCrashes
    /\ heap' = [H!InitHeap EXCEPT !.page = [p \in H!Pages |-> diskPage[p].pg]]
    /\ memLsn' = [p \in 0..MaxPages |-> IF p = HdrNo THEN 0 ELSE diskPage[p].lsn]
    /\ log' = SubSeq(log, 1, durable)
    /\ txn' = NoTxn
    /\ stage' = "down"
    /\ att' = [t \in TxnIds |-> 0]
    /\ status' = [t \in TxnIds |-> "None"]
    /\ cursor' = NoCursor
    /\ crashes' = crashes + 1
    /\ pending' = NoPending
    /\ UNCHANGED <<diskPage, durable, nextTxn, settled>>

-----------------------------------------------------------------------------
(* RecoveryManager::analyze over one record: BEGIN, COMMIT and ABORT set  *)
(* the transaction's last LSN and status, END removes it, a logical or     *)
(* PAGE_SET record sets its last LSN, UNDO_NEXT is passed over.  The      *)
(* dirty page table stays empty: entries are only ever updated, never     *)
(* added.                                                                  *)
AnalyzeRec(a, i) ==
    LET rec == log[i]
        t   == rec.tid
    IN CASE rec.type \in {"BEGIN", "COMMIT", "ABORT"} ->
              [att |-> [a.att EXCEPT ![t] = i],
               status |-> [a.status EXCEPT ![t] =
                    CASE rec.type = "BEGIN" -> "UndoCandidate"
                      [] rec.type = "ABORT" -> "Aborting"
                      [] rec.type = "COMMIT" -> "Committed"]]
         [] rec.type = "END" ->
              [att |-> [a.att EXCEPT ![t] = 0], status |-> [a.status EXCEPT ![t] = "None"]]
         [] rec.type \in {"INSERT", "DELETE", "UPDATE", "PAGE_SET"} ->
              [a EXCEPT !.att[t] = i]
         [] OTHER -> a

(* RecoveryManager::redo over one record: a PAGE_SET image replaces the   *)
(* header when file_hdr_.lsn is below the record's LSN, and a data page    *)
(* when its page LSN is; the image brings its own (stale) LSN along.       *)
RedoRec(r, i) ==
    LET rec == log[i]
    IN IF rec.type # "PAGE_SET" \/ r.lsns[rec.pno] >= i THEN r
       ELSE IF rec.pno = HdrNo
            THEN [heap |-> [r.heap EXCEPT !.firstFree = rec.img.firstFree,
                                          !.numPages = rec.img.numPages],
                  lsns |-> [r.lsns EXCEPT ![HdrNo] = rec.imgLsn]]
            ELSE [heap |-> [r.heap EXCEPT !.page[rec.pno] = rec.img],
                  lsns |-> [r.lsns EXCEPT ![rec.pno] = rec.imgLsn]]

(* Restart: analyze, then redo from the smallest rec LSN of the (empty)   *)
(* dirty page table, i.e. from the first record.                          *)
Recover ==
    LET a == FoldLeftDomain(AnalyzeRec, [att |-> att, status |-> status], log)
        r == FoldLeftDomain(RedoRec, [heap |-> heap, lsns |-> memLsn], log)
    IN /\ stage = "down"
       /\ att' = a.att
       /\ status' = a.status
       /\ heap' = r.heap
       /\ memLsn' = r.lsns
       /\ stage' = "undo"
       /\ UNCHANGED <<diskPage, log, durable, txn, nextTxn, cursor, crashes,
                      settled, pending>>

-----------------------------------------------------------------------------
(* The undo loop picks the transaction with the largest last LSN.  For a  *)
(* Committed one the code does `continue` without removing it, so the loop *)
(* never ends: there is no step, and recovery stays in "undo".            *)
MaxLastTxn == CHOOSE t \in TxnIds : \A u \in TxnIds : att[u] <= att[t]

UndoPick ==
    LET t == MaxLastTxn
    IN /\ stage = "undo" /\ cursor = NoCursor /\ att[t] # 0
       /\ status[t] # "Committed"
       /\ cursor' = [tid |-> t, lsn |-> att[t], st |-> status[t]]
       /\ UNCHANGED <<heap, memLsn, diskPage, log, durable, txn, nextTxn, stage,
                      att, status, crashes, settled, pending>>

(* active_txn_ is empty: recovery is over and sessions are served.        *)
UndoDone ==
    /\ stage = "undo" /\ cursor = NoCursor /\ \A t \in TxnIds : att[t] = 0
    /\ stage' = "run"
    /\ UNCHANGED <<heap, memLsn, diskPage, log, durable, txn, nextTxn, att,
                   status, cursor, crashes, settled, pending>>

(* The rollback primitives called by undo with a null context: nothing is *)
(* logged and no page LSN moves.                                           *)
UndoApply(h, rec) ==
    CASE rec.type = "UPDATE" -> H!UpdateRecord(h, rec.rid, rec.val)
      [] rec.type = "DELETE" -> H!InsertRecord(h, rec.val).heap
      [] rec.type = "INSERT" -> H!DeleteRecord(h, rec.rid)
      [] OTHER -> h

(* One turn of the inner undo loop at the record the walk is on.  For an  *)
(* Aborting transaction the first record is tested for UNDO_NEXT: a jump   *)
(* to undo_next, or the end of the walk when it is INVALID.  Otherwise the *)
(* record is undone if it is a logical one and the walk follows prev_lsn,  *)
(* ending at INVALID; at the end the transaction leaves active_txn_ and    *)
(* txn_status.  No CLR and no END is written.                              *)
UndoStep ==
    LET rec  == log[cursor.lsn]
        t    == cursor.tid
        jump == cursor.st = "Aborting" /\ rec.type = "UNDO_NEXT"
        next == IF jump THEN rec.undoNext ELSE rec.prev
        h2   == IF jump THEN heap ELSE UndoApply(heap, rec)
    IN /\ stage = "undo" /\ cursor # NoCursor
       /\ ~jump /\ rec.type = "DELETE" => H!HasRoom(heap)
       /\ heap' = h2
       /\ diskPage' = NewPageOnDisk(heap, h2)
       /\ IF next = 0
          THEN /\ att' = [att EXCEPT ![t] = 0]
               /\ status' = [status EXCEPT ![t] = "None"]
               /\ cursor' = NoCursor
          ELSE /\ cursor' = [cursor EXCEPT !.lsn = next, !.st = "UndoCandidate"]
               /\ UNCHANGED <<att, status>>
       /\ UNCHANGED <<memLsn, log, durable, txn, nextTxn, stage, crashes,
                      settled, pending>>

-----------------------------------------------------------------------------
Init ==
    /\ heap = H!InitHeap
    /\ memLsn = [p \in 0..MaxPages |-> 0]
    /\ diskPage = [p \in H!Pages |-> [pg |-> H!EmptyPage, lsn |-> 0]]
    /\ log = <<>>
    /\ durable = 0
    /\ txn = NoTxn
    /\ nextTxn = 1
    /\ stage = "run"
    /\ att = [t \in TxnIds |-> 0]
    /\ status = [t \in TxnIds |-> "None"]
    /\ cursor = NoCursor
    /\ crashes = 0
    /\ settled = [v \in Vals |-> 0]
    /\ pending = NoPending

Next ==
    \/ Begin
    \/ \E v \in Vals : Insert(v)
    \/ \E r \in H!Rids : Delete(r)
    \/ \E r \in H!Rids, v \in Vals : Update(r, v)
    \/ Commit \/ CommitFlush
    \/ Abort \/ AbortRollback \/ AbortEnd
    \/ FlushLog
    \/ \E p \in H!Pages : EvictPage(p)
    \/ Crash
    \/ Recover \/ UndoPick \/ UndoStep \/ UndoDone

(* Restart runs on its own before sessions are accepted, so each of its   *)
(* steps is taken once enabled.                                            *)
RecoveryStep == Recover \/ UndoPick \/ UndoStep \/ UndoDone

Spec == Init /\ [][Next]_vars /\ WF_vars(RecoveryStep)

-----------------------------------------------------------------------------
TypeOK ==
    /\ H!TypeOK
    /\ memLsn \in [0..MaxPages -> 0..MaxLog]
    /\ \A p \in H!Pages : diskPage[p].lsn \in 0..MaxLog /\ diskPage[p].pg.bits \subseteq H!Slots
    /\ durable \in 0..Len(log) /\ Len(log) <= MaxLog
    /\ nextTxn \in 1..(MaxTxns + 1)
    /\ stage \in {"run", "down", "undo"}
    /\ att \in [TxnIds -> 0..Len(log)]
    /\ status \in [TxnIds -> {"None", "UndoCandidate", "Committed", "Aborting"}]
    /\ crashes \in 0..MaxCrashes
    /\ settled \in [Vals -> 0..(PerPage * MaxPages)]

(* The last record of transaction t before position i, or INVALID.        *)
LastOf(t, i) ==
    LET js == {j \in 1..(i - 1) : log[j].tid = t}
    IN IF js = {} THEN 0 ELSE CHOOSE j \in js : \A k \in js : k <= j

(* Spec section 8: the prev_lsn links form, per transaction, the list of  *)
(* its records newest first and end at INVALID.  Every record is chained  *)
(* by a different call (executor, heap, transaction manager), the header  *)
(* image to the page image before it, and undo and analyze both walk it.  *)
PrevLsnChain ==
    \A i \in 1..Len(log) : log[i].prev = LastOf(log[i].tid, i)

(* After restart the heap is well formed: num_records equals the bitmap's *)
(* popcount and the free list is exact, whatever was durable in the log,  *)
(* whatever pages had been written back and however far an abort had got. *)
(* No run checks it: insert_record and delete_record log the page image   *)
(* and the header image as two appends (rm_file_handle.cpp:84-89), and a  *)
(* flush between them followed by a crash leaves redo a header that       *)
(* disagrees with the page, so TLC finds it violated in 9 states.         *)
HeapIntegrity ==
    stage # "down" => H!RecordCountMatchesBitmap /\ H!FreeListExact

(* Atomicity and durability: when recovery ends, the table holds exactly  *)
(* the rows left by the last transaction whose COMMIT (or whose abort's   *)
(* END) reached the durable log; the work of every loser is undone.  This *)
(* takes a transaction, flushes, write-backs, a crash and the whole        *)
(* analyze, redo and undo.                                                 *)
RecoveryRestoresSettled ==
    [][stage = "undo" /\ stage' = "run" => RowBag(heap') = settled]_vars

(* Restart recovery finishes (crashes are bounded): the undo loop of     *)
(* log_recovery.cpp:171-239 empties active_txn_ whatever part of the log  *)
(* was durable at the crash.                                               *)
RecoveryTerminates == stage = "down" ~> stage = "run"
====
