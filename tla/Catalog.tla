------------------------------ MODULE Catalog ------------------------------
(***************************************************************************)
(* The system manager's catalog (src/src/system/sm_manager.cpp): database   *)
(* directories with their db.meta file, table record files and index files  *)
(* on disk; the open database's in-memory catalog db_ with its file and     *)
(* index handles fhs_ and ihs_; and the write records that create_index and *)
(* drop_index leave in the session's transaction, which                     *)
(* TransactionManager::abort rolls back (transaction_manager.cpp).          *)
(*                                                                         *)
(* One session issues the statements, so every table lock it asks for is   *)
(* granted (the locks are LockManager's subject).  A table's entry in db_  *)
(* is its TabMeta: the name its files are opened by and its indexes, each  *)
(* index a column-name list.                                                *)
(*                                                                         *)
(* The transaction's log records are kept: BEGIN, COMMIT, ABORT, END, the  *)
(* CREATE_INDEX and DROP_INDEX records of the DDL and abort's UNDO_NEXT.   *)
(* The LSN of a record is its position in the log; 0 stands for            *)
(* INVALID_LSN.  Other sessions' commits may flush the log at any time.    *)
(* The process may crash: what is in memory and the log's unflushed tail   *)
(* are lost, the files stay.  The restart opens the database and runs      *)
(* RecoveryManager's analyze and undo (log_recovery.cpp) over the log.     *)
(***************************************************************************)
EXTENDS Integers, Sequences, FiniteSets

CONSTANTS
    Dbs,        \* database names
    Tabs,       \* table names
    Idx,        \* index column-name lists
    NoDb,       \* no database open
    NoName,     \* the name of a default-constructed TabMeta (empty string)
    MaxWrites,  \* bound on a transaction's write records
    MaxTxns,    \* bound on the transactions begun
    MaxLog,     \* bound on the log records a statement may start from
    MaxCrashes  \* bound on crashes

VARIABLES
    dirs,       \* database directories on disk
    metaDisk,   \* the db.meta file of each directory: a catalog
    files,      \* record files on disk, <<db, table>>
    ixFiles,    \* index files on disk, <<db, table, index>>
    open,       \* the directory the process has chdir'ed into, or NoDb
    db,         \* db_.tabs_: table name -> [name, idx]
    fhs,        \* tables with an open RmFileHandle (fhs_)
    ihs,        \* open index handles (ihs_), <<table, index>>
    txn,        \* the session's transaction: "none", "active", "aborting", "thrown"
    writeSet,   \* its write records [w, tab, cols, lsn], oldest first
    curTid,     \* its txn id
    prevLsn,    \* txn->get_prev_lsn()
    abortLsns,  \* the lsns abort collected from the write set before its loop
    nextTid,    \* next_txn_id_
    log,        \* the log file followed by the log buffer
    durable,    \* the length of the flushed prefix
    recov,      \* restart: "none", "pending", "analyze", "undo", "done", "failed"
    att,        \* active_txn_ and txn_status: txn id -> [lsn, st]
    undo,       \* the undo walk: the txn, the record it reads, its local status
    crashes,    \* crashes so far
    settled     \* per directory, the <<table, index>> pairs committed

vars == <<dirs, metaDisk, files, ixFiles, open, db, fhs, ihs, txn, writeSet,
          curTid, prevLsn, abortLsns, nextTid, log, durable, recov, att, undo,
          crashes, settled>>
diskVars == <<dirs, metaDisk, files, ixFiles>>
memVars == <<open, db, fhs, ihs>>
txnVars == <<txn, writeSet, curTid, prevLsn, abortLsns, nextTid>>
recVars == <<recov, att, undo, crashes>>

EmptyCatalog == [t \in {} |-> [name |-> NoName, idx |-> {}]]
NoUndo == [tid |-> 0, lsn |-> 0, st |-> "none"]

(* map::operator[] and a function extended by one key.                      *)
Put(f, k, v) == [x \in DOMAIN f \cup {k} |-> IF x = k THEN v ELSE f[x]]
Erase(f, k) == [x \in DOMAIN f \ {k} |-> f[x]]

(* flush_meta: db.meta of the current directory is overwritten with db_.    *)
FlushMeta(cat) == metaDisk' = [metaDisk EXCEPT ![open] = cat]

(* The indexes of a catalog, as <<table, index>> pairs.                     *)
IdxOf(cat) == UNION {{<<t, c>> : c \in cat[t].idx} : t \in DOMAIN cat}

(* A log record: the header, the table and columns of the index DDL        *)
(* records, undo_next of UNDO_NEXT.                                         *)
Rec(ty, t, prev, tab, c, u) ==
    [ty |-> ty, tid |-> t, prev |-> prev, tab |-> tab, cols |-> c, undoNext |-> u]

(* The process is up and serving statements.                               *)
Up == recov \in {"none", "done"}

-----------------------------------------------------------------------------
Init ==
    /\ dirs = {}
    /\ metaDisk = [d \in Dbs |-> EmptyCatalog]
    /\ files = {} /\ ixFiles = {}
    /\ open = NoDb
    /\ db = EmptyCatalog
    /\ fhs = {} /\ ihs = {}
    /\ txn = "none" /\ writeSet = << >>
    /\ curTid = 0 /\ prevLsn = 0 /\ abortLsns = {} /\ nextTid = 1
    /\ log = << >> /\ durable = 0
    /\ recov = "none" /\ att = [t \in {} |-> [lsn |-> 0, st |-> "none"]]
    /\ undo = NoUndo /\ crashes = 0
    /\ settled = [d \in Dbs |-> {}]

(* create_db: mkdir, write an empty db.meta, and chdir back.                *)
CreateDb(d) ==
    /\ recov = "none" /\ open = NoDb /\ d \notin dirs
    /\ dirs' = dirs \cup {d}
    /\ metaDisk' = [metaDisk EXCEPT ![d] = EmptyCatalog]
    /\ settled' = [settled EXCEPT ![d] = {}]
    /\ UNCHANGED <<files, ixFiles>> /\ UNCHANGED memVars
    /\ UNCHANGED txnVars /\ UNCHANGED <<log, durable>> /\ UNCHANGED recVars

(* drop_db: rm -r of the directory and every file in it.                    *)
DropDb(d) ==
    /\ recov = "none" /\ open = NoDb /\ d \in dirs
    /\ dirs' = dirs \ {d}
    /\ files' = {f \in files : f[1] # d}
    /\ ixFiles' = {f \in ixFiles : f[1] # d}
    /\ UNCHANGED metaDisk /\ UNCHANGED memVars /\ UNCHANGED txnVars
    /\ UNCHANGED <<log, durable, settled>> /\ UNCHANGED recVars

(* A catalog open_db can load: every table's file, and every index's file, *)
(* opens (rm_manager_->open_file / ix_manager_->open_index throw on a       *)
(* missing file).                                                           *)
Openable(d, cat) ==
    \A t \in DOMAIN cat :
        /\ <<d, cat[t].name>> \in files
        /\ \A c \in cat[t].idx : <<d, cat[t].name, c>> \in ixFiles

(* open_db: chdir into the directory, read db.meta, open every table and   *)
(* index.  After a crash the restart opens the database and then recovers. *)
OpenDb(d) ==
    /\ recov \in {"none", "pending"} /\ open = NoDb /\ d \in dirs
    /\ Openable(d, metaDisk[d])
    /\ open' = d
    /\ db' = metaDisk[d]
    /\ fhs' = {metaDisk[d][t].name : t \in DOMAIN metaDisk[d]}
    /\ ihs' = UNION {{<<t, c>> : c \in metaDisk[d][t].idx} : t \in DOMAIN metaDisk[d]}
    /\ recov' = IF recov = "pending" THEN "analyze" ELSE "none"
    /\ UNCHANGED diskVars /\ UNCHANGED txnVars
    /\ UNCHANGED <<log, durable, att, undo, crashes, settled>>

(* close_db: flush_meta, drop every handle, chdir back.                     *)
CloseDb ==
    /\ Up /\ open # NoDb /\ txn = "none"
    /\ FlushMeta(db)
    /\ open' = NoDb /\ db' = EmptyCatalog /\ fhs' = {} /\ ihs' = {}
    /\ recov' = "none"
    /\ UNCHANGED <<dirs, files, ixFiles>> /\ UNCHANGED txnVars
    /\ UNCHANGED <<log, durable, att, undo, crashes, settled>>

-----------------------------------------------------------------------------
(* create_table: TableExistsError when db_ has the name; otherwise create  *)
(* and open the record file, enter the TabMeta, flush_meta.                 *)
CreateTable(t) ==
    /\ open # NoDb /\ txn = "active" /\ t \notin DOMAIN db
    /\ files' = files \cup {<<open, t>>}
    /\ db' = Put(db, t, [name |-> t, idx |-> {}])
    /\ fhs' = fhs \cup {t}
    /\ FlushMeta(db')
    /\ UNCHANGED <<dirs, ixFiles, open, ihs>> /\ UNCHANGED txnVars
    /\ UNCHANGED <<log, durable, settled>> /\ UNCHANGED recVars

(* drop_table: TableNotFoundError unless db_ has the table; the lock       *)
(* request reads fhs_.at(tab_name); close and destroy the record file and  *)
(* every index, and erase the table from db_ and fhs_.  db.meta is not     *)
(* rewritten and no write record or log record is left: the drop is at    *)
(* once what every later state has settled on.                             *)
DropTable(t) ==
    /\ open # NoDb /\ txn = "active" /\ t \in DOMAIN db /\ t \in fhs
    /\ files' = files \ {<<open, t>>}
    /\ ixFiles' = ixFiles \ {<<open, t, c>> : c \in db[t].idx}
    /\ ihs' = ihs \ {<<t, c>> : c \in db[t].idx}
    /\ db' = Erase(db, t)
    /\ fhs' = fhs \ {t}
    /\ settled' = [settled EXCEPT ![open] = {p \in @ : p[1] # t}]
    /\ UNCHANGED <<dirs, metaDisk, open>> /\ UNCHANGED txnVars
    /\ UNCHANGED <<log, durable>> /\ UNCHANGED recVars

-----------------------------------------------------------------------------
(* drop_index(tab_name, col_names): db_.tabs_[tab_name] enters a default   *)
(* TabMeta when the table is missing, and get_col then throws              *)
(* ColumnNotFoundError; drop_index(tab_name, cols) throws                  *)
(* IndexNotFoundError when the table has no such index.                    *)
DropIndexThrows(t, c) == t \notin DOMAIN db \/ db[t].name = NoName \/ c \notin db[t].idx

DropIndexError(t) ==
    /\ db' = IF t \in DOMAIN db THEN db ELSE Put(db, t, [name |-> NoName, idx |-> {}])
    /\ UNCHANGED diskVars /\ UNCHANGED <<open, fhs, ihs>>

(* Otherwise it closes and destroys the index, erases it from ihs_ and the *)
(* TabMeta, and flushes db.meta.                                            *)
DropIndexFiles(t, c) ==
    /\ ixFiles' = ixFiles \ {<<open, t, c>>}
    /\ ihs' = ihs \ {<<t, c>>}
    /\ db' = [db EXCEPT ![t].idx = @ \ {c}]
    /\ FlushMeta(db')
    /\ UNCHANGED <<dirs, files, open, fhs>>

(* create_index: get_table throws TableNotFoundError for a missing table,  *)
(* the lock request's (or the heap scan's) fhs_.at throws for a table      *)
(* without a file handle, and IndexExistsError is thrown for an existing   *)
(* index, all before any file is touched.                                   *)
CreateIndexThrows(t, c) == t \notin DOMAIN db \/ t \notin fhs \/ c \in db[t].idx

(* Otherwise the index file is created, filled from the heap and opened,   *)
(* the TabMeta gains the index and db.meta is flushed.                      *)
CreateIndexFiles(t, c) ==
    /\ ixFiles' = ixFiles \cup {<<open, t, c>>}
    /\ ihs' = ihs \cup {<<t, c>>}
    /\ db' = [db EXCEPT ![t].idx = @ \cup {c}]
    /\ FlushMeta(db')
    /\ UNCHANGED <<dirs, files, open, fhs>>

(* With a context, the DDL then logs its record, chained to the            *)
(* transaction's prev_lsn, and appends a write record carrying that lsn.   *)
LogDdl(ty, t, c, ws) ==
    /\ log' = Append(log, Rec(ty, curTid, prevLsn, t, c, 0))
    /\ prevLsn' = Len(log) + 1
    /\ writeSet' = Append(ws, [w |-> ty, tab |-> t, cols |-> c, lsn |-> Len(log) + 1])

(* The statements CREATE INDEX and DROP INDEX, in the session's            *)
(* transaction; an error that changes nothing is not a step.               *)
CreateIndex(t, c) ==
    /\ open # NoDb /\ txn = "active" /\ Len(writeSet) < MaxWrites /\ Len(log) < MaxLog
    /\ t \in fhs \cap DOMAIN db /\ c \notin db[t].idx
    /\ CreateIndexFiles(t, c)
    /\ LogDdl("CREATE_INDEX", t, c, writeSet)
    /\ UNCHANGED <<txn, curTid, abortLsns, nextTid, durable, settled>> /\ UNCHANGED recVars

DropIndex(t, c) ==
    /\ open # NoDb /\ txn = "active" /\ Len(writeSet) < MaxWrites /\ Len(log) < MaxLog
    /\ ~(t \in DOMAIN db /\ c \notin db[t].idx)
    /\ IF DropIndexThrows(t, c)
       THEN DropIndexError(t) /\ UNCHANGED <<writeSet, prevLsn, log>>
       ELSE DropIndexFiles(t, c) /\ LogDdl("DROP_INDEX", t, c, writeSet)
    /\ UNCHANGED <<txn, curTid, abortLsns, nextTid, durable, settled>> /\ UNCHANGED recVars

-----------------------------------------------------------------------------
(* TransactionManager::begin: a fresh id, and BEGIN with INVALID prev_lsn. *)
Begin ==
    /\ Up /\ open # NoDb /\ txn = "none" /\ nextTid <= MaxTxns /\ Len(log) < MaxLog
    /\ txn' = "active" /\ writeSet' = << >>
    /\ log' = Append(log, Rec("BEGIN", nextTid, 0, NoName, NoName, 0))
    /\ curTid' = nextTid /\ prevLsn' = Len(log) + 1 /\ nextTid' = nextTid + 1
    /\ recov' = "none"
    /\ UNCHANGED diskVars /\ UNCHANGED memVars
    /\ UNCHANGED <<abortLsns, durable, att, undo, crashes, settled>>

(* commit: COMMIT and END are logged and flushed, the write set cleared.   *)
Commit ==
    /\ txn = "active" /\ Len(log) + 2 <= MaxLog
    /\ log' = log \o << Rec("COMMIT", curTid, prevLsn, NoName, NoName, 0),
                        Rec("END", curTid, Len(log) + 1, NoName, NoName, 0) >>
    /\ durable' = Len(log) + 2 /\ prevLsn' = Len(log) + 1
    /\ txn' = "none" /\ writeSet' = << >>
    /\ settled' = [settled EXCEPT ![open] = IdxOf(db)]
    /\ UNCHANGED diskVars /\ UNCHANGED memVars
    /\ UNCHANGED <<curTid, abortLsns, nextTid>> /\ UNCHANGED recVars

(* abort: ABORT is logged and flushed, the write records' lsns collected,  *)
(* then the loop begins.                                                    *)
Abort ==
    /\ txn = "active" /\ Len(log) < MaxLog
    /\ log' = Append(log, Rec("ABORT", curTid, prevLsn, NoName, NoName, 0))
    /\ durable' = Len(log) + 1 /\ prevLsn' = Len(log) + 1
    /\ abortLsns' = {writeSet[i].lsn : i \in DOMAIN writeSet}
    /\ txn' = "aborting"
    /\ UNCHANGED diskVars /\ UNCHANGED memVars
    /\ UNCHANGED <<writeSet, curTid, nextTid, settled>> /\ UNCHANGED recVars

(* The undo_next abort logs after undoing the write record of lsn l: the   *)
(* collected lsn before l (std::lower_bound), or INVALID.                   *)
UndoNextOf(l) ==
    LET below == {x \in abortLsns : x < l}
    IN  IF below = {} THEN 0 ELSE CHOOSE x \in below : \A y \in below : y <= x

(* One pass of abort's loop while (!write_set->empty()): pop the newest    *)
(* write record and call its rollback primitive with the transaction's     *)
(* context; rollback_create_index is drop_index and rollback_drop_index is *)
(* create_index, which log their own record and append their own write     *)
(* record to the same write set; then UNDO_NEXT is logged.  An exception   *)
(* from the primitive leaves abort.                                        *)
AbortStep ==
    /\ txn = "aborting" /\ writeSet # << >> /\ Len(log) + 2 <= MaxLog
    /\ LET item == writeSet[Len(writeSet)]
           rest == SubSeq(writeSet, 1, Len(writeSet) - 1)
           undoesCreate == item.w = "CREATE_INDEX"
           inv == IF undoesCreate THEN "DROP_INDEX" ELSE "CREATE_INDEX"
           throws == IF undoesCreate THEN DropIndexThrows(item.tab, item.cols)
                     ELSE CreateIndexThrows(item.tab, item.cols)
       IN  IF throws
           THEN /\ txn' = "thrown" /\ writeSet' = rest
                /\ IF undoesCreate THEN DropIndexError(item.tab)
                   ELSE UNCHANGED <<diskVars, memVars>>
                /\ UNCHANGED <<log, prevLsn>>
           ELSE /\ IF undoesCreate THEN DropIndexFiles(item.tab, item.cols)
                   ELSE CreateIndexFiles(item.tab, item.cols)
                /\ log' = log \o << Rec(inv, curTid, prevLsn, item.tab, item.cols, 0),
                                    Rec("UNDO_NEXT", curTid, Len(log) + 1, NoName, NoName,
                                        UndoNextOf(item.lsn)) >>
                /\ prevLsn' = Len(log) + 2
                /\ writeSet' = Append(rest, [w |-> inv, tab |-> item.tab, cols |-> item.cols,
                                             lsn |-> Len(log) + 1])
                /\ UNCHANGED txn
    /\ UNCHANGED <<curTid, abortLsns, nextTid, durable, settled>> /\ UNCHANGED recVars

(* The loop has ended: END is logged and flushed, the locks released.      *)
AbortEnd ==
    /\ txn = "aborting" /\ writeSet = << >>
    /\ log' = Append(log, Rec("END", curTid, prevLsn, NoName, NoName, 0))
    /\ durable' = Len(log) + 1
    /\ txn' = "none"
    /\ UNCHANGED diskVars /\ UNCHANGED memVars
    /\ UNCHANGED <<writeSet, curTid, prevLsn, abortLsns, nextTid, settled>>
    /\ UNCHANGED recVars

(* Another session's commit or abort flushes the shared log buffer.        *)
FlushLog ==
    /\ Up /\ open # NoDb /\ durable < Len(log)
    /\ durable' = Len(log)
    /\ UNCHANGED diskVars /\ UNCHANGED memVars /\ UNCHANGED txnVars
    /\ UNCHANGED <<log, settled>> /\ UNCHANGED recVars

(* The process stops: memory and the log buffer are lost, the files and    *)
(* the flushed log stay.                                                    *)
Crash ==
    /\ open # NoDb /\ crashes < MaxCrashes
    /\ open' = NoDb /\ db' = EmptyCatalog /\ fhs' = {} /\ ihs' = {}
    /\ txn' = "none" /\ writeSet' = << >> /\ prevLsn' = 0 /\ abortLsns' = {}
    /\ log' = SubSeq(log, 1, durable)
    /\ recov' = "pending" /\ att' = [t \in {} |-> [lsn |-> 0, st |-> "none"]]
    /\ undo' = NoUndo /\ crashes' = crashes + 1
    /\ UNCHANGED diskVars /\ UNCHANGED <<curTid, nextTid, durable, settled>>

-----------------------------------------------------------------------------
StatusOf(ty) ==
    CASE ty = "BEGIN" -> "UndoCandidate" [] ty = "ABORT" -> "Aborting" [] OTHER -> "Committed"

(* analyze: scan the log from its start; BEGIN, COMMIT and ABORT set a     *)
(* transaction's last lsn and status, END removes it, and the index DDL    *)
(* and UNDO_NEXT records change neither.                                   *)
RECURSIVE AnalyzeFrom(_, _)
AnalyzeFrom(a, i) ==
    IF i > Len(log) THEN a
    ELSE LET r == log[i]
             next == CASE r.ty \in {"BEGIN", "COMMIT", "ABORT"} ->
                            Put(a, r.tid, [lsn |-> i, st |-> StatusOf(r.ty)])
                       [] r.ty = "END" -> Erase(a, r.tid)
                       [] OTHER -> a
         IN  AnalyzeFrom(next, i + 1)

(* The restart's analyze; redo replays PAGE_SET and INDEX_PAGE images,     *)
(* which the catalog's DDL does not log.                                    *)
Analyze ==
    /\ recov = "analyze"
    /\ att' = AnalyzeFrom(att, 1)
    /\ recov' = "undo"
    /\ UNCHANGED diskVars /\ UNCHANGED memVars /\ UNCHANGED txnVars
    /\ UNCHANGED <<log, durable, undo, crashes, settled>>

(* undo: while active_txn_ is not empty, take the transaction with the     *)
(* greatest last lsn.  A Committed one is 'continue'd without being        *)
(* erased, so the loop spins: that is no step, recovery never ends.        *)
UndoPick ==
    /\ recov = "undo" /\ undo = NoUndo
    /\ \E t \in DOMAIN att :
         /\ \A u \in DOMAIN att : att[u].lsn <= att[t].lsn
         /\ att[t].st # "Committed"
         /\ undo' = [tid |-> t, lsn |-> att[t].lsn, st |-> att[t].st]
    /\ UNCHANGED diskVars /\ UNCHANGED memVars /\ UNCHANGED txnVars
    /\ UNCHANGED <<log, durable, recov, att, crashes, settled>>

(* The walk ends: the transaction is erased from active_txn_, with no CLR  *)
(* and no END logged.                                                       *)
EndWalk == att' = Erase(att, undo.tid) /\ undo' = NoUndo

(* One pass of the inner loop, reading the record at the walk's lsn.       *)
(* While the status is still Aborting, an UNDO_NEXT jumps to its           *)
(* undo_next, or ends the walk when that is INVALID.  Otherwise            *)
(* CREATE_INDEX is undone by rollback_create_index and DROP_INDEX by       *)
(* rollback_drop_index with no context (no lock, no log record, no write   *)
(* record), and an exception from them ends the restart; a prev_lsn of     *)
(* INVALID ends the walk.                                                   *)
UndoStep ==
    /\ recov = "undo" /\ undo # NoUndo
    /\ LET r == log[undo.lsn]
           throws == IF r.ty = "CREATE_INDEX" THEN DropIndexThrows(r.tab, r.cols)
                     ELSE r.ty = "DROP_INDEX" /\ CreateIndexThrows(r.tab, r.cols)
       IN  IF undo.st = "Aborting" /\ r.ty = "UNDO_NEXT"
           THEN /\ IF r.undoNext = 0 THEN EndWalk
                   ELSE /\ undo' = [undo EXCEPT !.lsn = r.undoNext, !.st = "UndoCandidate"]
                        /\ UNCHANGED att
                /\ UNCHANGED <<diskVars, memVars, recov>>
           ELSE IF throws
           THEN /\ recov' = "failed"
                /\ IF r.ty = "CREATE_INDEX" THEN DropIndexError(r.tab)
                   ELSE UNCHANGED <<diskVars, memVars>>
                /\ UNCHANGED <<att, undo>>
           ELSE /\ CASE r.ty = "CREATE_INDEX" -> DropIndexFiles(r.tab, r.cols)
                     [] r.ty = "DROP_INDEX"   -> CreateIndexFiles(r.tab, r.cols)
                     [] OTHER                 -> UNCHANGED <<diskVars, memVars>>
                /\ IF r.prev = 0 THEN EndWalk
                   ELSE /\ undo' = [undo EXCEPT !.lsn = r.prev, !.st = "UndoCandidate"]
                        /\ UNCHANGED att
                /\ UNCHANGED recov
    /\ UNCHANGED txnVars /\ UNCHANGED <<log, durable, crashes, settled>>

(* active_txn_ is empty: recovery is over and sessions are accepted.       *)
UndoDone ==
    /\ recov = "undo" /\ undo = NoUndo /\ DOMAIN att = {}
    /\ recov' = "done"
    /\ UNCHANGED diskVars /\ UNCHANGED memVars /\ UNCHANGED txnVars
    /\ UNCHANGED <<log, durable, att, undo, crashes, settled>>

Next ==
    \/ \E d \in Dbs : CreateDb(d) \/ DropDb(d) \/ OpenDb(d)
    \/ CloseDb
    \/ \E t \in Tabs : CreateTable(t) \/ DropTable(t)
    \/ \E t \in Tabs, c \in Idx : CreateIndex(t, c) \/ DropIndex(t, c)
    \/ Begin \/ Commit \/ Abort \/ AbortStep \/ AbortEnd
    \/ FlushLog \/ Crash
    \/ Analyze \/ UndoPick \/ UndoStep \/ UndoDone

(* The session's thread runs abort's loop to its end, and the restart runs *)
(* recovery alone before any session is accepted.                          *)
Spec == Init /\ [][Next]_vars
        /\ WF_vars(AbortStep \/ AbortEnd)
        /\ WF_vars(Analyze \/ UndoPick \/ UndoStep \/ UndoDone)

-----------------------------------------------------------------------------
TypeOK ==
    /\ dirs \subseteq Dbs /\ open \in Dbs \cup {NoDb}
    /\ files \subseteq Dbs \X Tabs /\ ixFiles \subseteq Dbs \X Tabs \X Idx
    /\ \A t \in DOMAIN db : db[t].name \in Tabs \cup {NoName} /\ db[t].idx \subseteq Idx
    /\ fhs \subseteq Tabs /\ ihs \subseteq Tabs \X Idx
    /\ txn \in {"none", "active", "aborting", "thrown"}
    /\ Len(writeSet) <= MaxWrites /\ Len(log) <= MaxLog + 1 /\ durable \in 0..Len(log)
    /\ recov \in {"none", "pending", "analyze", "undo", "done", "failed"}

(* db.meta of every database directory names only record and index files  *)
(* that exist, so open_db can load it.                                      *)
MetaOpenable == \A d \in dirs : Openable(d, metaDisk[d])

(* A crash is survivable: right after it every database can be opened     *)
(* again (open_db throws on a db.meta naming a missing file), the restart's *)
(* undo does not throw, and once recovery is over the database has exactly *)
(* the indexes its committed transactions left (create_index, drop_index   *)
(* and drop_table against the log records and flush_meta calls they make). *)
CrashRecoversCatalog ==
    /\ recov = "pending" => MetaOpenable
    /\ recov # "failed"
    /\ recov = "done" => IdxOf(db) = settled[open]

(* An abort that begins ends: TransactionManager::abort returns with the    *)
(* write set rolled back, whatever index DDL the transaction did (spec      *)
(* section 4.7).                                                            *)
AbortTerminates == txn = "aborting" ~> txn = "none"
====
