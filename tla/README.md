# TLA+ models of oshinodb

This directory holds TLA+ specifications of the storage, transaction,
catalog, log and query-execution layers of oshinodb (`src/src/...`), the TLC configurations that check them,
and `PROJECT.json`, which records for every definition the source lines it
translates, every run, its mutants, the findings and the hazards of the code.

## 1. The system

A statement is parsed (`parser/`, generated by bison), analysed
(`analyze/analyze.cpp`), planned and executed by iterator executors
(`execution/`). Executors read and write heap tables (`record/rm_file_handle.cpp`)
through the buffer pool (`storage/buffer_pool_manager.cpp`), take table locks
from the lock manager (`transaction/concurrency/lock_manager.cpp`), emit log
records through the log manager (`recovery/log_manager.h`), and append write
records to the transaction's write set. Commit and abort live in
`transaction/transaction_manager.cpp`; abort undoes the write set newest first
through the rollback primitives of `system/sm_manager.cpp`. At start-up the
recovery manager (`recovery/log_recovery.cpp`) runs analyse, redo and undo over
the log.

One thread runs each client session. Shared state is guarded by one mutex per
component: the buffer pool latch, the lock-table latch, the log latch. Page
contents are read and written outside the pool latch by a session that holds a
pin. Locks are strict two-phase, with no waiting: a request that cannot be
granted fails, and the transaction is aborted.

### Inventory

| Component | Source | State | Operations | Hard behaviour |
|---|---|---|---|---|
| Record heap | `rm_file_handle.cpp` | file header (first free page, page count); per page: record count, next free page, bitmap, slots | insert (two overloads), delete, update, get, page-handle helpers | free-page chain kept by two separate fullness tests; count and bitmap updated separately |
| Buffer pool | `buffer_pool_manager.cpp` | frames (id, pin count, dirty, data, page LSN), page table, free list, replacer | fetch, new, unpin, flush, delete, flush_all | concurrent pins and unpins; dirty hints from readers and writers; eviction and write-back; WAL |
| Log manager | `log_manager.h` (`.cpp` absent) | LSN counter, log buffer, persisted LSN; twelve record classes | add_log_to_buffer, flush_log_to_disk; each record's constructor, serialize, deserialize | LSN order; durability of commit; byte layout: lengths, offsets, writes past a record |
| Recovery | `log_recovery.cpp` | active transaction table, statuses, dirty page table, LSN→offset map | analyze, redo, undo | crashes at any point, including during abort or during recovery |
| Lock manager | `lock_manager.cpp` | lock table: table → {shared count, mode}; per-transaction lock set | lock S/X on table (with upgrade), unlock; row and IS/IX locks are no-ops | interleaved grants and unlock loops; upgrade |
| Transaction manager | `transaction_manager.cpp` | transaction map, write sets, states | begin, commit, abort | rollback order; rids recorded before rollback moves rows |
| Catalog and rollback | `sm_manager.cpp` | directories, `db.meta`, record and index files; `db_`, `fhs_`, `ihs_` | create/drop/open/close db, create/drop table and index, flush_meta, rollback_* primitives | rollback primitives re-place records or log new write records; `db.meta` not rewritten; crashes |
| Executors | `execution/*.h` | per-statement iterators | insert, delete, update with their index maintenance, seq scan, index scan, filter, nested-loop join, sort, aggregate | partial statements on unique-key errors; index range bounds; block join boundaries; unstable sort with LIMIT; empty aggregates |
| Parser and analyser | `parser/`, `analyze/` | none shared | — | generated code and name resolution; not modelled |

The B+tree (`ix_*`), the disk manager, the LRU replacer and `log_manager.cpp`
are not in this source tree. Where a model needs them, they are modelled from
`spec.md` and marked `spec_modelled` in `PROJECT.json`. The B+tree appears only
through its contract, a unique map from keys to rids. `TxnManager` models an index as a
set of (key, rid) pairs with `insert_entry`, which refuses a present key, and
`delete_entry`. `QueryExec` models an index as the positions of the rows in key order,
with `lower_bound` and `upper_bound`.

## 2. Modules

| Module | Models | State ↔ code |
|---|---|---|
| `Table` | what the heap promises: an RID-addressed table and its size | abstract |
| `RmFile` | the heap of one table | `heap.firstFree/numPages` = `file_hdr_`; `heap.page[p].num/next/bits/data` = page header, bitmap, slots |
| `TxnManager` | transactions writing one table and its unique indexes, commit, abort with rollback | `writeSet` = `txn->get_write_set()`; `index[i]` = the entries of `tab_.indexes[i]`; `active` = the one transaction holding the table's X lock |
| `RWLock` | what the lock manager promises: a readers–writer lock per table | abstract |
| `LockManager` | table locks of concurrent transactions and their release at commit/abort | `lockTable` = `lock_table_`; `lockSet`, `txnState`; `toRelease` = iterations of the unlock loop still to run |
| `BufferPool` | the buffer pool under concurrent sessions, with page LSNs and the durable log prefix | `pageTable`, `frameId`, `pinCount`, `dirty`, `freeList`, `replacer` as in the class; `data`/`disk` hold the LSN of a page's last write |
| `Recovery` | the log written by heap, executors and transaction manager; crashes; restart analyze, redo and undo | `log` = the log file plus buffer, `durable` = its flushed length; `heap`/`memLsn` = pool pages and `file_hdr_`; `diskPage` = data pages on disk; `att`/`status` = `active_txn_`/`txn_status`; `cursor` = the inner undo loop's offset and local status |
| `LogCodec` | the byte layout of every log record class, the log buffer and recovery's scan of the log file | `buffer`/`offset` = `log_buffer_`; `disk` = the log file's bytes; `appended` = history of records with their LSNs; a record is the union of the classes' fields |
| `Catalog` | databases, tables and indexes on disk and in memory; index DDL in a transaction, its log records, abort, crash and restart recovery | `dirs`/`metaDisk`/`files`/`ixFiles` = directories, `db.meta`, record and index files; `db`/`fhs`/`ihs` = `db_.tabs_`, `fhs_`, `ihs_`; `writeSet` = the index write records with their lsns; `log`/`durable` = the log and its flushed prefix; `recov`/`att`/`undo` = the restart's phase, `active_txn_`/`txn_status` and the undo walk; `settled` = the indexes of the last committed catalog |
| `QueryExec` | one SELECT: a filtered sequential scan or index scan of the left table, a sequential scan of the right, the block nested-loop join, and a sort with LIMIT or an aggregate on top, driven by the executor loop | `join` = the join's `l_records`, `buff`, child cursors and `isend`; `sortSt` = `cols_map`, `records`, `used_tuple`, `limit_`; `agg` = `functions` and `is_end_`; `out` = the rows returned |

Each operation of the code is one action, or one pure operator when another
module composes it. For example, `RmFile!InsertRecord` is the whole of
`insert_record(buf, ctx)`: page handle, first clear bit, count, unlink, bit.
`TxnManager!Abort` folds `RollbackEntry` over the write set the way the while
loop of `abort` does. Each buffer-pool action is one public call under the
latch. `LockManager` splits commit and abort at the unlock loop, because each
`unlock` call takes the latch separately and other transactions run between
those calls.

`Recovery` composes `RmFile`'s operators with the logging the code wraps
around them. `LoggedStep` is one heap call with a context: the PAGE_SET image
of the data page, and for insert and delete the header image, each carrying the
LSN the page had before the call. `Write` is one executor step: the heap call,
then the logical record and the write record. Commit is split at its flush
(`Commit`, `CommitFlush`) and abort at every rollback iteration (`Abort`,
`AbortRollback`, `AbortEnd`), because the process may crash at each of those
points. Other sessions appear only through what they do to shared state:
`FlushLog` and the flush inside an action (`MidFlush`) are their
`flush_log_to_disk` calls, and `EvictPage` is the pool writing a page back.
After `Crash`, `Recover` is analyze followed by redo over the whole log,
because the dirty page table is never filled. Undo then runs one log record
per step (`UndoPick`, `UndoStep`, `UndoDone`), so pages can be written back and
the process can crash again in the middle of it.

`LogCodec` writes each record as the sequence of `memcpy`/`memmove` calls of
its `serialize`, at the offsets the code computes, applied in order to the log
buffer; `deserialize` reads the fields back at the offsets it computes, with
uninitialised bytes past the record as a junk value. `Write` appends a record
a writer of the repository constructs (`add_log_to_buffer`, flushing first
when `is_full`), `FlushLogToDisk` is another session's flush, and
`LogRoundTrip` scans the file the way `analyze` does.

`Catalog` keeps one session, whose table locks are always granted, and lets
the process crash at any point. `create_index` and `drop_index` are split
into their throwing paths (`CreateIndexThrows`, `DropIndexThrows`,
`DropIndexError` for the empty entry `db_.tabs_[]` enters), their file and
`db.meta` changes (`CreateIndexFiles`, `DropIndexFiles`) and their log record
(`LogDdl`). The statements, abort's loop (`AbortStep`) and recovery's undo
(`UndoStep`) all use them, because `rollback_create_index` and
`rollback_drop_index` call them, with the transaction's context during abort
and with none during recovery. The log holds BEGIN, the DDL records, COMMIT,
ABORT, UNDO_NEXT and END with their prev lsns; `FlushLog` is another session's
flush and `Crash` keeps the durable prefix. After a crash, `OpenDb` is the
restart's `open_db`, followed by `Analyze` (`AnalyzeFrom` scans the log the way
`analyze` does, ignoring DDL records as it does) and the undo loop (`UndoPick`,
`UndoStep`, `UndoDone`). Sessions start again only when recovery is done.

`TxnManager`'s executors keep the code's order of index and heap calls.
- `InsertExec` inserts the key into each index in turn. At the first index that
  refuses it, the heap record is inserted and then deleted, and the statement
  fails (`stop` is that index).
- `DeleteExec` and `UpdateExec` follow the same order.
- `UpdateExec` touches only the indexes where `strcmp` of the old and new key
  bytes differs (`StrcmpSame`). That comparison stops at the first zero byte.
- Rollback (`RollbackEntry`) applies `rollback_insert`, `rollback_delete` and
  `rollback_update` with their index calls.

`QueryExec` follows the iterator calls: `JoinBegin`, `JoinNextTuple` and
`MakeBuff` are `beginTuple`, `nextTuple` and `make_buff`, the latter one
round of its loops per `MakeBuffRound`, iterated to a fixed point. Sort's
`beginTuple` drains the join and lets `std::sort` leave tied rows in any
order (`SortOrders`); aggregate's `Next` drains the join into the functions
and builds the output row with the code's `memmove` at offset 0 (`AggRow`).
`IndexScan`'s `beginTuple` builds the range once, from the conditions on the
index's leading columns (`BoundKey`). It fills the remaining key bytes with
INT_MIN for the lower key and INT_MAX for the upper key (`LowerKey`,
`UpperKey`). It then walks the positions from `lower_bound` to `upper_bound`,
filtering every row by all conditions (`IxSeek`, `IxNextTuple`). The range is
computed in `Init`, because it depends only on the plan and the table
(`ixScan`). The executor loop that calls the root is not in `src/` and is modelled from
the spec (`BeginJoin`, `NextJoin`, `Finish`). `QueryResultCorrect` compares
the output with a reference computed from the tables by SQL's definition
(`RefBag`, `OrderedBefore`, `AggRef`), not by the code's operators.

`Recovery` gives the environment all the freedom the code leaves it:
another session may flush the log between any two appends (`MidFlush`,
`FlushLog`), and the pool may write back any dirty page whatever its LSN
(`EvictPage`), as `flush_page` and `update_page` do.

## 3. Runs

| Run | Config | Result | What it shows |
|---|---|---|---|
| `rmfile` | `MC_RmFile.cfg` | pass, 5,682 states | Any sequence of inserts, deletes and updates over 3 pages of 2 slots keeps count = popcount, keeps the free chain exact, and refines `Table`. |
| `txn_abort_rows` | `MC_TxnManager_abort.cfg` | **violation** | Abort does not restore the rows; see the findings. |
| `locks` | `MC_LockManager.cfg` | pass, 8,531 states | 3 transactions and 2 tables: the lock table equals the lock sets and refines `RWLock`. |
| `bufferpool` | `MC_BufferPool.cfg` | pass, 311,676 states | 2 sessions, 2 frames, 3 pages: the frame table is consistent, no write is lost, and a pinned frame is never reassigned. |
| `recovery_committed_loop` | `MC_Recovery_committed_loop.cfg` | **violation** | Restart recovery never finishes after a crash that leaves COMMIT durable without END (finding 6). |
| `recovery_log` | `MC_Recovery_log.cfg` | pass, 924,596 states | Every flush and write-back, and two crashes: prev_lsn always links a record to its transaction's previous record. |
| `recovery_partial_op` | `MC_Recovery_partial.cfg` | **violation** | An uncommitted insert survives recovery (finding 3). |
| `logcodec` | `MC_LogCodec.cfg` | pass, 83,931 states | Three records of any kind a writer appends (BEGIN to UNDO_NEXT and the index DDL) for table "t1", over flushes and a full buffer: recovery's scan finds every durable record at its offset with its header, and every record but the index DDL ones comes back whole. The DDL records' length is one byte short for this name (a hazard), and the records around them survive it. |
| `catalog_abort_loop` | `MC_Catalog_abort.cfg` | **violation** | Abort of a transaction that created an index never ends (finding 5). |
| `catalog_crash` | `MC_Catalog_crash.cfg` | **violation** | After a crash the restart cannot open the database, or leaves uncommitted index DDL in place (finding 4). |
| `txn_index_insert` | `MC_TxnManager_index.cfg` | **violation** | A failed INSERT leaves an index entry for a rid with no row (finding 2). |
| `queryexec` | `MC_QueryExec.cfg` | pass, 77,365 states | Every plan terminates, with the left table read by a sequential scan or through its unique (a, c) index. The tables hold up to 3 and 2 rows. The join never runs dry before its end. The output is the SQL result for every plan outside three shapes the code gets wrong (`ResultDefined`). Two of them are among the plans: an index scan with `a = 1 AND a <= 1`, and COUNT with MAX. |

Each property of each passing run has a mutant in `PROJECT.json`. A mutant is
a plausible bug in the mapped code, written as an operator next to the
definition it replaces, and TLC finds it under the run's own configuration.

### Findings

1. **Abort loses committed rows** (`sm_manager.cpp:433`).
   - `rollback_delete` re-inserts with `insert_record(buf, ctx)`, which takes the first free slot, not the deleted rid.
   - TLC's trace: v1 is committed at (1,0). A transaction inserts v2 at (1,1), deletes (1,0), deletes (1,1) and aborts.
   - The abort re-inserts v2 at (1,0) and v1 at (1,1). Then `rollback_insert` deletes (1,1), which is the committed v1.
   - The table ends as {v2} instead of {v1}.
2. **A failed INSERT leaves index entries behind** (`executor_insert.h:81`).
   - `Next` inserts the key into each index in turn. When one index reports a duplicate, it deletes the heap record and throws.
   - The entries it already put into the earlier indexes are never removed, and nothing was added to the write set for abort to undo.
   - TLC's trace, with indexes on columns 1 and 2: insert (1,1), then insert (2,1). Index a keeps 2 → the freed rid.
3. **Uncommitted row survives recovery** (`executor_insert.h:89`).
   - The INSERT record is appended after `insert_record` has appended the page and header images.
   - Trace: another session flushes between the two, then the process crashes.
   - Redo installs the page with the row. Undo reverses only logical records, so it finds nothing to undo.
4. **A crash leaves a catalog the restart cannot recover** (`sm_manager.cpp:251`).
   - `CrashRecoversCatalog` states the restart contract: `db.meta` opens, recovery does not throw, and once it is done the indexes are those of the last commit.
   - `drop_table` destroys the files and erases the table from `db_` but never calls `flush_meta`. TLC's trace: create table t1; drop table t1; crash. `db.meta` still names t1, its file is gone, and `open_db` throws.
   - The same property fails through three more mechanisms, each reproduced by removing the one before (hazards in `PROJECT.json`):
     - `create_index` and `drop_index` flush `db.meta` (`:332`, `:395`) before their log record is durable, so an uncommitted index survives a crash;
     - `analyze` ignores CREATE/DROP_INDEX records (`log_recovery.cpp:71`), so undo starts before them and never undoes them;
     - undo's `rollback_create_index` with no context (`log_recovery.cpp:224`) throws when the table was dropped after the record, which ends the restart.
   - `drop_index` on a missing table enters an empty entry that the next `flush_meta` writes (`:358`), with the same effect on `open_db`.
5. **Abort never ends after index DDL** (`transaction_manager.cpp:111`).
   - Abort pops the newest write record and calls `rollback_create_index` or `rollback_drop_index` with the transaction's context.
   - `drop_index` and `create_index` then append their own write record to the same write set, so `begin; create index; abort` drops and re-creates the index forever.
   - TLC's trace takes a second exit. After `create table t1; create index; drop table t1; abort`, `drop_index` takes `db_.tabs_[t1]`, which enters an empty TabMeta, and `get_col` throws out of abort. END is never logged and the locks are never released.
6. **Recovery loops forever** (`log_recovery.cpp:174`).
   - `commit` appends COMMIT and END, then flushes (`transaction_manager.cpp:58-63`).
   - TLC's trace: begin; insert; commit, with another session's flush between the two appends; crash.
   - Analyze marks the transaction Committed and keeps it in `active_txn_`. Undo picks it and `continue`s without removing it, forever.

More violations were found while modelling. They are kept as hazards with
notes in `PROJECT.json`, not as runs, because the run budget is full.
- **A crash during recovery duplicates a committed row** (`log_recovery.cpp:232`): undo writes no CLR and no END. With two crashes, a second recovery undoes the same DELETE again. This is a longer counterexample to `RecoveryRestoresSettled` than finding 3.
- **Free list corrupted by redo** (`rm_file_handle.cpp:89`): the page image and the header image are separate appends. A flush between them and a crash leave redo a header that disagrees with the page. `HeapIntegrity` in `Recovery.tla` states the heap's well-formedness after restart, and TLC finds it violated in 9 states. No run checks it.
- **CREATE/DROP_INDEX records cut short** (`log_manager.h:820`): `log_tot_len_` counts one byte per column where `serialize` writes the table name. The `logcodec` run appends them for "t1", where they are one byte short. `LogRoundTrip` therefore compares only their header; compared whole, they fail in 3 steps.
- **Two conditions of one side on an index column** (`executor_index_scan.h:128`): both values go into the key, and the scan misses a row. The plan is in the `queryexec` run, and `ResultDefined` leaves it out of `QueryResultCorrect`.
- **Sort keys of one name** (`execution_sort.h:41`): `cols_map` is keyed by column name alone. With `ColB = "a"` in `MC_QueryExec.cfg` and keys (R.a DESC, L.a) with LIMIT 1, the result is wrong.
- **Several aggregate functions** (`executor_aggregate.h:142`): every result is moved to offset 0, so only the last survives. COUNT with MAX is among the plans, and `ResultDefined` leaves it out.
- **The WAL rule is broken** (`buffer_pool_manager.cpp:45`, `:145`, `:168`). `flush_page` and the dirty write-backs of `update_page` and `new_page` write pages whose LSN is beyond the persisted log. Nothing in the pool consults the log.
  - `WalRule` in `BufferPool.tla` states the rule, and TLC finds it violated at once.
  - `Recovery`'s `EvictPage` writes pages back the same way. `begin; insert; evict; crash` is a longer counterexample to `RecoveryRestoresSettled` than finding 3.

Runs show the shortest counterexample only. Other mechanisms reach the same
violations and are listed as hazards in `PROJECT.json`. For instance, undo
rolls back the same writes twice after a crash in the middle of `abort` whose
rollback records are durable. Finding 2 also has a recovery consequence: an
uncommitted row whose page was written back early survives the crash (the WAL hazard above).
The same holds for the indexes. With a single index, update, delete and abort
also break `IndexMatchesHeap`, through finding 1's rid confusion. Update
leaves index entries behind the same way insert does (`executor_update.h:85`).

Two departures from spec §8 are kept as hazards, not runs, because they do no
harm in the model:
- **A frame both free and in the replacer** (`buffer_pool_manager.cpp:211`).
  - `delete_page` puts the frame on the free list without taking it out of the replacer.
  - The `bufferpool` run passes with it: the frame leaves the replacer when it is next taken and pinned.
- **A stale page LSN after redo** (`log_recovery.cpp:126`).
  - The logged image predates `set_page_lsn` (`rm_file_handle.cpp:80-82`), so redo stamps the LSN from before the change it installs.
  - A later redo then simply re-applies the images in order.

## 4. Bounds, symmetry and fairness

- **Heap: 2 slots per page, 3 pages.** This is enough for a page to fill, be unlinked, be re-linked by a delete, and for the chain to hold two pages in either order. `txn_abort_rows` uses 2 pages and 3 writes per transaction, the shortest write set that reaches finding 1.
- **Locks: 3 transactions, 2 tables.** This allows two shared holders while a third is refused, and an upgrade racing another transaction's unlock loop. Transactions and tables are model values under symmetry: the code treats them alike.
- **Buffer pool: 2 sessions, 2 frames, 3 pages, 3 LSNs.** Pages outnumber frames, so fetches evict. Both sessions can pin one page, and the pool can be full.
- **Recovery: one page of 2 slots, 3 transactions of one write each, a log of 15 records, 1 or 2 crashes.**
  - 15 records hold a committed insert followed by a delete rolled back to its END, or two crashes around a commit.
  - One write per transaction keeps finding 1, which `txn_abort_rows` already shows, out of the recovery runs.
  - The environment is not restricted: any flush, any write-back and, in `recovery_log`, two crashes. Under it every recovery property but `PrevLsnChain` fails, each through a bug of the code. The runs `recovery_partial_op` and `recovery_committed_loop` show two of them; the others are hazards.
- **Log codec: a page of 2 bytes, a buffer of 100, 3 records, table "t1", payloads of 1 and 2 bytes, one index column.** A two-byte name with one column is the shortest case of a DDL record whose length is wrong. Only offsets depend on `PAGE_SIZE`. 100 bytes hold two records but not three, so `is_full` both passes and flushes.
- **Indexes: two one-column unique indexes over rows {(1,1), (2,1)}.** The rows share a key in the second index and not in the first, which is the shortest case of an insert failing after one index took the key. The keys are 1 and 2, so `strcmp`'s stop at a zero byte is never met (a hazard with a note).
- **Catalog: one database, one table, one index, one write record, a log of 8 records.** This is the smallest abort that meets a CREATE_INDEX write record. `catalog_crash` allows 2 transactions and 1 crash: a committed transaction and an uncommitted one are the smallest case where recovery must tell the two apart, and 8 records hold both with their DDL.
- **Queries: tables of up to 3 and 2 one-column rows over {1, 2}, a block of 2 rows (64 in the code), LIMIT -1 or 1.** A block of 2 with 3 left rows makes the join refill its block and restart its right child. Values of 1 and 2 give ties for the sort and for `MAX`/`MIN`.
  - Index plans (`MC_IxConds`) use an index on (a, c) with unique keys. Their conditions include equality, a bound on each column, bounds on the second column alone, a two-sided range on one column, a `NE` condition that only the filter applies, and two upper-side conditions on a (`a = 1 AND a <= 1`), the index-scan hazard's shape.
  - Sequential-scan plans hold the c column at one value, since they never read it.
  - Aggregates are each of COUNT, SUM, MAX and MIN alone, and COUNT with MAX, the shape of the aggregate hazard.
- **Fairness.** `Recovery` assumes weak fairness of its restart steps. Recovery runs on its own at start-up, before any session is accepted, so nothing else can stop it from taking a step that stays enabled.
  - `RecoveryTerminates` is checked with crashes bounded, since a process that crashes forever never finishes.
  - `QueryExec` assumes weak fairness of its next-state relation: the executor loop runs on the session's thread and calls the root until `is_end`.
  - `Catalog` assumes weak fairness of abort's loop, which runs on the session's thread, and of the restart's steps, which run before any session is accepted.
  - Elsewhere only safety and refinement are checked.
- **Deadlock checking.** `LockManager`, `Recovery`, `LogCodec`, `QueryExec` and `Catalog` run with `CHECK_DEADLOCK FALSE`. Their transactions, appends or queries are finite, so once they have finished nothing is left to do.

## 5. Not modelled, and why

- **Parser, analyser, value conversions:** generated code or pure formatting.
- **Row, IS and IX locks:** no-ops in this code.
- **Recovery of index pages**: INDEX_PAGE redo. The B+tree's pages are not in the source tree. CREATE/DROP_INDEX undo is modelled in `Catalog`.
- **`RecoveryManager`'s ATT and DPT classes** (`log_recovery.h`): declared but unused. `log_recovery.cpp` keeps its own maps, which `Recovery` models.
- **Page-number reuse:** `Recovery` allocates the page after `num_pages`. The disk manager, which is absent, allocates from the file size. The two can differ after a crash, when `num_pages` comes from a header image that is older than the file.
- **Printing** (`show_tables`, `desc_table`, `show_index`, `format_print`): output only.
- **The B+tree itself** (`ix_*`): not in the source tree. Its contract is modelled from the spec (section 1). `Catalog` tracks an index's existence, `TxnManager` its entries, and `QueryExec` its order.
- **Index scans of the right table, and indexes on string columns:** the scan code does not depend on the side. String keys would only add `strcmp` order.
- **String and float columns** in `QueryExec`: the columns are ints, so cross-type comparison and `strcmp` order are left out.
- **INDEX_PAGE records in a run:** their writer is the B+tree. `IndexPagesWrites` models `serialize`, which writes page ids and `hdr_len` at the start of the record instead of at `offset`.

## 6. Plan

1. **Done.** `RmFile` and `Table`: the heap and its table contract.
2. **Done.** `TxnManager`: write sets, commit, abort, rollback primitives.
3. **Done.** `LockManager` and `RWLock`: table locks, upgrade, unlock loops.
4. **Done.** `BufferPool`: pins, eviction, dirty write-back, page LSNs; `WalRule` is stated but not run.
5. **Done.** `Recovery`: the log, crashes, analyze, redo and undo. Runs show findings 3 and 6.
   - Left: several tables, and concurrent readers whose commits flush.
   - Also left: a run where double undo after a crash mid-abort is the shortest counterexample. It needs a bound that excludes finding 3.
6. **Done.** B+tree contract and index maintenance in `TxnManager` (finding 2); index scan in `QueryExec`.
7. **Done.** `QueryExec`: scans, filter, block nested-loop join, sort and aggregate against SQL reference definitions.
8. **Done.** `Catalog`: database and table DDL, index DDL in the write set and the log, crashes and restart recovery of the catalog (finding 4). `LogCodec`: the byte layout of the log.
9. **Left:** `Catalog` composed with `Recovery`'s row records, so that one restart undoes both, and with `LogCodec`'s DDL records.
