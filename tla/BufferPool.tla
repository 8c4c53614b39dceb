----------------------------- MODULE BufferPool -----------------------------
(***************************************************************************)
(* The buffer pool (src/src/storage/buffer_pool_manager.cpp) shared by     *)
(* concurrent sessions, with the log sequence numbers its pages carry.    *)
(*                                                                         *)
(* Every public operation runs under latch_, so each is one atomic step.  *)
(* Page contents are written outside the latch by a session that holds a  *)
(* pin.  A page's contents are abstracted to the LSN of the last write to  *)
(* it: a write appends a log record (LogManager::add_log_to_buffer, LSN    *)
(* from global_lsn_) and stamps the page with it (set_page_lsn), as the    *)
(* heap's insert/delete/update do.  Contents 0 are a zeroed page with      *)
(* INVALID_LSN.  The log is reduced to the LSN counter and the durable     *)
(* prefix persistLsn; flush_log_to_disk (commit, abort) makes all of it    *)
(* durable.                                                                *)
(*                                                                         *)
(* The replacer (LRUReplacer, not in this source tree) is modelled from    *)
(* the spec: frames in least-recently-unpinned-first order; victim takes  *)
(* the oldest, pin removes a frame, unpin appends one not yet present.     *)
(***************************************************************************)
EXTENDS Integers, Sequences, FiniteSets, SequencesExt, Functions

CONSTANTS
    Threads,    \* sessions using the pool
    Frames,     \* frame ids 0..pool_size_-1
    MaxPage,    \* pages the disk manager may allocate: 1..MaxPage
    MaxLsn,     \* bound on global_lsn_
    NoFrame,    \* absent from page_table_
    NoPage      \* page->id_ = {-1, INVALID_PAGE_ID}

ASSUME MaxPage \in Nat \ {0} /\ MaxLsn \in Nat \ {0}

Pages == 1..MaxPage
Lsns  == 0..MaxLsn

VARIABLES
    pageTable,  \* page_table_: page -> frame, NoFrame when not cached
    frameId,    \* pages_[f].id_
    pinCount,   \* pages_[f].pin_count_
    dirty,      \* pages_[f].is_dirty_
    data,       \* pages_[f].data_, as the LSN of its last write
    freeList,   \* free_list_
    replacer,   \* replacer_: frames, least recently unpinned first
    disk,       \* the page file on disk, page -> LSN of its contents
    allocated,  \* pages the disk manager has handed out
    holds,      \* pages each session currently has pinned
    wrote,      \* pages each session wrote under its current pin
    globalLsn,  \* LogManager::global_lsn_
    persistLsn, \* last LSN on disk in the log file
    latest      \* history: the last contents written to each page

poolVars == <<pageTable, frameId, pinCount, dirty, data, freeList, replacer>>
vars == <<poolVars, disk, allocated, holds, wrote, globalLsn, persistLsn, latest>>

-----------------------------------------------------------------------------
(* Fault of the replacer that the properties must catch: unpin appending  *)
(* a frame it already holds.                                               *)
ReplacerUnpinAppend(r, f) == Append(r, f)

(* LRUReplacer (spec section 4.1).                                         *)
ReplacerPin(r, f)   == Remove(r, f)
ReplacerUnpin(r, f) == IF f \in ToSet(r) THEN r ELSE Append(r, f)

(* BufferPoolManager::find_victim_page: the head of the free list, else   *)
(* the replacer's victim (which leaves the replacer); none when both are   *)
(* empty.  The caller then pins the frame, which takes it out of the       *)
(* replacer too.                                                           *)
CanFindVictim == freeList # <<>> \/ replacer # <<>>
Victim == IF freeList # <<>> THEN Head(freeList) ELSE Head(replacer)
TakeVictimAndPin(f) ==
    /\ freeList' = IF freeList # <<>> THEN Tail(freeList) ELSE freeList
    /\ replacer' = ReplacerPin(replacer, f)

(* The write-back at the top of update_page and new_page: a dirty victim's *)
(* contents go to its page on disk.                                        *)
WrittenBack(f) ==
    IF dirty[f] THEN [disk EXCEPT ![frameId[f]] = data[f]] ELSE disk

(* page_table_ after erasing the victim's old page and mapping p to f.    *)
Remap(f, p) ==
    [q \in Pages |-> IF q = p THEN f
                     ELSE IF q = frameId[f] THEN NoFrame
                     ELSE pageTable[q]]

-----------------------------------------------------------------------------
(* Fault of fetch_page that the properties must catch: a cached page     *)
(* pinned without replacer_->pin.                                          *)
FetchCachedNoReplacerPin(p) ==
    LET f == pageTable[p] IN
    /\ f # NoFrame
    /\ pinCount' = [pinCount EXCEPT ![f] = @ + 1]
    /\ UNCHANGED <<pageTable, frameId, dirty, data, freeList, replacer, disk>>

(* fetch_page when the page is cached: pin it where it is.                *)
FetchCached(p) ==
    LET f == pageTable[p] IN
    /\ f # NoFrame
    /\ pinCount' = [pinCount EXCEPT ![f] = @ + 1]
    /\ replacer' = ReplacerPin(replacer, f)
    /\ UNCHANGED <<pageTable, frameId, dirty, data, freeList, disk>>

(* fetch_page when it is not: find a victim, update_page (write back if   *)
(* dirty, unmap the old page, read the new one from disk, map it), pin it. *)
FetchFromDisk(p) ==
    LET f == Victim IN
    /\ pageTable[p] = NoFrame
    /\ CanFindVictim
    /\ TakeVictimAndPin(f)
    /\ disk' = WrittenBack(f)
    /\ dirty' = [dirty EXCEPT ![f] = FALSE]
    /\ pageTable' = Remap(f, p)
    /\ data' = [data EXCEPT ![f] = disk[p]]
    /\ frameId' = [frameId EXCEPT ![f] = p]
    /\ pinCount' = [pinCount EXCEPT ![f] = @ + 1]

(* A session's fetch_page (RmFileHandle::fetch_page_handle) of a page it   *)
(* does not hold.  When every frame is pinned fetch_page returns nullptr   *)
(* and changes nothing, so that outcome is no step.                        *)
FetchPage(t, p) ==
    /\ p \in 1..allocated
    /\ p \notin holds[t]
    /\ FetchCached(p) \/ FetchFromDisk(p)
    /\ holds' = [holds EXCEPT ![t] = @ \cup {p}]
    /\ UNCHANGED <<allocated, wrote, globalLsn, persistLsn, latest>>

(* new_page (RmFileHandle::create_new_page_handle): find a victim, write  *)
(* it back if dirty, unmap it, allocate the next page number, pin the      *)
(* frame, zero it with INVALID_LSN, write the zeroed page to disk, map it. *)
NewPage(t) ==
    LET f == Victim
        p == allocated + 1 IN
    /\ allocated < MaxPage
    /\ CanFindVictim
    /\ TakeVictimAndPin(f)
    /\ disk' = [WrittenBack(f) EXCEPT ![p] = 0]
    /\ allocated' = p
    /\ pageTable' = Remap(f, p)
    /\ frameId' = [frameId EXCEPT ![f] = p]
    /\ pinCount' = [pinCount EXCEPT ![f] = @ + 1]
    /\ dirty' = [dirty EXCEPT ![f] = FALSE]
    /\ data' = [data EXCEPT ![f] = 0]
    /\ holds' = [holds EXCEPT ![t] = @ \cup {p}]
    /\ UNCHANGED <<wrote, globalLsn, persistLsn>>
    /\ latest' = [latest EXCEPT ![p] = 0]
(* A session writes a page it has pinned, as insert/delete/update_record  *)
(* do: the change is logged (add_log_to_buffer hands out the next LSN) and *)
(* the page stamped with that LSN (set_page_lsn).                          *)
WritePage(t, p) ==
    LET lsn == globalLsn + 1 IN
    /\ p \in holds[t]
    /\ globalLsn < MaxLsn
    /\ globalLsn' = lsn
    /\ data' = [data EXCEPT ![pageTable[p]] = lsn]
    /\ latest' = [latest EXCEPT ![p] = lsn]
    /\ wrote' = [wrote EXCEPT ![t] = @ \cup {p}]
    /\ UNCHANGED <<pageTable, frameId, pinCount, dirty, freeList, replacer,
                   disk, allocated, holds, persistLsn>>

(* Fault of unpin_page that the properties must catch: the dirty flag     *)
(* assigned from the hint instead of or-ed with it.                        *)
UnpinDirtyAssign(f, isDirty) ==
    /\ pinCount' = [pinCount EXCEPT ![f] = @ - 1]
    /\ replacer' = IF pinCount[f] - 1 = 0 THEN ReplacerUnpin(replacer, f) ELSE replacer
    /\ dirty' = [dirty EXCEPT ![f] = isDirty]

(* Fault of unpin_page that the properties must catch: the frame handed   *)
(* to the replacer on every unpin, not only when pin_count_ reaches 0.     *)
UnpinAlwaysReplace(f, isDirty) ==
    /\ pinCount' = [pinCount EXCEPT ![f] = @ - 1]
    /\ replacer' = ReplacerUnpin(replacer, f)
    /\ dirty' = [dirty EXCEPT ![f] = @ \/ isDirty]

(* The body of unpin_page for a cached page with pin_count_ > 0: drop one *)
(* pin, hand the frame to the replacer at zero, or the hint into is_dirty_. *)
UnpinFrame(f, isDirty) ==
    /\ pinCount' = [pinCount EXCEPT ![f] = @ - 1]
    /\ replacer' = IF pinCount[f] - 1 = 0 THEN ReplacerUnpin(replacer, f) ELSE replacer
    /\ dirty' = [dirty EXCEPT ![f] = @ \/ isDirty]

(* unpin_page by a session that holds the page: writers (insert, delete,  *)
(* update_record) pass is_dirty = true, readers (get_record) false.        *)
UnpinPage(t, p) ==
    /\ p \in holds[t]
    /\ UnpinFrame(pageTable[p], p \in wrote[t])
    /\ holds' = [holds EXCEPT ![t] = @ \ {p}]
    /\ wrote' = [wrote EXCEPT ![t] = @ \ {p}]
    /\ UNCHANGED <<pageTable, frameId, data, freeList, disk, allocated,
                   globalLsn, persistLsn, latest>>

(* flush_page: write a cached page through, pinned or not; clear dirty.   *)
FlushPage(p) ==
    LET f == pageTable[p] IN
    /\ p \in 1..allocated
    /\ f # NoFrame
    /\ disk' = [disk EXCEPT ![p] = data[f]]
    /\ dirty' = [dirty EXCEPT ![f] = FALSE]
    /\ UNCHANGED <<pageTable, frameId, pinCount, data, freeList, replacer,
                   allocated, holds, wrote, globalLsn, persistLsn, latest>>

(* delete_page of a cached, unpinned page: write it through, unmap it,    *)
(* reset the frame and push it on the free list.  The frame is left in    *)
(* the replacer.                                                           *)
DeletePage(p) ==
    LET f == pageTable[p] IN
    /\ p \in 1..allocated
    /\ f # NoFrame
    /\ pinCount[f] = 0
    /\ disk' = [disk EXCEPT ![p] = data[f]]
    /\ dirty' = [dirty EXCEPT ![f] = FALSE]
    /\ pageTable' = [pageTable EXCEPT ![p] = NoFrame]
    /\ data' = [data EXCEPT ![f] = 0]
    /\ frameId' = [frameId EXCEPT ![f] = NoPage]
    /\ freeList' = Append(freeList, f)
    /\ UNCHANGED <<pinCount, replacer, allocated, holds, wrote, globalLsn,
                   persistLsn, latest>>

(* flush_all_pages: write every cached page through and clear its dirty   *)
(* flag; unmap and reset each unpinned one and unpin it in the replacer,  *)
(* in frame order.                                                         *)
Cached == {f \in Frames : frameId[f] # NoPage}
Evicted == {f \in Cached : pinCount[f] = 0}
FlushAllPages ==
    /\ Cached # {}
    /\ disk' = [p \in Pages |-> IF pageTable[p] # NoFrame THEN data[pageTable[p]] ELSE disk[p]]
    /\ dirty' = [f \in Frames |-> IF f \in Cached THEN FALSE ELSE dirty[f]]
    /\ pageTable' = [p \in Pages |-> IF pageTable[p] \in Evicted THEN NoFrame ELSE pageTable[p]]
    /\ frameId' = [f \in Frames |-> IF f \in Evicted THEN NoPage ELSE frameId[f]]
    /\ data' = [f \in Frames |-> IF f \in Evicted THEN 0 ELSE data[f]]
    /\ replacer' = FoldLeft(ReplacerUnpin, replacer, SetToSortSeq(Evicted, <))
    /\ UNCHANGED <<pinCount, freeList, allocated, holds, wrote, globalLsn,
                   persistLsn, latest>>

(* LogManager::flush_log_to_disk, from commit and abort, or when the log  *)
(* buffer is full: every record handed out is durable.                    *)
FlushLog ==
    /\ persistLsn < globalLsn
    /\ persistLsn' = globalLsn
    /\ UNCHANGED <<poolVars, disk, allocated, holds, wrote, globalLsn, latest>>

-----------------------------------------------------------------------------
(* BufferPoolManager's constructor: every frame free and unmapped.        *)
Init ==
    /\ pageTable = [p \in Pages |-> NoFrame]
    /\ frameId = [f \in Frames |-> NoPage]
    /\ pinCount = [f \in Frames |-> 0]
    /\ dirty = [f \in Frames |-> FALSE]
    /\ data = [f \in Frames |-> 0]
    /\ freeList = SetToSortSeq(Frames, <)
    /\ replacer = <<>>
    /\ disk = [p \in Pages |-> 0]
    /\ allocated = 0
    /\ holds = [t \in Threads |-> {}]
    /\ wrote = [t \in Threads |-> {}]
    /\ globalLsn = 0
    /\ persistLsn = 0
    /\ latest = [p \in Pages |-> 0]

Next ==
    \/ \E t \in Threads :
         \/ NewPage(t)
         \/ \E p \in Pages : FetchPage(t, p) \/ WritePage(t, p) \/ UnpinPage(t, p)
    \/ \E p \in Pages : FlushPage(p) \/ DeletePage(p)
    \/ FlushAllPages
    \/ FlushLog

Spec == Init /\ [][Next]_vars

-----------------------------------------------------------------------------
TypeOK ==
    /\ pageTable \in [Pages -> Frames \cup {NoFrame}]
    /\ frameId \in [Frames -> Pages \cup {NoPage}]
    /\ pinCount \in [Frames -> 0..Cardinality(Threads)]
    /\ dirty \in [Frames -> BOOLEAN]
    /\ data \in [Frames -> Lsns]
    /\ freeList \in Seq(Frames) /\ IsInjective(freeList)
    /\ replacer \in Seq(Frames) /\ IsInjective(replacer)
    /\ disk \in [Pages -> Lsns]
    /\ allocated \in 0..MaxPage
    /\ holds \in [Threads -> SUBSET Pages]
    /\ wrote \in [Threads -> SUBSET Pages]
    /\ globalLsn \in Lsns /\ persistLsn \in Lsns
    /\ latest \in [Pages -> Lsns]

(* The frame table agrees with itself and with the sessions' pins:        *)
(* page_table_ and the frames' ids are inverse, pin_count_ counts the      *)
(* sessions holding the page, a cached frame is in the replacer exactly    *)
(* when unpinned, and a free frame is unmapped and unpinned.  Fetches,     *)
(* evictions, deletes and flush_all_pages of several sessions interleave.  *)
FrameTableConsistent ==
    /\ \A p \in Pages : pageTable[p] # NoFrame => frameId[pageTable[p]] = p
    /\ \A f \in Cached : pageTable[frameId[f]] = f
    /\ \A f \in Frames :
         pinCount[f] = Cardinality({t \in Threads : frameId[f] \in holds[t]})
    /\ \A f \in Cached : (pinCount[f] = 0) <=> (f \in ToSet(replacer))
    /\ \A f \in ToSet(replacer) : pinCount[f] = 0
    /\ \A f \in ToSet(freeList) : f \notin Cached /\ pinCount[f] = 0

(* No write is lost: the last contents written to each allocated page are *)
(* in its frame while it is cached and on disk once it is not.  A write    *)
(* reaches disk only if the frame is dirty when it is evicted, and the    *)
(* dirty flag is set by the writer's unpin, possibly after other sessions  *)
(* have fetched, flushed and unpinned the same page.                       *)
NoLostUpdate ==
    \A p \in 1..allocated :
        IF pageTable[p] # NoFrame THEN data[pageTable[p]] = latest[p]
                                  ELSE disk[p] = latest[p]

(* A pinned frame is never reassigned (spec 4.1: callers hold a pin, so   *)
(* the frame cannot be reassigned): victims come only from the free list   *)
(* and the replacer.                                                       *)
PinnedFrameStable ==
    [][\A f \in Frames : pinCount[f] > 0 => frameId'[f] = frameId[f]]_vars

(* WAL rule (spec 4.4, 5): a page reaches disk only after every log        *)
(* record up to its page LSN is durable.                                   *)
WalRule == \A p \in Pages : disk[p] <= persistLsn
====
