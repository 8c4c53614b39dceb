------------------------------- MODULE RmFile -------------------------------
(***************************************************************************)
(* The record heap of one table (src/src/record/rm_file_handle.cpp).       *)
(*                                                                         *)
(* A heap file is a header (file_hdr_: first_free_page_no, num_pages) and  *)
(* data pages 1..num_pages, each with a page header (num_records,          *)
(* next_free_page_no), a slot bitmap and PerPage fixed-size slots.  Pages  *)
(* that still have a free slot are chained from first_free_page_no through *)
(* next_free_page_no.  The heap is one record-valued variable so that the  *)
(* operations below are pure operators on it: the transaction module       *)
(* composes them in its rollback loop.                                     *)
(*                                                                         *)
(* Record contents are model values; a zeroed slot holds Zero.  Page       *)
(* allocation by the buffer pool and the disk manager is abstracted to     *)
(* "the next page number"; pool exhaustion is modelled in the buffer pool  *)
(* module.                                                                 *)
(***************************************************************************)
EXTENDS Integers, Sequences, FiniteSets, Functions

CONSTANTS
    PerPage,    \* file_hdr_.num_records_per_page
    MaxPages,   \* bound on the number of data pages the file may grow to
    Vals,       \* record contents
    Zero,       \* contents of a slot after memset(.., 0, ..) or reset_memory
    NoPage      \* RM_NO_PAGE

ASSUME PerPage \in Nat \ {0} /\ MaxPages \in Nat \ {0}
ASSUME Zero \notin Vals /\ NoPage \notin Nat

VARIABLE heap

Pages == 1..MaxPages
Slots == 0..(PerPage - 1)
Rids  == Pages \X Slots

\* A page as create_new_page_handle leaves it: bitmap cleared, no records,
\* next_free_page_no = RM_NO_PAGE, memory zeroed by the buffer pool.
EmptyPage == [num |-> 0, next |-> NoPage, bits |-> {}, data |-> [s \in Slots |-> Zero]]

\* A freshly created file: no data page, empty free list.
InitHeap == [firstFree |-> NoPage, numPages |-> 0,
             page |-> [p \in Pages |-> EmptyPage]]

-----------------------------------------------------------------------------
(* RmFileHandle::create_new_page_handle: allocate the next page, initialise *)
(* it and make it the head of the free list.                               *)
CreateNewPage(h) ==
    LET p == h.numPages + 1
    IN [h EXCEPT !.page[p] = EmptyPage, !.firstFree = p, !.numPages = p]

(* RmFileHandle::create_page_handle: the page an insert goes to.           *)
CreatePageHandle(h) ==
    IF h.firstFree = NoPage THEN CreateNewPage(h) ELSE h

(* Bitmap::first_bit(false, bitmap, n): the first clear bit, or n when      *)
(* every bit is set.                                                       *)
FirstClearSlot(bits) ==
    IF Slots \subseteq bits THEN PerPage
    ELSE CHOOSE s \in Slots \ bits : \A t \in Slots \ bits : s <= t

(* Faults of insert_record that the properties must catch: the slot taken *)
(* as num_records instead of the first clear bit, and the page unlinked    *)
(* from the free list only once num_records exceeds the capacity.          *)
InsertRecordAtCount(h, v) ==
    LET h1 == CreatePageHandle(h)
        pg == h1.page[h1.firstFree]
    IN [heap |-> [h1 EXCEPT !.page[h1.firstFree] =
                                [pg EXCEPT !.data[pg.num] = v, !.num = @ + 1,
                                           !.bits = @ \cup {pg.num}],
                            !.firstFree = IF pg.num + 1 >= PerPage THEN pg.next ELSE @],
        rid  |-> <<h1.firstFree, pg.num>>]
InsertRecordUnlinkLate(h, v) ==
    LET h1  == CreatePageHandle(h)
        pg  == h1.page[h1.firstFree]
        pos == FirstClearSlot(pg.bits)
    IN [heap |-> [h1 EXCEPT !.page[h1.firstFree] =
                                [pg EXCEPT !.data[pos] = v, !.num = @ + 1,
                                           !.bits = @ \cup {pos}],
                            !.firstFree = IF pg.num + 1 > PerPage THEN pg.next ELSE @],
        rid  |-> <<h1.firstFree, pos>>]

(* RmFileHandle::insert_record(buf, context): the record goes to the first *)
(* clear slot of the head of the free list; when the page becomes full the *)
(* head is advanced to the page's next_free_page_no.  Returns the new heap *)
(* and the rid.                                                            *)
InsertRecord(h, v) ==
    LET h1  == CreatePageHandle(h)
        p   == h1.firstFree
        pg  == h1.page[p]
        pos == FirstClearSlot(pg.bits)
        num == pg.num + 1
    IN [heap |-> [h1 EXCEPT !.page[p] = [pg EXCEPT !.data[pos] = v,
                                                    !.num = num,
                                                    !.bits = @ \cup {pos}],
                            !.firstFree = IF num >= PerPage THEN pg.next ELSE p],
        rid  |-> <<p, pos>>]

(* RmFileHandle::release_page_handle: a page that was full re-enters the   *)
(* free list at its head.                                                  *)
ReleasePageHandle(h, p) ==
    [h EXCEPT !.page[p].next = h.firstFree, !.firstFree = p]

(* RmFileHandle::insert_record(rid, buf), the overload meant for rollback: *)
(* write the slot and set its bit, leaving num_records and the free list   *)
(* alone.  No caller uses it; the rollback primitives call insert_record   *)
(* with a context instead.                                                 *)
InsertRecordAt(h, r, v) ==
    [h EXCEPT !.page[r[1]].data[r[2]] = v, !.page[r[1]].bits = @ \cup {r[2]}]

(* Faults of delete_record that the properties must catch: the fullness   *)
(* test made after the decrement, and the decrement lost on the re-link    *)
(* path.                                                                   *)
DeleteRecordTestAfterDecrement(h, r) ==
    LET h1 == [h EXCEPT !.page[r[1]].data[r[2]] = Zero, !.page[r[1]].bits = @ \ {r[2]},
                        !.page[r[1]].num = @ - 1]
    IN IF h1.page[r[1]].num = PerPage THEN ReleasePageHandle(h1, r[1]) ELSE h1
DeleteRecordNoDecrementOnRelease(h, r) ==
    LET h1 == [h EXCEPT !.page[r[1]].data[r[2]] = Zero, !.page[r[1]].bits = @ \ {r[2]}]
    IN IF h1.page[r[1]].num = PerPage THEN ReleasePageHandle(h1, r[1])
       ELSE [h1 EXCEPT !.page[r[1]].num = @ - 1]

(* RmFileHandle::delete_record: zero the slot, clear its bit, re-link the  *)
(* page if it was full, then decrement num_records.  The code does not     *)
(* check that the bit was set.                                             *)
DeleteRecord(h, r) ==
    LET p  == r[1]
        s  == r[2]
        h1 == [h EXCEPT !.page[p].data[s] = Zero, !.page[p].bits = @ \ {s}]
        h2 == IF h1.page[p].num = PerPage THEN ReleasePageHandle(h1, p) ELSE h1
    IN [h2 EXCEPT !.page[p].num = @ - 1]

(* RmFileHandle::update_record: overwrite the slot in place.               *)
UpdateRecord(h, r, v) == [h EXCEPT !.page[r[1]].data[r[2]] = v]

(* RmFileHandle::get_record: the slot's bytes, whatever its bit says.      *)
GetRecord(h, r) == h.page[r[1]].data[r[2]]

-----------------------------------------------------------------------------
(* The rows the heap holds: rid -> contents for every set bit.  This is   *)
(* what a sequential scan (RmScan over the bitmaps) enumerates.            *)
NoRecord == Zero
RowAt(h, r) == IF r[1] <= h.numPages /\ r[2] \in h.page[r[1]].bits
               THEN h.page[r[1]].data[r[2]] ELSE NoRecord
Occupied(h) == {r \in Rids : RowAt(h, r) # NoRecord}

(* The free-page chain from first_free_page_no, cut after MaxPages + 1     *)
(* links so that a cycle shows up as an over-long chain.                   *)
RECURSIVE ChainFrom(_, _, _)
ChainFrom(h, p, k) ==
    IF p = NoPage \/ k = 0 THEN <<>>
    ELSE <<p>> \o ChainFrom(h, h.page[p].next, k - 1)
FreeChain(h) == ChainFrom(h, h.firstFree, MaxPages + 1)

(* Room for one more insert: a page on the free list or a page to allocate *)
HasRoom(h) == h.firstFree # NoPage \/ h.numPages < MaxPages

-----------------------------------------------------------------------------
(* The heap as the executors drive it: insert of any value, delete and     *)
(* update of a rid a scan returned (its bit is set).                       *)
Init == heap = InitHeap

Insert(v) ==
    /\ HasRoom(heap)
    /\ heap' = InsertRecord(heap, v).heap

Delete(r) ==
    /\ r \in Occupied(heap)
    /\ heap' = DeleteRecord(heap, r)

Update(r, v) ==
    /\ r \in Occupied(heap)
    /\ heap' = UpdateRecord(heap, r, v)

Next ==
    \/ \E v \in Vals : Insert(v)
    \/ \E r \in Rids : Delete(r)
    \/ \E r \in Rids, v \in Vals : Update(r, v)

Spec == Init /\ [][Next]_heap

-----------------------------------------------------------------------------
TypeOK ==
    /\ heap.numPages \in 0..MaxPages
    /\ heap.firstFree \in Pages \cup {NoPage}
    /\ \A p \in Pages :
         /\ heap.page[p].num \in 0..PerPage
         /\ heap.page[p].next \in Pages \cup {NoPage}
         /\ heap.page[p].bits \subseteq Slots
         /\ heap.page[p].data \in [Slots -> Vals \cup {Zero}]

(* Heap page invariant of the spec: num_records equals the popcount of the *)
(* bitmap on every allocated page.  insert_record and delete_record update *)
(* the two separately, and delete_record never checks the bit it clears.   *)
RecordCountMatchesBitmap ==
    \A p \in 1..heap.numPages : heap.page[p].num = Cardinality(heap.page[p].bits)

(* The free-page list is exact: the chain from first_free_page_no ends,    *)
(* visits no page twice, and holds exactly the allocated pages with fewer  *)
(* than num_records_per_page records.  insert_record only ever unlinks the *)
(* head and delete_record only pushes at the head, so a wrong fullness     *)
(* test in either corrupts it only after several inserts and deletes.      *)
FreeListExact ==
    LET c == FreeChain(heap) IN
    /\ Len(c) <= MaxPages
    /\ IsInjective(c)
    /\ Range(c) = {p \in 1..heap.numPages : heap.page[p].num < PerPage}

(* The heap implements an RID-addressed table (module Table): every insert *)
(* occupies one previously empty rid, delete empties exactly its rid,      *)
(* update rewrites exactly its rid, and no other row moves or changes.     *)
(* The table's size is the sum of the pages' num_records.                 *)
TableView == [r \in Rids |-> RowAt(heap, r)]
SizeView == SumFunction([p \in 1..heap.numPages |-> heap.page[p].num])
Abstract == INSTANCE Table WITH table <- TableView, size <- SizeView
TableRefinement == Abstract!Spec
=============================================================================
