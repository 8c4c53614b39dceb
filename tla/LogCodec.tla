------------------------------ MODULE LogCodec ------------------------------
(***************************************************************************)
(* The byte layout of the log (src/src/recovery/log_manager.h): every log  *)
(* record class's constructor (which sets log_tot_len_), serialize and     *)
(* deserialize, the LogBuffer they are serialized into, and the scan of    *)
(* the log file with which recovery reads them back                        *)
(* (log_recovery.cpp, analyze).                                            *)
(*                                                                         *)
(* Bytes are integers 0..255, multi-byte fields little endian and two's    *)
(* complement, as on the x86-64 build: enums, int, lsn_t and txn_id_t are  *)
(* 4 bytes, size_t 8, Rid and PageId two ints.  A record's serialize is a  *)
(* sequence of memcpy/memmove writes at offsets from its start, applied in *)
(* order, so a write that lands on an earlier one overwrites it.  The      *)
(* reader copies log_tot_len_ bytes into a stack array; a byte read past   *)
(* them is uninitialised memory, the value Junk.                           *)
(***************************************************************************)
EXTENDS Integers, Sequences, SequencesExt

CONSTANTS
    PageSize,   \* PAGE_SIZE, scaled down: only offsets depend on it
    BufSize,    \* LOG_BUFFER_SIZE
    Layout,     \* header offsets of log_defs.h: [lsn, totLen, tid, prev, data]
    MaxRecs,    \* bound on the records appended
    Kinds,      \* the record types the writers may append
    Tids,       \* transaction ids
    Names,      \* table and index names, as byte sequences
    Payloads,   \* record images (RmRecord data), as byte sequences
    ColLists,   \* column-name lists of an index, sequences of byte sequences
    PageImgs    \* page images, byte sequences of length PageSize

VARIABLES
    buffer,     \* log_buffer_.buffer_, LOG_BUFFER_SIZE + 1 bytes
    offset,     \* log_buffer_.offset_
    globalLsn,  \* global_lsn_
    disk,       \* the log file
    appended,   \* history: the records appended, with their LSNs
    durable     \* history: how many of them the log file holds

vars == <<buffer, offset, globalLsn, disk, appended, durable>>

(* enum LogRecordType.                                                     *)
T == [UPDATE |-> 0, INSERT |-> 1, DELETE |-> 2, BEGIN |-> 3, COMMIT |-> 4,
      ABORT |-> 5, END |-> 6, PAGE_SET |-> 7, UNDO_NEXT |-> 8,
      INDEX_PAGE |-> 9, CREATE_INDEX |-> 10, DROP_INDEX |-> 11]

IntW == 4
SizeW == 8
Junk == -1
JunkInt == -2147483647 - 1  \* what a field decoded from uninitialised bytes holds

-----------------------------------------------------------------------------
(* Encoding and decoding of one field.                                     *)
LE(v, w) ==
    [k \in 1..w |->
        IF k > 4 THEN (IF v < 0 THEN 255 ELSE 0)
        ELSE IF v >= 0 THEN (v \div 256^(k - 1)) % 256
        ELSE 255 - (((-v - 1) \div 256^(k - 1)) % 256)]

At(src, i) == IF i \in 1..Len(src) THEN src[i] ELSE Junk
Field(src, at, w) == [k \in 1..w |-> At(src, at + k)]

DecInt(bs) ==
    IF \E k \in 1..4 : bs[k] = Junk THEN JunkInt
    ELSE IF bs[4] < 128 THEN bs[1] + 256 * bs[2] + 65536 * bs[3] + 16777216 * bs[4]
    ELSE -1 - ((255 - bs[1]) + 256 * (255 - bs[2]) + 65536 * (255 - bs[3])
               + 16777216 * (255 - bs[4]))

(* A size_t or a uint32_t: a value past what TLC's integers hold, or past  *)
(* any buffer, is as unusable as junk.                                     *)
DecSize(bs) ==
    IF \E k \in DOMAIN bs : bs[k] = Junk \/ (k >= 4 /\ bs[k] >= 128) \/ (k > 4 /\ bs[k] > 0)
    THEN JunkInt
    ELSE DecInt(SubSeq(bs, 1, 4))

Bytes(src, at, n) == IF n \in 0..BufSize THEN [k \in 1..n |-> At(src, at + k)] ELSE <<Junk>>

Put(at, bs) == [at |-> at, bytes |-> bs]

(* memcpy of the writes, in order, to mem at base; a byte past the end of   *)
(* mem is dropped.                                                          *)
ApplyWrites(mem, base, ws) ==
    LET one(m, w) == [i \in DOMAIN m |->
                        IF i - base - w.at \in 1..Len(w.bytes)
                        THEN w.bytes[i - base - w.at] ELSE m[i]]
    IN FoldLeft(one, mem, ws)

-----------------------------------------------------------------------------
(* A log record: the header fields of LogRecord and the payload of every   *)
(* subclass; a class leaves the fields it does not have blank.             *)
Blank == [type |-> 0, lsn |-> 0, len |-> 0, tid |-> 0, prev |-> 0,
          val |-> <<>>, newVal |-> <<>>, rid |-> <<0, 0>>, tab |-> <<>>,
          pno |-> 0, oldPage |-> <<>>, newPage |-> <<>>, undoNext |-> 0,
          cols |-> <<>>, pageIds |-> <<>>, pages |-> <<>>, hdr |-> <<>>]

(* Begin-, Commit-, Abort- and EndLogRecord(txn_id, prev_lsn).             *)
HeaderLogRecord(ty, t, prev) ==
    [Blank EXCEPT !.type = ty, !.len = Layout.data, !.tid = t, !.prev = prev]

(* Insert- and DeleteLogRecord: table_name_size_ counts the NUL, which     *)
(* serialize copies too; undo_next is -1.                                  *)
TupleLogRecord(ty, t, prev, v, rid, name) ==
    [HeaderLogRecord(ty, t, prev) EXCEPT
        !.val = v, !.rid = rid, !.tab = name \o <<0>>, !.undoNext = -1,
        !.len = Layout.data + IntW + Len(v) + 2 * IntW + SizeW + Len(name) + 1]

InsertLogRecord(t, prev, v, rid, name) == TupleLogRecord(T.INSERT, t, prev, v, rid, name)

DeleteLogRecord(t, prev, v, rid, name) == TupleLogRecord(T.DELETE, t, prev, v, rid, name)

UpdateLogRecord(t, prev, newV, oldV, rid, name) ==
    [HeaderLogRecord(T.UPDATE, t, prev) EXCEPT
        !.val = oldV, !.newVal = newV, !.rid = rid, !.tab = name \o <<0>>,
        !.undoNext = -1,
        !.len = Layout.data + 2 * IntW + Len(oldV) + Len(newV) + 2 * IntW
                + SizeW + Len(name) + 1]

(* PageLogRecord with set_new_page; tab_name.size() has no NUL.            *)
PageLogRecord(t, prev, name, pno, oldP, newP) ==
    [HeaderLogRecord(T.PAGE_SET, t, prev) EXCEPT
        !.tab = name, !.pno = pno, !.oldPage = oldP, !.newPage = newP,
        !.len = Layout.data + SizeW + Len(name) + SizeW + 2 * PageSize]

UndoNextLogRecord(t, prev, u) ==
    [HeaderLogRecord(T.UNDO_NEXT, t, prev) EXCEPT
        !.undoNext = u, !.len = Layout.data + IntW]

(* IndexPagesLogRecord(txn, prev, idx_name), then add_page for each page   *)
(* and add_file_hdr.                                                        *)
IndexPagesLogRecord(t, prev, name, ids, pgs, hdr) ==
    [HeaderLogRecord(T.INDEX_PAGE, t, prev) EXCEPT
        !.tab = name, !.pageIds = ids, !.pages = pgs, !.hdr = hdr,
        !.len = Layout.data + SizeW + Len(name) + SizeW
                + Len(pgs) * (PageSize + 2 * IntW) + IntW + Len(hdr)]

(* Create- and DropIndexLogRecord: the length counts one byte per column   *)
(* and no bytes for the table name.                                         *)
IndexDdlLogRecord(ty, t, prev, name, cols) ==
    [HeaderLogRecord(ty, t, prev) EXCEPT
        !.tab = name, !.cols = cols,
        !.len = Layout.data + (Len(cols) + 2) * SizeW + Len(cols)
                + FoldLeft(LAMBDA acc, c : acc + Len(c), 0, cols)]

CreateIndexLogRecord(t, prev, name, cols) == IndexDdlLogRecord(T.CREATE_INDEX, t, prev, name, cols)

DropIndexLogRecord(t, prev, name, cols) == IndexDdlLogRecord(T.DROP_INDEX, t, prev, name, cols)

-----------------------------------------------------------------------------
(* serialize: LogRecord::serialize, then the subclass's payload.           *)
HeaderWrites(r) ==
    << Put(0, LE(r.type, IntW)), Put(Layout.lsn, LE(r.lsn, IntW)),
       Put(Layout.totLen, LE(r.len, IntW)), Put(Layout.tid, LE(r.tid, IntW)),
       Put(Layout.prev, LE(r.prev, IntW)) >>

RidBytes(rid) == LE(rid[1], IntW) \o LE(rid[2], IntW)

(* Insert- and DeleteLogRecord::serialize: size and data of the image,     *)
(* rid, table_name_size_ and the name, then undo_next after them.          *)
TupleWrites(r) ==
    LET o1 == Layout.data + IntW + Len(r.val)
        o2 == o1 + 2 * IntW
        o3 == o2 + SizeW
    IN << Put(Layout.data, LE(Len(r.val), IntW)), Put(Layout.data + IntW, r.val),
          Put(o1, RidBytes(r.rid)), Put(o2, LE(Len(r.tab), SizeW)), Put(o3, r.tab),
          Put(o3 + Len(r.tab), LE(r.undoNext, IntW)) >>

UpdateWrites(r) ==
    LET o1 == Layout.data + IntW + Len(r.val)
        o2 == o1 + IntW + Len(r.newVal)
        o3 == o2 + 2 * IntW
        o4 == o3 + SizeW
    IN << Put(Layout.data, LE(Len(r.val), IntW)), Put(Layout.data + IntW, r.val),
          Put(o1, LE(Len(r.newVal), IntW)), Put(o1 + IntW, r.newVal),
          Put(o2, RidBytes(r.rid)), Put(o3, LE(Len(r.tab), SizeW)), Put(o4, r.tab),
          Put(o4 + Len(r.tab), LE(r.undoNext, IntW)) >>

PageWrites(r) ==
    LET o1 == Layout.data + SizeW + Len(r.tab)
    IN << Put(Layout.data, LE(Len(r.tab), SizeW)), Put(Layout.data + SizeW, r.tab),
          Put(o1, LE(r.pno, SizeW)), Put(o1 + SizeW, r.oldPage),
          Put(o1 + SizeW + PageSize, r.newPage) >>

(* IndexPagesLogRecord::serialize copies each page id and hdr_len to dest  *)
(* itself, not to dest + offset, while offset still advances past them.   *)
IndexPagesWrites(r) ==
    LET n     == Len(r.pages)
        oIds  == Layout.data + SizeW + Len(r.tab) + SizeW
        oPgs  == oIds + n * 2 * IntW
        oHdr  == oPgs + n * PageSize + IntW
    IN << Put(Layout.data, LE(Len(r.tab), SizeW)), Put(Layout.data + SizeW, r.tab),
          Put(oIds - SizeW, LE(n, SizeW)) >>
       \o [i \in 1..n |-> Put(0, RidBytes(r.pageIds[i]))]
       \o [i \in 1..n |-> Put(oPgs + (i - 1) * PageSize, r.pages[i])]
       \o << Put(0, LE(Len(r.hdr), IntW)), Put(oHdr, r.hdr) >>

(* Create- and DropIndexLogRecord::serialize: table name, column count and *)
(* each column as length and bytes.                                         *)
IndexDdlWrites(r) ==
    LET o0 == Layout.data + SizeW + Len(r.tab) + SizeW
        col(acc, c) == [ws |-> acc.ws \o << Put(acc.o, LE(Len(c), SizeW)),
                                            Put(acc.o + SizeW, c) >>,
                        o  |-> acc.o + SizeW + Len(c)]
    IN << Put(Layout.data, LE(Len(r.tab), SizeW)), Put(Layout.data + SizeW, r.tab),
          Put(o0 - SizeW, LE(Len(r.cols), SizeW)) >>
       \o FoldLeft(col, [ws |-> <<>>, o |-> o0], r.cols).ws

Serialize(r) ==
    HeaderWrites(r) \o
        CASE r.type \in {T.INSERT, T.DELETE}           -> TupleWrites(r)
          [] r.type = T.UPDATE                          -> UpdateWrites(r)
          [] r.type = T.PAGE_SET                        -> PageWrites(r)
          [] r.type = T.UNDO_NEXT                       -> << Put(Layout.data, LE(r.undoNext, IntW)) >>
          [] r.type = T.INDEX_PAGE                      -> IndexPagesWrites(r)
          [] r.type \in {T.CREATE_INDEX, T.DROP_INDEX}  -> IndexDdlWrites(r)
          [] OTHER                                      -> << >>

-----------------------------------------------------------------------------
(* deserialize: LogRecord::deserialize, then the subclass's payload.       *)
DeserializeHeader(src) ==
    [Blank EXCEPT !.type = DecInt(Field(src, 0, IntW)),
                  !.lsn  = DecInt(Field(src, Layout.lsn, IntW)),
                  !.len  = DecSize(Field(src, Layout.totLen, IntW)),
                  !.tid  = DecInt(Field(src, Layout.tid, IntW)),
                  !.prev = DecInt(Field(src, Layout.prev, IntW))]

ReadRid(src, at) == <<DecInt(Field(src, at, IntW)), DecInt(Field(src, at + IntW, IntW))>>

(* Insert- and DeleteLogRecord::deserialize; RmRecord::Deserialize reads   *)
(* the size and then the data.                                             *)
TupleDeserialize(src) ==
    LET size == DecInt(Field(src, Layout.data, IntW))
        o1   == Layout.data + size + IntW
        tsz  == DecSize(Field(src, o1 + 2 * IntW, SizeW))
        o3   == o1 + 2 * IntW + SizeW
    IN [DeserializeHeader(src) EXCEPT
           !.val = Bytes(src, Layout.data + IntW, size), !.rid = ReadRid(src, o1),
           !.tab = Bytes(src, o3, tsz), !.undoNext = DecInt(Field(src, o3 + tsz, IntW))]

(* A fault the round trip must catch: the offset of the new image computed *)
(* without the size field of the old one.                                  *)
UpdateDeserializeNoSizeSkip(src) ==
    LET s1  == DecInt(Field(src, Layout.data, IntW))
        o1  == Layout.data + s1
        s2  == DecInt(Field(src, o1, IntW))
        o2  == o1 + s2 + IntW
        tsz == DecSize(Field(src, o2 + 2 * IntW, SizeW))
        o4  == o2 + 2 * IntW + SizeW
    IN [DeserializeHeader(src) EXCEPT
           !.val = Bytes(src, Layout.data + IntW, s1), !.newVal = Bytes(src, o1 + IntW, s2),
           !.rid = ReadRid(src, o2), !.tab = Bytes(src, o4, tsz),
           !.undoNext = DecInt(Field(src, o4 + tsz, IntW))]

UpdateDeserialize(src) ==
    LET s1  == DecInt(Field(src, Layout.data, IntW))
        o1  == Layout.data + s1 + IntW
        s2  == DecInt(Field(src, o1, IntW))
        o2  == o1 + s2 + IntW
        tsz == DecSize(Field(src, o2 + 2 * IntW, SizeW))
        o4  == o2 + 2 * IntW + SizeW
    IN [DeserializeHeader(src) EXCEPT
           !.val = Bytes(src, Layout.data + IntW, s1), !.newVal = Bytes(src, o1 + IntW, s2),
           !.rid = ReadRid(src, o2), !.tab = Bytes(src, o4, tsz),
           !.undoNext = DecInt(Field(src, o4 + tsz, IntW))]

PageDeserialize(src) ==
    LET tsz == DecSize(Field(src, Layout.data, SizeW))
        o1  == Layout.data + SizeW + tsz
    IN [DeserializeHeader(src) EXCEPT
           !.tab = Bytes(src, Layout.data + SizeW, tsz),
           !.pno = DecSize(Field(src, o1, SizeW)),
           !.oldPage = Bytes(src, o1 + SizeW, PageSize),
           !.newPage = Bytes(src, o1 + SizeW + PageSize, PageSize)]

(* IndexPagesLogRecord::deserialize reads the ids and hdr_len where        *)
(* serialize advanced past them; file_hdr gets the first hdr_len bytes of  *)
(* the PAGE_SIZE it copies.                                                 *)
IndexPagesDeserialize(src) ==
    LET nsz  == DecSize(Field(src, Layout.data, SizeW))
        o1   == Layout.data + SizeW + nsz
        n0   == DecSize(Field(src, o1, SizeW))
        n    == IF n0 \in 0..BufSize THEN n0 ELSE 0
        oIds == o1 + SizeW
        oPgs == oIds + n * 2 * IntW
        oHl  == oPgs + n * PageSize
    IN [DeserializeHeader(src) EXCEPT
           !.tab = Bytes(src, Layout.data + SizeW, nsz),
           !.pageIds = [i \in 1..n |-> ReadRid(src, oIds + (i - 1) * 2 * IntW)],
           !.pages = [i \in 1..n |-> Bytes(src, oPgs + (i - 1) * PageSize, PageSize)],
           !.hdr = Bytes(src, oHl + IntW, DecInt(Field(src, oHl, IntW)))]

RECURSIVE ReadCols(_, _, _)
ReadCols(src, at, n) ==
    IF n <= 0 THEN << >>
    ELSE LET len == DecSize(Field(src, at, SizeW))
         IN IF len = JunkInt THEN << <<Junk>> >>
            ELSE << Bytes(src, at + SizeW, len) >> \o ReadCols(src, at + SizeW + len, n - 1)

IndexDdlDeserialize(src) ==
    LET tsz == DecSize(Field(src, Layout.data, SizeW))
        o1  == Layout.data + SizeW + tsz
        n   == DecSize(Field(src, o1, SizeW))
    IN [DeserializeHeader(src) EXCEPT
           !.tab = Bytes(src, Layout.data + SizeW, tsz),
           !.cols = IF n \in 0..BufSize THEN ReadCols(src, o1 + SizeW, n) ELSE << <<Junk>> >>]

(* The class recovery deserializes a record with, chosen by log_type_.     *)
Deserialize(src) ==
    LET ty == DeserializeHeader(src).type
    IN CASE ty \in {T.INSERT, T.DELETE}          -> TupleDeserialize(src)
         [] ty = T.UPDATE                         -> UpdateDeserialize(src)
         [] ty = T.PAGE_SET                       -> PageDeserialize(src)
         [] ty = T.UNDO_NEXT                      -> [DeserializeHeader(src) EXCEPT
                                                        !.undoNext = DecInt(Field(src, Layout.data, IntW))]
         [] ty = T.INDEX_PAGE                     -> IndexPagesDeserialize(src)
         [] ty \in {T.CREATE_INDEX, T.DROP_INDEX} -> IndexDdlDeserialize(src)
         [] OTHER                                 -> DeserializeHeader(src)

(* disk_manager_->read_log(buf, n, off) into a stack array of n (+1)       *)
(* bytes: the file's bytes from off, junk past its end.                    *)
ReadLog(file, off, n) ==
    IF n \in 0..BufSize
    THEN [k \in 1..n |-> IF off + k <= Len(file) THEN file[off + k] ELSE Junk]
    ELSE << >>

(* The scan of analyze(): read the header at offset, read log_tot_len_     *)
(* bytes and deserialize them, advance offset by log_tot_len_, until       *)
(* read_log finds nothing.  fuel bounds the scan of a log whose lengths     *)
(* do not advance it.                                                       *)
RECURSIVE Scan(_, _, _)
Scan(file, off, fuel) ==
    IF off < 0 \/ off >= Len(file) \/ fuel = 0 THEN << >>
    ELSE LET h == DeserializeHeader(ReadLog(file, off, Layout.data))
         IN << Deserialize(ReadLog(file, off, h.len)) >>
            \o Scan(file, off + (IF h.len = JunkInt THEN -1 - off ELSE h.len), fuel - 1)

-----------------------------------------------------------------------------
(* The writers: a transaction's next record carries its prev_lsn, the LSN  *)
(* of its last record, or INVALID_LSN (-1).                                 *)
PrevLsn(t) ==
    LET mine == {i \in DOMAIN appended : appended[i].tid = t}
    IN IF mine = {} THEN -1 ELSE appended[Max(mine)].lsn

Rid1 == <<1, 0>>

(* The records the writers of the repository construct, over the inputs.   *)
Candidates(t, prev) ==
    LET all ==
          {HeaderLogRecord(k, t, prev) : k \in {T.BEGIN, T.COMMIT, T.ABORT, T.END}}
          \cup {InsertLogRecord(t, prev, v, Rid1, n) : v \in Payloads, n \in Names}
          \cup {DeleteLogRecord(t, prev, v, Rid1, n) : v \in Payloads, n \in Names}
          \cup {UpdateLogRecord(t, prev, nv, ov, Rid1, n) :
                    nv \in Payloads, ov \in Payloads, n \in Names}
          \cup {PageLogRecord(t, prev, n, p, o, w) :
                    n \in Names, p \in {0, 1}, o \in PageImgs, w \in PageImgs}
          \cup {UndoNextLogRecord(t, prev, u) : u \in {-1, prev}}
          \cup {IndexPagesLogRecord(t, prev, n, << <<3, 1>> >>, <<g>>, h) :
                    n \in Names, g \in PageImgs, h \in Payloads}
          \cup {CreateIndexLogRecord(t, prev, n, c) : n \in Names, c \in ColLists}
          \cup {DropIndexLogRecord(t, prev, n, c) : n \in Names, c \in ColLists}
    IN {r \in all : r.type \in Kinds}

Init ==
    /\ buffer = [i \in 1..BufSize + 1 |-> 0]
    /\ offset = 0
    /\ globalLsn = 0
    /\ disk = << >>
    /\ appended = << >>
    /\ durable = 0

(* LogBuffer::is_full; the fault the type invariant must catch compares    *)
(* the offset alone.                                                        *)
IsFullOffsetOnly(off, n) == off > BufSize
IsFull(off, n) == off + n > BufSize

(* LogManager::add_log_to_buffer: take the next LSN; when the record does  *)
(* not fit (LogBuffer::is_full), flush first; serialize at offset_ and     *)
(* advance offset_ by log_tot_len_.                                         *)
AddLogToBuffer(r) ==
    LET rec  == [r EXCEPT !.lsn = globalLsn]
        full == IsFull(offset, rec.len)
        base == IF full THEN 0 ELSE offset
    IN /\ disk' = IF full THEN disk \o SubSeq(buffer, 1, offset) ELSE disk
       /\ durable' = IF full THEN Len(appended) ELSE durable
       /\ buffer' = ApplyWrites(buffer, base, Serialize(rec))
       /\ offset' = base + rec.len
       /\ globalLsn' = globalLsn + 1
       /\ appended' = Append(appended, rec)

Write ==
    /\ Len(appended) < MaxRecs
    /\ \E t \in Tids : \E r \in Candidates(t, PrevLsn(t)) : AddLogToBuffer(r)

(* LogManager::flush_log_to_disk: append buffer_[0, offset_) to the file    *)
(* and reset offset_ (commit, abort, or another session).                   *)
FlushLogToDisk ==
    /\ offset > 0
    /\ disk' = disk \o SubSeq(buffer, 1, offset)
    /\ offset' = 0
    /\ durable' = Len(appended)
    /\ UNCHANGED <<buffer, globalLsn, appended>>

Next == Write \/ FlushLogToDisk

Spec == Init /\ [][Next]_vars

-----------------------------------------------------------------------------
TypeOK ==
    /\ buffer \in [1..BufSize + 1 -> 0..255]
    /\ offset \in 0..BufSize
    /\ globalLsn = Len(appended)
    /\ \A i \in 1..Len(disk) : disk[i] \in 0..255
    /\ durable \in 0..Len(appended)

(* What recovery compares: the undo_next of an INSERT, DELETE or UPDATE    *)
(* record is never read, so it is left out.  Of a CREATE_INDEX or          *)
(* DROP_INDEX record only the header is compared: its log_tot_len_ counts  *)
(* one byte per column for the table name (log_manager.h:820-822), so for  *)
(* a name of another length the next record overwrites its tail or a gap   *)
(* follows it, and its body does not come back.                            *)
DdlKinds == {T.CREATE_INDEX, T.DROP_INDEX}
View(r) ==
    CASE r.type \in {T.INSERT, T.DELETE, T.UPDATE} -> [r EXCEPT !.undoNext = 0]
      [] r.type \in DdlKinds -> [Blank EXCEPT !.type = r.type, !.lsn = r.lsn,
                                  !.len = r.len, !.tid = r.tid, !.prev = r.prev]
      [] OTHER -> r

(* Serialise-then-deserialise yields an equal record (spec, section 8), in *)
(* the log as recovery reads it: scanning the log file from offset 0 with  *)
(* each record's log_tot_len_ finds exactly the durable records, in LSN    *)
(* order, and deserializes each to the record that was appended (the      *)
(* header of an index DDL record), whatever flushes happened between the   *)
(* appends, and even after an index DDL record whose length is wrong.     *)
LogRoundTrip ==
    LET got == Scan(disk, 0, MaxRecs + 1)
    IN [i \in DOMAIN got |-> View(got[i])] = [i \in 1..durable |-> View(appended[i])]

====
