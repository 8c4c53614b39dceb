----------------------------- MODULE QueryExec -----------------------------
(***************************************************************************)
(* The SELECT pipeline of the execution layer: two sequential scans with   *)
(* their WHERE conditions (SeqScanExecutor, Filter), the block nested-loop *)
(* join over them (NestedLoopJoinExecutor), and on top of the join either  *)
(* nothing, a SortExecutor (ORDER BY ... LIMIT) or an AggregateExecutor.   *)
(* The root is driven by the usual iterator loop                           *)
(*     for (root->beginTuple(); !root->is_end(); root->nextTuple())        *)
(*         out.push_back(root->Next());                                    *)
(* and each call of that loop is one step; a call runs to completion, with *)
(* every nested call it makes on the children, as the code does (the      *)
(* executors are single-threaded).                                         *)
(*                                                                         *)
(* The left child is either a sequential scan or an IndexScanExecutor over *)
(* the left table's unique index on (ColA, ColC).                          *)
(*                                                                         *)
(* Rows are sequences of INT column values; the left table has the columns *)
(* L.ColA and L.ColC, the right table R.ColB, and a joined row is the left *)
(* row followed by the right row, as make_buff concatenates their bytes.   *)
(***************************************************************************)
EXTENDS Integers, Sequences, SequencesExt, Bags

CONSTANTS
    ColA, ColC,     \* the column names of the left table
    ColB,           \* the column name of the right table
    Vals,           \* the INT values a column may hold
    MaxLRows,       \* rows of the left table
    MaxRRows,       \* rows of the right table
    BufferSize,     \* the join's block size (64 rows or more in the code)
    Plans,          \* the query plans: conditions, top operator, keys, limit
    MaxOut          \* bound on the rows the root loop collects

VARIABLES
    lTab, rTab,     \* the two tables' rows in scan order
    lIndex,         \* the left table's index: its rids in key order
    ixScan,         \* the index scan's range: the positions of lower and upper
    plan,           \* the plan being executed
    join,           \* NestedLoopJoinExecutor's fields and its children's cursors
    sortSt,         \* SortExecutor's records, used_tuple and limit_
    agg,            \* AggregateExecutor's is_end_ and its functions
    phase,          \* the root loop: "init", "loop", "done" or "error"
    out             \* the rows the root loop has collected

vars == <<lTab, rTab, lIndex, ixScan, plan, join, sortSt, agg, phase, out>>

LCols == << [tab |-> "L", name |-> ColA], [tab |-> "L", name |-> ColC] >>
RCols == << [tab |-> "R", name |-> ColB] >>
JoinCols == LCols \o RCols

(***************************************************************************)
(* Filter                                                                  *)
(***************************************************************************)

\* Filter::get_col: the first column of the record with this table and name.
GetCol(cols, tc) ==
    Min({i \in DOMAIN cols : cols[i].tab = tc.tab /\ cols[i].name = tc.name})

\* Filter::compare for TYPE_INT: -1, 0 or 1.
Compare(x, y) == IF x < y THEN -1 ELSE IF x > y THEN 1 ELSE 0

\* Filter::judge: the comparison results each operator accepts.
Accept == [EQ |-> {0}, NE |-> {-1, 1}, LT |-> {-1}, GT |-> {1},
           LE |-> {-1, 0}, GE |-> {0, 1}]
Judge(x, y, op) == Compare(x, y) \in Accept[op]

\* Filter::filter_single: the left column against a value or another column.
FilterSingle(cols, c, row) ==
    Judge(row[GetCol(cols, c.lhs)],
          IF c.isVal THEN c.val ELSE row[GetCol(cols, c.rhs)],
          c.op)

\* Filter::filter: every condition holds.
Filter(cols, conds, row) ==
    \A k \in DOMAIN conds : FilterSingle(cols, conds[k], row)

IntMax == 2147483647

(***************************************************************************)
(* SeqScanExecutor: rid_ is the scan position, Len(tab) + 1 at the end.    *)
(***************************************************************************)

\* The loop of beginTuple and nextTuple: the first row from position i on
\* that passes the scan's conditions.
ScanSeek(tab, cols, conds, i) ==
    LET hits == {k \in i..Len(tab) : Filter(cols, conds, tab[k])}
    IN  IF hits = {} THEN Len(tab) + 1 ELSE Min(hits)

ScanBegin(tab, cols, conds) == ScanSeek(tab, cols, conds, 1)

ScanNextTuple(tab, cols, conds, i) ==
    IF i > Len(tab) THEN i ELSE ScanSeek(tab, cols, conds, i + 1)

(***************************************************************************)
(* The index (its B+tree is not in the source tree: this is the contract   *)
(* of spec 4.3) and IndexScanExecutor. The scan's position is a position   *)
(* in the index's leaf order; the scan ends at the position of upper.      *)
(***************************************************************************)

IxCols == LCols

\* The key of a row: its index columns' values, compared column by column.
IxKey(row) == [i \in DOMAIN IxCols |-> row[GetCol(LCols, IxCols[i])]]
KeyBefore(x, y) == \E i \in DOMAIN x : x[i] < y[i] /\ \A k \in 1..(i - 1) : x[k] = y[k]

\* The leaves' entries: the table's rids in key order.
IndexOrder(tab) ==
    SortSeq([i \in DOMAIN tab |-> i], LAMBDA i, k : KeyBefore(IxKey(tab[i]), IxKey(tab[k])))
IxRow(p) == lTab[lIndex[p]]

\* lower_bound and upper_bound: the first entry with key >= k, or > k.
LowerBound(k) == Min({p \in DOMAIN lIndex : ~KeyBefore(IxKey(IxRow(p)), k)} \cup {Len(lIndex) + 1})
UpperBound(k) == Min({p \in DOMAIN lIndex : KeyBefore(k, IxKey(IxRow(p)))} \cup {Len(lIndex) + 1})

\* fill for TYPE_INT: INT_MIN for the lower key, INT_MAX for the upper.
FillMin == -IntMax - 1
FillMax == IntMax

\* One side of beginTuple's key: for each index column, while every column
\* before it has matched, every value condition on a column of that name
\* with an operator of this side appends its value and counts as a match;
\* the columns after the matched ones are filled. The key buffer holds
\* col_tot_len bytes, so a key of more values is cut to the index width.
BoundKey(ops, fill) ==
    LET step(s, i) ==
            IF s.n # i - 1 THEN s
            ELSE LET m == SelectSeq(plan.lConds, LAMBDA c :
                              c.isVal /\ c.lhs.name = IxCols[i].name /\ c.op \in ops)
                 IN  [n |-> s.n + Len(m), vals |-> s.vals \o [k \in DOMAIN m |-> m[k].val]]
        st == FoldLeft(step, [n |-> 0, vals |-> << >>], [i \in DOMAIN IxCols |-> i])
    IN  [n   |-> st.n,
         key |-> SubSeq(st.vals \o [k \in 1..(Len(IxCols) - st.n) |-> fill], 1, Len(IxCols))]

\* Mutant: the lower key is filled with the maximum (fill's min_or_max
\* flag inverted), so lower_bound passes the rows of a matched prefix.
LowerKeyFillMax == BoundKey({"EQ", "GT", "GE"}, FillMax)

LowerKey == BoundKey({"EQ", "GT", "GE"}, FillMin)
UpperKey == BoundKey({"EQ", "LT", "LE"}, FillMax)

\* The scan's range: leaf_begin and leaf_end unless a side matched.
IxLo == IF LowerKey.n > 0 THEN LowerBound(LowerKey.key) ELSE 1
IxHi == IF UpperKey.n > 0 THEN UpperBound(UpperKey.key) ELSE Len(lIndex) + 1

\* The loops of beginTuple and nextTuple: the first entry from p on, before
\* upper, whose record passes the scan's conditions. (The range depends
\* only on the plan and the index, which no step of a query changes, so
\* it is computed once, into ixScan, by Init.)
IxSeek(p) ==
    LET hits == {k \in p..(ixScan.hi - 1) : Filter(LCols, plan.lConds, IxRow(k))}
    IN  IF hits = {} THEN ixScan.hi ELSE Min(hits)

IxBegin == IxSeek(ixScan.lo)
IxNextTuple(p) == IF p >= ixScan.hi THEN p ELSE IxSeek(p + 1)

\* The left child: a sequential scan or the index scan.
Indexed == plan.lScan = "index"
LRow(i) == IF Indexed THEN IxRow(i) ELSE lTab[i]
LBegin == IF Indexed THEN IxBegin ELSE ScanBegin(lTab, LCols, plan.lConds)
LNext(i) == IF Indexed THEN IxNextTuple(i) ELSE ScanNextTuple(lTab, LCols, plan.lConds, i)
LEnd(i) == IF Indexed THEN i >= ixScan.hi ELSE i > Len(lTab)
RBegin == ScanBegin(rTab, RCols, plan.rConds)
RNext(i) == ScanNextTuple(rTab, RCols, plan.rConds, i)
REnd(i) == i > Len(rTab)

(***************************************************************************)
(* NestedLoopJoinExecutor                                                  *)
(***************************************************************************)

\* Mutant: the block takes one row more than buffer_size (<= for <).
RECURSIVE FillBlockOverfull(_, _)
FillBlockOverfull(j, k) ==
    IF k > BufferSize \/ LEnd(j.l) THEN j
    ELSE FillBlockOverfull([j EXCEPT !.lrec = Append(@, LRow(j.l)), !.l = LNext(j.l)],
                           k + 1)

\* The inner loop of make_buff that fills l_records with up to buffer_size
\* rows of the left child.
RECURSIVE FillBlock(_, _)
FillBlock(j, k) ==
    IF k >= BufferSize \/ LEnd(j.l) THEN j
    ELSE FillBlock([j EXCEPT !.lrec = Append(@, LRow(j.l)), !.l = LNext(j.l)],
                   k + 1)

\* The joined rows of one right row with the block that pass the join
\* conditions, in the block's order.
Joined(lrec, rrow) ==
    SelectSeq([k \in DOMAIN lrec |-> lrec[k] \o rrow],
              LAMBDA row : Filter(JoinCols, plan.joinConds, row))

\* x after n rounds of a loop body that leaves a finished state unchanged
\* (each round's state is bound once, as a value, before the body reads it).
Iterate(Body(_), x, n) ==
    LET f[k \in 0..n] ==
            IF k = 0 THEN x
            ELSE CHOOSE y \in {Body(j) : j \in {f[k - 1]}} : TRUE
    IN  f[n]

\* One round of make_buff's loops: refill the empty block from the left
\* child (or set isend when it is exhausted); at the end of the right child
\* clear the block and restart the right child; otherwise join the right
\* row with the block and either stop with the rows queued or step to the
\* next right row. A state with isend set or rows queued is final.
MakeBuffRound(j) ==
    IF j.isend \/ j.buff # << >> THEN j
    ELSE IF j.lrec = << >>
         THEN IF LEnd(j.l) THEN [j EXCEPT !.isend = TRUE] ELSE FillBlock(j, 0)
    ELSE IF REnd(j.r) THEN [j EXCEPT !.lrec = << >>, !.r = RBegin]
    ELSE LET rows == Joined(j.lrec, rTab[j.r])
         IN  IF rows # << >> THEN [j EXCEPT !.buff = rows]
             ELSE [j EXCEPT !.r = RNext(@)]

\* Mutant: make_buff's outer loop runs only while the left child has rows
\* (for (; !left_->is_end(); ) without || !l_records.empty()), so the last
\* block is dropped when its first batch has been returned.
MakeBuffLeftOnly(j) ==
    Iterate(MakeBuffRound,
            IF LEnd(j.l) THEN [j EXCEPT !.isend = TRUE] ELSE j,
            (Len(lTab) + 1) * (Len(rTab) + 3))

\* make_buff: the rounds until isend is set or rows are queued; a block
\* takes at most one round per right row and two more, so the bound below
\* is never reached.
MakeBuffBound == (Len(lTab) + 1) * (Len(rTab) + 3)
MakeBuff(j) == Iterate(MakeBuffRound, j, MakeBuffBound)

\* Mutant: beginTuple restarts the children without filling the queue.
JoinBeginNoFill(j) ==
    [l |-> LBegin, r |-> RBegin, lrec |-> << >>, buff |-> << >>, isend |-> j.isend]

\* beginTuple: restart both children, clear the block and the queue, and
\* fill the queue; isend keeps its value (only the constructor clears it).
JoinBegin(j) ==
    MakeBuff([l |-> LBegin, r |-> RBegin, lrec |-> << >>, buff |-> << >>,
              isend |-> j.isend])

\* nextTuple: nothing while rows are queued; otherwise step the right child
\* past the row that produced the last batch and fill the queue again.
JoinNextTuple(j) ==
    IF j.isend \/ j.buff # << >> THEN j
    ELSE MakeBuff([j EXCEPT !.r = IF REnd(@) THEN @ ELSE RNext(@)])

\* Next: pops the queue's head; it throws InternalError on an empty queue.
JoinNextOk(j) == j.buff # << >>
JoinPop(j) == [j EXCEPT !.buff = Tail(@)]

\* The constructor.
JoinInit == [l |-> 1, r |-> 1, lrec |-> << >>, buff |-> << >>, isend |-> FALSE]

\* The loop for (; !is_end(); nextTuple()) Next() that Sort and Aggregate
\* run over the join, collecting its rows; the join ends drained. A Next
\* on an empty queue ends the loop with the error flag (the InternalError).
DrainRound(d) ==
    IF d.j.isend \/ d.err THEN d
    ELSE IF ~JoinNextOk(d.j) THEN [d EXCEPT !.err = TRUE]
    ELSE [j |-> JoinNextTuple(JoinPop(d.j)), rows |-> Append(d.rows, Head(d.j.buff)),
          err |-> FALSE]
Drain(j) ==
    Iterate(DrainRound, [j |-> j, rows |-> << >>, err |-> FALSE],
            Len(lTab) * Len(rTab) + 1)

(***************************************************************************)
(* SortExecutor                                                            *)
(***************************************************************************)

\* The constructor's cols_map: each key column's metadata stored under its
\* column name only, a later key overwriting an earlier one of that name.
ColsMap(keys) ==
    FoldLeft(LAMBDA m, k : (JoinCols[GetCol(JoinCols, k)].name :> GetCol(JoinCols, k)) @@ m,
             [x \in {} |-> 0], keys)

\* The comparator handed to std::sort: the first of key_cols_ on which the
\* rows differ decides, its column looked up in cols_map by its name.
RECURSIVE KeyLess(_, _, _, _)
KeyLess(st, x, y, i) ==
    IF i > Len(st.keys) THEN FALSE
    ELSE LET col == st.colsMap[st.keys[i].name]
             c   == Compare(x[col], y[col])
         IN  IF c # 0 THEN (IF st.keys[i].desc THEN c > 0 ELSE c < 0)
             ELSE KeyLess(st, x, y, i + 1)
SortLess(st, x, y) == KeyLess(st, x, y, 1)

\* The orders std::sort may leave s in: it is not stable, so rows the
\* comparator finds equal may come in any order.
RECURSIVE SortOrders(_, _)
SortOrders(s, st) ==
    IF s = << >> THEN {<< >>}
    ELSE LET first == {i \in DOMAIN s : \A k \in DOMAIN s : ~SortLess(st, s[k], s[i])}
         IN  UNION {{<< e[1] >> \o t : t \in SortOrders(e[2], st)} :
                    e \in {<< s[i], RemoveAt(s, i) >> : i \in first}}

\* The constructor: key_cols_ and cols_map, no records, used_tuple 0.
SortInit(p) == [keys |-> p.keys, colsMap |-> ColsMap(p.keys),
                records |-> << >>, used |-> 0, limit |-> p.limit]

\* is_end.
SortIsEnd(st) == st.used >= st.limit \/ st.used >= Len(st.records)

(***************************************************************************)
(* AggregateExecutor                                                       *)
(***************************************************************************)

\* INT addition wraps at 32 bits (TLC's own integers are 32-bit, so the
\* sums stay within them and only the wrap is written out).
Wrap32(x) ==
    IF x > IntMax THEN x - IntMax - IntMax - 2
    ELSE IF x < -IntMax - 1 THEN x + IntMax + IntMax + 2 ELSE x

\* An uninitialised byte range of the output record (RmRecord(len_)).
Junk == -1

\* function's constructor: COUNT and SUM start at 0, MAX and MIN start
\* null (their result is not read before the first row sets it).
FuncInit(sel) ==
    [f      |-> sel.f,
     col    |-> GetCol(JoinCols, sel.col),
     result |-> 0,
     isNull |-> sel.f \notin {"COUNT", "SUM"}]

\* function::calc for TYPE_INT.
Calc(fn, v) ==
    IF fn.isNull THEN [fn EXCEPT !.result = v, !.isNull = FALSE]
    ELSE [fn EXCEPT !.result =
            CASE fn.f = "COUNT" -> Wrap32(@ + 1)
              [] fn.f = "MAX"   -> IF v > @ THEN v ELSE @
              [] fn.f = "MIN"   -> IF v < @ THEN v ELSE @
              [] fn.f = "SUM"   -> Wrap32(@ + v)]

\* One row of the child fed to every function (the body of Next's loop).
CalcRow(fns, row) == [i \in DOMAIN fns |-> Calc(fns[i], row[fns[i].col])]

\* The child's rows fed in order (Next's loop).
RECURSIVE CalcRows(_, _)
CalcRows(fns, rows) ==
    IF rows = << >> THEN fns
    ELSE CHOOSE r \in {CalcRows(g, Tail(rows)) : g \in {CalcRow(fns, Head(rows))}} : TRUE

\* The output record: every function's result moved to offset 0, in order.
AggRow(fns) ==
    FoldLeft(LAMBDA row, fn : [row EXCEPT ![1] = fn.result],
             [i \in DOMAIN fns |-> Junk], fns)

\* The constructor: is_end_ is false only when a COUNT must return its 0.
AggInit(p) ==
    [isEnd |-> \A i \in DOMAIN p.funcs : p.funcs[i].f # "COUNT",
     fns   |-> [i \in DOMAIN p.funcs |-> FuncInit(p.funcs[i])]]

AggIsEnd(a, j) == a.isEnd /\ j.isend

(***************************************************************************)
(* The root loop                                                           *)
(***************************************************************************)

Init ==
    /\ plan \in Plans
    \* only the index reads ColC: a plan without it holds ColC at one value
    /\ lTab \in BoundedSeq({<< v, w >> : v \in Vals,
                                         w \in IF plan.lScan = "index" THEN Vals
                                              ELSE {Min(Vals)}}, MaxLRows)
    /\ rTab \in BoundedSeq({<< v >> : v \in Vals}, MaxRRows)
    \* a plan with an index scan has the index, which is unique, so the
    \* table's keys are distinct
    /\ plan.lScan = "index" => IsInjective([i \in DOMAIN lTab |-> IxKey(lTab[i])])
    /\ lIndex = IF plan.lScan = "index" THEN IndexOrder(lTab) ELSE << >>
    /\ ixScan = [lo |-> IxLo, hi |-> IxHi]
    /\ join = JoinInit
    /\ sortSt = SortInit(plan)
    /\ agg = AggInit(plan)
    /\ phase = "init"
    /\ out = << >>

\* The root is the join: beginTuple fills its queue.
BeginJoin ==
    /\ phase = "init" /\ plan.top = "join"
    /\ join' = JoinBegin(join)
    /\ phase' = "loop"
    /\ UNCHANGED <<lTab, rTab, lIndex, ixScan, plan, sortSt, agg, out>>

\* SortExecutor::beginTuple: an unlimited limit_ becomes INT_MAX, the
\* join's rows are appended to records, and records are sorted when there
\* are key columns.
BeginSort ==
    /\ phase = "init" /\ plan.top = "sort"
    /\ \E d \in {Drain(JoinBegin(join))} :
       LET recs == sortSt.records \o d.rows
       IN  /\ join' = d.j
           /\ IF d.err THEN phase' = "error" /\ UNCHANGED sortSt
              ELSE /\ phase' = "loop"
                   /\ \E ord \in IF plan.keys = << >> THEN {recs}
                                 ELSE SortOrders(recs, sortSt) :
                        sortSt' = [sortSt EXCEPT
                                     !.records = ord,
                                     !.limit = IF @ < 0 THEN IntMax ELSE @]
    /\ UNCHANGED <<lTab, rTab, lIndex, ixScan, plan, agg, out>>

\* AggregateExecutor::beginTuple begins the join.
BeginAgg ==
    /\ phase = "init" /\ plan.top = "agg"
    /\ join' = JoinBegin(join)
    /\ phase' = "loop"
    /\ UNCHANGED <<lTab, rTab, lIndex, ixScan, plan, sortSt, agg, out>>

RootIsEnd ==
    CASE plan.top = "join" -> join.isend
      [] plan.top = "sort" -> SortIsEnd(sortSt)
      [] plan.top = "agg"  -> AggIsEnd(agg, join)

\* One pass of the root loop over the join: Next, then nextTuple.
NextJoin ==
    /\ phase = "loop" /\ plan.top = "join" /\ ~RootIsEnd
    /\ Len(out) < MaxOut
    /\ IF ~JoinNextOk(join)
       THEN phase' = "error" /\ UNCHANGED <<join, out>>
       ELSE /\ out' = Append(out, Head(join.buff))
            /\ join' = JoinNextTuple(JoinPop(join))
            /\ UNCHANGED phase
    /\ UNCHANGED <<lTab, rTab, lIndex, ixScan, plan, sortSt, agg>>

\* One pass over the sort: Next returns records[used_tuple], nextTuple
\* increments used_tuple.
NextSort ==
    /\ phase = "loop" /\ plan.top = "sort" /\ ~RootIsEnd
    /\ Len(out) < MaxOut
    /\ out' = Append(out, sortSt.records[sortSt.used + 1])
    /\ sortSt' = [sortSt EXCEPT !.used = @ + 1]
    /\ UNCHANGED <<lTab, rTab, lIndex, ixScan, plan, join, agg, phase>>

\* Mutant: Next leaves is_end_ as it was.
NextAggKeepEnd ==
    /\ phase = "loop" /\ plan.top = "agg" /\ ~RootIsEnd
    /\ Len(out) < MaxOut
    /\ \E d \in {Drain(join)} :
       \E fns \in {CalcRows(agg.fns, d.rows)} :
           /\ join' = d.j
           /\ IF d.err THEN phase' = "error" /\ UNCHANGED <<agg, out>>
              ELSE /\ agg' = [agg EXCEPT !.fns = fns]
                   /\ out' = Append(out, AggRow(fns))
                   /\ UNCHANGED phase
    /\ UNCHANGED <<lTab, rTab, lIndex, ixScan, plan, sortSt>>

\* One pass over the aggregate: Next drains the join into the functions,
\* builds the output record and sets is_end_; nextTuple does nothing.
NextAgg ==
    /\ phase = "loop" /\ plan.top = "agg" /\ ~RootIsEnd
    /\ Len(out) < MaxOut
    /\ \E d \in {Drain(join)} :
       \E fns \in {CalcRows(agg.fns, d.rows)} :
           /\ join' = d.j
           /\ IF d.err THEN phase' = "error" /\ UNCHANGED <<agg, out>>
              ELSE /\ agg' = [isEnd |-> TRUE, fns |-> fns]
                   /\ out' = Append(out, AggRow(fns))
                   /\ UNCHANGED phase
    /\ UNCHANGED <<lTab, rTab, lIndex, ixScan, plan, sortSt>>

\* The loop's condition fails: the query's rows are complete.
Finish ==
    /\ phase = "loop" /\ RootIsEnd
    /\ phase' = "done"
    /\ UNCHANGED <<lTab, rTab, lIndex, ixScan, plan, join, sortSt, agg, out>>

Next ==
    \/ BeginJoin \/ BeginSort \/ BeginAgg
    \/ NextJoin \/ NextSort \/ NextAgg
    \/ Finish

\* The executors run on the session's thread, which keeps calling until the
\* loop ends.
Spec == Init /\ [][Next]_vars /\ WF_vars(Next)

(***************************************************************************)
(* Reference semantics of the SELECT                                       *)
(***************************************************************************)

\* The pairs of left and right rows that pass their scans' conditions and
\* the join conditions, and the bag of joined rows they make.
SqlHolds(x, op, y) ==
    CASE op = "EQ" -> x = y  [] op = "NE" -> x # y
      [] op = "LT" -> x < y  [] op = "GT" -> x > y
      [] op = "LE" -> x <= y [] op = "GE" -> x >= y
Where(cols, conds, row) ==
    \A k \in DOMAIN conds :
        LET c == conds[k]
        IN  SqlHolds(row[GetCol(cols, c.lhs)], c.op,
                     IF c.isVal THEN c.val ELSE row[GetCol(cols, c.rhs)])
RefPairs ==
    {p \in (1..Len(lTab)) \X (1..Len(rTab)) :
        /\ Where(LCols, plan.lConds, lTab[p[1]])
        /\ Where(RCols, plan.rConds, rTab[p[2]])
        /\ Where(JoinCols, plan.joinConds, lTab[p[1]] \o rTab[p[2]])}
RefBag ==
    LET rows == {lTab[p[1]] \o rTab[p[2]] : p \in RefPairs}
    IN  [row \in rows |->
            Cardinality({p \in RefPairs : lTab[p[1]] \o rTab[p[2]] = row})]
RefCount == Cardinality(RefPairs)

\* ORDER BY: x comes before y on the first key column, resolved by table
\* and column name, on which they differ.
OrderedBefore(x, y) ==
    \E i \in DOMAIN plan.keys :
        LET col(k) == GetCol(JoinCols, plan.keys[k])
            c(k)   == Compare(x[col(k)], y[col(k)])
        IN  /\ \A k \in 1..(i - 1) : c(k) = 0
            /\ IF plan.keys[i].desc THEN c(i) > 0 ELSE c(i) < 0

\* The value of an aggregate over the selected rows; the engine has no NULL,
\* so SUM, MAX and MIN of no rows give no output row.
AggValue(sel) ==
    LET val(p) == (lTab[p[1]] \o rTab[p[2]])[GetCol(JoinCols, sel.col)]
        v      == {val(p) : p \in RefPairs}
    IN  CASE sel.f = "COUNT" -> RefCount
          [] sel.f = "SUM"   -> Wrap32(MapThenSumSet(val, RefPairs))
          [] sel.f = "MAX"   -> Max(v)
          [] sel.f = "MIN"   -> Min(v)

\* The rows the SELECT returns, for an aggregate.
AggRef ==
    IF RefCount = 0 /\ \A i \in DOMAIN plan.funcs : plan.funcs[i].f # "COUNT"
    THEN << >>
    ELSE << [i \in DOMAIN plan.funcs |-> AggValue(plan.funcs[i])] >>

\* The number of rows a LIMIT keeps (a negative limit keeps them all).
Limited(n) == IF plan.limit < 0 \/ plan.limit >= n THEN n ELSE plan.limit

(***************************************************************************)
(* Properties                                                              *)
(***************************************************************************)

TypeOK ==
    /\ phase \in {"init", "loop", "done", "error"}
    /\ join.l \in 1..(Len(lTab) + 1) /\ join.r \in 1..(Len(rTab) + 1)
    /\ Len(join.lrec) <= BufferSize
    /\ join.isend \in BOOLEAN
    /\ sortSt.used \in 0..Len(sortSt.records)
    /\ out \in Seq(Seq(Int))

\* Join contract: between two calls of the root loop the join is either
\* ended or holds a queued row, so no Next ever reaches the InternalError of
\* an empty queue (make_buff returns only with a row queued or isend set,
\* and nextTuple refills only an empty queue).
JoinBuffered ==
    /\ phase # "error"
    /\ phase = "loop" /\ ~join.isend => join.buff # << >>

\* The plans whose result the executors get right, and the three shapes
\* they do not: an index scan given two conditions of one side on one
\* column (beginTuple appends both values to the key, index_scan.h:128),
\* two sort keys of one column name (cols_map is keyed by name,
\* execution_sort.h:41), and more than one aggregate function (every
\* result is moved to offset 0, executor_aggregate.h:142).
LowerOps == {"EQ", "GT", "GE"}
UpperOps == {"EQ", "LT", "LE"}
OneCondPerSide(conds) ==
    \A ops \in {LowerOps, UpperOps}, i \in DOMAIN IxCols :
        Cardinality({k \in DOMAIN conds :
                        conds[k].isVal /\ conds[k].lhs.name = IxCols[i].name /\ conds[k].op \in ops}) <= 1
ResultDefined(p) ==
    /\ p.lScan = "index" => OneCondPerSide(p.lConds)
    /\ \A i, k \in DOMAIN p.keys : i # k => p.keys[i].name # p.keys[k].name
    /\ Len(p.funcs) <= 1

\* Result: when the loop ends, a plain join returned each selected pair's
\* row exactly once (across blocks of BufferSize left rows and restarts of
\* the right scan); a sort returned LIMIT rows of them in ORDER BY order,
\* none left out that orders before the last one returned; an aggregate
\* returned its value over them; for every plan but the three shapes of
\* ResultDefined, which the plans include and this leaves out.
QueryResultCorrect ==
    phase = "done" /\ ResultDefined(plan) =>
        CASE plan.top = "join" -> ToBag(out) = RefBag
          [] plan.top = "sort" ->
                /\ ToBag(out) \sqsubseteq RefBag
                /\ Len(out) = Limited(RefCount)
                /\ \A i, k \in DOMAIN out : i < k => ~OrderedBefore(out[k], out[i])
                /\ out # << >> =>
                      \A x \in BagToSet(RefBag (-) ToBag(out)) :
                          ~OrderedBefore(x, Last(out))
          [] plan.top = "agg" -> out = AggRef

\* Termination: every query's loop ends (each of Sort, Aggregate and the
\* join reports is_end after finitely many calls).
QueryTerminates == <>(phase \in {"done", "error"})

====
