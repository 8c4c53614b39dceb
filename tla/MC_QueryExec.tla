---------------------------- MODULE MC_QueryExec ----------------------------
(***************************************************************************)
(* The SELECT pipeline over a left table of up to three rows and a right   *)
(* table of up to two, with a join block of two rows so that the left      *)
(* table spans two blocks and the right scan restarts between them.        *)
(***************************************************************************)
EXTENDS QueryExec

\* The two columns, as Filter and the sort keys name them.
MC_A == [tab |-> "L", name |-> "a"]
MC_B == [tab |-> "R", name |-> "b"]
MC_C == [tab |-> "L", name |-> "c"]

\* A column compared with a value, and two columns compared.
ValCond(c, op, v) == [lhs |-> c, op |-> op, isVal |-> TRUE, val |-> v, rhs |-> c]
ColCond(c, op, d) == [lhs |-> c, op |-> op, isVal |-> FALSE, val |-> 0, rhs |-> d]

\* WHERE conditions pushed to the left scan, the right scan, and the join.
MC_LConds == {<< >>, << ValCond(MC_A, "GE", 2) >>}
MC_RConds == {<< >>, << ValCond(MC_B, "NE", 1) >>}
MC_JoinConds == {<< >>, << ColCond(MC_A, "EQ", MC_B) >>, << ColCond(MC_A, "LT", MC_B) >>}

\* WHERE conditions of an index scan on (a, c): none; an equality on the
\* prefix; bounds on both columns; a bound on c alone (no prefix, so the
\* scan runs from leaf_begin); a range on a, one bound on each side; a NE,
\* which neither side uses; and two upper-side conditions on a, which
\* beginTuple both puts into the upper key.
MC_IxConds == {<< >>, << ValCond(MC_A, "EQ", 2) >>,
               << ValCond(MC_A, "EQ", 1), ValCond(MC_A, "LE", 1) >>,
               << ValCond(MC_A, "GE", 2), ValCond(MC_C, "LT", 2) >>,
               << ValCond(MC_A, "GT", 1), ValCond(MC_C, "LE", 1) >>,
               << ValCond(MC_C, "GE", 2) >>,
               << ValCond(MC_A, "LE", 1), ValCond(MC_A, "GE", 1) >>,
               << ValCond(MC_A, "EQ", 1), ValCond(MC_C, "NE", 1) >>}

\* ORDER BY a; ORDER BY b DESC, a (key columns of different names).
MC_Keys == {<< [tab |-> "L", name |-> "a", desc |-> FALSE] >>,
            << [tab |-> "R", name |-> "b", desc |-> TRUE],
               [tab |-> "L", name |-> "a", desc |-> FALSE] >>}

\* Aggregate functions: COUNT(a), SUM(b), MAX(a), MIN(b) alone, and
\* COUNT(a), MAX(b) together.
MC_Funcs == {<< [f |-> "COUNT", col |-> MC_A] >>, << [f |-> "SUM", col |-> MC_B] >>,
             << [f |-> "MAX", col |-> MC_A] >>,   << [f |-> "MIN", col |-> MC_B] >>,
             << [f |-> "COUNT", col |-> MC_A], [f |-> "MAX", col |-> MC_B] >>}

\* Every combination of conditions with a plain join, a sort (no LIMIT or
\* LIMIT 1) or an aggregate on top.
MC_Plans ==
    LET base(l, r, j) == [lConds |-> l, rConds |-> r, joinConds |-> j,
                          keys |-> << >>, limit |-> -1, funcs |-> << >>, top |-> "join",
                          lScan |-> "seq"]
    IN  UNION {{base(l, r, j)} \cup
               {[base(l, r, j) EXCEPT !.top = "sort", !.keys = k, !.limit = n] :
                    k \in MC_Keys, n \in {-1, 1}} \cup
               {[base(l, r, j) EXCEPT !.top = "agg", !.funcs = f] : f \in MC_Funcs} :
                  l \in MC_LConds, r \in MC_RConds, j \in MC_JoinConds}
    \cup {[base(l, << >>, j) EXCEPT !.lScan = "index"] : l \in MC_IxConds, j \in MC_JoinConds}

====
