CONSTANTS
    ColA = "a"
    ColB = "b"
    ColC = "c"
    Vals = {1, 2}
    MaxLRows = 3
    MaxRRows = 2
    BufferSize = 2
    Plans <- MC_Plans
    MaxOut = 6

SPECIFICATION Spec

\* A query ends: the root loop stops once the query's rows are complete.
CHECK_DEADLOCK FALSE

INVARIANT TypeOK
INVARIANT JoinBuffered
INVARIANT QueryResultCorrect
PROPERTY QueryTerminates
