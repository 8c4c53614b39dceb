CONSTANTS
    PerPage  <- MC_PerPage
    MaxPages <- MC_MaxPages
    MaxOps   <- MC_MaxOps
    Indexes  <- MC_TwoIndexes
    Vals     <- MC_Rows
    Zero     = Zero
    NoPage   = NoPage

SPECIFICATION TxnSpec

INVARIANT IndexMatchesHeap
