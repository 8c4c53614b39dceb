CONSTANTS
    PerPage  <- MC_PerPage
    MaxPages <- MC_MaxPages
    MaxOps   <- MC_MaxOps
    Indexes  <- MC_NoIndexes
    Vals     = {v1, v2}
    Zero     = Zero
    NoPage   = NoPage

SPECIFICATION TxnSpec

PROPERTY AbortRestoresRows
