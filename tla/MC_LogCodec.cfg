CONSTANTS
    PageSize = 2
    BufSize  = 100
    Layout   <- MC_Layout
    MaxRecs  = 3
    Kinds    <- MC_AllKinds
    Tids     = {1}
    Names    <- MC_Names
    Payloads <- MC_Payloads
    ColLists <- MC_ColLists
    PageImgs <- MC_PageImgs

SPECIFICATION Spec

INVARIANT TypeOK
INVARIANT LogRoundTrip
CHECK_DEADLOCK FALSE
