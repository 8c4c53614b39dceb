CONSTANTS
    PerPage  <- MC_PerPage
    MaxPages <- MC_MaxPages
    Vals     = {v1, v2}
    Zero     = Zero
    NoPage   = NoPage
    MaxTxns  <- MC_MaxTxns
    MaxOps   <- MC_MaxOps
    MaxLog   <- MC_MaxLog
    MaxCrashes = 1

SPECIFICATION Spec

CHECK_DEADLOCK FALSE
PROPERTY RecoveryRestoresSettled
