CONSTANTS
    PerPage  <- MC_PerPage
    MaxPages <- MC_MaxPages
    Vals     = {v1, v2}
    Zero     = Zero
    NoPage   = NoPage

SPECIFICATION Spec

INVARIANT TypeOK
INVARIANT RecordCountMatchesBitmap
 

PROPERTY TableRefinement
