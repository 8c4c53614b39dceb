CONSTANTS
    Txns   = {t1, t2, t3}
    Tables = {A, B}
    NoLock = NoLock

SYMMETRY MC_Symmetry

SPECIFICATION Spec

INVARIANT TypeOK
 

PROPERTY RWLockRefinement

\* Every transaction eventually finishes; the model then stops, as the
\* sessions of a server do once their clients disconnect.
CHECK_DEADLOCK FALSE
