\* One database, one table, one index, two transactions of one DDL write
\* each, one crash: enough for drop_table to leave db.meta naming files it
\* destroyed, and for an index DDL to reach db.meta and the log in either
\* order against a crash.
CONSTANTS
    Dbs = {d1}
    Tabs = {t1}
    Idx <- MC_Idx
    NoDb = NoDb
    NoName = NoName
    MaxWrites = 1
    MaxTxns = 2
    MaxLog = 8
    MaxCrashes = 1

SPECIFICATION Spec

INVARIANT CrashRecoversCatalog
CHECK_DEADLOCK FALSE
