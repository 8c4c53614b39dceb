\* One database, one table, one index, and a transaction of one index DDL
\* statement: enough for an abort to meet a CREATE_INDEX write record.  The
\* log bound stops the abort loop's appends; a loop that stops there has not
\* ended.
CONSTANTS
    Dbs = {d1}
    Tabs = {t1}
    Idx <- MC_Idx
    NoDb = NoDb
    NoName = NoName
    MaxWrites = 1
    MaxTxns = 1
    MaxLog = 8
    MaxCrashes = 0

SPECIFICATION Spec

PROPERTY AbortTerminates
CHECK_DEADLOCK FALSE
