\* As many panicking files as workers, and files left over: the caller hangs.
\* The state in which the caller waits for ever has no successor.
SPECIFICATION FairIndexSpec
CONSTANTS
    f1 = f1
    f2 = f2
    f3 = f3
    f4 = f4
    NoJob = NoJob
    Jobs = {f1, f2, f3, f4}
    Initial = {f1, f2, f3, f4}
    Spawns <- MCSpawns
    Unreadable = {f2}
    MayPanic = {f3, f4}
    NWorkers = 2
    MaxBatch = 2
PROPERTIES
    CallerReturns
CHECK_DEADLOCK FALSE
