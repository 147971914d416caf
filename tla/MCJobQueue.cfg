\* Three workers, four jobs, one of the first and one of the spawned may panic.
SPECIFICATION Spec
CONSTANTS
    j1 = j1
    j2 = j2
    j3 = j3
    j4 = j4
    NoJob = NoJob
    Jobs <- MCJobs
    Initial = {j1, j2}
    Spawns <- MCSpawns
    MayPanic = {j2, j3}
    NWorkers = 3
    MaxBatch = 2
INVARIANTS
    TypeOK
    Accounting
    NothingLost
    ExitMeansDone
PROPERTIES
    ImplementsPool
