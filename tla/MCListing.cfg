\* Two workers; r and a missing path are requested, x is excluded through a
\* link, and the job that lists d may panic.
SPECIFICATION ListingSpec
CONSTANTS
    NoJob = NoJob
    Jobs <- MCJobs
    Initial <- MCInitial
    Spawns <- MCSpawns
    MayPanic <- MCMayPanic
    NWorkers = 2
    MaxBatch = 2
    Paths <- MCPaths
    Kind <- MCKind
    Entries <- MCEntries
    Target <- MCTarget
    Missing = "missing"
    Unreadable = {"u"}
    Ruby <- MCRuby
    Requested = {"r", "missing", "socket"}
    ExcludedArgs = {"ex"}
INVARIANTS
    ReturnsListing
    ExcludedUnlessLinked
PROPERTIES
    Termination
