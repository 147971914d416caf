\* Three files on two workers, one unreadable and one that may make the
\* indexer panic; one client that pages through what one of the tools lists.
SPECIFICATION McpSpec
CONSTANTS
    f1 = f1
    f2 = f2
    f3 = f3
    NoJob = NoJob
    Jobs = {f1, f2, f3}
    Initial = {f1, f2, f3}
    Spawns <- MCSpawns
    Unreadable = {f2}
    MayPanic = {f3}
    NWorkers = 2
    MaxBatch = 2
    Declares <- MCDeclares
    KindOf <- MCKindOf
    Inherits <- MCInherits
    Mentions <- MCMentions
    DefaultLimit = 2
    MaxLimit <- MCMaxLimit
    Sessions <- MCSessions
INVARIANTS
    ReturnsEverything
    PanicSurfaces
    AnswersFromWholeGraph
    PagesComplete
PROPERTIES
    CallerReturns
    ClientServed
