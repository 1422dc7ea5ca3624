\* Three processes, two of which may die anywhere: holders, breakers, and
\* processes between two system calls.
SPECIFICATION FairSpec
CONSTANTS
    Procs = {p1, p2, p3}
    NoFile = NoFile
    MaxCrashes = 2
    MaxDepth = 2
    HoldersCanWedge = TRUE
INVARIANTS
    TypeOK
    ExclusionUntilDegraded
    TokenNamesUserOrDead
PROPERTIES
    CrashedHolderIsBroken
    SomebodyGetsIn
    ImplementsService
