\* An API server and a CLI, two rotations, two rows, two crashes.
SPECIFICATION FairSpec
CONSTANTS
    Procs = {server, cli}
    ApiServer = server
    Nobody = Nobody
    MaxRows = 2
    MaxNow = 2
    MaxCrashes = 2
INVARIANTS
    TypeOK
    
    
    
PROPERTIES
    PendingResolves
