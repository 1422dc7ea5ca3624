\* Two processes competing for the lock with every operation, one crash.
SPECIFICATION FairSpec
CONSTANTS
    api = api
    cli = cli
    u1 = u1
    u2 = u2
    u3 = u3
    Procs = {api, cli}
    Updates = {u1, u2}
    Bad = {u2}
    NoUpdate = NoUpdate
    OpsOf <- Everything
    Binary = {TRUE}
    MaxCrashes = 1
PROPERTIES
    OperationsReturn
