\* configTx in the API server, updateWAF in the CLI, nobody dies.
SPECIFICATION Spec
CONSTANTS
    api = api
    cli = cli
    u1 = u1
    u2 = u2
    u3 = u3
    Procs = {api, cli}
    Updates = {u1, u2}
    Bad = {}
    NoUpdate = NoUpdate
    OpsOf <- Mixed
    Binary = {TRUE}
    MaxCrashes = 0
PROPERTIES
    MutatesCommitted
