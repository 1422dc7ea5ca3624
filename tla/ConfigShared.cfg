\* Two processes, three updateWAF changes, two crashes anywhere.
SPECIFICATION Spec
CONSTANTS
    api = api
    cli = cli
    u1 = u1
    u2 = u2
    u3 = u3
    Procs = {api, cli}
    Updates = {u1, u2, u3}
    Bad = {}
    NoUpdate = NoUpdate
    OpsOf <- Updaters
    Binary = {TRUE}
    MaxCrashes = 2
INVARIANTS
    TypeOK
    
    

    
