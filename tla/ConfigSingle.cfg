\* One process, every operation, an update Caddy refuses, two crashes.
SPECIFICATION Spec
CONSTANTS
    api = api
    cli = cli
    u1 = u1
    u2 = u2
    u3 = u3
    Procs = {api}
    Updates = {u1, u2, u3}
    Bad = {u3}
    NoUpdate = NoUpdate
    OpsOf <- Everything
    Binary = {TRUE, FALSE}
    MaxCrashes = 2
INVARIANTS
    
    AnswersHold

    
