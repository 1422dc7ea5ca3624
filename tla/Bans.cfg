\* One address in one range; two requests at a time; three ticks of the clock.
SPECIFICATION Spec
CONSTANTS
    a1 = a1
    r1 = r1
    v1 = v1
    v2 = v2
    Addrs = {a1}
    Ranges = {r1}
    Covers <- Covering1
    Sources = {"automatic"}
    Visits = {v1, v2}
    NoBan = NoBan
    Forever = Forever
    Durations = {2}
    CidrTTL = 2
    VerdictTTL = 2
    VerdictTTLs = {2}
    Deadline = 1
    MaxNow = 5
SYMMETRY Requests
INVARIANTS
    TypeOK
    BansTakeHold
    LiftsTakeHold
PROPERTIES
    BansOnlyGrow
