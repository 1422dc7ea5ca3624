\* One API server, no crash: a row, a rotation, a transaction, two more rows.
SPECIFICATION Spec
CONSTANTS
    Procs = {server}
    ApiServer = server
    Nobody = Nobody
    MaxRows = 3
    MaxNow = 1
    MaxCrashes = 0
PROPERTIES
    OffsetFollowsRotation
