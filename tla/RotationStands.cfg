\* One API server, no crash: a rotation, then an ordinary configuration change.
SPECIFICATION Spec
CONSTANTS
    Procs = {server}
    ApiServer = server
    Nobody = Nobody
    MaxRows = 0
    MaxNow = 1
    MaxCrashes = 0
PROPERTIES
    RotationStands
