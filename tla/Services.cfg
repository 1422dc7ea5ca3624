SPECIFICATION Spec
CONSTANTS
    NotCached = NotCached
    Unseen = Unseen
    NoJob = NoJob
    Absent = Absent
    Never = Never
    NoPort = NoPort
    NoMode = NoMode
    NoTemplate = NoTemplate
    NoBackup = NoBackup
    NoRoute = NoRoute
    NoOffset = NoOffset
CONSTRAINT Bounds
INVARIANTS TypeOK 
PROPERTIES DueJobsRun SentOnce BansHold  WayBack DoneAsAsked AppsAreReached
\* A server that runs its last job, or has used up the bounds, may stop.
CHECK_DEADLOCK FALSE
