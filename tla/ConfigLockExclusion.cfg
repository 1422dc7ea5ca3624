\* One dead holder and two processes that both find its token.  No section is
\* slow here, so age plays no part in the counterexample.
SPECIFICATION Spec
CONSTANTS
    Procs = {p1, p2, p3}
    NoFile = NoFile
    MaxCrashes = 1
    MaxDepth = 1
    HoldersCanWedge = FALSE
INVARIANT MutualExclusion
