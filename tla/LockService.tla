---------------------------- MODULE LockService ----------------------------
(***************************************************************************)
(* What the configuration lock promises its callers, with no lock file in  *)
(* it: at most one process runs a critical section at a time, for as long  *)
(* as nothing has degraded the service.  The two things that degrade it,   *)
(* two processes breaking the same stale lock at once and a holder that    *)
(* outlives the stale limit, are described in ConfigLock, which implements *)
(* this specification.                                                     *)
(***************************************************************************)
CONSTANT Procs

VARIABLES inside, degraded

vars == <<inside, degraded>>

Init == inside = {} /\ degraded = FALSE

\* A process enters an empty critical section, or any section once degraded.
Enter(p) ==
    /\ p \notin inside
    /\ inside = {} \/ degraded
    /\ inside' = inside \cup {p}
    /\ UNCHANGED degraded

\* A process leaves because its section returned or threw, or because it died.
Leave(p) ==
    /\ p \in inside
    /\ inside' = inside \ {p}
    /\ UNCHANGED degraded

Degrade == degraded' = TRUE /\ UNCHANGED inside

Next == (\E p \in Procs : Enter(p) \/ Leave(p)) \/ Degrade

Spec == Init /\ [][Next]_vars

=============================================================================
