----------------------------- MODULE ConfigStore -----------------------------
(***************************************************************************)
(* What CatWAF promises whoever changes its configuration: one atomic      *)
(* store.  An update is answered "ok" only while the stored configuration  *)
(* holds it, "failed" only while it does not, and an update that was       *)
(* answered never changes sides afterwards.  The outcome of an update      *)
(* whose process died is unknown: it may be stored or not, and any later   *)
(* commit may change that.                                                 *)
(***************************************************************************)
CONSTANT Updates

VARIABLES
    value,      \* the updates the stored configuration holds
    outcome     \* what is known of each update

vars == <<value, outcome>>

Outcomes == {"new", "open", "ok", "failed", "unknown"}

Holding(o) == {u \in Updates : outcome[u] = o}

Init == value = {} /\ outcome = [u \in Updates |-> "new"]

Move(u, from, to) ==
    /\ outcome[u] = from
    /\ outcome' = [outcome EXCEPT ![u] = to]
    /\ UNCHANGED value

\* A commit stores one open update; updates in doubt may come and go with it.
Apply(u) ==
    /\ outcome[u] = "open"
    /\ value' \in SUBSET Updates
    /\ value' \ Holding("unknown") = (value \cup {u}) \ Holding("unknown")
    /\ UNCHANGED outcome

\* A roll-back takes an open update out again.
Retract(u) ==
    /\ outcome[u] = "open"
    /\ value' = value \ {u}
    /\ UNCHANGED outcome

Next ==
    \E u \in Updates :
        \/ Move(u, "new", "open")
        \/ Apply(u) \/ Retract(u)
        \/ u \in value /\ Move(u, "open", "ok")
        \/ u \notin value /\ Move(u, "open", "failed")
        \/ Move(u, "open", "unknown")

Spec == Init /\ [][Next]_vars

(***************************************************************************)
(* Every answer that was ever given is still true of the store.            *)
(***************************************************************************)
AnswersHold ==
    /\ Holding("ok") \subseteq value
    /\ Holding("failed") \cap value = {}

=============================================================================
