---------------------------- MODULE MCWafConfig -----------------------------
(* WafConfig for TLC: which process performs which operations. *)
EXTENDS WafConfig

CONSTANTS api, cli, u1, u2, u3

\* updateWAF only, from two processes; only the CLI stores without a reload.
Updaters == [p \in Procs |-> IF p = api THEN {"update"} ELSE {"update", "store"}]

\* Every process does everything.
Everything == [p \in Procs |-> Kinds]

\* configTx in one process, updateWAF in the other.
Mixed == [p \in Procs |-> IF p = api THEN {"tx"} ELSE {"update"}]

=============================================================================
