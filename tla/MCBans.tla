------------------------------- MODULE MCBans -------------------------------
(* Bans for TLC: one address in one range, two requests at a time that are  *)
(* interchangeable.                                                         *)
EXTENDS Bans, TLC

CONSTANTS a1, r1, v1, v2

Covering1 == {<<r1, a1>>}
Requests == Permutations({v1, v2})

=============================================================================
