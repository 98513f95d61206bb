---------------------------- MODULE MCProxiedRoute ----------------------------
(* A small instance of ProxiedRoute for TLC: more keys than the cache holds. *)
EXTENDS ProxiedRoute, TLC

CONSTANTS here, there, far

MCKeys == {here, there, far}
MCOwners == {1}
KeySymmetry == Permutations(MCKeys)

===============================================================================
