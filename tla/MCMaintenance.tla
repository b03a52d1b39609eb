---------------------------- MODULE MCMaintenance ----------------------------
(* Two endpoints, one password, two requests and two calls, for TLC.      *)
EXTENDS Maintenance, TLC

CONSTANTS d1, d2, p1, r1, r2, c1, c2

Symmetry == Permutations(Devices)
            \union Permutations(Requests) \union Permutations(Calls)
=============================================================================
