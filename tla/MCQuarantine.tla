----------------------------- MODULE MCQuarantine -----------------------------
(* One path, two containers and two operations, for TLC.  *)
EXTENDS Quarantine, TLC

CONSTANTS f1, i1, i2, o1, o2

Symmetry == Permutations(Ids) \union Permutations(Ops)
=============================================================================
