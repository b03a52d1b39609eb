-------------------------- MODULE MCFleetCommands --------------------------
(* Small fleets for TLC: one endpoint whose process may own two connector  *)
(* objects, one of them left over from before a re-enrolment.  Nothing     *)
(* tells the objects apart, so that safety runs use their symmetry.        *)
EXTENDS FleetCommands, TLC

CONSTANTS d1, k1, k2

OneEndpoint == [k \in Connectors |-> d1]
ConnectorSymmetry == Permutations(Connectors)
=============================================================================
