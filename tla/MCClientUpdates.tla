--------------------------- MODULE MCClientUpdates ---------------------------
(* The installed version 1 and two builds of version 2 of the same length, *)
(* each of which may be put under the name of version 2.                   *)
EXTENDS ClientUpdates

CONSTANTS old, build, rebuild

ProductOf == [s \in Setups |-> IF s = old THEN 1 ELSE 2]
SizeOf == [s \in Setups |-> IF s = old THEN 2 ELSE 1]
=============================================================================
