------------------------------ MODULE MCQueue ------------------------------
(* LayerQueue for TLC: top depends on base. *)
EXTENDS LayerQueue

CONSTANTS base, top

TopOnBase == [l \in Layers |-> IF l = top THEN {base} ELSE {}]
=============================================================================
