----------------------------- MODULE MCHistory ------------------------------
(* OwnershipHistory for TLC: any first sources, an interval of one tick. *)
EXTENDS OwnershipHistory

CONSTANTS a, b, h1, s1

OneTick == [l \in Layers |-> 1]

AnySources == [Layers -> [HRs -> Specs \cup {NoSpec}]]
=============================================================================
