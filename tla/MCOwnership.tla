---------------------------- MODULE MCOwnership ----------------------------
EXTENDS HelmReleaseOwnership, TLC

CONSTANTS a, b, h1, h2, s1, s2

MCDelay == [l \in Layers |-> 1]

AnySources == [Layers -> [HRs -> Specs \cup {NoSpec}]]

(* Both layers define h1 and h2, and b has another spec for them. *)
Shared == {[l \in Layers |-> [h \in HRs |-> IF l = a THEN s1 ELSE s2]]}
=============================================================================
