---------------------------- MODULE MCDeployment ----------------------------
(* Instances of LayerDeployment for TLC: a base layer and one on top of it. *)
(* Either both layers change in the second revision, or the base changes in *)
(* it and the layer on top loses its release.                               *)
EXTENDS LayerDeployment

CONSTANTS base, top,   \* layers
          x, y         \* the specs of a HelmRelease

TopOnBase == [l \in Layers |-> IF l = top THEN {base} ELSE {}]

BothChange == [l \in Layers |-> [r \in Revs |-> IF r = 1 THEN x ELSE y]]

TopGoes == [l \in Layers |->
               IF l = base THEN [r \in Revs |-> IF r = 1 THEN x ELSE y]
                           ELSE [r \in Revs |-> IF r = 1 THEN x ELSE NoAddon]]
=============================================================================
