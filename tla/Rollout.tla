------------------------------ MODULE Rollout ------------------------------
(***************************************************************************)
(* What the dependencies between layers promise at the least: the addons   *)
(* of a layer are not brought to a cluster on which those of the layers it *)
(* depends on have never been deployed.                                    *)
(***************************************************************************)
CONSTANTS
    Layers,      \* AddonsLayer names
    DependsOn    \* DependsOn[l]: the layers that l depends on

VARIABLES
    started,     \* layers whose addons have been applied to the cluster
    installed    \* layers whose addons have been deployed there

Init == started = {} /\ installed = {}

Start(l) ==
    /\ DependsOn[l] \subseteq installed
    /\ started' = started \cup {l}
    /\ UNCHANGED installed

Install(l) ==
    /\ l \in started
    /\ installed' = installed \cup {l}
    /\ UNCHANGED started

Next == \E l \in Layers : Start(l) \/ Install(l)

Spec == Init /\ [][Next]_<<started, installed>>
=============================================================================
