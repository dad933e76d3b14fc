------------------------- MODULE OwnershipContract -------------------------
(***************************************************************************)
(* What the layers, taken together, promise about the owner of a           *)
(* HelmRelease: a HelmRelease changes hands only while it carries the      *)
(* `orphaned` label, the label is set once, to the time of the clock, and  *)
(* stays until it is dropped, and nothing but a deletion takes a           *)
(* HelmRelease away.  The contract does not say when a deletion is         *)
(* allowed: see the findings in the README.                                *)
(***************************************************************************)
EXTENDS Integers

CONSTANTS Layers, HRs, NoLayer

VARIABLES now, hr       \* hr[h]: its phase, owner and orphaned label

vars == <<now, hr>>

NoLabel == -1

Releases == [phase    : {"absent", "live", "terminating"},
             owner    : Layers \cup {NoLayer},
             orphaned : Nat \cup {NoLabel}]

Absent == [phase |-> "absent", owner |-> NoLayer, orphaned |-> NoLabel]

Becomes(h, r) == hr' = [hr EXCEPT ![h] = r] /\ UNCHANGED now

GivenTo(h, l) ==
    Becomes(h, [phase |-> hr[h].phase, owner |-> l, orphaned |-> NoLabel])

Exists(h) == hr[h].phase # "absent"

Create(h) ==
    /\ ~Exists(h)
    /\ \E o \in Layers \cup {NoLayer} :
          Becomes(h, [phase |-> "live", owner |-> o, orphaned |-> NoLabel])

(* A layer takes a HelmRelease that has no owner. *)
Claim(h) ==
    /\ Exists(h)
    /\ hr[h].owner = NoLayer
    /\ \E l \in Layers : GivenTo(h, l)

Mark(h) ==
    /\ Exists(h)
    /\ hr[h].owner # NoLayer
    /\ hr[h].orphaned = NoLabel
    /\ Becomes(h, [hr[h] EXCEPT !.orphaned = now])

Adopt(h) ==
    /\ Exists(h)
    /\ hr[h].orphaned # NoLabel
    /\ \E l \in Layers : GivenTo(h, l)

(* The label is dropped and the owner stays. *)
Rescue(h) ==
    /\ Exists(h)
    /\ hr[h].orphaned # NoLabel
    /\ Becomes(h, [hr[h] EXCEPT !.orphaned = NoLabel])

Delete(h) ==
    /\ hr[h].phase = "live"
    /\ Becomes(h, [hr[h] EXCEPT !.phase = "terminating"])

Vanish(h) ==
    /\ hr[h].phase = "terminating"
    /\ Becomes(h, Absent)

Tick == now' = now + 1 /\ UNCHANGED hr

Init ==
    /\ now = 0
    /\ hr = [h \in HRs |-> Absent]

Step(h) == \/ Create(h) \/ Claim(h) \/ Mark(h) \/ Adopt(h) \/ Rescue(h)
           \/ Delete(h) \/ Vanish(h)

Next == Tick \/ \E h \in HRs : Step(h)

Spec == Init /\ [][Next]_vars

-----------------------------------------------------------------------------
HandedOver(h) == Exists(h) /\ Exists(h)' /\ hr[h].owner # hr'[h].owner

MayBeHandedOver(h) == hr[h].owner = NoLayer \/ hr[h].orphaned # NoLabel

LabelledTransfers == \A h \in HRs : HandedOver(h) => MayBeHandedOver(h)

(* A HelmRelease that stays on the cluster is given another owner only     *)
(* while it is marked as orphaned (Adopt in layerApplier.go), or when it   *)
(* had none.                                                               *)
TransferNeedsLabel == [][LabelledTransfers]_vars
=============================================================================
