-------------------------- MODULE OwnershipHistory --------------------------
(***************************************************************************)
(* HelmReleaseOwnership, with a record of what has happened: which layers  *)
(* have ever had a HelmRelease in their source, and how often its owner    *)
(* has looked for it in vain since it was marked.  The label of a          *)
(* HelmRelease alone does not tell: it may be left over from an earlier    *)
(* removal, or from a look at a source that was being changed.  The record *)
(* is written by every step and read by none.                              *)
(***************************************************************************)
EXTENDS HelmReleaseOwnership

VARIABLES
    named,       \* named[h]: the layers whose source has ever had h
    look,        \* look[l]: what the reconcile of l has found in its source
    looks        \* looks[h]: looks without h, from the one that marked it; up to 2

record == <<named, look, looks>>
hvars  == <<vars, record>>

-----------------------------------------------------------------------------
(* A reconcile looks for what to prune when PruneSource gets an answer. *)
Looks(l) == task[l].pc = "pruneSource" /\ task'[l].pc = "pruneList"

(* What is found is kept until the reconcile ends; the deletion of a       *)
(* layer, which looks nowhere, misses nothing.                             *)
Found(l) ==
    IF task'[l].pc = "idle" THEN HRs
    ELSE IF Looks(l) THEN Names(l) ELSE look[l]

MissedBy(h, l)  == h \notin look[l]
MissesIt(h, l)  == Looks(l) /\ h \notin Names(l)

(* A label is new, or one more look of its owner may have missed it.       *)
OwnerNow(h) == {l \in Layers : cluster'[h].owner = l}

Counted(h) ==
    IF ~Orphaned(cluster'[h]) THEN 0
    ELSE IF ~Orphaned(cluster[h])
    THEN IF \E l \in OwnerNow(h) : MissedBy(h, l) THEN 1 ELSE 0
    ELSE IF \E l \in OwnerNow(h) : MissesIt(h, l)
    THEN IF looks[h] = 0 THEN 1 ELSE 2
    ELSE looks[h]

NamedNow(h) == {l \in Layers : source'[l][h] # NoSpec}

HInit ==
    /\ Init
    /\ named = [h \in HRs |-> {l \in Layers : source[l][h] # NoSpec}]
    /\ look  = [l \in Layers |-> HRs]
    /\ looks = [h \in HRs |-> 0]

HNext ==
    /\ Next
    /\ named' = [h \in HRs |-> named[h] \cup NamedNow(h)]
    /\ look'  = [l \in Layers |-> Found(l)]
    /\ looks' = [h \in HRs |-> Counted(h)]

HSpec == HInit /\ [][HNext]_hvars

-----------------------------------------------------------------------------
(* A HelmRelease that a layer is about to delete, that it still owns and   *)
(* that is still marked, was missed by the look of the present reconcile   *)
(* and, but for a layer without an interval, by one before that, since it  *)
(* was marked: a label that the deletion of the layer has left, or a       *)
(* single look at a source that is being changed, is never enough          *)
(* (orphanLabel, processPrune, Orphan).                                    *)
SecondLook ==
    \A l \in Layers : task[l].pc = "prune" =>
        \A h \in task[l].todo :
            (cluster[h].owner = l /\ Orphaned(cluster[h]))
            => /\ MissedBy(h, l)
               /\ looks[h] = 2 \/ (looks[h] = 1 /\ Delay[l] = 0)

(* No reconcile creates, changes or deletes a HelmRelease that its layer   *)
(* has never had in its source, or that belongs to such a layer: what a    *)
(* stale cache, another layer's label or a late delete do wrong stays with *)
(* the layers that the HelmRelease was moved between, or shared by.        *)
OnlyNamed ==
    [][\A l \in Layers, h \in HRs :
          task'[l] # task[l] /\ cluster'[h] # cluster[h]
          => /\ l \in named[h]
             /\ cluster[h].owner \in named[h] \cup {NoLayer}]_hvars
=============================================================================
