------------------------ MODULE HelmReleaseOwnership ------------------------
(***************************************************************************)
(* Who owns a HelmRelease.  Every AddonsLayer is reconciled by at most one *)
(* worker at a time, but the layers are reconciled side by side, and each  *)
(* reconcile is a sequence of separate calls: it lists orphans from the    *)
(* informer cache, runs `kubectl apply --dry-run=server` against the live  *)
(* objects, adopts, labels orphans, deletes, and applies, one HelmRelease  *)
(* at a time.  The only thing that serialises the workers is the resource  *)
(* version the API server compares on an Update; a Delete carries none.    *)
(*                                                                         *)
(* Abstractions.  A HelmRelease is its owner reference, its `orphaned`     *)
(* label, its spec and its resource version; the `kraan/layer` label is    *)
(* always written together with the owner reference.  A layer's source is  *)
(* what its linked directory holds at the moment kubectl reads it.  The    *)
(* AddonsLayer's own phase is what the controller's cache says of it.      *)
(* HelmRepositories are applied by the same calls and are not modelled.    *)
(***************************************************************************)
EXTENDS Integers, Sequences, FiniteSets

CONSTANTS
    Layers,      \* AddonsLayer names
    HRs,         \* HelmRelease namespaced names
    Specs,       \* the specs a HelmRelease may have in git
    NoLayer,     \* "no AddonsLayer owner reference"
    NoSpec,      \* "not defined in this source"
    FirstSources,\* the sources the layers may start with
    Delay,       \* spec.interval of each layer, in clock ticks
    MaxTime,     \* bound: last clock tick
    MaxRV,       \* bound: versions stored per HelmRelease
    MaxEdits,    \* bound: changes to the git sources
    MaxLag       \* bound: watch events the informer has yet to deliver

ASSUME LayersAssumption == NoLayer \notin Layers
ASSUME SpecsAssumption  == NoSpec \notin Specs
ASSUME SourcesAssumption ==
    FirstSources \subseteq [Layers -> [HRs -> Specs \cup {NoSpec}]]
ASSUME DelayAssumption  == Delay \in [Layers -> Nat]
ASSUME BoundsAssumption == {MaxTime, MaxRV, MaxEdits, MaxLag} \subseteq Nat

VARIABLES
    now,         \* the clock
    edits,       \* changes made to the sources so far
    source,      \* source[l][h]: the spec of h in the directory linked for l
    layer,       \* layer[l]: "present", "deleting" or "gone"
    cluster,     \* cluster[h]: the object the API server holds
    revision,    \* revision[h]: the last resource version given to h
    cache,       \* cache[h]: the object in the controller's informer cache
    watch,       \* watch events on their way to that cache, oldest first
    task         \* task[l]: the reconcile of l in progress

world == <<now, edits, source, layer>>
store == <<cluster, revision, watch>>
vars  == <<now, edits, source, layer, cluster, revision, cache, watch, task>>

-----------------------------------------------------------------------------
(* Values *)

NoLabel == -1                       \* the orphaned label is not there
Stamps  == Nat \cup {NoLabel}       \* or it holds the time it was set

Phases == {"absent", "live", "terminating"}

Objects == [phase    : Phases,
            owner    : Layers \cup {NoLayer},
            orphaned : Stamps,
            spec     : Specs \cup {NoSpec},
            rv       : Nat]

Absent == [phase |-> "absent", owner |-> NoLayer, orphaned |-> NoLabel,
           spec |-> NoSpec, rv |-> 0]

Exists(obj)   == obj.phase # "absent"
Orphaned(obj) == Exists(obj) /\ obj.orphaned # NoLabel

(* A reconcile between two of its calls: pc names the call to come, todo   *)
(* the HelmReleases its loop has yet to visit, copy the objects read for   *)
(* them, victims what PruneIsRequired returned, pending the orphan verdict *)
PCs == {"idle", "adoptSource", "adopt", "pruneSource", "pruneList", "orphan",
        "prune", "applySource", "applyCompare", "applyRead", "apply",
        "orphanAll", "finalize"}

Tasks == [pc : PCs, todo : SUBSET HRs, victims : SUBSET HRs,
          pending : BOOLEAN, copy : [HRs -> Objects]]

NoCopy == [h \in HRs |-> Absent]

At(pc) == [pc |-> pc, todo |-> {}, victims |-> {}, pending |-> FALSE,
           copy |-> NoCopy]

Idle == At("idle")

Goto(l, t) == task' = [task EXCEPT ![l] = t]

(* The loop over todo is done with h: go on, or to t after the last one. *)
Next1(l, h, t) ==
    Goto(l, IF task[l].todo = {h} THEN t
            ELSE [task[l] EXCEPT !.todo = @ \ {h}])

-----------------------------------------------------------------------------
(* The API server *)

(* Store a new version of h and announce it to the watchers. *)
Put(h, obj) ==
    /\ revision[h] < MaxRV
    /\ Len(watch) < MaxLag
    /\ revision' = [revision EXCEPT ![h] = @ + 1]
    /\ LET new == [obj EXCEPT !.rv = revision[h] + 1]
       IN  /\ cluster' = [cluster EXCEPT ![h] = new]
           /\ watch'   = Append(watch, [hr |-> h, obj |-> new])

Remove(h) ==
    /\ Len(watch) < MaxLag
    /\ cluster' = [cluster EXCEPT ![h] = Absent]
    /\ watch'   = Append(watch, [hr |-> h, obj |-> Absent])
    /\ UNCHANGED revision

(* Mutant: an Update that is forced, as a retry on conflict would do. *)
CurrentForced(h, obj) == Exists(cluster[h])

(* An Update is taken only if it carries the version the server holds. *)
Current(h, obj) == Exists(cluster[h]) /\ obj.rv = cluster[h].rv

(* An Update that changes nothing stores no version. *)
Update(h, obj) ==
    IF obj = cluster[h] THEN UNCHANGED store ELSE Put(h, obj)

-----------------------------------------------------------------------------
(* What a reconcile reads *)

Names(l) == {h \in HRs : source[l][h] # NoSpec}

(* In the source of l, and on the cluster owned by another layer. *)
Foreign(l) == {h \in Names(l) : /\ Exists(cluster[h])
                                /\ cluster[h].owner \notin {l, NoLayer}}

(* addOwnerRefs walks kubectl's output, whose order is the order of the    *)
(* files.  It stops with an error at the first foreign HelmRelease, unless *)
(* that one is orphaned: then it stops without one, and whatever follows   *)
(* in the output has been given no owner.                                  *)
Refused(l) == \E h \in Foreign(l) : ~Orphaned(cluster[h])

(* Mutant: the owner reference is set without a look at the one there. *)
ClaimsAll(l) == {Names(l)}

Claims(l) ==
    IF Foreign(l) = {} THEN {Names(l)}
    ELSE {c \in SUBSET (Names(l) \ Foreign(l)) :
              \E h \in Foreign(l) : Orphaned(cluster[h])}

(* The dry run merges the source into the live object: the spec is the     *)
(* source's, the labels and the resource version are the server's.         *)
DryRun(l, claimed) ==
    [h \in HRs |->
        IF h \notin Names(l) THEN Absent
        ELSE LET live == [cluster[h] EXCEPT !.spec = source[l][h]]
             IN  [live EXCEPT
                    !.phase = IF Exists(live) THEN @ ELSE "live",
                    !.owner = IF h \in claimed THEN l ELSE @]]

Orphans(l) == {h \in HRs : Orphaned(cache[h]) /\ cache[h].owner # l}

OwnedInCache(l) == {h \in HRs : Exists(cache[h]) /\ cache[h].owner = l}

-----------------------------------------------------------------------------
(* Reconciling a layer: adopt *)

(* Mutant: the deletion timestamp is not looked at. *)
StartReconcileAny(l) ==
    /\ task[l].pc = "idle"
    /\ Goto(l, [At("adoptSource") EXCEPT
                  !.todo = Orphans(l),
                  !.copy = [h \in HRs |-> IF h \in Orphans(l)
                                          THEN cache[h] ELSE Absent]])
    /\ UNCHANGED <<world, store, cache>>

StartReconcile(l) ==
    /\ layer[l] = "present"
    /\ task[l].pc = "idle"
    /\ Goto(l, [At("adoptSource") EXCEPT
                  !.todo = Orphans(l),
                  !.copy = [h \in HRs |-> IF h \in Orphans(l)
                                          THEN cache[h] ELSE Absent]])
    /\ UNCHANGED <<world, store, cache>>

(* Mutant: every orphan is adopted, in the source or not. *)
AdoptSourceAll(l) ==
    /\ task[l].pc = "adoptSource"
    /\ \/ /\ Claims(l) # {}
          /\ Goto(l, IF task[l].todo = {} THEN At("pruneSource")
                     ELSE [task[l] EXCEPT !.pc = "adopt"])
       \/ Refused(l) /\ Goto(l, Idle)
    /\ UNCHANGED <<world, store, cache>>

AdoptSource(l) ==
    /\ task[l].pc = "adoptSource"
    /\ \/ /\ Claims(l) # {}
          /\ LET mine == task[l].todo \cap Names(l)
             IN  Goto(l, IF mine = {} THEN At("pruneSource")
                         ELSE [task[l] EXCEPT !.pc = "adopt", !.todo = mine])
       \/ Refused(l) /\ Goto(l, Idle)
    /\ UNCHANGED <<world, store, cache>>

ChangeOwner(l, obj) ==
    [obj EXCEPT !.owner = IF @ = NoLayer THEN @ ELSE l, !.orphaned = NoLabel]

Adopt(l) ==
    /\ task[l].pc = "adopt"
    /\ \E h \in task[l].todo :
          LET obj == task[l].copy[h]
          IN  IF Current(h, obj)
              THEN /\ Update(h, ChangeOwner(l, obj))
                   /\ Next1(l, h, At("pruneSource"))
              ELSE UNCHANGED store /\ Goto(l, Idle)
    /\ UNCHANGED <<world, cache>>

(* CheckK8sVersion says no: nothing is pruned or applied. *)
PrereqNotMet(l) ==
    /\ task[l].pc = "pruneSource"
    /\ Goto(l, Idle)
    /\ UNCHANGED <<world, store, cache>>

-----------------------------------------------------------------------------
(* Reconciling a layer: prune *)

PruneSource(l) ==
    /\ task[l].pc = "pruneSource"
    /\ \/ Claims(l) # {} /\ Goto(l, [At("pruneList") EXCEPT !.todo = Names(l)])
       \/ Refused(l)     /\ Goto(l, Idle)
    /\ UNCHANGED <<world, store, cache>>

PruneList(l) ==
    /\ task[l].pc = "pruneList"
    /\ LET gone == OwnedInCache(l) \ task[l].todo
       IN  Goto(l, IF gone = {} THEN At("applySource")
                   ELSE [At("orphan") EXCEPT !.todo = gone, !.victims = gone])
    /\ UNCHANGED <<world, store, cache>>

(* Mutant: off by one in the comparison of the times. *)
WaitingShort(l, stamp) == stamp + Delay[l] > now + 1

Waiting(l, stamp) == stamp + Delay[l] > now

(* After the last HelmRelease: wait, or go on to delete (all of) them. *)
Judged(l, h, waiting) ==
    LET pending == task[l].pending \/ waiting
        rest    == task[l].todo \ {h}
    IN  Goto(l, IF rest # {}
                THEN [task[l] EXCEPT !.todo = rest, !.pending = pending]
                ELSE IF pending THEN Idle
                ELSE IF task[l].pc = "orphanAll" THEN At("finalize")
                ELSE [At("prune") EXCEPT !.todo = task[l].victims])

Orphan(l) ==
    /\ task[l].pc \in {"orphan", "orphanAll"}
    /\ \E h \in task[l].todo :
          LET hr == cache[h]
          IN  IF ~Exists(hr) \/ hr.owner # l
              THEN UNCHANGED store /\ Judged(l, h, FALSE)
              ELSE IF Orphaned(hr)
              THEN UNCHANGED store /\ Judged(l, h, Waiting(l, hr.orphaned))
              ELSE IF Current(h, hr)
              THEN /\ Update(h, [hr EXCEPT !.orphaned = now])
                   /\ Judged(l, h, Waiting(l, now))
              ELSE UNCHANGED store /\ Goto(l, Idle)
    /\ UNCHANGED <<world, cache>>

(* Delete by name, without a precondition; deleting what is gone fails. *)
Prune(l) ==
    /\ task[l].pc = "prune"
    /\ \E h \in task[l].todo :
          CASE cluster[h].phase = "live" ->
                 /\ Put(h, [cluster[h] EXCEPT !.phase = "terminating"])
                 /\ Next1(l, h, Idle)
            [] cluster[h].phase = "terminating" ->
                 UNCHANGED store /\ Next1(l, h, Idle)
            [] OTHER -> UNCHANGED store /\ Goto(l, Idle)
    /\ UNCHANGED <<world, cache>>

-----------------------------------------------------------------------------
(* Reconciling a layer: apply *)

DependenciesNotDeployed(l) ==
    /\ task[l].pc = "applySource"
    /\ Goto(l, Idle)
    /\ UNCHANGED <<world, store, cache>>

ReadForApply(l, from, to) ==
    /\ task[l].pc = from
    /\ \/ \E claimed \in Claims(l) :
             Goto(l, IF Names(l) = {} THEN Idle
                     ELSE [At(to) EXCEPT !.todo = Names(l),
                                         !.copy = DryRun(l, claimed)])
       \/ Refused(l) /\ Goto(l, Idle)
    /\ UNCHANGED <<world, store, cache>>

ApplySource(l) == ReadForApply(l, "applySource", "applyCompare")

Differs(obj, found) == \/ obj.spec     # found.spec
                       \/ obj.orphaned # found.orphaned
                       \/ obj.owner    # found.owner

ApplyRequired(l) ==
    \E h \in task[l].todo : \/ h \notin OwnedInCache(l)
                            \/ Differs(task[l].copy[h], cache[h])

(* A difference in the HelmRepositories alone also asks for an apply. *)
ApplyCompare(l) ==
    /\ task[l].pc = "applyCompare"
    /\ \/ Goto(l, At("applyRead"))
       \/ ~ApplyRequired(l) /\ Goto(l, Idle)
    /\ UNCHANGED <<world, store, cache>>

ApplyRead(l) == ReadForApply(l, "applyRead", "apply")

(* Create or Update, by what the cache holds; the label is always dropped. *)
Apply(l) ==
    /\ task[l].pc = "apply"
    /\ \E h \in task[l].todo :
          LET obj == [task[l].copy[h] EXCEPT !.orphaned = NoLabel]
          IN  IF ~Exists(cache[h])
              THEN IF Exists(cluster[h])
                   THEN UNCHANGED store /\ Goto(l, Idle)
                   ELSE /\ Put(h, [obj EXCEPT !.phase = "live"])
                        /\ Next1(l, h, Idle)
              ELSE IF Current(h, obj)
                   THEN Update(h, obj) /\ Next1(l, h, Idle)
                   ELSE UNCHANGED store /\ Goto(l, Idle)
    /\ UNCHANGED <<world, cache>>

-----------------------------------------------------------------------------
(* Deleting a layer *)

StartDelete(l) ==
    /\ layer[l] = "deleting"
    /\ task[l].pc = "idle"
    /\ LET owned == OwnedInCache(l)
       IN  Goto(l, IF owned = {} THEN At("finalize")
                   ELSE [At("orphanAll") EXCEPT !.todo = owned])
    /\ UNCHANGED <<world, store, cache>>

RemoveFinalizer(l) ==
    /\ task[l].pc = "finalize"
    /\ layer' = [layer EXCEPT ![l] = "gone"]
    /\ Goto(l, Idle)
    /\ UNCHANGED <<now, edits, source, store, cache>>

(* Any call to the API server or to kubectl may fail: Reconcile gives up. *)
CallFails(l) ==
    /\ task[l].pc # "idle"
    /\ Goto(l, Idle)
    /\ UNCHANGED <<world, store, cache>>

-----------------------------------------------------------------------------
(* The surroundings *)

(* Mutant: the clock is set back. *)
TickBack ==
    /\ now < MaxTime
    /\ now' = now - 1
    /\ UNCHANGED <<edits, source, layer, store, cache, task>>

Tick ==
    /\ now < MaxTime
    /\ now' = now + 1
    /\ UNCHANGED <<edits, source, layer, store, cache, task>>

Edit(l) ==
    /\ edits < MaxEdits
    /\ edits' = edits + 1
    /\ \E h \in HRs, s \in Specs \cup {NoSpec} :
          /\ s # source[l][h]
          /\ source' = [source EXCEPT ![l][h] = s]
    /\ UNCHANGED <<now, layer, store, cache, task>>

DeleteLayer(l) ==
    /\ layer[l] = "present"
    /\ edits < MaxEdits
    /\ edits' = edits + 1
    /\ layer' = [layer EXCEPT ![l] = "deleting"]
    /\ UNCHANGED <<now, source, store, cache, task>>

(* The garbage collector deletes what a removed layer still owns. *)
CollectGarbage(h) ==
    /\ cluster[h].phase = "live"
    /\ cluster[h].owner \in {l \in Layers : layer[l] = "gone"}
    /\ Put(h, [cluster[h] EXCEPT !.phase = "terminating"])
    /\ UNCHANGED <<world, cache, task>>

(* The helm-controller records status, and lets a deleted release go. *)
HelmStatus(h) ==
    /\ Exists(cluster[h])
    /\ Put(h, cluster[h])
    /\ UNCHANGED <<world, cache, task>>

HelmUninstalled(h) ==
    /\ cluster[h].phase = "terminating"
    /\ Remove(h)
    /\ UNCHANGED <<world, cache, task>>

WatchEvent ==
    /\ watch # <<>>
    /\ cache' = [cache EXCEPT ![Head(watch).hr] = Head(watch).obj]
    /\ watch' = Tail(watch)
    /\ UNCHANGED <<world, cluster, revision, task>>

(* The controller starts again: it lists everything, and remembers nothing *)
Restart ==
    /\ cache' = cluster
    /\ watch' = <<>>
    /\ task'  = [l \in Layers |-> Idle]
    /\ UNCHANGED <<world, cluster, revision>>

-----------------------------------------------------------------------------
Init ==
    /\ now = 0
    /\ edits = 0
    /\ source \in FirstSources
    /\ layer = [l \in Layers |-> "present"]
    /\ cluster = [h \in HRs |-> Absent]
    /\ revision = [h \in HRs |-> 0]
    /\ cache = [h \in HRs |-> Absent]
    /\ watch = <<>>
    /\ task = [l \in Layers |-> Idle]

Reconcile(l) ==
    \/ StartReconcile(l) \/ AdoptSource(l) \/ Adopt(l) \/ PrereqNotMet(l)
    \/ PruneSource(l) \/ PruneList(l) \/ Orphan(l) \/ Prune(l)
    \/ DependenciesNotDeployed(l) \/ ApplySource(l) \/ ApplyCompare(l)
    \/ ApplyRead(l) \/ Apply(l)
    \/ StartDelete(l) \/ RemoveFinalizer(l) \/ CallFails(l)

Environment ==
    \/ Tick
    \/ \E l \in Layers : Edit(l) \/ DeleteLayer(l)
    \/ \E h \in HRs : CollectGarbage(h) \/ HelmStatus(h) \/ HelmUninstalled(h)
    \/ WatchEvent
    \/ Restart

Next == Environment \/ \E l \in Layers : Reconcile(l)

Spec == Init /\ [][Next]_vars

-----------------------------------------------------------------------------
(* Properties *)

(* Every variable has its type; the events and the copies are objects. *)
TypeOK ==
    /\ now \in Nat
    /\ edits \in Nat
    /\ source \in [Layers -> [HRs -> Specs \cup {NoSpec}]]
    /\ layer \in [Layers -> {"present", "deleting", "gone"}]
    /\ cluster \in [HRs -> Objects]
    /\ revision \in [HRs -> Nat]
    /\ cache \in [HRs -> Objects]
    /\ watch \in Seq([hr : HRs, obj : Objects])
    /\ task \in [Layers -> Tasks]

(* Once a reconcile has decided to delete, a HelmRelease that its layer    *)
(* still owns and that is still marked has waited for the layer's interval *)
(* - whatever other layers and a late cache did since the label was read   *)
(* (processPrune, Orphan).                                                 *)
GraceBeforePrune ==
    \A l \in Layers : task[l].pc = "prune" =>
        \A h \in task[l].todo :
            (cluster[h].owner = l /\ Orphaned(cluster[h]))
            => cluster[h].orphaned + Delay[l] <= now

Seen(obj) == [phase |-> obj.phase, owner |-> obj.owner,
              orphaned |-> obj.orphaned]

Owned == [h \in HRs |-> Seen(cluster[h])]

Contract == INSTANCE OwnershipContract WITH hr <- Owned

(* Seen as owners and labels, what the layers do to the cluster keeps the  *)
(* contract: addOwnerRefs, Adopt, Orphan, Apply and the garbage collector  *)
(* move a HelmRelease only the way OwnershipContract allows.               *)
ContractKept == Contract!Spec

(* No layer takes over a HelmRelease that does not carry the label at the  *)
(* moment of the write, however old the copy it decided on (Adopt).        *)
TransferNeedsLabel == Contract!TransferNeedsLabel

(* Expected to fail.  user-guide.md:124 says that a HelmRelease moved to   *)
(* another layer is adopted rather than deleted: no layer deletes what     *)
(* another layer owns.                                                     *)
PruneOwnOnly ==
    [][\A l \in Layers, h \in HRs :
          (task[l].pc = "prune" /\ task[l] # task'[l]
           /\ cluster[h].phase = "live" /\ cluster'[h].phase = "terminating")
          => cluster[h].owner = l]_vars

(* Expected to fail.  user-guide.md:128 says that the layers which did not *)
(* get hold of a HelmRelease defined in several layers fail to apply: a    *)
(* layer does not write the spec of what another layer owns, unless it is  *)
(* marked as orphaned.                                                     *)
ApplyOwnOnly ==
    [][\A l \in Layers, h \in HRs :
          (task[l].pc = "apply" /\ task[l] # task'[l]
           /\ Exists(cluster[h]) /\ cluster[h].spec # cluster'[h].spec)
          => cluster[h].owner \in {l, NoLayer} \/ Orphaned(cluster[h])]_vars
=============================================================================
