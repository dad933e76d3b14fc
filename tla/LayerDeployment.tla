-------------------------- MODULE LayerDeployment --------------------------
(***************************************************************************)
(* How the layers come to be deployed, in the order of their dependencies. *)
(* A reconcile reads its AddonsLayer once, from the informer cache, and    *)
(* goes by a sequence of calls: is the source ready, is there something to *)
(* prune, are the layers it depends on deployed, does the source differ    *)
(* from the cluster, are they still deployed, apply, has it succeeded.  It *)
(* writes the status at the end, if nobody has written the AddonsLayer     *)
(* since.  Meanwhile source-controller publishes revisions, helm-controller *)
(* works on the HelmReleases, users edit the layers.                       *)
(*                                                                         *)
(* Abstractions.  All layers have one GitRepository, which is ready or     *)
(* not; a new revision of it reaches all of them in one step (see Repos).  *)
(* A layer has at most one HelmRelease, which nobody else claims (see      *)
(* HelmReleaseOwnership), and no HelmRepositories.  An informer cache      *)
(* skips to the present object; a look at several dependencies is a step.  *)
(* A status is what other layers judge by: the message is left out, and so *)
(* is an update that changes nothing else.  Deadlines may pass at any time. *)
(***************************************************************************)
EXTENDS Integers, FiniteSets

CONSTANTS
    Layers,      \* AddonsLayer names
    DependsOn,   \* DependsOn[l]: the layers in prereqs.dependsOn of l
    Addons,      \* Addons[l][r]: the HelmRelease of l in revision r
    Annotated,   \* the layers whose HelmRelease has kraan.updateVersion
    NoAddon,     \* none
    MaxRev,      \* bound: revisions of the branch
    MaxEdits,    \* bound: edits of the AddonsLayers
    MaxFaults    \* bound: failed calls, deployments, fetches, and restarts

Revs == 1..MaxRev

ASSUME DependsOnAssumption == DependsOn \in [Layers -> SUBSET Layers]
ASSUME AddonsAssumption == /\ DOMAIN Addons = Layers
                           /\ \A l \in Layers : DOMAIN Addons[l] = Revs
ASSUME AnnotatedAssumption == Annotated \subseteq Layers
ASSUME NoAddonAssumption == \A l \in Layers :
                               NoAddon \notin {Addons[l][r] : r \in Revs} \X Nat
ASSUME BoundsAssumption == MaxRev \in Nat \ {0} /\ {MaxEdits, MaxFaults} \subseteq Nat

VARIABLES
    edits, faults,
    git,         \* the GitRepository
    gitSeen,     \* the same in the informer cache
    synced,      \* the one whose data the layers are linked to
    layer,       \* layer[l]: the AddonsLayer the API server holds
    layerSeen,   \* the same in the informer cache
    release,     \* release[l]: the HelmRelease of l
    releaseSeen, \* the same in the informer cache
    task         \* task[l]: the reconcile of l

sources  == <<git, gitSeen, synced>>
objects  == <<layer, release>>
caches   == <<layerSeen, releaseSeen>>
vars == <<edits, faults, sources, objects, caches, task>>

-----------------------------------------------------------------------------
(* Values *)

NoSource == [rev |-> 0, ready |-> FALSE]

States == {"", "Pending", "K8sVersion", "Pruning", "ApplyPending", "Applying",
           "Deployed", "Failed"}

(* The HelmRelease that a layer of this version finds in a revision.       *)
(* processUpdateVersionAnnotation adds the version to its values.          *)
Source(l, version, rev) ==
    IF Addons[l][rev] = NoAddon THEN NoAddon
    ELSE <<Addons[l][rev], IF l \in Annotated THEN version ELSE 0>>

(* A HelmRelease that is not there has no spec; gen counts those before it. *)
NoRelease == [spec |-> NoAddon, gen |-> 0, observed |-> 0, ready |-> FALSE,
              installed |-> FALSE]

Present(hr) == hr.spec # NoAddon

NoStatus == [state |-> "", version |-> 0, observed |-> 0, revision |-> 0]

NewLayer(l) == [version |-> 1, needs |-> [d \in DependsOn[l] |-> 1],
                gen |-> 1, status |-> NoStatus]

Idle == [pc |-> "idle", layer |-> NoStatus, status |-> NoStatus]

-----------------------------------------------------------------------------
(* The steps of a reconcile *)

Goto(l, pc) == task' = [task EXCEPT ![l].pc = pc]

SetStatus(copy, status, state) ==
    [status EXCEPT !.state = state, !.version = copy.version]

End(l, state) ==
    task' = [task EXCEPT ![l].pc = "finish",
                ![l].status = SetStatus(task[l].layer, @, state)]

(* What kubectl finds behind the link of the layer *)
Found(l) == Source(l, task[l].layer.version, synced.rev)

Fault == faults < MaxFaults /\ faults' = faults + 1

(* isReady: no repository object, one without an artifact, or not ready *)
Begin(l) ==
    /\ task[l].pc = "idle"
    /\ LET copy == layerSeen[l]
           BeginAt(pc, status) ==
               task' = [task EXCEPT ![l] = [pc |-> pc, layer |-> copy,
                                            status |-> status]]
       IN  IF synced.rev = 0
           THEN \E state \in {"Failed", "Pending"} :
                   BeginAt("finish", SetStatus(copy, copy.status, state))
           ELSE IF ~synced.ready
           THEN BeginAt("finish", SetStatus(copy, copy.status, "Pending"))
           ELSE BeginAt("prune", copy.status)
    /\ UNCHANGED <<edits, faults, sources, objects, caches>>

K8sVersionNotMet(l) ==
    /\ task[l].pc = "prune"
    /\ Fault
    /\ End(l, "K8sVersion")
    /\ UNCHANGED <<edits, sources, objects, caches>>

(* On the cluster and no longer in the source: waits as an orphan, or goes. *)
PruneRequired(l) == Found(l) = NoAddon /\ Present(releaseSeen[l])

Delete(l) == release' = [release EXCEPT ![l].spec = NoAddon, ![l].ready = FALSE]

Prune(l) ==
    /\ task[l].pc = "prune"
    /\ IF PruneRequired(l)
       THEN \/ End(l, "Pruning") /\ UNCHANGED release
            \/ Present(release[l]) /\ End(l, "Pruning") /\ Delete(l)
            \/ ~Present(release[l]) /\ End(l, "Failed") /\ UNCHANGED release
       ELSE /\ \/ Goto(l, "depend")
               \/ /\ task[l].status.state = "Pruning"
                  /\ task' = [task EXCEPT ![l].pc = "depend",
                                ![l].status = SetStatus(task[l].layer, @, "Failed")]
            /\ UNCHANGED release
    /\ UNCHANGED <<edits, faults, sources, layer, caches>>

OtherDeployed(other, version) ==
    /\ other.status.observed = other.gen
    /\ other.status.version = version
    /\ gitSeen.ready
    /\ other.status.revision = gitSeen.rev
    /\ other.status.state = "Deployed"

(* Mutant: the version that is asked for is all there is to a dependency. *)
DependenciesSeen(l) ==
    \A d \in DependsOn[l] :
       layerSeen[d].status.version = task[l].layer.needs[d]

DependenciesDeployed(l) ==
    \A d \in DependsOn[l] : OtherDeployed(layerSeen[d], task[l].layer.needs[d])

Depend(l, here, next) ==
    /\ task[l].pc = here
    /\ IF DependenciesDeployed(l) THEN Goto(l, next)
                                  ELSE End(l, "ApplyPending")
    /\ UNCHANGED <<edits, faults, sources, objects, caches>>

(* Mutant: a HelmRelease that is missing is no difference. *)
ApplyChanged(l) == /\ Found(l) # NoAddon
                   /\ Present(releaseSeen[l]) /\ releaseSeen[l].spec # Found(l)

(* Mutant: a HelmRelease that is there is not looked at. *)
ApplyMissing(l) == Found(l) # NoAddon /\ ~Present(releaseSeen[l])

ApplyRequired(l) ==
    /\ Found(l) # NoAddon
    /\ ~Present(releaseSeen[l]) \/ releaseSeen[l].spec # Found(l)

Compare(l) ==
    /\ task[l].pc = "compare"
    /\ Goto(l, IF ApplyRequired(l) THEN "dependAgain" ELSE "success")
    /\ UNCHANGED <<edits, faults, sources, objects, caches>>

Put(l, spec) ==
    release' = IF release[l].spec = spec THEN release
               ELSE [release EXCEPT ![l].spec = spec, ![l].gen = @ + 1]

(* The source is read again; what it holds by now is created or updated, *)
(* as the cache has it.                                                  *)
Apply(l) ==
    /\ task[l].pc = "apply"
    /\ IF Found(l) = NoAddon THEN End(l, "Applying") /\ UNCHANGED release
       ELSE IF Present(release[l]) = Present(releaseSeen[l])
       THEN End(l, "Applying") /\ Put(l, Found(l))
       ELSE End(l, "Failed") /\ UNCHANGED release
    /\ UNCHANGED <<edits, faults, sources, layer, caches>>

(* The source is read again for the HelmRepositories: that call fails, or the *)
(* one that applies them, and the HelmReleases are there.                     *)
ApplyFails(l) ==
    /\ task[l].pc = "apply"
    /\ Found(l) # NoAddon /\ Present(release[l]) = Present(releaseSeen[l])
    /\ Fault
    /\ End(l, "Failed") /\ Put(l, Found(l))
    /\ UNCHANGED <<edits, sources, layer, caches>>

(* ApplyWasSuccessful: the Ready condition, whatever generation it is of *)
Successful(hr) == Present(hr) => hr.ready

(* Deployed, with the revision getRevision finds by then; or not yet ready, *)
(* which is a failure unless the layer is being applied within its time.    *)
Check(l) ==
    /\ task[l].pc = "success"
    /\ IF Successful(releaseSeen[l])
       THEN task' = [task EXCEPT ![l].pc = "finish",
               ![l].status = [SetStatus(task[l].layer, @, "Deployed")
                                 EXCEPT !.revision = synced.rev]]
       ELSE \/ task[l].status.state = "Applying" /\ Goto(l, "finish")
            \/ End(l, "Failed")
    /\ UNCHANGED <<edits, faults, sources, objects, caches>>

CallFails(l) ==
    /\ task[l].pc \notin {"idle", "finish"}
    /\ Fault
    /\ End(l, "Failed")
    /\ UNCHANGED <<edits, sources, objects, caches>>

(* Mutant: the generations are counted. *)
CountedStatus(l) ==
    [task[l].status EXCEPT !.version = task[l].layer.version,
                           !.observed = @ + 1]

(* The status to write: version and generation are always brought up to date. *)
FinalStatus(l) ==
    [task[l].status EXCEPT !.version = task[l].layer.version,
                           !.observed = task[l].layer.gen]

(* Mutant: a status update that does not carry the resource version *)
UpdateForced(l, copy) == TRUE

Current(l, copy) == layer[l] = copy

Finish(l) ==
    /\ task[l].pc = "finish"
    /\ layer' = IF Current(l, task[l].layer)
                THEN [layer EXCEPT ![l].status = FinalStatus(l)]
                ELSE layer
    /\ task' = [task EXCEPT ![l] = Idle]
    /\ UNCHANGED <<edits, faults, sources, release, caches>>

Reconcile(l) ==
    \/ Begin(l) \/ Prune(l) \/ Depend(l, "depend", "compare") \/ Compare(l)
    \/ Depend(l, "dependAgain", "apply") \/ Apply(l) \/ Check(l) \/ Finish(l)

-----------------------------------------------------------------------------
(* The informer caches, and the data of the repository *)

SeeLayer(l) ==
    /\ layerSeen[l] # layer[l]
    /\ layerSeen' = [layerSeen EXCEPT ![l] = layer[l]]
    /\ UNCHANGED <<edits, faults, sources, objects, releaseSeen, task>>

SeeRelease(l) ==
    /\ releaseSeen[l] # release[l]
    /\ releaseSeen' = [releaseSeen EXCEPT ![l] = release[l]]
    /\ UNCHANGED <<edits, faults, sources, objects, layerSeen, task>>

SeeGit ==
    /\ gitSeen # git
    /\ gitSeen' = git
    /\ UNCHANGED <<edits, faults, git, synced, objects, caches, task>>

SyncRepo ==
    /\ synced # gitSeen
    /\ synced' = gitSeen
    /\ UNCHANGED <<edits, faults, git, gitSeen, objects, caches, task>>

-----------------------------------------------------------------------------
(* source-controller, helm-controller, users, restarts *)

Publish ==
    /\ git.rev < MaxRev
    /\ git' = [rev |-> git.rev + 1, ready |-> TRUE]
    /\ UNCHANGED <<edits, faults, gitSeen, synced, objects, caches, task>>

FetchFails ==
    /\ git.ready
    /\ Fault
    /\ git' = [git EXCEPT !.ready = FALSE]
    /\ UNCHANGED <<edits, gitSeen, synced, objects, caches, task>>

FetchRecovers ==
    /\ git.rev # 0 /\ ~git.ready
    /\ git' = [git EXCEPT !.ready = TRUE]
    /\ UNCHANGED <<edits, faults, gitSeen, synced, objects, caches, task>>

HelmDeploys(l) ==
    /\ Present(release[l])
    /\ release[l].observed # release[l].gen \/ ~release[l].ready
    /\ release' = [release EXCEPT ![l].observed = release[l].gen,
                                  ![l].ready = TRUE, ![l].installed = TRUE]
    /\ UNCHANGED <<edits, faults, sources, layer, caches, task>>

HelmFails(l) ==
    /\ Present(release[l]) /\ release[l].observed # release[l].gen
    /\ Fault
    /\ release' = [release EXCEPT ![l].observed = release[l].gen,
                                  ![l].ready = FALSE]
    /\ UNCHANGED <<edits, sources, layer, caches, task>>

Edit(l, spec) ==
    /\ edits < MaxEdits
    /\ edits' = edits + 1
    /\ layer' = [layer EXCEPT ![l] = [spec EXCEPT !.gen = @ + 1]]
    /\ UNCHANGED <<faults, sources, release, caches, task>>

NewVersion(l) == Edit(l, [layer[l] EXCEPT !.version = @ + 1])

(* The version asked for may be one the other layer is to have next. *)
NewDependency(l, d) ==
    \E version \in {layer[d].version, layer[d].version + 1} :
       /\ version # layer[l].needs[d]
       /\ Edit(l, [layer[l] EXCEPT !.needs[d] = version])

(* The new process lists all objects before it reconciles any. *)
Restart ==
    /\ Fault
    /\ task' = [l \in Layers |-> Idle]
    /\ layerSeen' = layer /\ releaseSeen' = release /\ gitSeen' = git
    /\ synced' = NoSource
    /\ UNCHANGED <<edits, git, objects>>

-----------------------------------------------------------------------------
Init ==
    /\ edits = 0 /\ faults = 0
    /\ git = NoSource /\ gitSeen = NoSource /\ synced = NoSource
    /\ layer = [l \in Layers |-> NewLayer(l)] /\ layerSeen = layer
    /\ release = [l \in Layers |-> NoRelease] /\ releaseSeen = release
    /\ task = [l \in Layers |-> Idle]

Caches == SeeGit \/ SyncRepo \/ \E l \in Layers : SeeLayer(l) \/ SeeRelease(l)

Faults == \/ FetchFails \/ Restart
          \/ \E l \in Layers : \/ K8sVersionNotMet(l) \/ CallFails(l)
                             \/ ApplyFails(l) \/ HelmFails(l)

Users == \E l \in Layers : NewVersion(l) \/ \E d \in DependsOn[l] : NewDependency(l, d)

Next == \/ Caches \/ Publish \/ FetchRecovers \/ Users \/ Faults
        \/ \E l \in Layers : Reconcile(l) \/ HelmDeploys(l)

Spec == Init /\ [][Next]_vars

(* What goes on by itself, once users and failures leave it alone: workers and *)
(* informers run, the layers are queued again at every sync-period, and        *)
(* helm-controller and source-controller retry for ever.                       *)
Fairness ==
    /\ WF_vars(Publish) /\ WF_vars(FetchRecovers)
    /\ WF_vars(SeeGit) /\ WF_vars(SyncRepo)
    /\ \A l \in Layers : /\ WF_vars(SeeLayer(l)) /\ WF_vars(SeeRelease(l))
                         /\ WF_vars(Reconcile(l)) /\ WF_vars(HelmDeploys(l))

FairSpec == Spec /\ Fairness

-----------------------------------------------------------------------------
(* Every variable stays within its type; no generation is reported that an *)
(* object has not had yet.                                                 *)
Gits     == [rev : 0..MaxRev, ready : BOOLEAN]
Statuses == [state : States, version : Nat, observed : Nat, revision : 0..MaxRev]

LayerOK(l, al) ==
    /\ al.version \in Nat /\ al.gen \in Nat /\ al.needs \in [DependsOn[l] -> Nat]
    /\ al.status \in Statuses /\ al.status.observed <= al.gen

ReleaseOK(hr) ==
    /\ hr.gen \in Nat /\ hr.observed \in 0..hr.gen
    /\ {hr.ready, hr.installed} \subseteq BOOLEAN

TypeOK ==
    /\ edits \in 0..MaxEdits /\ faults \in 0..MaxFaults
    /\ {git, gitSeen, synced} \subseteq Gits
    /\ \A l \in Layers :
          /\ LayerOK(l, layer[l]) /\ LayerOK(l, layerSeen[l])
          /\ ReleaseOK(release[l]) /\ ReleaseOK(releaseSeen[l])
          /\ task[l].pc # "idle" =>
                LayerOK(l, task[l].layer) /\ task[l].status \in Statuses

(* The revision a layer reports as deployed never goes back: a reconcile     *)
(* that has read the AddonsLayer before the last status was written, and     *)
(* ends with an older copy of that status, does not get to write it.         *)
ReportNeverRollsBack ==
    [][\A l \in Layers :
          layer'[l].status.revision >= layer[l].status.revision]_vars

(* Layers that have their HelmRelease in every revision: others are deployed  *)
(* without any, even while a stale cache hides one that is still there.      *)
Lasting == {l \in Layers : \A r \in Revs : Addons[l][r] # NoAddon}

(* A layer that reports its present generation as deployed has a HelmRelease *)
(* on the cluster, of that version: a comparison with a cache that lags      *)
(* behind the edit, or behind the apply, does not take the previous one, or  *)
(* none, for it.                                                             *)
DeployedVersion ==
    \A l \in Annotated \cap Lasting :
       /\ layer[l].status.state = "Deployed"
       /\ layer[l].status.observed = layer[l].gen
       => /\ Present(release[l])
          /\ \E r \in Revs : release[l].spec = Source(l, layer[l].version, r)

(* The addons of a layer are not applied before those of the layers it       *)
(* depends on have been deployed once: a status that is late, a revision     *)
(* that arrives in between, a stale copy of a layer do not let them pass.    *)
RolloutOf == INSTANCE Rollout WITH
    DependsOn <- [l \in Layers |-> DependsOn[l] \cap Lasting],
    started   <- {l \in Layers : release[l].gen > 0},
    installed <- {l \in Layers : release[l].installed}

RolloutKept == RolloutOf!Spec

(* Once users and failures leave them alone, all layers become deployed, at  *)
(* the latest revision and in their present version, and stay so: a conflict *)
(* over a status, a stale cache or a verdict on half-way data is not final.  *)
Matching == \A l \in Layers : \A d \in DependsOn[l] :
               layer[l].needs[d] = layer[d].version

Deployed(l) ==
    /\ layer[l].status = [state |-> "Deployed", version |-> layer[l].version,
                          observed |-> layer[l].gen, revision |-> MaxRev]
    /\ release[l].spec = Source(l, layer[l].version, MaxRev)
    /\ Successful(release[l])

AllDeployed == <>[](Matching => \A l \in Layers : Deployed(l))

-----------------------------------------------------------------------------
(* What the documentation says, and the code does not do *)

(* A layer that reports `Deployed` has HelmReleases that are deployed: the   *)
(* Ready condition may still be the one of the HelmRelease before the apply. *)
DeployedIsReady ==
    [][\A l \in Layers :
          layer'[l].status.state = "Deployed" /\ layer[l].status.state # "Deployed"
          => release[l].observed = release[l].gen]_vars

(* The addons of a layer are applied when those of the layers it depends on  *)
(* are there from the same revision: the revision reported is not always the *)
(* one compared, and the one applied not the one the dependencies were       *)
(* judged by.                                                                *)
DependenciesFirst ==
    [][\A l \in Layers : release'[l].gen > release[l].gen =>
          \A d \in DependsOn[l] :
             release[d].spec = Source(d, layer[d].version, synced.rev)]_vars

=============================================================================
