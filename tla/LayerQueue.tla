----------------------------- MODULE LayerQueue -----------------------------
(***************************************************************************)
(* When a layer is looked at again.  The controller's work queue holds the *)
(* layers to be reconciled; a worker takes one, works on a copy of it from *)
(* the informer cache, and ends with a status update and a decision: queue *)
(* it again, later, or leave it until an event brings it back.  setStatus  *)
(* sets the flags that decide, and does nothing when the condition is the  *)
(* one already there.  Layers on hold have their HelmReleases suspended,   *)
(* layers of an earlier version have their conditions rewritten first.     *)
(*                                                                         *)
(* Abstractions.  All layers have one GitRepository, whose revision is     *)
(* behind the links as soon as its event is handled (see Repos).  A layer  *)
(* of Deploying has one HelmRelease, in every revision, nobody else's (see *)
(* HelmReleaseOwnership); so nothing is pruned here.  Versions, and        *)
(* dependencies asked for by version, are in LayerDeployment.  What the    *)
(* message of a condition says is its reason here; ApplyPending, which is  *)
(* queued again whatever it says, has none.  A delay is any time, and so   *)
(* is the back-off of the queue; only the time since the condition was set *)
(* is counted, up to Timeout.  A write that loses to another one between   *)
(* the dry run and the update is one of the calls that fail.               *)
(***************************************************************************)
EXTENDS Integers, FiniteSets

CONSTANTS
    Layers,      \* AddonsLayer names
    DependsOn,   \* DependsOn[l]: the layers in prereqs.dependsOn of l
    Deploying,   \* the layers with a HelmRelease
    Legacy,      \* the layers that may be there, deployed or held, at the start
    Timeout,     \* spec.timeout of each layer, in clock ticks
    Workers,     \* MaxConcurrentReconciles
    MaxRev,      \* bound: revisions of the branch
    MaxEdits,    \* bound: changes users make to layers and HelmReleases
    MaxFaults,   \* bound: failed calls, deployments, fetches, and restarts
    MaxUpsets    \* bound: edits, faults and revisions after the first, together

Revs == 1..MaxRev

ASSUME DependsOnAssumption == DependsOn \in [Layers -> SUBSET Layers]
ASSUME SubsetsAssumption   == Deploying \subseteq Layers /\ Legacy \subseteq Deploying
ASSUME NumbersAssumption   == {Timeout, Workers, MaxRev} \subseteq Nat \ {0}
ASSUME BoundsAssumption    == {MaxEdits, MaxFaults, MaxUpsets} \subseteq Nat

VARIABLES
    edits, faults,
    git,         \* the GitRepository
    gitSeen,     \* the same in the informer cache
    layer,       \* layer[l]: the AddonsLayer the API server holds
    layerSeen,   \* the same in the informer cache
    layerNews,   \* the layers written since, whose event is on its way
    release,     \* release[l]: the HelmRelease of l
    releaseSeen, \* the same in the informer cache
    releaseNews, \* the layers whose HelmRelease has been written since
    queue,       \* the layers to be reconciled, now or after a delay
    task         \* task[l]: the reconcile of l

bounds == <<edits, faults>>
layers   == <<layer, layerNews>>
releases == <<release, releaseNews>>
caches   == <<gitSeen, layerSeen, releaseSeen>>
vars == <<bounds, git, layers, releases, caches, queue, task>>

-----------------------------------------------------------------------------
(* Values *)

Gits == [rev : 0..MaxRev, ready : BOOLEAN]

NoGit == [rev |-> 0, ready |-> FALSE]

States == {"", "Hold", "Pending", "K8sVersion", "ApplyPending", "Applying",
           "Deployed", "Failed"}

(* What the message tells apart; "old" has no valid Reason, "fixed" had none. *)
Failures == {"noSource", "conflict", "notReady", "call"}

Reasons == {"", "old", "fixed"} \cup Failures

(* A message belongs to the state it has been set with. *)
ReasonsOf(state) ==
    {""} \cup CASE state = "Failed"   -> Failures
              [] state = "Deployed" -> {"old", "fixed"}
              [] OTHER              -> {}

(* The entry of the resource list for the HelmRelease *)
Entries == {"", "NotDeployed", "Reason", "Deployed"}

AnyStatus  == [state : States, reason : Reasons, gen : Nat, age : 0..Timeout,
               observed : Nat, rev : 0..MaxRev, entry : Entries]

Statuses == {s \in AnyStatus : s.reason \in ReasonsOf(s.state)}

LayerObjects == [hold : BOOLEAN, gen : Nat, finalizer : BOOLEAN,
                 status : Statuses]

NewLayer == [hold |-> FALSE, gen |-> 1, finalizer |-> FALSE,
             status |-> [state |-> "", reason |-> "", gen |-> 0, age |-> 0,
                         observed |-> 0, rev |-> 0, entry |-> ""]]

OldLayer == [NewLayer EXCEPT !.finalizer = TRUE,
                !.status = [@ EXCEPT !.state = "Deployed", !.reason = "old",
                                     !.observed = 1, !.rev = 1]]

(* On hold, when the process starts *)
HeldLayer == [OldLayer EXCEPT !.hold = TRUE,
                 !.status = [@ EXCEPT !.state = "Hold", !.reason = "", !.gen = 1]]

(* rev 0: not there; acted: helm-controller has acted on the present spec *)
Releases == [rev : 0..MaxRev, suspended : BOOLEAN, acted : BOOLEAN,
             ready : {"none", "true", "false"}]

NoRelease == [rev |-> 0, suspended |-> FALSE, acted |-> FALSE, ready |-> "none"]

OldReleases == [rev : {1}, suspended : BOOLEAN, acted : BOOLEAN, ready : {"true"}]

Present(hr) == hr.rev # 0

PCs == {"idle", "suspend", "judge", "apply", "check", "list", "finish"}

(* stale: the layer has been written since the copy was, so that its     *)
(* resource version is no longer the one the API server compares it with *)
Tasks == [pc : PCs, layer : LayerObjects, stale : BOOLEAN,
          updated : BOOLEAN, requeue : BOOLEAN]

Idle == [pc |-> "idle", layer |-> NewLayer, stale |-> FALSE,
         updated |-> FALSE, requeue |-> FALSE]

(* Revisions after the first one *)
Later == IF git.rev = 0 THEN 0 ELSE git.rev - 1

Upset == edits + faults + Later < MaxUpsets

Fault == faults < MaxFaults /\ Upset /\ faults' = faults + 1

-----------------------------------------------------------------------------
(* The status, and the flags *)

(* Mutant: the conditions are not emptied, and the message shown is that of *)
(* the first one.                                                           *)
SetStatusAppends(t, state, reason) ==
    LET status == [t.layer.status EXCEPT
                      !.state = state, !.gen = t.layer.gen,
                      !.reason = IF t.layer.status.state = "" THEN reason ELSE @]
    IN  IF status = t.layer.status THEN t
        ELSE [t EXCEPT !.layer.status = [status EXCEPT !.age = 0],
                       !.updated = TRUE, !.requeue = TRUE]

SetStatus(t, state, reason) ==
    LET status == [t.layer.status EXCEPT !.state = state, !.reason = reason,
                                         !.gen = t.layer.gen]
    IN  IF status = t.layer.status THEN t
        ELSE [t EXCEPT !.layer.status = [status EXCEPT !.age = 0],
                       !.updated = TRUE, !.requeue = TRUE]

Requeued(t) == [t EXCEPT !.requeue = TRUE]

Fail(t, reason) == SetStatus(t, "Failed", reason)

Goto(l, pc, t) == task' = [task EXCEPT ![l] = [t EXCEPT !.pc = pc]]

-----------------------------------------------------------------------------
(* Taking a layer from the queue *)

Take(l) ==
    /\ l \in queue
    /\ task[l] = Idle
    /\ Cardinality({m \in Layers : task[m] # Idle}) < Workers

(* A write that is taken.  One that meets a conflict changes nothing. *)
Write(l, copy) == /\ layer' = [layer EXCEPT ![l] = copy]
                  /\ layerNews' = layerNews \cup {l}

WriteRelease(l, hr) == /\ release' = [release EXCEPT ![l] = hr]
                       /\ releaseNews' = releaseNews \cup {l}

(* Written or not, the layer is queued again, with the back-off. *)
Prepare(l, copy) ==
    /\ l \notin layerNews /\ Write(l, copy)
    /\ UNCHANGED <<bounds, git, releases, caches, queue, task>>

UpgradeFix(l) ==
    /\ Take(l)
    /\ layerSeen[l].status.reason = "old"
    /\ Prepare(l, [layerSeen[l] EXCEPT !.status.reason = "fixed",
                                       !.status.gen = layerSeen[l].gen])

AddFinalizer(l) ==
    /\ Take(l)
    /\ layerSeen[l].status.reason # "old"
    /\ ~layerSeen[l].finalizer
    /\ Prepare(l, [layerSeen[l] EXCEPT !.finalizer = TRUE])

(* SetHold looks at the state only. *)
Begin(l) ==
    /\ Take(l)
    /\ layerSeen[l].status.reason # "old"
    /\ layerSeen[l].finalizer
    /\ LET t == [Idle EXCEPT !.layer = layerSeen[l], !.stale = l \in layerNews]
       IN  IF ~t.layer.hold THEN Goto(l, "judge", t)
           ELSE Goto(l, "suspend", IF t.layer.status.state = "Hold" THEN t
                                   ELSE SetStatus(t, "Hold", ""))
    /\ queue' = queue \ {l}
    /\ UNCHANGED <<bounds, git, layers, releases, caches>>

Get(l) == UpgradeFix(l) \/ AddFinalizer(l) \/ Begin(l)

-----------------------------------------------------------------------------
(* The steps of a reconcile *)

(* The HelmRelease is read from the cache, again after a conflict.  The    *)
(* retries run out, or the HelmRelease has gone: the call has failed.      *)
Suspend(l) ==
    /\ task[l].pc = "suspend"
    /\ IF ~Present(releaseSeen[l]) \/ releaseSeen[l].suspended
       THEN Goto(l, "finish", task[l]) /\ UNCHANGED releases
       ELSE IF l \notin releaseNews
       THEN /\ Goto(l, "finish", task[l])
            /\ WriteRelease(l, [release[l] EXCEPT !.suspended = TRUE])
       ELSE Goto(l, "finish", Fail(task[l], "conflict")) /\ UNCHANGED releases
    /\ UNCHANGED <<bounds, git, layers, caches, queue>>

SourceReady == gitSeen.rev # 0 /\ gitSeen.ready

OtherDeployed(other) ==
    /\ other.status.observed = other.gen
    /\ SourceReady
    /\ other.status.rev = gitSeen.rev
    /\ other.status.state = "Deployed"

DependenciesDeployed(l) == \A d \in DependsOn[l] : OtherDeployed(layerSeen[d])

(* Mutant: the suspension is no part of the spec that is compared. *)
ApplyChanged(l) == l \in Deploying /\ releaseSeen[l].rev # gitSeen.rev

ApplyIsRequired(l) ==
    /\ l \in Deploying
    /\ releaseSeen[l].rev # gitSeen.rev \/ releaseSeen[l].suspended

(* isReady, and processApply up to the comparison *)
Judge(l) ==
    /\ task[l].pc = "judge"
    /\ LET t == task[l]
       IN  IF gitSeen.rev = 0 THEN Goto(l, "finish", Fail(t, "noSource"))
           ELSE IF ~gitSeen.ready
           THEN Goto(l, "finish", Requeued(SetStatus(t, "Pending", "")))
           ELSE IF ~DependenciesDeployed(l)
           THEN Goto(l, "list", Requeued(SetStatus(t, "ApplyPending", "")))
           ELSE Goto(l, IF ApplyIsRequired(l) THEN "apply" ELSE "check", t)
    /\ UNCHANGED <<bounds, git, layers, releases, caches, queue>>

K8sVersionNotMet(l) ==
    /\ task[l].pc = "judge"
    /\ SourceReady
    /\ Fault
    /\ Goto(l, "list", Requeued(SetStatus(task[l], "K8sVersion", "")))
    /\ UNCHANGED <<edits, git, layers, releases, caches, queue>>

(* Create or Update, by what the cache holds, of what the dry run returns *)
Put(l) ==
    LET hr == [release[l] EXCEPT !.rev = gitSeen.rev, !.suspended = FALSE]
    IN  IF hr = release[l] THEN UNCHANGED releases
        ELSE WriteRelease(l, [hr EXCEPT !.acted = FALSE])

Apply(l) ==
    /\ task[l].pc = "apply"
    /\ LET t == SetStatus(task[l], "Applying", "")
       IN  IF ~DependenciesDeployed(l)
           THEN /\ Goto(l, "list", Requeued(SetStatus(task[l], "ApplyPending", "")))
                /\ UNCHANGED releases
           ELSE IF Present(release[l]) = Present(releaseSeen[l])
           THEN Goto(l, "list", Requeued(t)) /\ Put(l)
           ELSE Goto(l, "list", Fail(t, "conflict")) /\ UNCHANGED releases
    /\ UNCHANGED <<bounds, git, layers, caches, queue>>

(* The source is read again for the HelmRepositories: that call fails, or the *)
(* one that applies them, and the HelmReleases are there.                     *)
ApplyFails(l) ==
    /\ task[l].pc = "apply"
    /\ DependenciesDeployed(l) /\ Present(release[l]) = Present(releaseSeen[l])
    /\ Fault
    /\ Goto(l, "list", Fail(SetStatus(task[l], "Applying", ""), "call")) /\ Put(l)
    /\ UNCHANGED <<edits, git, layers, caches, queue>>

(* ApplyWasSuccessful: no HelmRelease of the layer is without Ready = True. *)
Successful(hr) == Present(hr) => hr.ready = "true"

Deployed(t) ==
    LET done == SetStatus(t, "Deployed", "")
    IN  [done EXCEPT !.layer.status.rev = gitSeen.rev,
                     !.updated = @ \/ t.layer.status.rev # gitSeen.rev]

InTime(status) == status.state = "Applying" /\ status.age < Timeout

Check(l) ==
    /\ task[l].pc = "check"
    /\ Goto(l, "list",
            IF Successful(releaseSeen[l]) THEN Deployed(task[l])
            ELSE Requeued(IF InTime(task[l].layer.status) THEN task[l]
                          ELSE Fail(task[l], "notReady")))
    /\ UNCHANGED <<bounds, git, layers, releases, caches, queue>>

(* updateResources is deferred once the data is there, and may fail as well. *)
CallFails(l) ==
    /\ task[l].pc \in {"suspend", "judge", "apply", "check"}
    /\ Fault
    /\ \/ Goto(l, "finish", Fail(task[l], "call"))
       \/ task[l].pc # "suspend" /\ SourceReady /\ Goto(l, "list", Fail(task[l], "call"))
    /\ UNCHANGED <<edits, git, layers, releases, caches, queue>>

Entry(l) ==
    IF l \notin Deploying THEN ""
    ELSE CASE releaseSeen[l].ready = "true"  -> "Deployed"
           [] releaseSeen[l].ready = "false" -> "Reason"
           [] OTHER                          -> "NotDeployed"

(* An entry without a condition carries the time, so it may differ always. *)
UpdateResources(l, t) ==
    LET listed == [t EXCEPT !.layer.status.entry = Entry(l), !.updated = TRUE]
    IN  IF Entry(l) # t.layer.status.entry THEN {listed}
        ELSE IF Entry(l) = "NotDeployed" THEN {t, listed} ELSE {t}

(* The end of Reconcile, and updateRequeue *)
Finish(l) ==
    /\ task[l].pc \in {"list", "finish"}
    /\ \E t \in IF task[l].pc = "list" THEN UpdateResources(l, task[l]) ELSE {task[l]} :
          LET copy    == [t.layer EXCEPT !.status.observed = t.layer.gen]
              updated == t.updated \/ copy # t.layer
              refused == updated /\ t.stale
          IN  /\ IF updated /\ ~refused THEN Write(l, copy)
                                        ELSE UNCHANGED layers
              /\ queue' = IF refused \/ t.requeue THEN queue \cup {l} ELSE queue
    /\ task' = [task EXCEPT ![l] = Idle]
    /\ UNCHANGED <<bounds, git, releases, caches>>

Step(l) == Suspend(l) \/ Judge(l) \/ Apply(l) \/ Check(l) \/ Finish(l)

-----------------------------------------------------------------------------
(* What puts layers into the queue *)

Add(ls) == queue' = queue \cup ls

(* Mutant: the events of a layer on hold are filtered out. *)
Unheld(l) == IF layer[l].hold THEN {} ELSE {l}

(* The controller's own watch *)
Itself(l) == {l}

(* layerMapperFunc, for an update to a layer that is deployed *)
Dependents(d) == IF layer[d].status.state = "Deployed"
                 THEN {l \in Layers : d \in DependsOn[l]} ELSE {}

SeeLayer(l) ==
    /\ l \in layerNews
    /\ layerNews' = layerNews \ {l}
    /\ layerSeen' = [layerSeen EXCEPT ![l] = layer[l]]
    /\ Add(Itself(l) \cup Dependents(l))
    /\ UNCHANGED <<bounds, git, layer, releases, gitSeen, releaseSeen, task>>

(* Mutant: a predicate on the generation, which a status does not change *)
GenerationChanged(l) ==
    IF [releaseSeen[l] EXCEPT !.acted = release[l].acted, !.ready = release[l].ready]
       = release[l] THEN {} ELSE {l}

(* The predicates let every event of an object of a layer pass. *)
Owner(l) == {l}

SeeRelease(l) ==
    /\ l \in releaseNews
    /\ releaseNews' = releaseNews \ {l}
    /\ releaseSeen' = [releaseSeen EXCEPT ![l] = release[l]]
    /\ Add(Owner(l))
    /\ UNCHANGED <<bounds, git, layers, release, gitSeen, layerSeen, task>>

(* Mutant: only the first artifact is let through, not a new revision. *)
SeeGitOnce ==
    /\ gitSeen # git
    /\ gitSeen' = git
    /\ Add(IF gitSeen.rev = 0 /\ git.rev # 0 THEN Layers ELSE {})
    /\ UNCHANGED <<bounds, git, layers, releases, layerSeen, releaseSeen, task>>

SeeGit ==
    /\ gitSeen # git
    /\ gitSeen' = git
    /\ Add(IF gitSeen.rev # git.rev THEN Layers ELSE {})
    /\ UNCHANGED <<bounds, git, layers, releases, layerSeen, releaseSeen, task>>

Resync ==
    /\ queue # Layers
    /\ Add(Layers)
    /\ UNCHANGED <<bounds, git, layers, releases, caches, task>>

-----------------------------------------------------------------------------
(* Time, source-controller, helm-controller, users, restarts *)

Aging(al) == al.status.state = "Applying" /\ al.status.age < Timeout

Older(al) == IF Aging(al) THEN [al EXCEPT !.status.age = @ + 1] ELSE al

Tick ==
    /\ \E l \in Layers : Aging(layer[l]) \/ Aging(layerSeen[l]) \/ Aging(task[l].layer)
    /\ layer' = [l \in Layers |-> Older(layer[l])]
    /\ layerSeen' = [l \in Layers |-> Older(layerSeen[l])]
    /\ task' = [l \in Layers |-> [task[l] EXCEPT !.layer = Older(@)]]
    /\ UNCHANGED <<bounds, git, layerNews, releases, gitSeen, releaseSeen, queue>>

Environment == UNCHANGED <<caches, queue, task>>

Publish ==
    /\ git.rev < MaxRev
    /\ git.rev = 0 \/ Upset
    /\ git' = [rev |-> git.rev + 1, ready |-> TRUE]
    /\ UNCHANGED <<bounds, layers, releases>> /\ Environment

FetchFails ==
    /\ git.ready
    /\ Fault
    /\ git' = [git EXCEPT !.ready = FALSE]
    /\ UNCHANGED <<edits, layers, releases>> /\ Environment

FetchRecovers ==
    /\ git.rev # 0 /\ ~git.ready
    /\ git' = [git EXCEPT !.ready = TRUE]
    /\ UNCHANGED <<bounds, layers, releases>> /\ Environment

HelmDeploys(l) ==
    /\ Present(release[l]) /\ ~release[l].suspended
    /\ ~release[l].acted \/ release[l].ready # "true"
    /\ WriteRelease(l, [release[l] EXCEPT !.acted = TRUE, !.ready = "true"])
    /\ UNCHANGED <<bounds, git, layers>> /\ Environment

HelmFails(l) ==
    /\ Present(release[l]) /\ ~release[l].suspended /\ ~release[l].acted
    /\ Fault
    /\ WriteRelease(l, [release[l] EXCEPT !.acted = TRUE, !.ready = "false"])
    /\ UNCHANGED <<edits, git, layers>> /\ Environment

Edit == edits < MaxEdits /\ Upset /\ edits' = edits + 1

ToggleHold(l) ==
    /\ Edit
    /\ Write(l, [layer[l] EXCEPT !.hold = ~@, !.gen = @ + 1])
    /\ task' = [task EXCEPT ![l].stale = task[l] # Idle]
    /\ UNCHANGED <<faults, git, releases, caches, queue>>

DeleteRelease(l) ==
    /\ Present(release[l])
    /\ Edit
    /\ WriteRelease(l, NoRelease)
    /\ UNCHANGED <<faults, git, layers>> /\ Environment

ToggleSuspend(l) ==
    /\ Present(release[l])
    /\ Edit
    /\ WriteRelease(l, [release[l] EXCEPT !.suspended = ~@])
    /\ UNCHANGED <<faults, git, layers>> /\ Environment

(* The new process lists all objects, and queues every layer. *)
Restart ==
    /\ Fault
    /\ gitSeen' = git /\ layerSeen' = layer /\ releaseSeen' = release
    /\ layerNews' = {} /\ releaseNews' = {}
    /\ queue' = Layers
    /\ task' = [l \in Layers |-> Idle]
    /\ UNCHANGED <<edits, git, layer, release>>

-----------------------------------------------------------------------------
Init ==
    /\ edits = 0 /\ faults = 0
    /\ git \in {NoGit, [rev |-> 1, ready |-> TRUE]} /\ gitSeen = git
    /\ layer \in [Layers -> {NewLayer, OldLayer, HeldLayer}]
    /\ release \in [Layers -> {NoRelease} \cup OldReleases]
    /\ \A l \in Layers : /\ layer[l] # NewLayer => l \in Legacy
                         /\ layer[l] # NewLayer <=> Present(release[l])
                         /\ layer[l].hold <=> release[l].suspended
    /\ layerSeen = layer /\ releaseSeen = release
    /\ layerNews = {} /\ releaseNews = {}
    /\ queue = Layers
    /\ task = [l \in Layers |-> Idle]

Next ==
    \/ Tick \/ Publish \/ FetchFails \/ FetchRecovers \/ SeeGit \/ Resync \/ Restart
    \/ \E l \in Layers :
          \/ Get(l) \/ Step(l) \/ K8sVersionNotMet(l) \/ CallFails(l) \/ ApplyFails(l)
          \/ SeeLayer(l) \/ SeeRelease(l)
          \/ HelmDeploys(l) \/ HelmFails(l)
          \/ ToggleHold(l) \/ DeleteRelease(l) \/ ToggleSuspend(l)

Spec == Init /\ [][Next]_vars

(* The queue is first-in first-out, so no layer waits for ever while others  *)
(* come and go; delays pass, informers deliver, helm-controller acts on what *)
(* is not suspended, a first revision comes.  The resync is not fair.       *)
Fairness ==
    /\ WF_vars(Tick) /\ WF_vars(git.rev = 0 /\ Publish)
    /\ WF_vars(FetchRecovers) /\ WF_vars(SeeGit)
    /\ \A l \in Layers : /\ SF_vars(Get(l)) /\ WF_vars(Step(l))
                         /\ WF_vars(SeeLayer(l)) /\ WF_vars(SeeRelease(l))
                         /\ WF_vars(HelmDeploys(l))

FairSpec == Spec /\ Fairness
-----------------------------------------------------------------------------
(* Every variable stays within its type; a layer never shows, in the cache   *)
(* or in a reconcile either, the message of one state next to another state. *)
TypeOK ==
    /\ edits \in 0..MaxEdits /\ faults \in 0..MaxFaults
    /\ {git, gitSeen} \subseteq Gits
    /\ layer \in [Layers -> LayerObjects] /\ layerSeen \in [Layers -> LayerObjects]
    /\ release \in [Layers -> Releases] /\ releaseSeen \in [Layers -> Releases]
    /\ queue \subseteq Layers
    /\ layerNews \subseteq Layers /\ releaseNews \subseteq Layers
    /\ task \in [Layers -> Tasks]

(* Nothing will bring l back but the resync, or a change to come. *)
Quiet(l) ==
    /\ l \notin queue \cup layerNews \cup releaseNews
    /\ task[l] = Idle
    /\ gitSeen.rev = git.rev

Up(l) ==
    /\ layer[l].status.state = "Deployed"
    /\ layer[l].status.observed = layer[l].gen
    /\ layer[l].status.rev = git.rev
    /\ l \in Deploying => /\ release[l].rev = git.rev
                          /\ ~release[l].suspended
                          /\ release[l].ready = "true"

Held(l) == /\ layer[l].status.state = "Hold"
           /\ layer[l].status.observed = layer[l].gen
           /\ Present(release[l]) => release[l].suspended

CallFailed(l) == /\ layer[l].status.state = "Failed"
                 /\ layer[l].status.reason = "call"

(* A layer that is not on hold is left alone only when it is deployed, with   *)
(* its HelmRelease in the present revision, running and ready, or after a     *)
(* call that has failed twice: whatever passes between a look at a cache and  *)
(* the end of the reconcile, an event or the flags bring the layer back.      *)
NothingForgotten ==
    \A l \in Layers : Quiet(l) /\ git.rev # 0 /\ ~layer[l].hold
                      => Up(l) \/ CallFailed(l)

(* A layer on hold is left alone only when its HelmRelease is suspended and   *)
(* its status says so: a reconcile that has begun before, and applies after,  *)
(* a conflict with helm-controller, a stale cache do not leave it running.    *)
HoldComplete == \A l \in Layers : Quiet(l) /\ layer[l].hold => Held(l)

(* Without any resync, all layers get deployed, or held, and stay so.  Those  *)
(* that wait for others wait; one that was deployed before them stays that.   *)
Blocked(l) == \E d \in DependsOn[l] : ~Up(d)

Done(l) ==
    IF layer[l].hold THEN Held(l)
    ELSE IF Blocked(l) THEN layer[l].status.state \in {"ApplyPending", "Deployed"}
    ELSE Up(l)

Settles == <>[](git.rev # 0 /\ \A l \in Layers : Done(l))

=============================================================================
