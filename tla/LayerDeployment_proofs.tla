----------------------- MODULE LayerDeployment_proofs -----------------------
(***************************************************************************)
(* For every set of layers, dependencies and HelmReleases, and every bound: *)
(* the types, the revision and the version that are reported, and that     *)
(* LayerDeployment implements Rollout.  All follow from IInv.              *)
(***************************************************************************)
EXTENDS LayerDeployment, TLAPS

-----------------------------------------------------------------------------
(* The types, of which TypeOK leaves out the domains *)

PCs == {"idle", "prune", "depend", "compare", "dependAgain", "apply", "success",
        "finish"}

LayerObjects == [version : Nat, needs : UNION {[DependsOn[l] -> Nat] : l \in Layers},
                 gen : Nat, status : Statuses]

Specs == {NoAddon} \cup (UNION {{Addons[l][r] : r \in Revs} \X Nat : l \in Layers})

Releases == [spec : Specs, gen : Nat, observed : Nat, ready : BOOLEAN,
             installed : BOOLEAN]

Tasks == [pc : PCs, layer : LayerObjects \cup {NoStatus}, status : Statuses]

WorldOK ==
    /\ edits \in 0..MaxEdits /\ faults \in 0..MaxFaults
    /\ git \in Gits /\ gitSeen \in Gits /\ synced \in Gits
    /\ layer \in [Layers -> LayerObjects] /\ layerSeen \in [Layers -> LayerObjects]
    /\ release \in [Layers -> Releases] /\ releaseSeen \in [Layers -> Releases]
    /\ task \in [Layers -> Tasks]

-----------------------------------------------------------------------------
(* The invariant *)

(* What is behind the links is what the cache has shown before, or nothing. *)
SourceOK == synced.rev <= gitSeen.rev /\ gitSeen.rev <= git.rev

(* A status reports no revision that is newer than the one behind the links. *)
RevisionOK(s) == /\ s.revision <= gitSeen.rev
                 /\ synced.rev = 0 \/ s.revision <= synced.rev

(* A status that says Deployed has been written after a deployment. *)
DeployedOK(l, s) == l \in Lasting /\ s.state = "Deployed" => release[l].installed

StatusOK(l, s) == RevisionOK(s) /\ DeployedOK(l, s)

CopyOK(l, al) == LayerOK(l, al) /\ StatusOK(l, al.status)

ReleasesOK(l) ==
    /\ ReleaseOK(release[l]) /\ ReleaseOK(releaseSeen[l])
    /\ Present(release[l]) \/ release[l].installed => release[l].gen > 0
    /\ release[l].ready => release[l].installed
    /\ releaseSeen[l].ready => release[l].installed
    /\ l \in Lasting /\ Present(releaseSeen[l]) => Present(release[l])

(* The version of the layer a HelmRelease has been made for *)
VersionOf(hr) == hr.spec[2]

Versioned(l, hr) ==
    Present(hr) => /\ VersionOf(hr) \in Nat
                   /\ \E r \in Revs : hr.spec = <<Addons[l][r], VersionOf(hr)>>

AtVersion(l, version) == Present(release[l]) /\ VersionOf(release[l]) = version

(* Versions grow: in the HelmRelease as in the layer, and on both in the cache. *)
VersionsGrow(l) ==
    /\ Versioned(l, release[l]) /\ Versioned(l, releaseSeen[l])
    /\ layerSeen[l].version <= layer[l].version
    /\ Present(releaseSeen[l]) => VersionOf(releaseSeen[l]) <= VersionOf(release[l])
    /\ Present(release[l]) => VersionOf(release[l]) <= layerSeen[l].version

VersionOK(l) ==
    l \in Annotated \cap Lasting =>
       /\ VersionsGrow(l)
       /\ /\ layer[l].status.state = "Deployed"
          /\ layer[l].status.observed = layer[l].gen
          => AtVersion(l, layer[l].version)

(* Between the judgement and what follows from it *)
StepOK(l, t) ==
    /\ t.pc \notin {"idle", "finish"} => synced.rev # 0
    /\ t.pc \in {"compare", "dependAgain", "apply"} =>
          \A d \in DependsOn[l] \cap Lasting : release[d].installed
    /\ t.pc = "success" /\ l \in Lasting => Present(releaseSeen[l])

TaskVersionOK(l, t) ==
    l \in Annotated \cap Lasting =>
       /\ t.layer.version <= layerSeen[l].version
       /\ Present(release[l]) => VersionOf(release[l]) <= t.layer.version
       /\ t.pc = "success" \/ (t.pc = "finish" /\ t.status.state = "Deployed")
          => AtVersion(l, t.layer.version)

TaskOK(l, t) ==
    /\ StepOK(l, t)
    /\ t.pc # "idle" =>
          /\ t.layer \in LayerObjects /\ CopyOK(l, t.layer) /\ StatusOK(l, t.status)
          /\ t.layer.status.revision <= t.status.revision
          /\ TaskVersionOK(l, t)

OneOK(l) == /\ CopyOK(l, layer[l]) /\ CopyOK(l, layerSeen[l])
            /\ ReleasesOK(l) /\ VersionOK(l) /\ TaskOK(l, task[l])

IInv == WorldOK /\ SourceOK /\ \A l \in Layers : OneOK(l)

-----------------------------------------------------------------------------
(* Facts about the values *)

LEMMA Constants ==
    /\ MaxRev \in Nat \ {0} /\ MaxEdits \in Nat /\ MaxFaults \in Nat
    /\ Revs = 1..MaxRev
    /\ \A l \in Layers : DependsOn[l] \subseteq Layers
  BY BoundsAssumption, DependsOnAssumption DEF Revs

LEMMA SourceType ==
    ASSUME NEW l \in Layers, NEW version \in Nat, NEW r \in Revs
    PROVE  /\ Source(l, version, r) \in Specs
           /\ l \in Lasting => Source(l, version, r) # NoAddon
           /\ l \in Annotated \cap Lasting =>
                 Source(l, version, r) = <<Addons[l][r], version>>
  <1> DEFINE v == IF l \in Annotated THEN version ELSE 0
             A == {Addons[l][i] : i \in Revs}
  <1>1. <<Addons[l][r], v>> \in A \X Nat
    OBVIOUS
  <1>2. NoAddon \notin A \X Nat
    BY NoAddonAssumption
  <1>3. A \X Nat \subseteq Specs
    BY DEF Specs
  <1>4. NoAddon \in Specs
    BY DEF Specs
  <1>5. l \in Lasting => Addons[l][r] # NoAddon
    BY DEF Lasting
  <1> HIDE DEF A
  <1> QED
    BY <1>1, <1>2, <1>3, <1>4, <1>5 DEF Source

LEMMA FoundType ==
    ASSUME IInv, NEW l \in Layers, task[l].pc \notin {"idle", "finish"}
    PROVE  /\ synced.rev \in Revs
           /\ task[l].layer.version \in Nat
           /\ Found(l) \in Specs
           /\ l \in Lasting => Found(l) # NoAddon
           /\ l \in Annotated \cap Lasting =>
                 Found(l) = <<Addons[l][synced.rev], task[l].layer.version>>
  <1>1. synced.rev \in Revs
    BY Constants DEF IInv, WorldOK, OneOK, TaskOK, StepOK, Gits
  <1>2. task[l].layer.version \in Nat
    BY DEF IInv, OneOK, TaskOK, CopyOK, LayerOK
  <1> QED
    BY <1>1, <1>2, SourceType DEF Found

-----------------------------------------------------------------------------
(* A step of a reconcile that writes nothing *)

LEMMA TaskStep ==
    ASSUME IInv, NEW l \in Layers, NEW t \in Tasks, TaskOK(l, t),
           task' = [task EXCEPT ![l] = t],
           edits' \in 0..MaxEdits, faults' \in 0..MaxFaults,
           UNCHANGED <<sources, objects, caches>>
    PROVE  IInv'
  <1> USE DEF sources, objects, caches
  <1>1. WorldOK'
    BY DEF IInv, WorldOK
  <1>2. SourceOK'
    BY DEF IInv, SourceOK
  <1>3. ASSUME NEW m \in Layers PROVE OneOK(m)'
    <2>1. task'[m] = IF m = l THEN t ELSE task[m]
      BY DEF IInv, WorldOK
    <2>2. OneOK(m) /\ TaskOK(m, task'[m])
      BY <2>1 DEF IInv, OneOK
    <2> QED
      BY <2>2 DEF OneOK, CopyOK, LayerOK, StatusOK, RevisionOK, DeployedOK,
            ReleasesOK, VersionOK, VersionsGrow, Versioned, AtVersion, TaskOK, StepOK,
            TaskVersionOK
  <1> QED
    BY <1>1, <1>2, <1>3 DEF IInv
-----------------------------------------------------------------------------
(* The steps of a reconcile *)

USE DEF sources, objects, caches

(* What all tasks that are under way have in common *)
LEMMA Running ==
    ASSUME IInv, NEW l \in Layers
    PROVE  /\ task[l] = [pc |-> task[l].pc, layer |-> task[l].layer,
                         status |-> task[l].status]
           /\ task[l] \in Tasks /\ TaskOK(l, task[l]) /\ OneOK(l)
           /\ layerSeen[l] \in LayerObjects /\ layer[l] \in LayerObjects
           /\ release[l] \in Releases /\ releaseSeen[l] \in Releases
           /\ synced \in Gits /\ gitSeen \in Gits /\ git \in Gits
           /\ edits \in 0..MaxEdits /\ faults \in 0..MaxFaults
  BY DEF IInv, OneOK, WorldOK, Tasks

LEMMA Counters ==
    ASSUME IInv
    PROVE  edits \in 0..MaxEdits /\ faults \in 0..MaxFaults
  BY DEF IInv, WorldOK

LEMMA FaultCounters ==
    ASSUME IInv, Fault, edits' = edits
    PROVE  edits' \in 0..MaxEdits /\ faults' \in 0..MaxFaults
  BY Counters, Constants DEF Fault

LEMMA StatusType ==
    ASSUME IInv, NEW l \in Layers, task[l].pc # "idle", NEW state \in States
    PROVE  LET w == SetStatus(task[l].layer, task[l].status, state)
           IN  /\ w \in Statuses /\ w.state = state
               /\ w.revision = task[l].status.revision
  <1>1. task[l].status \in Statuses
    BY Running DEF Tasks
  <1>2. task[l].layer.version \in Nat
    BY Running DEF TaskOK, LayerObjects
  <1> QED
    BY <1>1, <1>2 DEF SetStatus, Statuses

(* A task that ends otherwise than in success *)
LEMMA EndShape ==
    ASSUME IInv, NEW l \in Layers, task[l].pc # "idle", NEW state \in States,
           End(l, state)
    PROVE  LET t == [pc |-> "finish", layer |-> task[l].layer,
                     status |-> SetStatus(task[l].layer, task[l].status, state)]
           IN  /\ task' = [task EXCEPT ![l] = t] /\ t \in Tasks /\ t.pc = "finish"
               /\ t.status \in Statuses /\ t.status.state = state
               /\ t.status.revision = task[l].status.revision
  <1> DEFINE u == [task[l] EXCEPT !.pc = "finish"]
             f == [task EXCEPT ![l] = u]
             w == SetStatus(task[l].layer, task[l].status, state)
             t == [pc |-> "finish", layer |-> task[l].layer, status |-> w]
  <1>1. task' = [task EXCEPT ![l] = t]
    <2>1. task \in [Layers -> Tasks]
      BY DEF IInv, WorldOK
    <2>2. u = [pc |-> "finish", layer |-> task[l].layer, status |-> task[l].status]
      BY <2>1 DEF Tasks
    <2>3. f[l] = u
      BY <2>1
    <2>4. task' = [f EXCEPT ![l] = [u EXCEPT !.status = w]]
      BY <2>2, <2>3 DEF End
    <2> HIDE DEF u, w
    <2>5. [u EXCEPT !.status = w] = t
      BY <2>2
    <2> HIDE DEF t
    <2> QED
      BY <2>1, <2>4, <2>5
  <1>2. w \in Statuses /\ w.state = state /\ w.revision = task[l].status.revision
    BY StatusType
  <1>3. t \in Tasks
    BY <1>2, Running DEF Tasks, PCs
  <1> QED
    BY <1>1, <1>2, <1>3

LEMMA EndTask ==
    ASSUME IInv, NEW l \in Layers, task[l].pc # "idle",
           NEW state \in States \ {"Deployed"},
           End(l, state), edits' \in 0..MaxEdits, faults' \in 0..MaxFaults,
           UNCHANGED <<sources, objects, caches>>
    PROVE  IInv'
  <1> DEFINE t == [pc |-> "finish", layer |-> task[l].layer,
                   status |-> SetStatus(task[l].layer, task[l].status, state)]
  <1>1. /\ task' = [task EXCEPT ![l] = t] /\ t \in Tasks
        /\ t.status \in Statuses /\ t.status.state = state
        /\ t.status.revision = task[l].status.revision
    BY EndShape
  <1>2. TaskOK(l, t)
    BY <1>1, Running DEF TaskOK, StepOK, TaskVersionOK, StatusOK, RevisionOK, DeployedOK
  <1> QED
    BY <1>1, <1>2, TaskStep

LEMMA GotoTask ==
    ASSUME IInv, NEW l \in Layers, task[l].pc # "idle", NEW pc \in PCs \ {"idle"},
           StepOK(l, [task[l] EXCEPT !.pc = pc]),
           TaskVersionOK(l, [task[l] EXCEPT !.pc = pc]),
           Goto(l, pc), UNCHANGED <<edits, faults, sources, objects, caches>>
    PROVE  IInv'
  <1> DEFINE t == [task[l] EXCEPT !.pc = pc]
  <1>1. task' = [task EXCEPT ![l] = t]
    BY DEF Goto
  <1>2. t \in Tasks /\ t.layer = task[l].layer /\ t.status = task[l].status
    BY Running DEF Tasks
  <1>3. TaskOK(l, t)
    BY <1>2, Running DEF TaskOK
  <1> HIDE DEF t
  <1>4. edits' \in 0..MaxEdits /\ faults' \in 0..MaxFaults
    BY Running
  <1> QED
    BY <1>1, <1>2, <1>3, <1>4, TaskStep

LEMMA BeginStep ==
    ASSUME IInv, NEW l \in Layers, Begin(l)
    PROVE  IInv'
  <1> DEFINE copy == layerSeen[l]
             t(pc, status) == [pc |-> pc, layer |-> copy, status |-> status]
  <1>0. edits' \in 0..MaxEdits /\ faults' \in 0..MaxFaults
    BY Running DEF Begin
  <1>1. copy \in LayerObjects /\ CopyOK(l, copy)
    BY Running DEF OneOK
  <1>2. l \in Annotated \cap Lasting =>
           /\ copy.version <= layerSeen[l].version
           /\ Present(release[l]) => VersionOf(release[l]) <= copy.version
    <2>1. OneOK(l) /\ copy.version \in Nat
      BY <1>1, Running DEF LayerObjects
    <2> QED
      BY <2>1 DEF OneOK, VersionOK, VersionsGrow
  <1>3. ASSUME NEW state \in {"Failed", "Pending"},
               task' = [task EXCEPT ![l] = t("finish", SetStatus(copy, copy.status, state))]
        PROVE  IInv'
    <2> DEFINE status == SetStatus(copy, copy.status, state)
    <2>1. status \in Statuses /\ status.state = state
          /\ status.revision = copy.status.revision
      BY <1>1 DEF SetStatus, LayerObjects, Statuses, States
    <2>2. t("finish", status) \in Tasks
      BY <1>1, <2>1 DEF Tasks, PCs
    <2>3. StatusOK(l, status)
      BY <1>1, <2>1 DEF CopyOK, StatusOK, RevisionOK, DeployedOK
    <2>4. copy.status.revision <= status.revision
      BY <2>1 DEF Statuses
    <2>5. TaskVersionOK(l, t("finish", status))
      BY <2>1, <1>2 DEF TaskVersionOK
    <2> HIDE DEF copy
    <2>6. TaskOK(l, t("finish", status))
      BY <1>1, <2>3, <2>4, <2>5 DEF TaskOK, StepOK
    <2> QED
      BY <1>0, <1>3, <2>2, <2>6, TaskStep DEF Begin, t
  <1>4. ASSUME synced.rev # 0, task' = [task EXCEPT ![l] = t("prune", copy.status)]
        PROVE  IInv'
    <2>1. t("prune", copy.status) \in Tasks
      BY <1>1 DEF Tasks, PCs, LayerObjects
    <2>2. TaskOK(l, t("prune", copy.status))
      <3>1. TaskVersionOK(l, t("prune", copy.status))
        BY <1>2 DEF TaskVersionOK
      <3>2. StatusOK(l, copy.status) /\ copy.status.revision <= copy.status.revision
        BY <1>1 DEF CopyOK, LayerObjects, Statuses
      <3> HIDE DEF copy
      <3> QED
        BY <1>1, <1>4, <3>1, <3>2 DEF TaskOK, StepOK
    <2> QED
      BY <1>0, <1>4, <2>1, <2>2, TaskStep DEF Begin
  <1> QED
    BY <1>3, <1>4 DEF Begin

LEMMA CallFailsStep ==
    ASSUME IInv, NEW l \in Layers, CallFails(l) \/ K8sVersionNotMet(l)
    PROVE  IInv'
  <1>1. faults' \in 0..MaxFaults /\ edits' \in 0..MaxEdits
    BY FaultCounters DEF CallFails, K8sVersionNotMet
  <1> QED
    BY <1>1, EndTask DEF CallFails, K8sVersionNotMet, States

LEMMA DependStep ==
    ASSUME IInv, NEW l \in Layers,
           Depend(l, "depend", "compare") \/ Depend(l, "dependAgain", "apply")
    PROVE  IInv'
  <1>0. edits' \in 0..MaxEdits /\ faults' \in 0..MaxFaults
    BY Running DEF Depend
  <1>1. CASE ~DependenciesDeployed(l)
    BY <1>0, <1>1, EndTask DEF Depend, States
  <1>2. CASE DependenciesDeployed(l)
    <2>1. \A d \in DependsOn[l] \cap Lasting : release[d].installed
      <3> TAKE d \in DependsOn[l] \cap Lasting
      <3>1. layerSeen[d].status.state = "Deployed"
        BY <1>2 DEF DependenciesDeployed, OtherDeployed
      <3>2. d \in Layers /\ DeployedOK(d, layerSeen[d].status)
        BY Constants DEF IInv, OneOK, CopyOK, StatusOK
      <3> QED
        BY <3>1, <3>2 DEF DeployedOK
    <2>2. PICK pc \in {"compare", "apply"} : Goto(l, pc) /\ task[l].pc \in {"depend", "dependAgain"}
      BY <1>2 DEF Depend
    <2>3. StepOK(l, [task[l] EXCEPT !.pc = pc])
      BY <2>1, <2>2, Running DEF TaskOK, StepOK, Tasks
    <2>4. TaskVersionOK(l, [task[l] EXCEPT !.pc = pc])
      BY <2>2, Running DEF TaskOK, TaskVersionOK, Tasks
    <2> QED
      BY <2>2, <2>3, <2>4, GotoTask DEF PCs, Depend
  <1> QED
    BY <1>1, <1>2

LEMMA CompareStep ==
    ASSUME IInv, NEW l \in Layers, Compare(l)
    PROVE  IInv'
  <1>1. CASE ApplyRequired(l)
    <2>1. StepOK(l, [task[l] EXCEPT !.pc = "dependAgain"])
      BY Running DEF TaskOK, StepOK, Tasks, Compare
    <2>2. TaskVersionOK(l, [task[l] EXCEPT !.pc = "dependAgain"])
      BY Running DEF TaskOK, TaskVersionOK, Tasks, Compare
    <2> QED
      BY <1>1, <2>1, <2>2, GotoTask DEF Compare, PCs
  <1>2. CASE ~ApplyRequired(l)
    <2>1. l \in Lasting => Present(releaseSeen[l]) /\ releaseSeen[l].spec = Found(l)
      BY <1>2, FoundType DEF ApplyRequired, Compare
    <2>2. StepOK(l, [task[l] EXCEPT !.pc = "success"])
      BY <2>1, Running DEF TaskOK, StepOK, Tasks, Compare
    <2>3. l \in Annotated \cap Lasting => AtVersion(l, task[l].layer.version)
      <3> SUFFICES ASSUME l \in Annotated \cap Lasting
                   PROVE  AtVersion(l, task[l].layer.version)
        OBVIOUS
      <3>1. VersionOf(releaseSeen[l]) = task[l].layer.version
            /\ task[l].layer.version \in Nat
        BY <2>1, FoundType DEF Compare, VersionOf
      <3>2. Present(release[l]) /\ VersionOf(release[l]) \in Nat
        BY <2>1, Running DEF OneOK, ReleasesOK, VersionOK, VersionsGrow, Versioned
      <3>3. VersionOf(releaseSeen[l]) <= VersionOf(release[l])
        BY <2>1, Running DEF OneOK, VersionOK, VersionsGrow
      <3>4. VersionOf(release[l]) <= task[l].layer.version
        BY <3>2, Running DEF TaskOK, TaskVersionOK, Compare
      <3> QED
        BY <3>1, <3>2, <3>3, <3>4 DEF AtVersion
    <2>4. TaskVersionOK(l, [task[l] EXCEPT !.pc = "success"])
      BY <2>3, Running DEF TaskOK, TaskVersionOK, Tasks, Compare
    <2> QED
      BY <1>2, <2>2, <2>4, GotoTask DEF Compare, PCs
  <1> QED
    BY <1>1, <1>2

LEMMA CheckStep ==
    ASSUME IInv, NEW l \in Layers, Check(l)
    PROVE  IInv'
  <1>0. edits' \in 0..MaxEdits /\ faults' \in 0..MaxFaults
    BY Running DEF Check
  <1>1. CASE Successful(releaseSeen[l])
    <2> DEFINE status == [SetStatus(task[l].layer, task[l].status, "Deployed")
                             EXCEPT !.revision = synced.rev]
               t == [pc |-> "finish", layer |-> task[l].layer, status |-> status]
    <2>1. task' = [task EXCEPT ![l] = t]
      BY <1>1, Running DEF Check, IInv, WorldOK
    <2>2. status \in Statuses /\ status.state = "Deployed"
          /\ status.revision = synced.rev
      <3>1. task[l].status \in Statuses /\ task[l].layer.version \in Nat
            /\ synced.rev \in 0..MaxRev
        BY Running DEF Tasks, TaskOK, LayerObjects, Gits, Check
      <3> QED
        BY <3>1 DEF SetStatus, Statuses, States
    <2>3. t \in Tasks
      BY <2>2, Running DEF Tasks, PCs
    <2>4. StatusOK(l, status)
      <3>1. RevisionOK(status)
        <4>1. synced.rev \in 0..MaxRev /\ synced.rev <= gitSeen.rev
          BY Running DEF IInv, SourceOK, Gits
        <4> QED
          BY <4>1, <2>2, Constants DEF RevisionOK
      <3>2. DeployedOK(l, status)
        BY <1>1, Running DEF DeployedOK, TaskOK, StepOK, Check, Successful, OneOK,
              ReleasesOK
      <3> QED
        BY <3>1, <3>2 DEF StatusOK
    <2>5. t.layer.status.revision <= t.status.revision
      BY <2>2, Running DEF TaskOK, StepOK, CopyOK, StatusOK, RevisionOK, Check
    <2>6. TaskVersionOK(l, t)
      BY Running DEF TaskOK, TaskVersionOK, Check
    <2>7. TaskOK(l, t)
      BY <2>4, <2>5, <2>6, Running DEF TaskOK, StepOK, Check
    <2> HIDE DEF t
    <2> QED
      BY <1>0, <2>1, <2>3, <2>7, TaskStep DEF Check
  <1>2. CASE End(l, "Failed")
    BY <1>0, <1>2, EndTask DEF Check, States
  <1>3. CASE task[l].status.state = "Applying" /\ Goto(l, "finish")
    <2>1. StepOK(l, [task[l] EXCEPT !.pc = "finish"])
      BY Running DEF TaskOK, StepOK, Tasks, Check
    <2>2. TaskVersionOK(l, [task[l] EXCEPT !.pc = "finish"])
      BY <1>3, Running DEF TaskOK, TaskVersionOK, Tasks, Check
    <2> QED
      BY <1>3, <2>1, <2>2, GotoTask DEF Check, PCs
  <1> QED
    BY <1>1, <1>2, <1>3 DEF Check

-----------------------------------------------------------------------------
(* What a write to a HelmRelease, or to a layer, has to show *)

LEMMA ReleaseStep ==
    ASSUME IInv, NEW l \in Layers, NEW hr \in Releases,
           release' = [release EXCEPT ![l] = hr],
           release[l].installed => hr.installed,
           task' \in [Layers -> Tasks], \A m \in Layers \ {l} : task'[m] = task[m],
           edits' \in 0..MaxEdits, faults' \in 0..MaxFaults,
           UNCHANGED <<sources, layer, caches>>,
           ReleasesOK(l)', VersionOK(l)', TaskOK(l, task[l])'
    PROVE  IInv'
  <1>1. WorldOK'
    BY DEF IInv, WorldOK
  <1>2. SourceOK'
    BY DEF IInv, SourceOK
  <1>3. \A m \in Layers : /\ m # l => release'[m] = release[m]
                          /\ release[m].installed => release'[m].installed
    BY DEF IInv, WorldOK
  <1>4. \A m \in Layers : CopyOK(m, layer[m])' /\ CopyOK(m, layerSeen[m])'
    BY <1>3 DEF IInv, OneOK, CopyOK, LayerOK, StatusOK, RevisionOK, DeployedOK
  <1>5. ASSUME NEW m \in Layers \ {l} PROVE OneOK(m)'
    <2>1. ReleasesOK(m)'
      BY <1>3 DEF IInv, OneOK, ReleasesOK
    <2>2. VersionOK(m)'
      BY <1>3 DEF IInv, OneOK, VersionOK, VersionsGrow, Versioned, AtVersion
    <2>3. task'[m] = task[m] /\ TaskOK(m, task[m])
      BY DEF IInv, OneOK
    <2>4. StepOK(m, task[m])'
      BY <1>3, <2>3, Constants DEF TaskOK, StepOK
    <2>5. task[m].pc # "idle" => CopyOK(m, task[m].layer)' /\ StatusOK(m, task[m].status)'
      BY <1>3, <2>3 DEF TaskOK, CopyOK, LayerOK, StatusOK, RevisionOK, DeployedOK
    <2>6. task[m].pc # "idle" => TaskVersionOK(m, task[m])'
      BY <1>3, <2>3 DEF TaskOK, TaskVersionOK, AtVersion
    <2>7. TaskOK(m, task[m])'
      BY <2>3, <2>4, <2>5, <2>6 DEF TaskOK
    <2> QED
      BY <1>4, <2>1, <2>2, <2>7 DEF OneOK
  <1> QED
    BY <1>1, <1>2, <1>4, <1>5 DEF IInv, OneOK

LEMMA LayerStep ==
    ASSUME IInv, NEW l \in Layers, NEW al \in LayerObjects, CopyOK(l, al),
           layer' = [layer EXCEPT ![l] = al], layer[l].version <= al.version,
           /\ l \in Annotated \cap Lasting /\ al.status.state = "Deployed"
           /\ al.status.observed = al.gen
           => AtVersion(l, al.version),
           NEW t \in Tasks, TaskOK(l, t), task' = [task EXCEPT ![l] = t],
           edits' \in 0..MaxEdits, faults' \in 0..MaxFaults,
           UNCHANGED <<sources, release, caches>>
    PROVE  IInv'
  <1>1. WorldOK'
    BY DEF IInv, WorldOK
  <1>2. SourceOK'
    BY DEF IInv, SourceOK
  <1>3. ASSUME NEW m \in Layers PROVE OneOK(m)'
    <2>1. /\ layer'[m] = IF m = l THEN al ELSE layer[m]
          /\ task'[m] = IF m = l THEN t ELSE task[m]
      BY DEF IInv, WorldOK
    <2>2. OneOK(m) /\ TaskOK(m, task'[m]) /\ CopyOK(m, layer'[m])
      BY <2>1 DEF IInv, OneOK
    <2>3. CopyOK(m, layer[m])' /\ CopyOK(m, layerSeen[m])'
      BY <2>2 DEF OneOK, CopyOK, LayerOK, StatusOK, RevisionOK, DeployedOK
    <2>4. ReleasesOK(m)'
      BY <2>2 DEF OneOK, ReleasesOK
    <2>5. VersionOK(m)'
      <3>1. layerSeen[m].version \in Nat /\ layer[m].version \in Nat
            /\ layer[m].version <= layer'[m].version /\ layer'[m].version \in Nat
        <4>1. layerSeen[m] \in LayerObjects /\ layer[m] \in LayerObjects
          BY Running
        <4> QED
          BY <2>1, <4>1 DEF LayerObjects
      <3>2. m \in Annotated \cap Lasting => VersionsGrow(m)'
        BY <2>2, <3>1 DEF OneOK, VersionOK, VersionsGrow, Versioned
      <3> QED
        BY <2>1, <2>2, <3>2 DEF OneOK, VersionOK, AtVersion
    <2>6. TaskOK(m, task[m])'
      BY <2>2 DEF TaskOK, StepOK, CopyOK, LayerOK, StatusOK, RevisionOK, DeployedOK,
            TaskVersionOK, AtVersion
    <2> QED
      BY <2>3, <2>4, <2>5, <2>6 DEF OneOK
  <1> QED
    BY <1>1, <1>2, <1>3 DEF IInv

-----------------------------------------------------------------------------
(* The steps of a reconcile that write *)

LEMMA PruneStep ==
    ASSUME IInv, NEW l \in Layers, Prune(l)
    PROVE  IInv'
  <1>0. /\ edits' \in 0..MaxEdits /\ faults' \in 0..MaxFaults
        /\ task[l].pc = "prune"
    BY Running DEF Prune
  <1>1. CASE release' = release /\ (End(l, "Pruning") \/ End(l, "Failed"))
    BY <1>0, <1>1, EndTask DEF Prune, States
  <1>2. CASE release' = release /\ Goto(l, "depend")
    <2>1. StepOK(l, [task[l] EXCEPT !.pc = "depend"])
      BY <1>0, Running DEF TaskOK, StepOK, Tasks
    <2>2. TaskVersionOK(l, [task[l] EXCEPT !.pc = "depend"])
      BY <1>0, Running DEF TaskOK, TaskVersionOK, Tasks
    <2> QED
      BY <1>0, <1>2, <2>1, <2>2, GotoTask DEF PCs, Prune
  <1>3. CASE /\ release' = release
             /\ task' = [task EXCEPT ![l].pc = "depend",
                            ![l].status = SetStatus(task[l].layer, @, "Failed")]
    <2> DEFINE w == SetStatus(task[l].layer, task[l].status, "Failed")
               t == [pc |-> "depend", layer |-> task[l].layer, status |-> w]
    <2>1. task' = [task EXCEPT ![l] = t]
      <3> DEFINE u == [task[l] EXCEPT !.pc = "depend"]
                 f == [task EXCEPT ![l] = u]
      <3>1. task \in [Layers -> Tasks]
        BY DEF IInv, WorldOK
      <3>2. u = [pc |-> "depend", layer |-> task[l].layer, status |-> task[l].status]
        BY <3>1 DEF Tasks
      <3>3. f[l] = u
        BY <3>1
      <3>4. task' = [f EXCEPT ![l] = [u EXCEPT !.status = w]]
        BY <1>3, <3>2, <3>3
      <3> HIDE DEF u, w
      <3>5. [u EXCEPT !.status = w] = t
        BY <3>2
      <3> HIDE DEF t
      <3> QED
        BY <3>1, <3>4, <3>5
    <2>2. w \in Statuses /\ w.state = "Failed" /\ w.revision = task[l].status.revision
      BY <1>0, StatusType DEF States
    <2>3. t \in Tasks
      BY <2>2, Running DEF Tasks, PCs
    <2>4. TaskOK(l, t)
      BY <1>0, <2>2, Running DEF TaskOK, StepOK, TaskVersionOK, StatusOK, RevisionOK,
            DeployedOK
    <2> HIDE DEF t
    <2> QED
      BY <1>0, <1>3, <2>1, <2>3, <2>4, TaskStep DEF Prune
  <1>4. CASE Found(l) = NoAddon /\ End(l, "Pruning") /\ Delete(l)
    <2> DEFINE hr == [release[l] EXCEPT !.spec = NoAddon, !.ready = FALSE]
    <2>1. l \notin Lasting
      BY <1>0, <1>4, FoundType
    <2>2. PICK t \in Tasks : /\ task' = [task EXCEPT ![l] = t] /\ t.pc = "finish"
                             /\ t.layer = task[l].layer
                             /\ t.status.revision = task[l].status.revision
      BY <1>0, <1>4, EndShape DEF States
    <2>3. hr \in Releases /\ hr.spec = NoAddon /\ hr.ready = FALSE /\ hr.gen = release[l].gen
          /\ hr.observed = release[l].observed /\ hr.installed = release[l].installed
      BY Running DEF Releases, Specs
    <2>4. release' = [release EXCEPT ![l] = hr]
      BY <1>4, Running DEF Delete, IInv, WorldOK, Releases
    <2> HIDE DEF hr
    <2>5. release'[l] = hr /\ task'[l] = t
      BY <2>2, <2>4 DEF IInv, WorldOK
    <2>6. ReleasesOK(l)'
      BY <2>1, <2>3, <2>5, Running DEF OneOK, ReleasesOK, ReleaseOK, Present, Prune
    <2>7. VersionOK(l)'
      BY <2>1 DEF VersionOK
    <2>8. TaskOK(l, task[l])'
      <3>1. TaskOK(l, task[l])
        BY Running
      <3>2. StepOK(l, t)' /\ TaskVersionOK(l, t)'
        BY <2>1, <2>2 DEF StepOK, TaskVersionOK
      <3>3. CopyOK(l, t.layer)' /\ StatusOK(l, t.status)'
        BY <1>0, <2>1, <2>2, <3>1 DEF TaskOK, CopyOK, LayerOK, StatusOK, RevisionOK,
              DeployedOK, Prune
      <3> QED
        BY <1>0, <2>2, <2>5, <3>1, <3>2, <3>3 DEF TaskOK
    <2> QED
      BY <1>0, <2>2, <2>3, <2>4, <2>6, <2>7, <2>8, ReleaseStep DEF IInv, WorldOK, Prune
  <1> QED
    BY <1>1, <1>2, <1>3, <1>4 DEF Prune, PruneRequired

LEMMA ApplyStep ==
    ASSUME IInv, NEW l \in Layers, Apply(l) \/ ApplyFails(l)
    PROVE  IInv'
  <1>0. /\ edits' \in 0..MaxEdits /\ faults' \in 0..MaxFaults
        /\ task[l].pc = "apply" /\ UNCHANGED <<sources, layer, caches>>
    BY Running, FaultCounters DEF Apply, ApplyFails
  <1>1. CASE release' = release
    <2>1. End(l, "Applying") \/ End(l, "Failed")
      BY DEF Apply, ApplyFails
    <2> QED
      BY <1>0, <1>1, <2>1, EndTask DEF States
  <1>2. CASE release' # release
    <2> DEFINE hr == [release[l] EXCEPT !.spec = Found(l), !.gen = release[l].gen + 1]
    <2>1. /\ Found(l) # NoAddon
          /\ End(l, "Applying") \/ End(l, "Failed")
          /\ Present(release[l]) = Present(releaseSeen[l])
          /\ release' = [release EXCEPT ![l].spec = Found(l), ![l].gen = @ + 1]
      BY <1>2 DEF Apply, ApplyFails, Put
    <2>2. PICK t \in Tasks : /\ task' = [task EXCEPT ![l] = t] /\ t.pc = "finish"
                             /\ t.layer = task[l].layer
                             /\ t.status.state \in {"Applying", "Failed"}
                             /\ t.status.revision = task[l].status.revision
      BY <1>0, <2>1, EndShape DEF States
    <2>3. /\ hr \in Releases /\ hr.spec = Found(l) /\ hr.gen = release[l].gen + 1
          /\ hr.observed = release[l].observed /\ hr.ready = release[l].ready
          /\ hr.installed = release[l].installed
      <3>1. Found(l) \in Specs /\ release[l] \in Releases
        BY <1>0, FoundType, Running
      <3> HIDE DEF hr
      <3>2. hr = [[release[l] EXCEPT !.spec = Found(l)] EXCEPT !.gen = release[l].gen + 1]
        BY DEF hr
      <3> DEFINE u == [release[l] EXCEPT !.spec = Found(l)]
      <3>3. /\ u \in Releases /\ u.spec = Found(l) /\ u.gen = release[l].gen
            /\ u.observed = release[l].observed /\ u.ready = release[l].ready
            /\ u.installed = release[l].installed
        BY <3>1 DEF Releases
      <3> HIDE DEF u
      <3>4. hr = [u EXCEPT !.gen = release[l].gen + 1] /\ release[l].gen \in Nat
        BY <3>1, <3>2 DEF u, Releases
      <3> QED
        BY <3>3, <3>4 DEF Releases
    <2>4. release' = [release EXCEPT ![l] = hr]
      BY <2>1, Running DEF IInv, WorldOK, Releases
    <2> HIDE DEF hr
    <2>5. release'[l] = hr /\ task'[l] = t
      BY <2>2, <2>4 DEF IInv, WorldOK
    <2>6. ReleasesOK(l)'
      <3>1. ReleasesOK(l)
        BY Running DEF OneOK
      <3>2. release[l].gen \in Nat /\ release[l].observed \in Nat
        BY Running DEF Releases
      <3> QED
        BY <1>0, <2>1, <2>3, <2>5, <3>1, <3>2 DEF ReleasesOK, ReleaseOK, Present
    <2>7. l \in Annotated \cap Lasting =>
             /\ VersionOf(hr) = task[l].layer.version /\ VersionOf(hr) \in Nat
             /\ hr.spec = <<Addons[l][synced.rev], VersionOf(hr)>> /\ synced.rev \in Revs
      BY <1>0, <2>3, FoundType DEF VersionOf
    <2>8. TaskVersionOK(l, task[l]) /\ VersionOK(l) /\ ReleasesOK(l)
          /\ layerSeen[l].version \in Nat /\ layer[l].version \in Nat
      BY <1>0, Running DEF TaskOK, OneOK, LayerObjects
    <2>9. VersionOK(l)'
      <3> SUFFICES ASSUME l \in Annotated \cap Lasting
                   PROVE  /\ VersionsGrow(l)'
                          /\ /\ layer[l].status.state = "Deployed"
                             /\ layer[l].status.observed = layer[l].gen
                             => AtVersion(l, layer[l].version)'
        BY <1>0 DEF VersionOK
      <3>1. VersionsGrow(l) /\ VersionOf(hr) <= layerSeen[l].version
        BY <2>7, <2>8 DEF VersionOK, TaskVersionOK
      <3>2. Present(releaseSeen[l]) =>
               /\ Present(release[l]) /\ VersionOf(releaseSeen[l]) \in Nat
               /\ VersionOf(release[l]) \in Nat
               /\ VersionOf(releaseSeen[l]) <= VersionOf(release[l])
               /\ VersionOf(release[l]) <= VersionOf(hr)
        BY <2>7, <2>8, <3>1 DEF VersionsGrow, Versioned, ReleasesOK, TaskVersionOK
      <3>3. Present(releaseSeen[l]) => VersionOf(releaseSeen[l]) <= VersionOf(hr)
        BY <2>7, <3>2
      <3>4. Versioned(l, hr)
        BY <2>7 DEF Versioned
      <3>5. VersionsGrow(l)'
        BY <1>0, <2>5, <3>1, <3>3, <3>4 DEF VersionsGrow, Versioned
      <3>6. ASSUME AtVersion(l, layer[l].version) PROVE AtVersion(l, layer[l].version)'
        <4>1. VersionOf(hr) = layer[l].version
          BY <2>7, <2>8, <3>1, <3>6 DEF AtVersion, TaskVersionOK, VersionsGrow
        <4> QED
          BY <1>0, <2>1, <2>3, <2>5, <4>1 DEF AtVersion, Present
      <3> QED
        BY <2>8, <3>5, <3>6 DEF VersionOK
    <2>10. TaskOK(l, task[l])'
      <3>1. TaskOK(l, task[l])
        BY Running
      <3>2. StepOK(l, t)'
        BY <2>2 DEF StepOK
      <3>3. TaskVersionOK(l, t)'
        BY <1>0, <2>2, <2>5, <2>7, <2>8 DEF TaskVersionOK
      <3>4. CopyOK(l, t.layer)' /\ StatusOK(l, t.status)'
        BY <1>0, <2>2, <2>3, <2>5, <3>1 DEF TaskOK, CopyOK, LayerOK, StatusOK, RevisionOK,
              DeployedOK
      <3> QED
        BY <1>0, <2>2, <2>5, <3>1, <3>2, <3>3, <3>4 DEF TaskOK
    <2> QED
      BY <1>0, <2>2, <2>3, <2>4, <2>6, <2>9, <2>10, ReleaseStep DEF IInv, WorldOK
  <1> QED
    BY <1>1, <1>2

LEMMA IdleOK ==
    ASSUME NEW l \in Layers
    PROVE  Idle \in Tasks /\ TaskOK(l, Idle)
  BY Constants DEF Idle, Tasks, PCs, NoStatus, Statuses, States, TaskOK, StepOK

LEMMA FinishStep ==
    ASSUME IInv, NEW l \in Layers, Finish(l)
    PROVE  IInv'
  <1>0. /\ edits' \in 0..MaxEdits /\ faults' \in 0..MaxFaults
        /\ task[l].pc = "finish" /\ UNCHANGED <<sources, release, caches>>
        /\ task' = [task EXCEPT ![l] = Idle]
    BY Running DEF Finish
  <1>1. CASE layer' = layer
    BY <1>0, <1>1, IdleOK, TaskStep
  <1>2. CASE Current(l, task[l].layer) /\ layer' = [layer EXCEPT ![l].status = FinalStatus(l)]
    <2> DEFINE s == FinalStatus(l)
               al == [layer[l] EXCEPT !.status = s]
    <2>1. /\ layer[l] = task[l].layer /\ task[l].layer \in LayerObjects
          /\ CopyOK(l, task[l].layer) /\ StatusOK(l, task[l].status)
          /\ task[l].status \in Statuses /\ TaskVersionOK(l, task[l])
      BY <1>0, <1>2, Running DEF Current, TaskOK, Tasks
    <2>2. /\ s \in Statuses /\ s.state = task[l].status.state
          /\ s.revision = task[l].status.revision /\ s.observed = layer[l].gen
      BY <2>1 DEF FinalStatus, Statuses, LayerObjects
    <2> HIDE DEF s
    <2>3. /\ al \in LayerObjects /\ al.status = s /\ al.version = layer[l].version
          /\ al.needs = layer[l].needs /\ al.gen = layer[l].gen
      BY <2>2, Running DEF LayerObjects
    <2>4. layer' = [layer EXCEPT ![l] = al]
      BY <1>2 DEF IInv, WorldOK, s
    <2> HIDE DEF al
    <2>5. CopyOK(l, al)
      <3>1. StatusOK(l, s)
        BY <2>1, <2>2 DEF StatusOK, RevisionOK, DeployedOK
      <3>2. LayerOK(l, al)
        BY <2>1, <2>2, <2>3 DEF CopyOK, LayerOK, LayerObjects
      <3> QED
        BY <2>3, <3>1, <3>2 DEF CopyOK
    <2>6. l \in Annotated \cap Lasting /\ al.status.state = "Deployed"
          => AtVersion(l, al.version)
      BY <1>0, <2>1, <2>2, <2>3 DEF TaskVersionOK
    <2>7. layer[l].version <= al.version
      BY <2>1, <2>3 DEF LayerObjects
    <2> QED
      BY <1>0, <2>3, <2>4, <2>5, <2>6, <2>7, IdleOK, LayerStep
  <1> QED
    BY <1>1, <1>2 DEF Finish

LEMMA EditStep ==
    ASSUME IInv, NEW l \in Layers, NEW version \in Nat, layer[l].version <= version,
           NEW needs \in [DependsOn[l] -> Nat], NEW spec \in LayerObjects,
           spec.version = version, spec.needs = needs, spec.gen = layer[l].gen,
           spec.status = layer[l].status, Edit(l, spec)
    PROVE  IInv'
  <1> DEFINE al == [spec EXCEPT !.gen = spec.gen + 1]
  <1>1. /\ edits' \in 0..MaxEdits /\ faults' \in 0..MaxFaults
        /\ UNCHANGED <<sources, release, caches, task>>
        /\ layer' = [layer EXCEPT ![l] = al]
    BY Counters, Constants DEF Edit
  <1>2. /\ al \in LayerObjects /\ al.version = version /\ al.needs = needs
        /\ al.gen = layer[l].gen + 1 /\ al.status = layer[l].status
        /\ layer[l].gen \in Nat /\ layer[l].status.observed \in Nat
    BY Running DEF LayerObjects, Statuses
  <1> HIDE DEF al
  <1>3. CopyOK(l, layer[l]) /\ task[l] \in Tasks /\ TaskOK(l, task[l])
    BY Running DEF OneOK
  <1>4. CopyOK(l, al) /\ al.status.observed # al.gen
    BY <1>2, <1>3 DEF CopyOK, LayerOK
  <1>5. task' = [task EXCEPT ![l] = task[l]]
    BY <1>1 DEF IInv, WorldOK
  <1> QED
    BY <1>1, <1>2, <1>3, <1>4, <1>5, LayerStep

LEMMA UsersStep ==
    ASSUME IInv, NEW l \in Layers,
           NewVersion(l) \/ \E d \in DependsOn[l] : NewDependency(l, d)
    PROVE  IInv'
  <1>1. /\ layer[l] \in LayerObjects /\ layer[l].version \in Nat
        /\ layer[l].needs \in [DependsOn[l] -> Nat]
    BY Running DEF OneOK, CopyOK, LayerOK
  <1>2. CASE NewVersion(l)
    <2> DEFINE spec == [layer[l] EXCEPT !.version = layer[l].version + 1]
    <2>1. /\ spec \in LayerObjects /\ spec.version = layer[l].version + 1
          /\ spec.needs = layer[l].needs /\ spec.gen = layer[l].gen
          /\ spec.status = layer[l].status /\ layer[l].version <= spec.version
          /\ spec.version \in Nat
      BY <1>1 DEF LayerObjects
    <2>2. Edit(l, spec)
      BY <1>2 DEF NewVersion
    <2> HIDE DEF spec
    <2> QED
      BY <1>1, <2>1, <2>2, EditStep
  <1>3. ASSUME NEW d \in DependsOn[l], NewDependency(l, d) PROVE IInv'
    <2>1. d \in Layers /\ layer[d].version \in Nat
      BY Constants, Running DEF LayerObjects
    <2>2. PICK version \in {layer[d].version, layer[d].version + 1} :
             Edit(l, [layer[l] EXCEPT !.needs[d] = version])
      BY <1>3 DEF NewDependency
    <2> DEFINE spec == [layer[l] EXCEPT !.needs[d] = version]
               needs == [layer[l].needs EXCEPT ![d] = version]
    <2>3. needs \in [DependsOn[l] -> Nat]
      BY <1>1, <2>1
    <2> HIDE DEF needs
    <2>4. needs \in UNION {[DependsOn[m] -> Nat] : m \in Layers}
      BY <2>3
    <2>5. spec = [layer[l] EXCEPT !.needs = needs]
      BY <1>1 DEF LayerObjects, needs
    <2>6. /\ spec \in LayerObjects /\ spec.version = layer[l].version
          /\ spec.needs = needs /\ spec.gen = layer[l].gen
          /\ spec.status = layer[l].status /\ layer[l].version <= spec.version
      <3> HIDE DEF spec
      <3> QED
        BY <1>1, <2>4, <2>5 DEF LayerObjects
    <2> HIDE DEF spec
    <2>7. Edit(l, spec)
      BY <2>2 DEF spec
    <2> QED
      BY <1>1, <2>3, <2>6, <2>7, EditStep
  <1> QED
    BY <1>2, <1>3

-----------------------------------------------------------------------------
(* The caches and the data of the repository *)

LEMMA SeeLayerStep ==
    ASSUME IInv, NEW l \in Layers, SeeLayer(l)
    PROVE  IInv'
  <1>0. /\ UNCHANGED <<edits, faults, sources, objects, releaseSeen, task>>
        /\ layerSeen' = [layerSeen EXCEPT ![l] = layer[l]]
    BY DEF SeeLayer
  <1>1. WorldOK'
    BY <1>0 DEF IInv, WorldOK
  <1>2. SourceOK'
    BY <1>0 DEF IInv, SourceOK
  <1>3. ASSUME NEW m \in Layers PROVE OneOK(m)'
    <2>1. layerSeen'[m] = IF m = l THEN layer[m] ELSE layerSeen[m]
      BY <1>0 DEF IInv, WorldOK
    <2>2. OneOK(m) /\ CopyOK(m, layerSeen'[m])
      BY <2>1 DEF IInv, OneOK
    <2>3. /\ layerSeen[m] \in LayerObjects /\ layer[m] \in LayerObjects
          /\ task[m] \in Tasks
      BY Running
    <2>4. CopyOK(m, layer[m])' /\ CopyOK(m, layerSeen[m])'
      BY <1>0, <2>2 DEF OneOK, CopyOK, LayerOK, StatusOK, RevisionOK, DeployedOK
    <2>5. ReleasesOK(m)'
      BY <1>0, <2>2 DEF OneOK, ReleasesOK
    <2>6. m \in Annotated \cap Lasting =>
             /\ layerSeen[m].version <= layerSeen'[m].version
             /\ layerSeen'[m].version <= layer[m].version
             /\ layerSeen[m].version \in Nat /\ layerSeen'[m].version \in Nat
      BY <2>1, <2>2, <2>3 DEF OneOK, VersionOK, VersionsGrow, LayerObjects
    <2>7. VersionOK(m)'
      <3>1. m \in Annotated \cap Lasting => VersionsGrow(m)'
        BY <1>0, <2>2, <2>6 DEF OneOK, VersionOK, VersionsGrow, Versioned
      <3> QED
        BY <1>0, <2>2, <3>1 DEF OneOK, VersionOK, AtVersion
    <2>8. task[m].pc # "idle" => TaskVersionOK(m, task[m])'
      <3>1. task[m].pc # "idle" => task[m].layer.version \in Nat
        BY <2>2 DEF OneOK, TaskOK, LayerObjects
      <3> QED
        BY <1>0, <2>2, <2>6, <3>1 DEF OneOK, TaskOK, TaskVersionOK, AtVersion
    <2>9. TaskOK(m, task[m])'
      BY <1>0, <2>2, <2>8 DEF OneOK, TaskOK, StepOK, CopyOK, LayerOK, StatusOK, RevisionOK,
            DeployedOK
    <2> QED
      BY <2>4, <2>5, <2>7, <2>9 DEF OneOK
  <1> QED
    BY <1>1, <1>2, <1>3 DEF IInv

LEMMA SeeReleaseStep ==
    ASSUME IInv, NEW l \in Layers, SeeRelease(l)
    PROVE  IInv'
  <1>0. /\ UNCHANGED <<edits, faults, sources, objects, layerSeen, task>>
        /\ releaseSeen' = [releaseSeen EXCEPT ![l] = release[l]]
    BY DEF SeeRelease
  <1>1. WorldOK'
    BY <1>0 DEF IInv, WorldOK
  <1>2. SourceOK'
    BY <1>0 DEF IInv, SourceOK
  <1>3. ASSUME NEW m \in Layers PROVE OneOK(m)'
    <2>1. releaseSeen'[m] = IF m = l THEN release[m] ELSE releaseSeen[m]
      BY <1>0 DEF IInv, WorldOK
    <2>2. OneOK(m)
      BY DEF IInv
    <2>3. CopyOK(m, layer[m])' /\ CopyOK(m, layerSeen[m])'
      BY <1>0, <2>2 DEF OneOK, CopyOK, LayerOK, StatusOK, RevisionOK, DeployedOK
    <2>4. ReleasesOK(m)'
      BY <1>0, <2>1, <2>2 DEF OneOK, ReleasesOK
    <2>5. VersionOK(m)'
      BY <1>0, <2>1, <2>2 DEF OneOK, VersionOK, VersionsGrow, Versioned, AtVersion
    <2>6. StepOK(m, task[m])'
      BY <1>0, <2>1, <2>2 DEF OneOK, TaskOK, StepOK, ReleasesOK
    <2>7. TaskOK(m, task[m])'
      BY <1>0, <2>2, <2>6 DEF OneOK, TaskOK, CopyOK, LayerOK, StatusOK, RevisionOK,
            DeployedOK, TaskVersionOK, AtVersion
    <2> QED
      BY <2>3, <2>4, <2>5, <2>7 DEF OneOK
  <1> QED
    BY <1>1, <1>2, <1>3 DEF IInv

(* A new revision reaches the cache, or the links. *)
LEMMA SourceStep ==
    ASSUME IInv, WorldOK', SourceOK',
           gitSeen.rev <= gitSeen'.rev,
           synced'.rev = synced.rev \/ synced'.rev = gitSeen.rev,
           UNCHANGED <<objects, caches, task>>
    PROVE  IInv'
  <1>1. /\ gitSeen.rev \in Nat /\ gitSeen'.rev \in Nat /\ synced.rev \in Nat
        /\ synced'.rev \in Nat /\ synced.rev <= gitSeen.rev
    BY Constants DEF IInv, WorldOK, SourceOK, Gits
  <1>2. ASSUME NEW m \in Layers PROVE OneOK(m)'
    <2>1. OneOK(m) /\ task[m] \in Tasks
      BY Running
    <2>2. ASSUME NEW s \in Statuses, StatusOK(m, s) PROVE StatusOK(m, s)'
      <3>1. s.revision \in Nat
        BY Constants DEF Statuses
      <3>2. s.revision <= gitSeen'.rev /\ (synced'.rev = 0 \/ s.revision <= synced'.rev)
        BY <1>1, <2>2, <3>1 DEF StatusOK, RevisionOK
      <3> QED
        BY <2>2, <3>2 DEF StatusOK, RevisionOK, DeployedOK
    <2>3. CopyOK(m, layer[m])' /\ CopyOK(m, layerSeen[m])'
      <3>1. layer[m].status \in Statuses /\ layerSeen[m].status \in Statuses
        BY <2>1 DEF OneOK, CopyOK, LayerOK
      <3> QED
        BY <2>1, <2>2, <3>1 DEF OneOK, CopyOK, LayerOK
    <2>4. ReleasesOK(m)' /\ VersionOK(m)'
      BY <2>1 DEF OneOK, ReleasesOK, VersionOK, VersionsGrow, Versioned, AtVersion
    <2>5. StepOK(m, task[m])'
      BY <1>1, <2>1 DEF OneOK, TaskOK, StepOK
    <2>6. task[m].pc # "idle" => CopyOK(m, task[m].layer)' /\ StatusOK(m, task[m].status)'
      <3>1. task[m].pc # "idle" =>
               task[m].layer.status \in Statuses /\ task[m].status \in Statuses
        BY <2>1 DEF OneOK, TaskOK, LayerObjects, Tasks
      <3> QED
        BY <2>1, <2>2, <3>1 DEF OneOK, TaskOK, CopyOK, LayerOK
    <2>7. TaskOK(m, task[m])'
      BY <2>1, <2>5, <2>6 DEF OneOK, TaskOK, TaskVersionOK, AtVersion
    <2> QED
      BY <2>3, <2>4, <2>7 DEF OneOK
  <1> QED
    BY <1>2 DEF IInv

LEMMA SourcesStep ==
    ASSUME IInv, SeeGit \/ SyncRepo \/ Publish \/ FetchFails \/ FetchRecovers
    PROVE  IInv'
  <1>1. /\ gitSeen \in Gits /\ git \in Gits /\ synced \in Gits
        /\ synced.rev <= gitSeen.rev /\ gitSeen.rev <= git.rev
        /\ gitSeen.rev \in Nat /\ git.rev \in Nat /\ synced.rev \in Nat
    BY Constants DEF IInv, WorldOK, SourceOK, Gits
  <1>2. UNCHANGED <<objects, caches, task>> /\ edits' \in 0..MaxEdits
        /\ faults' \in 0..MaxFaults
    BY Counters, FaultCounters DEF SeeGit, SyncRepo, Publish, FetchFails, FetchRecovers
  <1>3. git' \in Gits /\ git.rev <= git'.rev
    <2>1. CASE UNCHANGED git
      BY <1>1, <2>1
    <2>2. CASE Publish
      BY <1>1, <2>2, Constants DEF Publish, Gits
    <2>3. ASSUME NEW ready \in BOOLEAN, git' = [git EXCEPT !.ready = ready]
          PROVE  git' \in Gits /\ git.rev <= git'.rev
      <3>1. git' \in Gits /\ git'.rev = git.rev
        BY <1>1, <2>3 DEF Gits
      <3> QED
        BY <1>1, <3>1
    <2>4. CASE FetchFails \/ FetchRecovers
      BY <2>3, <2>4 DEF FetchFails, FetchRecovers
    <2> QED
      BY <2>1, <2>2, <2>4 DEF SeeGit, SyncRepo
  <1>4. (gitSeen' = gitSeen \/ gitSeen' = git) /\ (synced' = synced \/ synced' = gitSeen)
        /\ (gitSeen' = git => synced' = synced \/ gitSeen' = gitSeen)
    BY DEF SeeGit, SyncRepo, Publish, FetchFails, FetchRecovers
  <1>5. WorldOK'
    BY <1>1, <1>2, <1>3, <1>4 DEF IInv, WorldOK
  <1>6. SourceOK' /\ gitSeen.rev <= gitSeen'.rev
    BY <1>1, <1>3, <1>4, <1>5 DEF SourceOK, WorldOK, Gits
  <1> QED
    BY <1>2, <1>4, <1>5, <1>6, SourceStep

-----------------------------------------------------------------------------
(* helm-controller, restarts *)

LEMMA HelmStep ==
    ASSUME IInv, NEW l \in Layers, HelmDeploys(l) \/ HelmFails(l)
    PROVE  IInv'
  <1>0. /\ edits' \in 0..MaxEdits /\ faults' \in 0..MaxFaults
        /\ UNCHANGED <<sources, layer, caches, task>> /\ Present(release[l])
    BY Counters, FaultCounters DEF HelmDeploys, HelmFails
  <1>1. release \in [Layers -> Releases] /\ release[l] \in Releases
    BY DEF IInv, WorldOK
  <1>2. PICK hr \in Releases :
           /\ release' = [release EXCEPT ![l] = hr]
           /\ hr.spec = release[l].spec /\ hr.gen = release[l].gen
           /\ hr.observed = release[l].gen
           /\ hr.ready => hr.installed
           /\ release[l].installed => hr.installed
    <2> DEFINE acted == [release[l] EXCEPT !.observed = release[l].gen]
    <2>1. /\ acted \in Releases /\ acted.spec = release[l].spec
          /\ acted.gen = release[l].gen /\ acted.observed = release[l].gen
          /\ acted.installed = release[l].installed
      BY <1>1 DEF Releases
    <2>2. CASE HelmDeploys(l)
      <3> DEFINE ready == [acted EXCEPT !.ready = TRUE]
                 hr == [ready EXCEPT !.installed = TRUE]
      <3>1. release' = [release EXCEPT ![l] = hr]
        BY <1>1, <2>2 DEF HelmDeploys
      <3> HIDE DEF acted
      <3>2. /\ ready \in Releases /\ ready.spec = release[l].spec
            /\ ready.gen = release[l].gen /\ ready.observed = release[l].gen
        BY <2>1 DEF Releases
      <3> HIDE DEF ready
      <3>3. /\ hr \in Releases /\ hr.spec = release[l].spec
            /\ hr.gen = release[l].gen /\ hr.observed = release[l].gen
            /\ hr.installed
        BY <3>2 DEF Releases
      <3> HIDE DEF hr
      <3> QED
        BY <3>1, <3>3
    <2>3. CASE HelmFails(l)
      <3> DEFINE hr == [acted EXCEPT !.ready = FALSE]
      <3>1. release' = [release EXCEPT ![l] = hr]
        BY <1>1, <2>3 DEF HelmFails
      <3> HIDE DEF acted
      <3>2. /\ hr \in Releases /\ hr.spec = release[l].spec
            /\ hr.gen = release[l].gen /\ hr.observed = release[l].gen
            /\ ~hr.ready /\ hr.installed = release[l].installed
        BY <2>1 DEF Releases
      <3> HIDE DEF hr
      <3> QED
        BY <3>1, <3>2
    <2> QED
      BY <2>2, <2>3
  <1>3. release[l].gen \in Nat
    BY <1>1 DEF Releases
  <1>4. release'[l] = hr
    BY <1>1, <1>2
  <1>5. ReleasesOK(l)'
    <2>1. ReleasesOK(l)
      BY Running DEF OneOK
    <2> QED
      <3>1. ReleaseOK(hr)
        BY <1>2, <1>3 DEF ReleaseOK, Releases
      <3> QED
        BY <1>0, <1>2, <1>4, <2>1, <3>1 DEF ReleasesOK, ReleaseOK, Present
  <1>6. VersionOK(l)'
    <2>1. VersionOK(l)
      BY Running DEF OneOK
    <2>2. /\ Present(release'[l]) = Present(release[l])
          /\ VersionOf(release'[l]) = VersionOf(release[l])
      BY <1>2, <1>4 DEF Present, VersionOf
    <2>3. l \in Annotated \cap Lasting => VersionsGrow(l)'
      BY <1>0, <1>2, <1>4, <2>1, <2>2 DEF VersionOK, VersionsGrow, Versioned
    <2> QED
      BY <1>0, <2>1, <2>2, <2>3 DEF VersionOK, AtVersion
  <1>7. TaskOK(l, task[l])'
    <2>1. TaskOK(l, task[l])
      BY Running
    <2>2. StepOK(l, task[l])'
      <3>1. \A m \in Layers : release[m].installed => release'[m].installed
        BY <1>2, <1>3 DEF IInv, WorldOK
      <3> QED
        BY <1>0, <2>1, <3>1, Constants DEF TaskOK, StepOK
    <2>3. TaskVersionOK(l, task[l]) => TaskVersionOK(l, task[l])'
      <3>1. /\ Present(release'[l]) = Present(release[l])
            /\ VersionOf(release'[l]) = VersionOf(release[l])
        BY <1>2, <1>4 DEF Present, VersionOf
      <3> QED
        BY <1>0, <3>1 DEF TaskVersionOK, AtVersion
    <2>4. ASSUME NEW s, StatusOK(l, s) PROVE StatusOK(l, s)'
      BY <1>0, <1>2, <1>3, <1>4, <2>4 DEF StatusOK, RevisionOK, DeployedOK
    <2>5. task[l].pc # "idle" => CopyOK(l, task[l].layer)' /\ StatusOK(l, task[l].status)'
      BY <1>0, <2>1, <2>4 DEF TaskOK, CopyOK, LayerOK
    <2> QED
      BY <1>0, <2>1, <2>2, <2>3, <2>5 DEF TaskOK
  <1> QED
    BY <1>0, <1>2, <1>3, <1>5, <1>6, <1>7, ReleaseStep DEF IInv, WorldOK

LEMMA RestartStep ==
    ASSUME IInv, Restart
    PROVE  IInv'
  <1>0. /\ UNCHANGED <<edits, git, objects>> /\ layerSeen' = layer
        /\ releaseSeen' = release /\ gitSeen' = git /\ synced' = NoSource
        /\ task' = [l \in Layers |-> Idle]
    BY DEF Restart
  <1>1. edits' \in 0..MaxEdits /\ faults' \in 0..MaxFaults
    BY FaultCounters DEF Restart
  <1>2. NoSource \in Gits /\ NoSource.rev = 0 /\ \A l \in Layers : Idle \in Tasks
    BY Constants, IdleOK DEF NoSource, Gits
  <1>3. WorldOK'
    BY <1>0, <1>1, <1>2 DEF IInv, WorldOK
  <1>4. SourceOK'
    BY <1>0, <1>2, Constants DEF IInv, WorldOK, SourceOK, Gits
  <1>5. ASSUME NEW m \in Layers PROVE OneOK(m)'
    <2>1. OneOK(m) /\ layer[m] \in LayerObjects /\ layer[m].status \in Statuses
      BY Running DEF LayerObjects
    <2>2. gitSeen.rev <= git.rev /\ gitSeen.rev \in Nat /\ git.rev \in Nat
          /\ layer[m].status.revision \in Nat
      BY <2>1, Constants DEF IInv, WorldOK, SourceOK, Gits, Statuses
    <2>3. StatusOK(m, layer[m].status)'
      BY <1>0, <1>2, <2>1, <2>2 DEF OneOK, CopyOK, StatusOK, RevisionOK, DeployedOK
    <2>4. CopyOK(m, layer[m])' /\ CopyOK(m, layerSeen[m])'
      BY <1>0, <2>1, <2>3 DEF OneOK, CopyOK, LayerOK
    <2>5. ReleasesOK(m)'
      BY <1>0, <2>1 DEF OneOK, ReleasesOK
    <2>6. VersionOK(m)'
      <3>1. layer[m].version \in Nat /\ layerSeen[m].version \in Nat
        BY Running DEF LayerObjects
      <3>2. m \in Annotated \cap Lasting => VersionsGrow(m)'
        BY <1>0, <2>1, <3>1 DEF OneOK, VersionOK, VersionsGrow, Versioned
      <3> QED
        BY <1>0, <2>1, <3>2 DEF OneOK, VersionOK, AtVersion
    <2>7. TaskOK(m, task[m])'
      BY <1>0 DEF TaskOK, StepOK, Idle
    <2> QED
      BY <2>4, <2>5, <2>6, <2>7 DEF OneOK
  <1> QED
    BY <1>3, <1>4, <1>5 DEF IInv

-----------------------------------------------------------------------------
(* The invariant holds, and what follows from it *)

LEMMA InitIInv == Init => IInv
  <1> SUFFICES ASSUME Init PROVE IInv
    OBVIOUS
  <1>1. /\ NoStatus \in Statuses /\ NoSource \in Gits /\ NoRelease \in Releases
        /\ NoStatus.revision = 0 /\ NoStatus.observed = 0 /\ NoSource.rev = 0
    BY Constants DEF NoStatus, Statuses, States, NoSource, Gits, NoRelease, Releases, Specs
  <1>2. NoStatus.state # "Deployed"
    BY Zenon DEF NoStatus
  <1>3. ASSUME NEW l \in Layers PROVE NewLayer(l) \in LayerObjects /\ LayerOK(l, NewLayer(l))
    <2> DEFINE needs == [d \in DependsOn[l] |-> 1]
    <2>1. needs \in [DependsOn[l] -> Nat]
      OBVIOUS
    <2> HIDE DEF needs
    <2>2. NewLayer(l) = [version |-> 1, needs |-> needs, gen |-> 1, status |-> NoStatus]
      BY DEF NewLayer, needs
    <2> QED
      <3>1. needs \in UNION {[DependsOn[m] -> Nat] : m \in Layers}
        BY <2>1
      <3>2. NoStatus \in Statuses /\ NoStatus.observed <= 1
        BY <1>1
      <3> QED
        BY <2>1, <2>2, <3>1, <3>2 DEF LayerObjects, LayerOK
  <1>4. WorldOK
    <2>1. edits \in 0..MaxEdits /\ faults \in 0..MaxFaults
      BY Constants DEF Init
    <2>2. git \in Gits /\ gitSeen \in Gits /\ synced \in Gits
      BY <1>1 DEF Init
    <2>3. layer \in [Layers -> LayerObjects] /\ layerSeen \in [Layers -> LayerObjects]
      BY <1>3 DEF Init
    <2>4. release \in [Layers -> Releases] /\ releaseSeen \in [Layers -> Releases]
      BY <1>1 DEF Init
    <2>5. task \in [Layers -> Tasks]
      BY IdleOK DEF Init
    <2> QED
      BY <2>1, <2>2, <2>3, <2>4, <2>5 DEF WorldOK
  <1>5. SourceOK
    BY DEF Init, SourceOK, NoSource
  <1>6. ASSUME NEW l \in Layers PROVE OneOK(l)
    <2>1. /\ layer[l] = NewLayer(l) /\ layerSeen[l] = NewLayer(l)
          /\ release[l] = NoRelease /\ releaseSeen[l] = NoRelease
          /\ task[l] = Idle /\ gitSeen = NoSource /\ synced = NoSource
      BY DEF Init
    <2>2. NewLayer(l).status = NoStatus /\ NewLayer(l).version = 1 /\ NewLayer(l).gen = 1
      BY DEF NewLayer
    <2>3. CopyOK(l, NewLayer(l))
      <3>1. NewLayer(l).status.revision = 0 /\ NewLayer(l).status.state # "Deployed"
        BY <1>1, <1>2, <2>2
      <3>2. gitSeen.rev = 0 /\ synced.rev = 0
        BY <2>1 DEF NoSource
      <3> QED
        BY <1>3, <3>1, <3>2 DEF CopyOK, StatusOK, RevisionOK, DeployedOK
    <2>4. ReleasesOK(l)
      BY <2>1 DEF ReleasesOK, ReleaseOK, NoRelease, Present
    <2>5. VersionOK(l)
      <3>1. ~Present(release[l]) /\ ~Present(releaseSeen[l])
        BY <2>1 DEF NoRelease, Present
      <3>2. layer[l].version = 1 /\ layerSeen[l].version = 1 /\ layer[l].status.state # "Deployed"
        BY <1>2, <2>1, <2>2
      <3> QED
        BY <3>1, <3>2 DEF VersionOK, VersionsGrow, Versioned
    <2> QED
      BY <2>1, <2>3, <2>4, <2>5, IdleOK DEF OneOK
  <1> QED
    BY <1>4, <1>5, <1>6 DEF IInv

LEMMA StutterIInv ==
    ASSUME IInv, UNCHANGED vars
    PROVE  IInv'
  <1>1. WorldOK' /\ SourceOK'
    BY DEF IInv, WorldOK, SourceOK, vars
  <1>2. ASSUME NEW l \in Layers PROVE OneOK(l)'
    BY DEF vars, IInv, OneOK, CopyOK, LayerOK, StatusOK, RevisionOK, DeployedOK, ReleasesOK,
           VersionOK, VersionsGrow, Versioned, AtVersion, TaskOK, StepOK, TaskVersionOK
  <1> QED
    BY <1>1, <1>2 DEF IInv

LEMMA NextIInv == IInv /\ [Next]_vars => IInv'
  <1> SUFFICES ASSUME IInv, [Next]_vars PROVE IInv'
    OBVIOUS
  <1>1. CASE Caches
    BY <1>1, SourcesStep, SeeLayerStep, SeeReleaseStep DEF Caches
  <1>2. CASE Publish \/ FetchRecovers
    BY <1>2, SourcesStep
  <1>3. CASE Users
    BY <1>3, UsersStep DEF Users
  <1>4. CASE Faults
    BY <1>4, SourcesStep, RestartStep, CallFailsStep, ApplyStep, HelmStep DEF Faults
  <1>5. ASSUME NEW l \in Layers, Reconcile(l) PROVE IInv'
    BY <1>5, BeginStep, PruneStep, DependStep, CompareStep, ApplyStep, CheckStep, FinishStep
       DEF Reconcile
  <1>6. ASSUME NEW l \in Layers, HelmDeploys(l) PROVE IInv'
    BY <1>6, HelmStep
  <1>7. CASE UNCHANGED vars
    BY <1>7, StutterIInv
  <1> QED
    BY <1>1, <1>2, <1>3, <1>4, <1>5, <1>6, <1>7 DEF Next

(* The invariant holds in every reachable state. *)
THEOREM Invariance == Spec => []IInv
  BY InitIInv, NextIInv, PTL DEF Spec

(* Every reachable state is well typed, and no generation is reported that  *)
(* an object has not had yet.                                               *)
THEOREM TypeCorrect == Spec => []TypeOK
  <1>1. IInv => TypeOK
    BY DEF IInv, WorldOK, TypeOK, OneOK, CopyOK, ReleasesOK, TaskOK, Tasks
  <1> QED
    BY <1>1, Invariance, PTL

(* A layer that reports its present generation as deployed has a HelmRelease *)
(* on the cluster, of its present version, whatever the caches have shown of *)
(* either.                                                                   *)
THEOREM VersionHolds == Spec => []DeployedVersion
  <1>1. IInv => DeployedVersion
    <2> SUFFICES ASSUME IInv, NEW l \in Annotated \cap Lasting,
                        layer[l].status.state = "Deployed",
                        layer[l].status.observed = layer[l].gen
                 PROVE  /\ Present(release[l])
                        /\ \E r \in Revs :
                              release[l].spec = Source(l, layer[l].version, r)
      BY DEF DeployedVersion
    <2>1. l \in Layers
      BY DEF Lasting
    <2>2. VersionOK(l) /\ layer[l].version \in Nat
      BY <2>1, Running DEF OneOK, LayerObjects
    <2>3. Present(release[l]) /\ VersionOf(release[l]) = layer[l].version
      BY <2>2 DEF VersionOK, AtVersion
    <2>4. PICK r \in Revs : release[l].spec = <<Addons[l][r], layer[l].version>>
      BY <2>2, <2>3 DEF VersionOK, VersionsGrow, Versioned
    <2> QED
      BY <2>1, <2>2, <2>3, <2>4, SourceType
  <1> QED
    BY <1>1, Invariance, PTL

(* The revision a layer reports never goes back, whichever reconcile writes  *)
(* the status, and from whichever copy of the layer.                         *)
THEOREM ReportHolds == Spec => ReportNeverRollsBack
  <1> DEFINE Kept == \A l \in Layers : layer'[l].status.revision >= layer[l].status.revision
  <1>1. IInv /\ [Next]_vars => [Kept]_vars
    <2> SUFFICES ASSUME IInv, Next, NEW l \in Layers
                 PROVE  layer'[l].status.revision >= layer[l].status.revision
      OBVIOUS
    <2>0. /\ layer \in [Layers -> LayerObjects]
          /\ \A m \in Layers : layer[m].status.revision \in Nat
      <3>1. layer \in [Layers -> LayerObjects]
        BY DEF IInv, WorldOK
      <3>2. ASSUME NEW m \in Layers PROVE layer[m].status.revision \in Nat
        BY <3>1, Constants DEF LayerObjects, Statuses
      <3> QED
        BY <3>1, <3>2
    <2>1. CASE UNCHANGED layer
      BY <2>0, <2>1
    <2>2. ASSUME NEW m \in Layers, Finish(m), ~UNCHANGED layer
          PROVE  layer'[l].status.revision >= layer[l].status.revision
      <3>1. /\ layer[m] = task[m].layer /\ task[m].pc = "finish"
            /\ layer' = [layer EXCEPT ![m].status = FinalStatus(m)]
        BY <2>2 DEF Finish, Current
      <3>2. TaskOK(m, task[m]) /\ task[m].status \in Statuses
        BY Running DEF Tasks
      <3> DEFINE s == FinalStatus(m)
      <3>3. s.revision = task[m].status.revision /\ s.revision \in Nat
        BY <3>2, Constants DEF FinalStatus, Statuses
      <3> HIDE DEF s
      <3>4. layer'[m].status = s /\ (l # m => layer'[l] = layer[l])
        BY <2>0, <3>1 DEF s, LayerObjects
      <3>5. layer[m].status.revision <= s.revision
        BY <3>1, <3>2, <3>3 DEF TaskOK
      <3> QED
        BY <2>0, <3>3, <3>4, <3>5
    <2>3. ASSUME NEW m \in Layers, NEW spec, Edit(m, spec), spec.status = layer[m].status,
                 spec \in LayerObjects
          PROVE  layer'[l].status.revision >= layer[l].status.revision
      <3> DEFINE al == [spec EXCEPT !.gen = spec.gen + 1]
      <3>1. layer' = [layer EXCEPT ![m] = al] /\ al.status = layer[m].status
        BY <2>3 DEF Edit, LayerObjects
      <3> HIDE DEF al
      <3> QED
        BY <2>0, <3>1
    <2>4. ASSUME NEW m \in Layers, NewVersion(m)
          PROVE  layer'[l].status.revision >= layer[l].status.revision
      <3> DEFINE spec == [layer[m] EXCEPT !.version = layer[m].version + 1]
      <3>1. Edit(m, spec) /\ spec.status = layer[m].status /\ spec \in LayerObjects
        <4>1. layer[m] \in LayerObjects /\ Edit(m, spec)
          BY <2>0, <2>4 DEF NewVersion
        <4> QED
          BY <4>1 DEF LayerObjects
      <3> QED
        BY <2>3, <3>1
    <2>5. ASSUME NEW m \in Layers, NEW d \in DependsOn[m], NewDependency(m, d)
          PROVE  layer'[l].status.revision >= layer[l].status.revision
      <3>1. PICK version : Edit(m, [layer[m] EXCEPT !.needs[d] = version])
        BY <2>5 DEF NewDependency
      <3> DEFINE spec == [layer[m] EXCEPT !.needs[d] = version]
                 al == [spec EXCEPT !.gen = spec.gen + 1]
      <3>2. spec.status = layer[m].status
        BY <2>0 DEF LayerObjects
      <3>3. layer' = [layer EXCEPT ![m] = al]
        BY <3>1 DEF Edit
      <3>4. al.status = spec.status
        <4>1. DOMAIN spec = DOMAIN layer[m]
          OBVIOUS
        <4> HIDE DEF spec
        <4> QED
          BY <2>0, <4>1 DEF LayerObjects
      <3> HIDE DEF al, spec
      <3> QED
        BY <2>0, <3>2, <3>3, <3>4
    <2> QED
      BY <2>1, <2>2, <2>4, <2>5
         DEF Next, Caches, SeeGit, SyncRepo, SeeLayer, SeeRelease, Publish, FetchRecovers,
             Users, Faults, FetchFails, Restart, K8sVersionNotMet, CallFails, ApplyFails,
             HelmFails,
             Reconcile, Begin, Prune, Depend, Compare, Apply, Check, HelmDeploys
  <1> QED
    BY <1>1, Invariance, PTL DEF Spec, ReportNeverRollsBack

-----------------------------------------------------------------------------
(* LayerDeployment implements Rollout *)

Started   == {l \in Layers : release[l].gen > 0}
Installed == {l \in Layers : release[l].installed}

LEMMA RolloutInit == Init => RolloutOf!Init
  BY DEF Init, RolloutOf!Init, NoRelease

(* Steps that leave what the contract is about as it is *)
LEMMA RolloutSame ==
    ASSUME \A l \in Layers : /\ release'[l].gen = release[l].gen
                             /\ release'[l].installed = release[l].installed
    PROVE  Started' = Started /\ Installed' = Installed
  BY DEF Started, Installed

LEMMA ApplyStarts ==
    ASSUME IInv, NEW l \in Layers, Apply(l) \/ ApplyFails(l)
    PROVE  \/ Started' = Started /\ Installed' = Installed
           \/ RolloutOf!Start(l)
  <1>0. release \in [Layers -> Releases] /\ release[l].gen \in Nat
    BY Running DEF IInv, WorldOK, Releases
  <1>1. CASE release' = release
    BY <1>1 DEF Started, Installed
  <1>2. CASE release' # release
    <2> DEFINE u == [release[l] EXCEPT !.spec = Found(l)]
               hr == [u EXCEPT !.gen = release[l].gen + 1]
    <2>1. release' = [release EXCEPT ![l] = hr] /\ task[l].pc = "apply"
      BY <1>0, <1>2 DEF Apply, ApplyFails, Put
    <2>2. u.gen = release[l].gen /\ u.installed = release[l].installed
          /\ DOMAIN u = DOMAIN release[l]
      BY <1>0 DEF Releases
    <2> HIDE DEF u
    <2>3. hr.gen = release[l].gen + 1 /\ hr.installed = release[l].installed
      BY <1>0, <2>2 DEF Releases
    <2> HIDE DEF hr
    <2>4. /\ \A m \in Layers \ {l} : release'[m] = release[m]
          /\ release'[l] = hr
      BY <1>0, <2>1
    <2>5. Installed' = Installed
      BY <2>3, <2>4 DEF Installed
    <2>6. Started' = Started \cup {l}
      BY <1>0, <2>3, <2>4 DEF Started
    <2>7. DependsOn[l] \cap Lasting \subseteq Installed
      BY <2>1, Running, Constants DEF TaskOK, StepOK, Installed
    <2> QED
      BY <2>5, <2>6, <2>7 DEF RolloutOf!Start, Started, Installed
  <1> QED
    BY <1>1, <1>2

LEMMA HelmInstalls ==
    ASSUME IInv, NEW l \in Layers, HelmDeploys(l)
    PROVE  RolloutOf!Install(l)
  <1>0. release \in [Layers -> Releases] /\ release[l] \in Releases
    BY DEF IInv, WorldOK
  <1> DEFINE acted == [release[l] EXCEPT !.observed = release[l].gen]
             ready == [acted EXCEPT !.ready = TRUE]
             hr    == [ready EXCEPT !.installed = TRUE]
  <1>1. release' = [release EXCEPT ![l] = hr] /\ Present(release[l])
    BY <1>0 DEF HelmDeploys
  <1>2. acted \in Releases /\ acted.gen = release[l].gen
    BY <1>0 DEF Releases
  <1> HIDE DEF acted
  <1>3. ready \in Releases /\ ready.gen = release[l].gen
    BY <1>2 DEF Releases
  <1> HIDE DEF ready
  <1>4. hr.gen = release[l].gen /\ hr.installed
    BY <1>3 DEF Releases
  <1> HIDE DEF hr
  <1>5. /\ \A m \in Layers \ {l} : release'[m] = release[m]
        /\ release'[l] = hr
    BY <1>0, <1>1
  <1>6. Started' = Started
    BY <1>4, <1>5 DEF Started
  <1>7. Installed' = Installed \cup {l}
    BY <1>4, <1>5 DEF Installed
  <1>8. l \in Started
    BY <1>1, Running DEF OneOK, ReleasesOK, Started
  <1> QED
    BY <1>6, <1>7, <1>8 DEF RolloutOf!Install, Started, Installed

LEMMA RolloutStep ==
    ASSUME IInv, [Next]_vars
    PROVE  [RolloutOf!Next]_<<Started, Installed>>
  <1>0. release \in [Layers -> Releases]
    BY DEF IInv, WorldOK
  <1>1. CASE UNCHANGED release
    BY <1>1 DEF Started, Installed
  <1>2. ASSUME NEW l \in Layers, Apply(l) \/ ApplyFails(l)
        PROVE  [RolloutOf!Next]_<<Started, Installed>>
    BY <1>2, ApplyStarts DEF RolloutOf!Next
  <1>3. ASSUME NEW l \in Layers, HelmDeploys(l)
        PROVE  [RolloutOf!Next]_<<Started, Installed>>
    BY <1>3, HelmInstalls DEF RolloutOf!Next
  <1>4. ASSUME NEW l \in Layers, Prune(l), ~UNCHANGED release
        PROVE  [RolloutOf!Next]_<<Started, Installed>>
    <2> DEFINE u == [release[l] EXCEPT !.spec = NoAddon]
               hr == [u EXCEPT !.ready = FALSE]
    <2>1. release' = [release EXCEPT ![l] = hr]
      BY <1>0, <1>4 DEF Prune, Delete
    <2>2. u \in Releases /\ u.gen = release[l].gen /\ u.installed = release[l].installed
      BY <1>0 DEF Releases, Specs
    <2> HIDE DEF u
    <2>3. hr.gen = release[l].gen /\ hr.installed = release[l].installed
      BY <2>2 DEF Releases
    <2> HIDE DEF hr
    <2> QED
      BY <1>0, <2>1, <2>3, RolloutSame
  <1>5. ASSUME NEW l \in Layers, HelmFails(l)
        PROVE  [RolloutOf!Next]_<<Started, Installed>>
    <2> DEFINE u == [release[l] EXCEPT !.observed = release[l].gen]
               hr == [u EXCEPT !.ready = FALSE]
    <2>1. release' = [release EXCEPT ![l] = hr]
      BY <1>0, <1>5 DEF HelmFails
    <2>2. u \in Releases /\ u.gen = release[l].gen /\ u.installed = release[l].installed
      BY <1>0 DEF Releases
    <2> HIDE DEF u
    <2>3. hr.gen = release[l].gen /\ hr.installed = release[l].installed
      BY <2>2 DEF Releases
    <2> HIDE DEF hr
    <2> QED
      BY <1>0, <2>1, <2>3, RolloutSame
  <1> QED
    BY <1>1, <1>2, <1>3, <1>4, <1>5
       DEF Next, vars, Caches, SeeGit, SyncRepo, SeeLayer, SeeRelease, Publish, FetchRecovers,
           Users, NewVersion, NewDependency, Edit, Faults, FetchFails, Restart,
           K8sVersionNotMet, CallFails, Reconcile, Begin, Depend, Compare, Check, Finish

(* What reaches the cluster does so in the order of the dependencies: every  *)
(* step is one of Rollout, or leaves what that speaks of as it is.           *)
THEOREM RolloutImplemented == Spec => RolloutKept
  <1>1. Init => RolloutOf!Init
    BY RolloutInit
  <1>2. IInv /\ [Next]_vars => [RolloutOf!Next]_<<Started, Installed>>
    BY RolloutStep
  <1> QED
    BY <1>1, <1>2, Invariance, PTL DEF Spec, RolloutKept, RolloutOf!Spec, Started, Installed
=============================================================================
