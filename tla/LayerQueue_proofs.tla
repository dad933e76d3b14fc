------------------------- MODULE LayerQueue_proofs -------------------------
(***************************************************************************)
(* For any layers, dependencies, workers and bounds: no event is missed.   *)
(* What a reconcile has seen is compared with what the caches hold when it *)
(* ends; in between, every change of a cache puts the layer into the queue *)
(* again, so that the layer is either there or the comparison still holds. *)
(***************************************************************************)
EXTENDS LayerQueue, TLAPS

(* What the caches show, or will show when the news have come *)
CacheOK(l) ==
    /\ l \notin layerNews => layerSeen[l] = layer[l]
    /\ l \notin releaseNews => releaseSeen[l] = release[l]

(* A reconcile that works on an old copy ends with l in the queue; one that *)
(* has changed nothing has a copy of the layer as it is.                    *)
CopyOK(l, t) ==
    t.pc # "idle" =>
        /\ t.stale => l \in layerNews \cup queue
        /\ ~t.stale /\ ~t.updated => t.layer = layer[l]

Suspended(l) == l \in releaseNews \/ (Present(releaseSeen[l]) => releaseSeen[l].suspended)

Running(l) == l \in Deploying => /\ releaseSeen[l].rev = gitSeen.rev
                                 /\ ~releaseSeen[l].suspended
                                 /\ releaseSeen[l].ready = "true"

(* Seen from the caches, al may be left alone. *)
Settled(l, al) ==
    IF al.hold THEN al.status.state = "Hold" /\ Suspended(l)
    ELSE \/ gitSeen.rev = 0
         \/ al.status.state = "Failed" /\ al.status.reason = "call"
         \/ /\ al.status.state = "Deployed"
            /\ al.status.rev = gitSeen.rev
            /\ Running(l)

(* What each step of a reconcile rests on, unless an event has come since *)
StepOK(l, t) ==
    /\ t.pc = "suspend" => t.layer.hold /\ t.layer.status.state = "Hold"
    /\ t.pc \in {"judge", "apply", "check", "list"} => ~t.layer.hold
    /\ t.pc = "check" /\ l \notin queue => gitSeen.rev # 0 /\ ~ApplyIsRequired(l)
    /\ t.pc \in {"list", "finish"} /\ l \notin queue /\ ~t.requeue /\ ~t.updated
       => Settled(l, t.layer)

(* Between two reconciles, with nothing to bring l back *)
RestOK(l) ==
    task[l].pc = "idle" /\ l \notin layerNews \cup queue
    => layer[l].status.observed = layer[l].gen /\ Settled(l, layer[l])

LayerOK(l) == CacheOK(l) /\ CopyOK(l, task[l]) /\ StepOK(l, task[l]) /\ RestOK(l)

IInv == TypeOK /\ \A l \in Layers : LayerOK(l)

-----------------------------------------------------------------------------
(* Facts about the values *)

LEMMA Numbers == /\ Timeout \in Nat \ {0} /\ MaxRev \in Nat \ {0}
                 /\ MaxEdits \in Nat /\ MaxFaults \in Nat
    BY NumbersAssumption, BoundsAssumption

LEMMA LayerValues == {NewLayer, OldLayer, HeldLayer} \subseteq LayerObjects
  <1> DEFINE none == NewLayer.status
  <1>0. none \in Statuses
    <2>1. none = [state |-> "", reason |-> "", gen |-> 0, age |-> 0,
                  observed |-> 0, rev |-> 0, entry |-> ""]
      BY DEF NewLayer
    <2> HIDE DEF none
    <2>2. "" \in States /\ "" \in Reasons /\ "" \in Entries
      BY DEF States, Reasons, Entries
    <2>3. 0 \in Nat /\ 0 \in 0..Timeout /\ 0 \in 0..MaxRev
      BY Numbers
    <2>4. none \in AnyStatus
      BY <2>1, <2>2, <2>3 DEF AnyStatus
    <2>5. none.state = "" /\ none.reason = ""
      BY <2>1
    <2>6. "" \in ReasonsOf("")
      BY DEF ReasonsOf
    <2> QED
      BY <2>4, <2>5, <2>6 DEF Statuses
  <1>1. NewLayer \in LayerObjects
    BY <1>0 DEF NewLayer, LayerObjects
  <1> DEFINE s == NewLayer.status
             old == [s EXCEPT !.state = "Deployed", !.reason = "old",
                              !.observed = 1, !.rev = 1]
             t == OldLayer.status
             held == [t EXCEPT !.state = "Hold", !.reason = "", !.gen = 1]
  <1>2. s \in Statuses /\ 1 \in 0..MaxRev
    BY <1>1, Numbers DEF LayerObjects
  <1>3. old \in Statuses
    BY <1>2 DEF Statuses, AnyStatus, ReasonsOf, States, Reasons
  <1>4. OldLayer = [NewLayer EXCEPT !.finalizer = TRUE, !.status = old]
    BY <1>1 DEF OldLayer, LayerObjects
  <1>5. OldLayer \in LayerObjects
    BY <1>1, <1>3, <1>4 DEF LayerObjects
  <1>6. t \in Statuses
    BY <1>5 DEF LayerObjects
  <1>7. held \in Statuses
    BY <1>6 DEF Statuses, AnyStatus, ReasonsOf, States, Reasons
  <1>8. HeldLayer = [OldLayer EXCEPT !.hold = TRUE, !.status = held]
    BY <1>5 DEF HeldLayer, LayerObjects
  <1>9. HeldLayer \in LayerObjects
    BY <1>5, <1>7, <1>8 DEF LayerObjects
  <1> QED
    BY <1>1, <1>5, <1>9

LEMMA IdleType == Idle \in Tasks /\ Idle.pc = "idle"
    BY LayerValues DEF Idle, Tasks, PCs

LEMMA ReleaseValues == NoRelease \in Releases /\ OldReleases \subseteq Releases
  <1>1. NoRelease \in Releases /\ 1 \in 0..MaxRev
    BY Numbers DEF NoRelease, Releases
  <1>2. \A hr \in OldReleases : hr \in Releases
    BY <1>1 DEF OldReleases, Releases
  <1> QED
    BY <1>1, <1>2

LEMMA GitValues == NoGit \in Gits /\ [rev |-> 1, ready |-> TRUE] \in Gits
    BY Numbers DEF NoGit, Gits

(* A status of another age, a layer with another status, a task with another *)
(* layer                                                                     *)
LEMMA AgeTypes ==
    ASSUME NEW s \in Statuses, NEW age \in 0..Timeout, NEW r,
           r = [s EXCEPT !.age = age]
    PROVE  /\ r \in Statuses /\ r.state = s.state /\ r.reason = s.reason
           /\ r.rev = s.rev /\ r.observed = s.observed /\ r.gen = s.gen
    BY DEF Statuses, AnyStatus

LEMMA LayerWith ==
    ASSUME NEW al \in LayerObjects, NEW s \in Statuses
    PROVE  LET r == [al EXCEPT !.status = s]
           IN  /\ r \in LayerObjects /\ r.status = s /\ r.hold = al.hold
               /\ r.gen = al.gen
    BY DEF LayerObjects

LEMMA TaskWith ==
    ASSUME NEW t \in Tasks, NEW al \in LayerObjects, NEW u \in BOOLEAN, NEW q \in BOOLEAN
    PROVE  LET r == [t EXCEPT !.layer = al, !.updated = u, !.requeue = q]
           IN  /\ r \in Tasks /\ r.layer = al /\ r.updated = u /\ r.requeue = q
               /\ r.pc = t.pc /\ r.stale = t.stale
    BY DEF Tasks

(* setStatus: the condition is there already, or the flags are set. *)
LEMMA SetStatusFacts ==
    ASSUME NEW t \in Tasks, NEW state \in States, NEW reason \in ReasonsOf(state)
    PROVE  /\ SetStatus(t, state, reason) \in Tasks
           /\ SetStatus(t, state, reason).pc = t.pc
           /\ SetStatus(t, state, reason).stale = t.stale
           /\ SetStatus(t, state, reason).layer.hold = t.layer.hold
           /\ SetStatus(t, state, reason).layer.status.state = state
           /\ SetStatus(t, state, reason).layer.status.reason = reason
           /\ \/ SetStatus(t, state, reason) = t
              \/ /\ SetStatus(t, state, reason).updated
                 /\ SetStatus(t, state, reason).requeue
  <1> DEFINE g == t.layer.gen
             s == [t.layer.status EXCEPT !.state = state, !.reason = reason, !.gen = g]
             s0 == [s EXCEPT !.age = 0]
             al == [t.layer EXCEPT !.status = s0]
             r == [t EXCEPT !.layer = al, !.updated = TRUE, !.requeue = TRUE]
  <1>1. t.layer \in LayerObjects /\ t.layer.status \in Statuses /\ g \in Nat
    BY DEF Tasks, LayerObjects
  <1>2. /\ s \in Statuses /\ s.state = state /\ s.reason = reason
        /\ s0 \in Statuses /\ s0.state = state /\ s0.reason = reason
    <2>1. s \in Statuses /\ s.state = state /\ s.reason = reason
      BY <1>1 DEF Statuses, AnyStatus, Reasons, ReasonsOf
    <2> HIDE DEF s
    <2>2. s0 \in Statuses /\ s0.state = state /\ s0.reason = reason
      BY <2>1, AgeTypes, Numbers
    <2> QED
      BY <2>1, <2>2
  <1>3. /\ al \in LayerObjects /\ al.status = s0 /\ al.hold = t.layer.hold
    BY <1>1, <1>2, LayerWith
  <1>4. /\ r \in Tasks /\ r.layer = al /\ r.updated = TRUE /\ r.requeue = TRUE
        /\ r.pc = t.pc /\ r.stale = t.stale
    BY <1>3, TaskWith
  <1>5. r = [t EXCEPT !.layer.status = s0, !.updated = TRUE, !.requeue = TRUE]
    OBVIOUS
  <1>6. SetStatus(t, state, reason) = IF s = t.layer.status THEN t ELSE r
    BY <1>5 DEF SetStatus
  <1> HIDE DEF s, s0, al, r
  <1>7. CASE s = t.layer.status
    BY <1>2, <1>6, <1>7
  <1>8. CASE s # t.layer.status
    BY <1>2, <1>3, <1>4, <1>6, <1>8
  <1> QED
    BY <1>7, <1>8

LEMMA RequeuedFacts ==
    ASSUME NEW t \in Tasks
    PROVE  LET r == Requeued(t)
           IN  /\ r \in Tasks /\ r.pc = t.pc /\ r.stale = t.stale
               /\ r.layer = t.layer /\ r.updated = t.updated /\ r.requeue
    BY DEF Requeued, Tasks

LEMMA PcFacts ==
    ASSUME NEW t \in Tasks, NEW pc \in PCs
    PROVE  LET r == [t EXCEPT !.pc = pc]
           IN  /\ r \in Tasks /\ r.pc = pc /\ r.stale = t.stale
               /\ r.layer = t.layer /\ r.updated = t.updated
               /\ r.requeue = t.requeue
    BY DEF Tasks

-----------------------------------------------------------------------------
(* What a layer needs of a step for its part of the invariant to be kept *)

LEMMA Values ==
    ASSUME TypeOK, NEW l \in Layers
    PROVE  /\ task[l] \in Tasks /\ task[l].layer \in LayerObjects /\ task[l].pc \in PCs
           /\ layer[l] \in LayerObjects /\ layerSeen[l] \in LayerObjects
           /\ release[l] \in Releases /\ releaseSeen[l] \in Releases
           /\ gitSeen.rev \in 0..MaxRev /\ gitSeen \in Gits /\ git \in Gits
    BY DEF TypeOK, Tasks, Gits

(* Nothing of m changes, but that its HelmRelease may be written, and that  *)
(* it may be queued.                                                        *)
LEMMA Frame ==
    ASSUME NEW m \in Layers, LayerOK(m),
           layer'[m] = layer[m], layerSeen'[m] = layerSeen[m], task'[m] = task[m],
           m \in layerNews' <=> m \in layerNews,
           releaseSeen'[m] = releaseSeen[m],
           m \in releaseNews => m \in releaseNews',
           m \notin releaseNews' => release'[m] = release[m],
           m \in queue => m \in queue',
           gitSeen'.rev = gitSeen.rev
    PROVE  LayerOK(m)'
  <1>1. CacheOK(m)'
    BY DEF LayerOK, CacheOK
  <1>2. CopyOK(m, task[m])'
    BY DEF LayerOK, CopyOK
  <1>3. /\ Settled(m, layer[m]) => Settled(m, layer[m])'
        /\ Settled(m, task[m].layer) => Settled(m, task[m].layer)'
        /\ ApplyIsRequired(m)' => ApplyIsRequired(m)
    BY DEF Settled, Suspended, Running, ApplyIsRequired
  <1>4. StepOK(m, task[m])'
    BY <1>3 DEF LayerOK, StepOK
  <1>5. RestOK(m)'
    BY <1>3 DEF LayerOK, RestOK
  <1> QED
    BY <1>1, <1>2, <1>4, <1>5 DEF LayerOK

(* A cache changes, and m is queued. *)
LEMMA Woken ==
    ASSUME NEW m \in Layers, LayerOK(m), CacheOK(m)',
           layer'[m] = layer[m], task'[m] = task[m], m \in queue'
    PROVE  LayerOK(m)'
  <1>1. CopyOK(m, task[m])'
    BY DEF LayerOK, CopyOK
  <1>2. StepOK(m, task[m])'
    BY DEF LayerOK, StepOK
  <1>3. RestOK(m)'
    BY DEF RestOK
  <1> QED
    BY <1>1, <1>2, <1>3 DEF LayerOK

(* The layer is written while nobody works on it. *)
LEMMA Rewritten ==
    ASSUME NEW m \in Layers, m \in layerNews',
           m \notin releaseNews' => releaseSeen'[m] = release'[m],
           task'[m].pc = "idle"
    PROVE  LayerOK(m)'
    BY DEF LayerOK, CacheOK, CopyOK, StepOK, RestOK

(* A step of a reconcile, which may write the HelmRelease *)
LEMMA TaskStep ==
    ASSUME IInv, NEW l \in Layers, NEW r \in Tasks,
           task' = [task EXCEPT ![l] = r],
           task[l].pc # "idle", r.pc # "idle", r.stale = task[l].stale,
           r.updated \/ (~task[l].updated /\ r.layer = task[l].layer),
           StepOK(l, task[l])',
           edits' \in 0..MaxEdits, faults' \in 0..MaxFaults,
           UNCHANGED <<git, layers, caches, queue>>,
           \/ UNCHANGED releases
           \/ \E hr \in Releases : WriteRelease(l, hr)
    PROVE  IInv'
  <1> USE DEF layers, releases, caches
  <1>1. task' \in [Layers -> Tasks]
    BY DEF IInv, TypeOK
  <1>2. /\ release' \in [Layers -> Releases] /\ releaseNews' \subseteq Layers
        /\ releaseNews \subseteq releaseNews'
        /\ \A m \in Layers : m \notin releaseNews' => release'[m] = release[m]
    BY DEF IInv, TypeOK, WriteRelease
  <1>3. TypeOK'
    BY <1>1, <1>2 DEF IInv, TypeOK
  <1>4. ASSUME NEW m \in Layers PROVE LayerOK(m)'
    <2>1. CASE m # l
      <3>1. task'[m] = task[m]
        BY <2>1 DEF IInv, TypeOK
      <3> QED
        BY <1>2, <3>1, Frame DEF IInv
    <2>2. CASE m = l
      <3>1. task'[l] = r
        BY DEF IInv, TypeOK
      <3>2. LayerOK(l)
        BY DEF IInv
      <3>3. CacheOK(l)'
        BY <1>2, <3>2 DEF LayerOK, CacheOK
      <3>4. CopyOK(l, task[l])'
        BY <3>1, <3>2 DEF LayerOK, CopyOK
      <3>5. RestOK(l)'
        BY <3>1 DEF RestOK
      <3> QED
        BY <2>2, <3>3, <3>4, <3>5 DEF LayerOK
    <2> QED
      BY <2>1, <2>2
  <1> QED
    BY <1>3, <1>4 DEF IInv

-----------------------------------------------------------------------------
(* What the functions of a reconcile make of it *)

(* t comes from the reconcile of l: the copy is the same, or a flag is set. *)
Follows(l, t) ==
    /\ t \in Tasks
    /\ t.stale = task[l].stale /\ t.layer.hold = task[l].layer.hold
    /\ t.updated \/ (~task[l].updated /\ t.layer = task[l].layer)

LEMMA Conditions ==
    /\ {"Hold", "Pending", "K8sVersion", "ApplyPending", "Applying", "Deployed",
        "Failed"} \subseteq States
    /\ \A state \in States : "" \in ReasonsOf(state)
    /\ {"noSource", "conflict", "notReady", "call"} \subseteq ReasonsOf("Failed")
    /\ {"suspend", "judge", "apply", "check", "list", "finish"} \subseteq PCs \ {"idle"}
    BY DEF States, ReasonsOf, Failures, PCs

LEMMA FollowsItself ==
    ASSUME TypeOK, NEW l \in Layers
    PROVE  Follows(l, task[l])
    BY Values DEF Follows, Tasks

LEMMA FollowsSetStatus ==
    ASSUME NEW l, NEW t, Follows(l, t), NEW state \in States,
           NEW reason \in ReasonsOf(state)
    PROVE  Follows(l, SetStatus(t, state, reason))
    BY SetStatusFacts DEF Follows

(* The condition is the one asked for; it was already, or the flags are set. *)
HasCondition(t, state, reason) ==
    LET r == SetStatus(t, state, reason)
    IN  /\ r \in Tasks
        /\ r.stale = t.stale /\ r.layer.hold = t.layer.hold
        /\ r.layer.status.state = state /\ r.layer.status.reason = reason
        /\ r = t \/ (r.updated /\ r.requeue)

LEMMA ConditionIsSet ==
    ASSUME NEW t \in Tasks
    PROVE  \A state \in States : \A reason \in ReasonsOf(state) :
               HasCondition(t, state, reason)
    BY SetStatusFacts DEF HasCondition

LEMMA FollowsRequeued ==
    ASSUME NEW l, NEW t, Follows(l, t)
    PROVE  Follows(l, Requeued(t)) /\ Requeued(t).requeue
    BY RequeuedFacts DEF Follows

(* checkSuccess: the revision is in the status, or the flag is set. *)
LEMMA DeployedFacts ==
    ASSUME TypeOK, NEW l \in Layers, NEW t, Follows(l, t)
    PROVE  /\ Follows(l, Deployed(t))
           /\ Deployed(t).layer.status.state = "Deployed"
           /\ Deployed(t).layer.status.rev = gitSeen.rev
  <1> DEFINE done == SetStatus(t, "Deployed", "")
             old == done.layer.status
             s == [old EXCEPT !.rev = gitSeen.rev]
             al == [done.layer EXCEPT !.status = s]
             u == done.updated \/ t.layer.status.rev # gitSeen.rev
             r == [done EXCEPT !.layer = al, !.updated = u]
  <1>1. /\ done \in Tasks /\ old.state = "Deployed"
        /\ done.stale = t.stale /\ done.layer.hold = t.layer.hold
        /\ done = t \/ (done.updated /\ done.requeue)
    <2>1. t \in Tasks
      BY DEF Follows
    <2>2. HasCondition(t, "Deployed", "")
      BY <2>1, ConditionIsSet, Conditions
    <2> QED
      BY <2>2 DEF HasCondition
  <1>2. /\ Deployed(t) = [done EXCEPT !.layer.status.rev = gitSeen.rev,
                                      !.updated = @ \/ t.layer.status.rev # gitSeen.rev]
        /\ r = Deployed(t)
    BY <1>1 DEF Deployed, Tasks
  <1> HIDE DEF done
  <1>3. /\ done.layer \in LayerObjects /\ old \in Statuses /\ done.updated \in BOOLEAN
        /\ gitSeen.rev \in 0..MaxRev /\ u \in BOOLEAN
    BY <1>1, Values DEF Tasks, LayerObjects
  <1>4. /\ s \in Statuses /\ s.state = "Deployed" /\ s.rev = gitSeen.rev
        /\ old.rev = gitSeen.rev => s = old
    BY <1>1, <1>3 DEF Statuses, AnyStatus
  <1> HIDE DEF s
  <1>5. /\ al \in LayerObjects /\ al.status = s /\ al.hold = done.layer.hold
        /\ s = old => al = done.layer
    BY <1>3, <1>4 DEF LayerObjects
  <1> HIDE DEF al, u
  <1>6. /\ r \in Tasks /\ r.layer = al /\ r.updated = u /\ r.stale = done.stale
    BY <1>1, <1>3, <1>5 DEF Tasks
  <1>7. r.updated \/ (~task[l].updated /\ r.layer = task[l].layer)
    <2>1. SUFFICES ASSUME ~u PROVE ~task[l].updated /\ r.layer = task[l].layer
      BY <1>6
    <2>2. done = t /\ t.layer.status.rev = gitSeen.rev /\ ~t.updated
      BY <1>1, <2>1 DEF u
    <2>3. al = t.layer
      BY <1>4, <1>5, <2>2
    <2> QED
      BY <1>6, <2>2, <2>3 DEF Follows
  <1>8. /\ r.layer.hold = task[l].layer.hold /\ r.stale = task[l].stale
    BY <1>1, <1>5, <1>6 DEF Follows
  <1>9. Follows(l, r)
    BY <1>6, <1>7, <1>8 DEF Follows
  <1> QED
    BY <1>2, <1>4, <1>5, <1>6, <1>9

(* updateResources: nothing but the entry, which sets the flag *)
LEMMA ResourcesFacts ==
    ASSUME TypeOK, NEW l \in Layers, NEW t \in UpdateResources(l, task[l])
    PROVE  /\ Follows(l, t) /\ t.requeue = task[l].requeue
           /\ t = task[l] \/ t.updated
  <1> DEFINE old == task[l]
             s == [old.layer.status EXCEPT !.entry = Entry(l)]
             al == [old.layer EXCEPT !.status = s]
             listed == [old EXCEPT !.layer = al, !.updated = TRUE]
  <1>1. old \in Tasks /\ old.layer \in LayerObjects /\ old.layer.status \in Statuses
    BY Values DEF LayerObjects
  <1>2. Entry(l) \in Entries
    BY DEF Entry, Entries
  <1>3. s \in Statuses
    BY <1>1, <1>2 DEF Statuses, AnyStatus
  <1>4. [old EXCEPT !.layer.status.entry = Entry(l), !.updated = TRUE] = listed
    BY <1>1 DEF Tasks
  <1> HIDE DEF s
  <1>5. al \in LayerObjects /\ al.hold = old.layer.hold
    BY <1>1, <1>3 DEF LayerObjects
  <1> HIDE DEF al
  <1>6. /\ listed \in Tasks /\ listed.layer = al /\ listed.updated
        /\ listed.stale = old.stale /\ listed.requeue = old.requeue
    BY <1>1, <1>5 DEF Tasks
  <1>7. t = listed \/ t = old
    BY <1>4 DEF UpdateResources
  <1> HIDE DEF listed
  <1>8. CASE t = old
    BY <1>8, FollowsItself
  <1>9. CASE t = listed
    BY <1>5, <1>6, <1>9 DEF Follows
  <1> QED
    BY <1>7, <1>8, <1>9

(* The step goes on, or ends with a flag set. *)
LEMMA GotoStep ==
    ASSUME IInv, NEW l \in Layers, NEW t, Follows(l, t), NEW pc \in PCs \ {"idle"},
           Goto(l, pc, t), task[l].pc # "idle", StepOK(l, task[l])',
           edits' \in 0..MaxEdits, faults' \in 0..MaxFaults,
           UNCHANGED <<git, layers, caches, queue>>,
           \/ UNCHANGED releases
           \/ \E hr \in Releases : WriteRelease(l, hr)
    PROVE  IInv'
  <1> DEFINE r == [t EXCEPT !.pc = pc]
  <1>1. /\ r \in Tasks /\ r.pc = pc /\ r.stale = t.stale
        /\ r.layer = t.layer /\ r.updated = t.updated
    BY PcFacts DEF Follows
  <1>2. task' = [task EXCEPT ![l] = r]
    BY DEF Goto
  <1> HIDE DEF r
  <1> QED
    BY <1>1, <1>2, TaskStep DEF Follows

LEMMA EndStep ==
    ASSUME IInv, NEW l \in Layers, NEW t, Follows(l, t), NEW pc \in {"list", "finish"},
           Goto(l, pc, t), task[l].pc # "idle",
           pc = "list" => ~task[l].layer.hold,
           t.updated \/ t.requeue,
           edits' \in 0..MaxEdits, faults' \in 0..MaxFaults,
           UNCHANGED <<git, layers, caches, queue>>,
           \/ UNCHANGED releases
           \/ \E hr \in Releases : WriteRelease(l, hr)
    PROVE  IInv'
  <1>1. /\ task'[l].pc = pc /\ task'[l].layer.hold = task[l].layer.hold
        /\ task'[l].updated \/ task'[l].requeue
    BY PcFacts DEF Goto, Follows, IInv, TypeOK, PCs
  <1>2. StepOK(l, task[l])'
    BY <1>1 DEF StepOK
  <1> QED
    BY <1>2, GotoStep DEF PCs

-----------------------------------------------------------------------------
(* One lemma for each step of a reconcile *)

LEMMA TypeBounds ==
    ASSUME IInv
    PROVE  /\ TypeOK /\ edits \in 0..MaxEdits /\ faults \in 0..MaxFaults
           /\ UNCHANGED bounds => edits' \in 0..MaxEdits /\ faults' \in 0..MaxFaults
           /\ Fault => faults' \in 0..MaxFaults
           /\ Edit => edits' \in 0..MaxEdits
  <1>1. TypeOK /\ edits \in 0..MaxEdits /\ faults \in 0..MaxFaults
    BY DEF IInv, TypeOK
  <1> QED
    BY <1>1, Numbers DEF bounds, Fault, Edit

LEMMA SuspendStep ==
    ASSUME IInv, NEW l \in Layers, Suspend(l)
    PROVE  IInv'
  <1> DEFINE t == task[l]
  <1>1. /\ TypeOK /\ t.pc = "suspend" /\ LayerOK(l) /\ Follows(l, t)
        /\ edits' \in 0..MaxEdits /\ faults' \in 0..MaxFaults
        /\ UNCHANGED <<git, layers, caches, queue>>
    BY TypeBounds, FollowsItself DEF Suspend, IInv
  <1>2. /\ t.layer.hold /\ t.layer.status.state = "Hold"
        /\ t \in Tasks /\ t.layer \in LayerObjects
    BY <1>1, Values DEF LayerOK, StepOK
  <1>3. ASSUME Goto(l, "finish", t), Suspended(l)',
               \/ UNCHANGED releases
               \/ \E hr \in Releases : WriteRelease(l, hr)
        PROVE  IInv'
    <2>1. task'[l].pc = "finish" /\ task'[l].layer = t.layer
      BY <1>2, <1>3, PcFacts, Conditions DEF Goto, IInv, TypeOK
    <2>2. StepOK(l, task[l])'
      BY <1>2, <1>3, <2>1 DEF StepOK, Settled
    <2> QED
      BY <1>1, <1>3, <2>2, GotoStep, Conditions
  <1>4. CASE ~Present(releaseSeen[l]) \/ releaseSeen[l].suspended
    <2>1. Goto(l, "finish", t) /\ UNCHANGED releases
      BY <1>4 DEF Suspend
    <2>2. Suspended(l)'
      BY <1>1, <1>4 DEF Suspended, Present, caches
    <2> QED
      BY <1>3, <2>1, <2>2
  <1>5. CASE /\ ~(~Present(releaseSeen[l]) \/ releaseSeen[l].suspended)
             /\ l \notin releaseNews
    <2> DEFINE hr == [release[l] EXCEPT !.suspended = TRUE]
    <2>1. Goto(l, "finish", t) /\ WriteRelease(l, hr)
      BY <1>5 DEF Suspend
    <2>2. hr \in Releases
      BY <1>1, Values DEF Releases
    <2>3. Suspended(l)'
      BY <2>1 DEF Suspended, WriteRelease
    <2> QED
      BY <1>3, <2>1, <2>2, <2>3
  <1>6. CASE /\ ~(~Present(releaseSeen[l]) \/ releaseSeen[l].suspended)
             /\ l \in releaseNews
    <2> DEFINE r == Fail(t, "conflict")
    <2>1. Goto(l, "finish", r) /\ UNCHANGED releases
      BY <1>6 DEF Suspend
    <2>2. Follows(l, r)
      BY <1>1, FollowsSetStatus, Conditions DEF Fail
    <2>3. r.updated
      BY <1>2, SetStatusFacts, Conditions DEF Fail
    <2> QED
      BY <1>1, <2>1, <2>2, <2>3, EndStep
  <1> QED
    BY <1>4, <1>5, <1>6

LEMMA JudgeStep ==
    ASSUME IInv, NEW l \in Layers, Judge(l)
    PROVE  IInv'
  <1> DEFINE t == task[l]
  <1>1. /\ TypeOK /\ t.pc = "judge" /\ LayerOK(l) /\ Follows(l, t)
        /\ edits' \in 0..MaxEdits /\ faults' \in 0..MaxFaults
        /\ UNCHANGED <<git, layers, caches, queue>> /\ UNCHANGED releases
    BY TypeBounds, FollowsItself DEF Judge, IInv
  <1>2. ~t.layer.hold /\ t \in Tasks
    BY <1>1, Values DEF LayerOK, StepOK
  <1>3. CASE gitSeen.rev = 0
    <2> DEFINE r == Fail(t, "noSource")
    <2>1. Goto(l, "finish", r)
      BY <1>3 DEF Judge
    <2>2. Follows(l, r)
      BY <1>1, FollowsSetStatus, Conditions DEF Fail
    <2>3. task'[l].pc = "finish" /\ ~task'[l].layer.hold
      BY <1>2, <2>1, <2>2, PcFacts, Conditions DEF Goto, Follows, IInv, TypeOK
    <2>4. StepOK(l, task[l])'
      BY <1>1, <1>3, <2>3 DEF StepOK, Settled, caches
    <2> QED
      BY <1>1, <2>1, <2>2, <2>4, GotoStep, Conditions
  <1>4. CASE gitSeen.rev # 0 /\ ~gitSeen.ready
    <2> DEFINE r == Requeued(SetStatus(t, "Pending", ""))
    <2>1. Goto(l, "finish", r)
      BY <1>4 DEF Judge
    <2>2. Follows(l, r) /\ r.requeue
      BY <1>1, FollowsSetStatus, FollowsRequeued, Conditions
    <2> QED
      BY <1>1, <2>1, <2>2, EndStep
  <1>5. CASE gitSeen.rev # 0 /\ gitSeen.ready /\ ~DependenciesDeployed(l)
    <2> DEFINE r == Requeued(SetStatus(t, "ApplyPending", ""))
    <2>1. Goto(l, "list", r)
      BY <1>5 DEF Judge
    <2>2. Follows(l, r) /\ r.requeue
      BY <1>1, FollowsSetStatus, FollowsRequeued, Conditions
    <2> QED
      BY <1>1, <1>2, <2>1, <2>2, EndStep
  <1>6. CASE gitSeen.rev # 0 /\ gitSeen.ready /\ DependenciesDeployed(l)
    <2> DEFINE pc == IF ApplyIsRequired(l) THEN "apply" ELSE "check"
    <2>1. Goto(l, pc, t) /\ pc \in PCs \ {"idle"}
      BY <1>6, Conditions DEF Judge
    <2>2. task'[l].pc = pc /\ ~task'[l].layer.hold
      BY <1>2, <2>1, PcFacts DEF Goto, IInv, TypeOK
    <2>3. StepOK(l, task[l])'
      <3>1. ApplyIsRequired(l)' = ApplyIsRequired(l) /\ gitSeen'.rev # 0
        BY <1>1, <1>6 DEF ApplyIsRequired, caches
      <3> QED
        BY <2>2, <3>1 DEF StepOK
    <2> QED
      BY <1>1, <2>1, <2>3, GotoStep
  <1> QED
    BY <1>3, <1>4, <1>5, <1>6

LEMMA K8sVersionStep ==
    ASSUME IInv, NEW l \in Layers, K8sVersionNotMet(l)
    PROVE  IInv'
  <1> DEFINE r == Requeued(SetStatus(task[l], "K8sVersion", ""))
  <1>1. /\ TypeOK /\ task[l].pc = "judge" /\ LayerOK(l) /\ Follows(l, task[l])
        /\ edits' \in 0..MaxEdits /\ faults' \in 0..MaxFaults /\ Goto(l, "list", r)
        /\ UNCHANGED <<git, layers, caches, queue>> /\ UNCHANGED releases
    BY TypeBounds, FollowsItself DEF K8sVersionNotMet, IInv
  <1>2. ~task[l].layer.hold
    BY <1>1 DEF LayerOK, StepOK
  <1>3. Follows(l, r) /\ r.requeue
    BY <1>1, FollowsSetStatus, FollowsRequeued, Conditions
  <1> QED
    BY <1>1, <1>2, <1>3, EndStep

LEMMA PutWrites ==
    ASSUME TypeOK, NEW l \in Layers, Put(l)
    PROVE  UNCHANGED releases \/ \E hr \in Releases : WriteRelease(l, hr)
  <1> DEFINE hr == [release[l] EXCEPT !.rev = gitSeen.rev, !.suspended = FALSE]
  <1>1. hr \in Releases /\ [hr EXCEPT !.acted = FALSE] \in Releases
    BY Values DEF Releases
  <1> QED
    BY <1>1 DEF Put

(* A second condition, after that of the apply, is a change. *)
LEMMA FailsAfterApplying ==
    ASSUME NEW l \in Layers, Follows(l, task[l]), NEW reason \in ReasonsOf("Failed")
    PROVE  LET t == Fail(SetStatus(task[l], "Applying", ""), reason)
           IN  Follows(l, t) /\ t.updated
  <1> DEFINE t == SetStatus(task[l], "Applying", "")
  <1>1. Follows(l, t)
    BY FollowsSetStatus, Conditions
  <1>2. t \in Tasks /\ t.layer.status.state = "Applying"
    <2>1. task[l] \in Tasks
      BY DEF Follows
    <2>2. HasCondition(task[l], "Applying", "")
      BY <2>1, ConditionIsSet, Conditions
    <2> QED
      BY <2>2 DEF HasCondition
  <1> HIDE DEF t
  <1>3. Fail(t, reason).updated
    BY <1>2, SetStatusFacts, Conditions DEF Fail
  <1>4. Follows(l, Fail(t, reason))
    BY <1>1, FollowsSetStatus, Conditions DEF Fail
  <1> QED
    BY <1>3, <1>4 DEF t

LEMMA ApplyStep ==
    ASSUME IInv, NEW l \in Layers, Apply(l)
    PROVE  IInv'
  <1> DEFINE t == SetStatus(task[l], "Applying", "")
  <1>1. /\ TypeOK /\ task[l].pc = "apply" /\ LayerOK(l) /\ Follows(l, task[l])
        /\ edits' \in 0..MaxEdits /\ faults' \in 0..MaxFaults
        /\ UNCHANGED <<git, layers, caches, queue>>
    BY TypeBounds, FollowsItself DEF Apply, IInv
  <1>2. ~task[l].layer.hold
    BY <1>1 DEF LayerOK, StepOK
  <1>3. Follows(l, t)
    BY <1>1, FollowsSetStatus, Conditions
  <1>4. CASE ~DependenciesDeployed(l)
    <2> DEFINE r == Requeued(SetStatus(task[l], "ApplyPending", ""))
    <2>1. Goto(l, "list", r) /\ UNCHANGED releases
      BY <1>4 DEF Apply
    <2>2. Follows(l, r) /\ r.requeue
      BY <1>1, FollowsSetStatus, FollowsRequeued, Conditions
    <2> QED
      BY <1>1, <1>2, <2>1, <2>2, EndStep
  <1>5. CASE DependenciesDeployed(l) /\ Present(release[l]) = Present(releaseSeen[l])
    <2> DEFINE r == Requeued(t)
    <2>1. Goto(l, "list", r) /\ Put(l)
      BY <1>5 DEF Apply
    <2>2. Follows(l, r) /\ r.requeue
      BY <1>3, FollowsRequeued
    <2>3. UNCHANGED releases \/ \E hr \in Releases : WriteRelease(l, hr)
      BY <1>1, <2>1, PutWrites
    <2> QED
      BY <1>1, <1>2, <2>1, <2>2, <2>3, EndStep
  <1>6. CASE DependenciesDeployed(l) /\ ~(Present(release[l]) = Present(releaseSeen[l]))
    <2> DEFINE r == Fail(t, "conflict")
    <2>1. Goto(l, "list", r) /\ UNCHANGED releases
      BY <1>6 DEF Apply
    <2>2. Follows(l, r) /\ r.updated
      BY <1>1, FailsAfterApplying, Conditions
    <2> QED
      BY <1>1, <1>2, <2>1, <2>2, EndStep
  <1> QED
    BY <1>4, <1>5, <1>6

LEMMA ApplyFailsStep ==
    ASSUME IInv, NEW l \in Layers, ApplyFails(l)
    PROVE  IInv'
  <1> DEFINE r == Fail(SetStatus(task[l], "Applying", ""), "call")
  <1>1. /\ TypeOK /\ task[l].pc = "apply" /\ LayerOK(l) /\ Follows(l, task[l])
        /\ edits' \in 0..MaxEdits /\ faults' \in 0..MaxFaults
        /\ UNCHANGED <<git, layers, caches, queue>> /\ Goto(l, "list", r)
    BY TypeBounds, FollowsItself DEF ApplyFails, IInv
  <1>2. ~task[l].layer.hold
    BY <1>1 DEF LayerOK, StepOK
  <1>3. Follows(l, r) /\ r.updated
    BY <1>1, FailsAfterApplying, Conditions
  <1>4. UNCHANGED releases \/ \E hr \in Releases : WriteRelease(l, hr)
    BY <1>1, PutWrites DEF ApplyFails
  <1> QED
    BY <1>1, <1>2, <1>3, <1>4, EndStep

LEMMA CheckStep ==
    ASSUME IInv, NEW l \in Layers, Check(l)
    PROVE  IInv'
  <1> DEFINE t == task[l]
  <1>1. /\ TypeOK /\ t.pc = "check" /\ LayerOK(l) /\ Follows(l, t)
        /\ edits' \in 0..MaxEdits /\ faults' \in 0..MaxFaults
        /\ UNCHANGED <<git, layers, caches, queue>> /\ UNCHANGED releases
    BY TypeBounds, FollowsItself DEF Check, IInv
  <1>2. ~t.layer.hold /\ (l \notin queue => gitSeen.rev # 0 /\ ~ApplyIsRequired(l))
    BY <1>1 DEF LayerOK, StepOK
  <1>3. CASE Successful(releaseSeen[l])
    <2> DEFINE r == Deployed(t)
    <2>1. Goto(l, "list", r)
      BY <1>3 DEF Check
    <2>2. /\ Follows(l, r) /\ r.layer.status.state = "Deployed"
          /\ r.layer.status.rev = gitSeen.rev
      BY <1>1, DeployedFacts
    <2> HIDE DEF r
    <2>3. /\ task'[l].pc = "list" /\ task'[l].layer = r.layer
          /\ ~task'[l].layer.hold
      BY <1>2, <2>1, <2>2, PcFacts, Conditions DEF Goto, Follows, IInv, TypeOK
    <2>4. l \notin queue => Running(l)
      BY <1>2, <1>3 DEF Running, ApplyIsRequired, Successful, Present
    <2>5. /\ Running(l) => Running(l)'
          /\ gitSeen' = gitSeen /\ queue' = queue
      BY <1>1 DEF Running, caches
    <2>6. StepOK(l, task[l])'
      BY <2>2, <2>3, <2>4, <2>5 DEF StepOK, Settled
    <2> QED
      BY <1>1, <2>1, <2>2, <2>6, GotoStep, Conditions
  <1>4. CASE ~Successful(releaseSeen[l])
    <2> DEFINE f == IF InTime(t.layer.status) THEN t ELSE Fail(t, "notReady")
    <2>1. Goto(l, "list", Requeued(f))
      BY <1>4 DEF Check
    <2>2. Follows(l, f)
      BY <1>1, FollowsSetStatus, Conditions DEF Fail
    <2> HIDE DEF f
    <2>3. Follows(l, Requeued(f)) /\ Requeued(f).requeue
      BY <2>2, FollowsRequeued
    <2> QED
      BY <1>1, <1>2, <2>1, <2>3, EndStep
  <1> QED
    BY <1>3, <1>4

LEMMA CallFailsStep ==
    ASSUME IInv, NEW l \in Layers, CallFails(l)
    PROVE  IInv'
  <1> DEFINE t == task[l]
             r == Fail(t, "call")
  <1>1. /\ TypeOK /\ t.pc \in {"suspend", "judge", "apply", "check"} /\ LayerOK(l)
        /\ Follows(l, t)
        /\ edits' \in 0..MaxEdits /\ faults' \in 0..MaxFaults
        /\ UNCHANGED <<git, layers, caches, queue>> /\ UNCHANGED releases
    BY TypeBounds, FollowsItself DEF CallFails, IInv
  <1>2. PICK pc \in {"list", "finish"} :
           Goto(l, pc, r) /\ (pc = "list" => t.pc # "suspend")
    BY DEF CallFails
  <1>3. /\ t.pc = "suspend" => t.layer.hold /\ t.layer.status.state = "Hold"
        /\ t.pc # "suspend" => ~t.layer.hold
    BY <1>1 DEF LayerOK, StepOK
  <1>4. Follows(l, r)
    BY <1>1, FollowsSetStatus, Conditions DEF Fail
  <1>5. CASE r.updated
    BY <1>1, <1>2, <1>3, <1>4, <1>5, EndStep
  <1>6. CASE ~r.updated
    <2>1. /\ r = t
          /\ t.layer.status.state = "Failed" /\ t.layer.status.reason = "call"
      <3>1. t \in Tasks
        BY <1>1 DEF Follows
      <3>2. HasCondition(t, "Failed", "call")
        BY <3>1, ConditionIsSet, Conditions
      <3> QED
        BY <1>6, <3>2 DEF HasCondition, Fail
    <2> HIDE DEF r
    <2>2. task'[l].pc = pc /\ task'[l].layer = t.layer /\ ~t.layer.hold
      <3>1. r.layer.status.state = "Failed" /\ t.layer.status.state # "Hold"
        BY <2>1
      <3>2. ~t.layer.hold
        BY <1>1, <1>3, <3>1
      <3>3. t \in Tasks /\ pc \in PCs /\ task' = [task EXCEPT ![l] = [t EXCEPT !.pc = pc]]
        BY <1>1, <1>2, <2>1, Conditions DEF Goto, Follows
      <3> QED
        BY <1>1, <3>2, <3>3, PcFacts DEF TypeOK
    <2>3. StepOK(l, task[l])'
      BY <2>1, <2>2 DEF StepOK, Settled
    <2> QED
      BY <1>1, <1>2, <1>4, <2>3, GotoStep, Conditions
  <1> QED
    BY <1>5, <1>6

(* The status is written, or l is queued again, or nothing has changed. *)
LEMMA FinishStep ==
    ASSUME IInv, NEW l \in Layers, Finish(l)
    PROVE  IInv'
  <1>1. /\ TypeOK /\ task[l].pc \in {"list", "finish"} /\ LayerOK(l)
        /\ edits' \in 0..MaxEdits /\ faults' \in 0..MaxFaults
        /\ task' = [task EXCEPT ![l] = Idle]
        /\ UNCHANGED <<git, releases, caches>>
    BY TypeBounds DEF Finish, IInv
  <1> DEFINE Copy(t) == [t.layer EXCEPT !.status.observed = t.layer.gen]
             Updated(t) == t.updated \/ Copy(t) # t.layer
             Refused(t) == Updated(t) /\ t.stale
  <1>2. PICK t \in IF task[l].pc = "list" THEN UpdateResources(l, task[l]) ELSE {task[l]} :
           /\ IF Updated(t) /\ ~Refused(t) THEN Write(l, Copy(t)) ELSE UNCHANGED layers
           /\ queue' = IF Refused(t) \/ t.requeue THEN queue \cup {l} ELSE queue
    BY DEF Finish
  <1>3. /\ Follows(l, t) /\ t.requeue = task[l].requeue
        /\ t = task[l] \/ t.updated
    BY <1>1, <1>2, ResourcesFacts, FollowsItself
  <1>4. Copy(t) \in LayerObjects /\ (Copy(t) = t.layer => t.layer.status.observed = t.layer.gen)
    <2>1. t.layer \in LayerObjects /\ t.layer.status \in Statuses /\ t.layer.gen \in Nat
      BY <1>3 DEF Follows, Tasks, LayerObjects
    <2> DEFINE s == [t.layer.status EXCEPT !.observed = t.layer.gen]
    <2>2. s \in Statuses /\ s.observed = t.layer.gen
      BY <2>1 DEF Statuses, AnyStatus
    <2>3. Copy(t) = [t.layer EXCEPT !.status = s]
      BY <2>1 DEF LayerObjects
    <2> HIDE DEF s, Copy
    <2> QED
      BY <2>1, <2>2, <2>3 DEF LayerObjects
  <1>5. /\ layer' \in [Layers -> LayerObjects] /\ layerNews' \subseteq Layers
        /\ queue' \subseteq Layers /\ queue \subseteq queue'
        /\ \A m \in Layers \ {l} : /\ layer'[m] = layer[m]
                                   /\ m \in layerNews' <=> m \in layerNews
    <2> HIDE DEF Copy, Updated, Refused
    <2> QED
      BY <1>1, <1>2, <1>4 DEF TypeOK, Write, layers
  <1>6. task' \in [Layers -> Tasks] /\ task'[l].pc = "idle"
        /\ \A m \in Layers \ {l} : task'[m] = task[m]
    BY <1>1, IdleType DEF TypeOK
  <1>7. TypeOK'
    BY <1>1, <1>5, <1>6 DEF TypeOK, releases, caches
  <1>8. ASSUME NEW m \in Layers PROVE LayerOK(m)'
    <2>1. CASE m # l
      BY <1>1, <1>5, <1>6, <2>1, Frame DEF IInv, releases, caches
    <2>2. CASE m = l /\ l \in layerNews' /\ layerSeen' = layerSeen
      <3>1. l \notin releaseNews' => releaseSeen'[l] = release'[l]
        BY <1>1 DEF LayerOK, CacheOK, releases, caches
      <3> QED
        BY <1>6, <2>2, <3>1, Rewritten
    <2>3. CASE m = l /\ l \notin layerNews'
      <3>1. UNCHANGED layers /\ ~(Updated(t) /\ ~Refused(t)) /\ l \notin layerNews
        BY <1>2, <2>3 DEF Write, layers
      <3>2. CacheOK(l)'
        BY <1>1, <3>1 DEF LayerOK, CacheOK, layers, releases, caches
      <3>3. CopyOK(l, task[l])' /\ StepOK(l, task[l])'
        BY <1>6 DEF CopyOK, StepOK
      <3>4. RestOK(l)'
        <4>1. SUFFICES ASSUME l \notin queue'
                       PROVE  /\ layer[l].status.observed = layer[l].gen
                              /\ Settled(l, layer[l])'
          BY <3>1 DEF RestOK, layers
        <4>2. ~Refused(t) /\ ~t.requeue /\ l \notin queue
          BY <1>2, <4>1
        <4>3. ~t.updated /\ Copy(t) = t.layer
          BY <3>1, <4>2
        <4>4. t = task[l] /\ ~task[l].updated /\ ~task[l].requeue
          BY <1>3, <4>2, <4>3
        <4>5. task[l].layer = layer[l]
          BY <1>1, <3>1, <4>2, <4>4, Values DEF LayerOK, CopyOK, Tasks
        <4>6. Settled(l, layer[l])
          BY <1>1, <4>2, <4>4, <4>5 DEF LayerOK, StepOK
        <4>7. Settled(l, layer[l]) => Settled(l, layer[l])'
          BY <1>1, <3>1 DEF Settled, Suspended, Running, layers, releases, caches
        <4> QED
          BY <1>4, <4>3, <4>4, <4>5, <4>6, <4>7
      <3> QED
        BY <2>3, <3>2, <3>3, <3>4 DEF LayerOK
    <2> QED
      BY <1>1, <2>1, <2>2, <2>3 DEF caches
  <1> QED
    BY <1>7, <1>8 DEF IInv

-----------------------------------------------------------------------------
(* Taking a layer from the queue *)

LEMMA PrepareStep ==
    ASSUME IInv, NEW l \in Layers, NEW copy \in LayerObjects, Take(l), Prepare(l, copy)
    PROVE  IInv'
  <1>1. /\ TypeOK /\ LayerOK(l) /\ task' = task /\ task[l].pc = "idle"
        /\ layer' = [layer EXCEPT ![l] = copy] /\ layerNews' = layerNews \cup {l}
        /\ UNCHANGED <<bounds, git, releases, caches, queue>>
    BY IdleType DEF IInv, Take, Prepare, Write
  <1>2. TypeOK'
    BY <1>1 DEF TypeOK, bounds, releases, caches
  <1>3. ASSUME NEW m \in Layers PROVE LayerOK(m)'
    <2>1. CASE m = l
      <3>1. l \notin releaseNews' => releaseSeen'[l] = release'[l]
        BY <1>1 DEF LayerOK, CacheOK, releases, caches
      <3> QED
        BY <1>1, <2>1, <3>1, Rewritten
    <2>2. CASE m # l
      BY <1>1, <2>2, Frame DEF IInv, TypeOK, releases, caches
    <2> QED
      BY <2>1, <2>2
  <1> QED
    BY <1>2, <1>3 DEF IInv

LEMMA UpgradeFixStep ==
    ASSUME IInv, NEW l \in Layers, UpgradeFix(l)
    PROVE  IInv'
  <1> DEFINE al == layerSeen[l]
             s == [al.status EXCEPT !.reason = "fixed", !.gen = al.gen]
             copy == [al EXCEPT !.status = s]
  <1>0. al.status.reason = "old"
    BY DEF UpgradeFix
  <1>1. al \in LayerObjects /\ al.status \in Statuses /\ al.gen \in Nat
    BY DEF IInv, TypeOK, LayerObjects
  <1>2. s \in Statuses
    BY <1>0, <1>1 DEF Statuses, AnyStatus, ReasonsOf, Reasons, Failures
  <1>3. copy = [al EXCEPT !.status.reason = "fixed", !.status.gen = al.gen]
    BY <1>1 DEF LayerObjects
  <1>4. copy \in LayerObjects
    BY <1>1, <1>2 DEF LayerObjects
  <1>5. Take(l) /\ Prepare(l, copy)
    BY <1>3 DEF UpgradeFix
  <1> QED
    BY <1>4, <1>5, PrepareStep

LEMMA AddFinalizerStep ==
    ASSUME IInv, NEW l \in Layers, AddFinalizer(l)
    PROVE  IInv'
  <1> DEFINE copy == [layerSeen[l] EXCEPT !.finalizer = TRUE]
  <1>1. copy \in LayerObjects
    BY DEF IInv, TypeOK, LayerObjects
  <1>2. Take(l) /\ Prepare(l, copy)
    BY DEF AddFinalizer
  <1> QED
    BY <1>1, <1>2, PrepareStep

LEMMA BeginStep ==
    ASSUME IInv, NEW l \in Layers, Begin(l)
    PROVE  IInv'
  <1> DEFINE t == [Idle EXCEPT !.layer = layerSeen[l], !.stale = l \in layerNews]
             held == IF t.layer.status.state = "Hold" THEN t
                                                      ELSE SetStatus(t, "Hold", "")
             new == IF ~t.layer.hold THEN t ELSE held
             pc == IF ~t.layer.hold THEN "judge" ELSE "suspend"
             r == [new EXCEPT !.pc = pc]
  <1>1. /\ TypeOK /\ LayerOK(l) /\ task[l].pc = "idle" /\ queue' = queue \ {l}
        /\ UNCHANGED <<bounds, git, layers, releases, caches>>
    BY IdleType DEF IInv, Begin, Take
  <1>2. task' = [task EXCEPT ![l] = r]
    BY DEF Begin, Goto
  <1>3. /\ t \in Tasks /\ t.layer = layerSeen[l]
        /\ t.stale = (l \in layerNews) /\ ~t.updated
    <2>1. layerSeen[l] \in LayerObjects
      BY <1>1 DEF TypeOK
    <2>2. Idle.updated = FALSE
      BY DEF Idle
    <2> DEFINE stale == l \in layerNews
    <2>3. stale \in BOOLEAN
      OBVIOUS
    <2> HIDE DEF stale
    <2>4. LET u == [Idle EXCEPT !.layer = layerSeen[l], !.stale = stale]
          IN  /\ u \in Tasks /\ u.layer = layerSeen[l]
              /\ u.stale = stale /\ ~u.updated
      BY <2>1, <2>2, <2>3, IdleType DEF Tasks
    <2> QED
      BY <2>4 DEF stale
  <1> HIDE DEF t
  <1>4. /\ held \in Tasks /\ held.layer.status.state = "Hold"
        /\ held.stale = t.stale /\ held.layer.hold = t.layer.hold
        /\ held = t \/ held.updated
    <2>1. HasCondition(t, "Hold", "")
      BY <1>3, ConditionIsSet, Conditions
    <2> QED
      BY <1>3, <2>1 DEF HasCondition
  <1> HIDE DEF held
  <1>5. /\ new \in Tasks /\ new.stale = t.stale /\ new.layer.hold = t.layer.hold
        /\ new = t \/ new.updated
        /\ t.layer.hold => new.layer.status.state = "Hold"
    BY <1>3, <1>4
  <1>6. pc \in PCs /\ pc = IF t.layer.hold THEN "suspend" ELSE "judge"
    BY Conditions
  <1> HIDE DEF new, pc
  <1>7. /\ r \in Tasks /\ r.pc = pc /\ r.stale = new.stale
        /\ r.layer = new.layer /\ r.updated = new.updated
    BY <1>5, <1>6, PcFacts
  <1> HIDE DEF r
  <1>8. task' \in [Layers -> Tasks] /\ task'[l] = r
    BY <1>1, <1>2, <1>7 DEF TypeOK
  <1>9. TypeOK'
    BY <1>1, <1>8 DEF TypeOK, bounds, layers, releases, caches
  <1>10. ASSUME NEW m \in Layers PROVE LayerOK(m)'
    <2>1. CASE m # l
      <3>1. task'[m] = task[m] /\ (m \in queue => m \in queue')
        BY <1>1, <1>2, <2>1 DEF TypeOK
      <3> QED
        BY <1>1, <2>1, <3>1, Frame DEF IInv, layers, releases, caches
    <2>2. CASE m = l
      <3>1. CacheOK(l)'
        BY <1>1 DEF LayerOK, CacheOK, layers, releases, caches
      <3>2. CopyOK(l, task[l])'
        <4>1. r.stale => l \in layerNews'
          BY <1>1, <1>3, <1>5, <1>7 DEF layers
        <4>2. ~r.stale /\ ~r.updated => r.layer = layer'[l]
          BY <1>1, <1>3, <1>5, <1>7 DEF LayerOK, CacheOK, layers
        <4> QED
          BY <1>8, <4>1, <4>2 DEF CopyOK
      <3>3. StepOK(l, task[l])'
        BY <1>5, <1>6, <1>7, <1>8 DEF StepOK
      <3>4. RestOK(l)'
        BY <1>6, <1>7, <1>8 DEF RestOK
      <3> QED
        BY <2>2, <3>1, <3>2, <3>3, <3>4 DEF LayerOK
    <2> QED
      BY <2>1, <2>2
  <1> QED
    BY <1>9, <1>10 DEF IInv

-----------------------------------------------------------------------------
(* Events, time, and everybody else *)

LEMMA SeeLayerStep ==
    ASSUME IInv, NEW l \in Layers, SeeLayer(l)
    PROVE  IInv'
  <1>1. /\ TypeOK /\ layerNews' = layerNews \ {l}
        /\ layerSeen' = [layerSeen EXCEPT ![l] = layer[l]]
        /\ queue' = queue \cup Itself(l) \cup Dependents(l)
        /\ UNCHANGED <<bounds, git, layer, releases, gitSeen, releaseSeen, task>>
    BY DEF IInv, SeeLayer, Add
  <1>2. l \in queue' /\ queue \subseteq queue' /\ queue' \subseteq Layers
    BY <1>1 DEF TypeOK, Itself, Dependents
  <1>3. TypeOK'
    BY <1>1, <1>2 DEF TypeOK, bounds, releases
  <1>4. ASSUME NEW m \in Layers PROVE LayerOK(m)'
    <2>1. CASE m = l
      <3>1. CacheOK(l)'
        BY <1>1 DEF IInv, TypeOK, LayerOK, CacheOK, releases
      <3> QED
        BY <1>1, <1>2, <2>1, <3>1, Woken DEF IInv
    <2>2. CASE m # l
      BY <1>1, <1>2, <2>2, Frame DEF IInv, TypeOK, releases
    <2> QED
      BY <2>1, <2>2
  <1> QED
    BY <1>3, <1>4 DEF IInv

LEMMA SeeReleaseStep ==
    ASSUME IInv, NEW l \in Layers, SeeRelease(l)
    PROVE  IInv'
  <1>1. /\ TypeOK /\ releaseNews' = releaseNews \ {l}
        /\ releaseSeen' = [releaseSeen EXCEPT ![l] = release[l]]
        /\ queue' = queue \cup Owner(l)
        /\ UNCHANGED <<bounds, git, layers, release, gitSeen, layerSeen, task>>
    BY DEF IInv, SeeRelease, Add
  <1>2. l \in queue' /\ queue \subseteq queue' /\ queue' \subseteq Layers
    BY <1>1 DEF TypeOK, Owner
  <1>3. TypeOK'
    BY <1>1, <1>2 DEF TypeOK, bounds, layers
  <1>4. ASSUME NEW m \in Layers PROVE LayerOK(m)'
    <2>1. CASE m = l
      <3>1. CacheOK(l)'
        BY <1>1 DEF IInv, TypeOK, LayerOK, CacheOK, layers
      <3> QED
        BY <1>1, <1>2, <2>1, <3>1, Woken DEF IInv, layers
    <2>2. CASE m # l
      BY <1>1, <1>2, <2>2, Frame DEF IInv, TypeOK, layers
    <2> QED
      BY <2>1, <2>2
  <1> QED
    BY <1>3, <1>4 DEF IInv

LEMMA SeeGitStep ==
    ASSUME IInv, SeeGit
    PROVE  IInv'
  <1>1. /\ TypeOK /\ gitSeen' = git
        /\ queue' = queue \cup (IF gitSeen.rev # git.rev THEN Layers ELSE {})
        /\ UNCHANGED <<bounds, git, layers, releases, layerSeen, releaseSeen, task>>
    BY DEF IInv, SeeGit, Add
  <1>2. TypeOK'
    BY <1>1 DEF TypeOK, bounds, layers, releases
  <1>3. ASSUME NEW m \in Layers PROVE LayerOK(m)'
    <2>1. CacheOK(m)'
      BY <1>1 DEF IInv, LayerOK, CacheOK, layers, releases
    <2>2. CASE gitSeen.rev # git.rev
      BY <1>1, <2>1, <2>2, Woken DEF IInv, layers
    <2>3. CASE gitSeen.rev = git.rev
      BY <1>1, <2>3, Frame DEF IInv, layers, releases
    <2> QED
      BY <2>2, <2>3
  <1> QED
    BY <1>2, <1>3 DEF IInv

LEMMA OlderFacts ==
    ASSUME NEW al \in LayerObjects
    PROVE  /\ Older(al) \in LayerObjects
           /\ Older(al).hold = al.hold /\ Older(al).gen = al.gen
           /\ Older(al).status.state = al.status.state
           /\ Older(al).status.reason = al.status.reason
           /\ Older(al).status.rev = al.status.rev
           /\ Older(al).status.observed = al.status.observed
  <1>1. CASE ~Aging(al)
    BY <1>1 DEF Older
  <1>2. CASE Aging(al)
    <2> DEFINE s == [al.status EXCEPT !.age = al.status.age + 1]
    <2>1. al.status \in Statuses /\ al.status.age + 1 \in 0..Timeout
      BY <1>2, Numbers DEF Aging, LayerObjects, Statuses, AnyStatus
    <2>2. /\ s \in Statuses /\ s.state = al.status.state /\ s.reason = al.status.reason
          /\ s.rev = al.status.rev /\ s.observed = al.status.observed
      BY <2>1, AgeTypes
    <2>3. Older(al) = [al EXCEPT !.status = s]
      BY <1>2 DEF Older, LayerObjects
    <2> HIDE DEF s
    <2>4. /\ Older(al) \in LayerObjects /\ Older(al).status = s
          /\ Older(al).hold = al.hold /\ Older(al).gen = al.gen
      BY <2>2, <2>3 DEF LayerObjects
    <2> QED
      BY <2>2, <2>4
  <1> QED
    BY <1>1, <1>2

LEMMA TickStep ==
    ASSUME IInv, Tick
    PROVE  IInv'
  <1>1. /\ TypeOK
        /\ layer' = [l \in Layers |-> Older(layer[l])]
        /\ layerSeen' = [l \in Layers |-> Older(layerSeen[l])]
        /\ task' = [l \in Layers |-> [task[l] EXCEPT !.layer = Older(task[l].layer)]]
        /\ UNCHANGED <<bounds, git, layerNews, releases, gitSeen, releaseSeen, queue>>
    <2>1. TypeOK
      BY DEF IInv
    <2>2. \A l \in Layers : [task[l] EXCEPT !.layer = Older(@)]
                            = [task[l] EXCEPT !.layer = Older(task[l].layer)]
      BY <2>1 DEF TypeOK, Tasks
    <2> QED
      BY <2>1, <2>2 DEF Tick
  <1>2. ASSUME NEW l \in Layers
        PROVE  /\ task'[l] \in Tasks /\ task'[l].layer = Older(task[l].layer)
               /\ task'[l].pc = task[l].pc /\ task'[l].stale = task[l].stale
               /\ task'[l].updated = task[l].updated
               /\ task'[l].requeue = task[l].requeue
    <2>1. task[l] \in Tasks /\ Older(task[l].layer) \in LayerObjects
      BY <1>1, Values, OlderFacts
    <2> DEFINE al == Older(task[l].layer)
    <2>2. task'[l] = [task[l] EXCEPT !.layer = al] /\ al \in LayerObjects
      BY <1>1, <2>1
    <2> HIDE DEF al
    <2>3. /\ task'[l] \in Tasks /\ task'[l].layer = al
          /\ task'[l].pc = task[l].pc /\ task'[l].stale = task[l].stale
          /\ task'[l].updated = task[l].updated
          /\ task'[l].requeue = task[l].requeue
      BY <2>1, <2>2 DEF Tasks
    <2> QED
      BY <2>3 DEF al
  <1>3. TypeOK'
    <2>1. \A l \in Layers : layer'[l] \in LayerObjects /\ layerSeen'[l] \in LayerObjects
      BY <1>1, Values, OlderFacts
    <2>2. task' \in [Layers -> Tasks]
      BY <1>1, <1>2
    <2>3. layer' \in [Layers -> LayerObjects] /\ layerSeen' \in [Layers -> LayerObjects]
      BY <1>1, <2>1
    <2> QED
      BY <1>1, <2>2, <2>3 DEF TypeOK, bounds, releases
  <1>4. ASSUME NEW m \in Layers PROVE LayerOK(m)'
    <2>1. /\ layer'[m] = Older(layer[m]) /\ layerSeen'[m] = Older(layerSeen[m])
          /\ layer[m] \in LayerObjects /\ task[m].layer \in LayerObjects
          /\ LayerOK(m)
      BY <1>1, Values DEF IInv
    <2>2. CacheOK(m)'
      BY <1>1, <2>1 DEF LayerOK, CacheOK, releases
    <2>3. CopyOK(m, task[m])'
      BY <1>1, <1>2, <2>1 DEF LayerOK, CopyOK
    <2>4. /\ Settled(m, task[m].layer) => Settled(m, task[m].layer)'
          /\ Settled(m, layer[m]) => Settled(m, layer[m])'
      <3>1. ASSUME NEW al \in LayerObjects, NEW old \in LayerObjects, al = Older(old),
                   Settled(m, old)
            PROVE  Settled(m, al)
        BY <3>1, OlderFacts DEF Settled
      <3>2. Settled(m, task[m].layer) => Settled(m, task'[m].layer)
        BY <1>2, <2>1, <3>1, OlderFacts
      <3>3. Settled(m, layer[m]) => Settled(m, layer'[m])
        BY <2>1, <3>1, OlderFacts
      <3>4. /\ Settled(m, task'[m].layer) => Settled(m, task[m].layer)'
            /\ Settled(m, layer'[m]) => Settled(m, layer[m])'
        BY <1>1 DEF Settled, Suspended, Running, releases
      <3> QED
        BY <3>2, <3>3, <3>4
    <2>5. StepOK(m, task[m])'
      <3>1. ApplyIsRequired(m)' = ApplyIsRequired(m)
        BY <1>1 DEF ApplyIsRequired
      <3> QED
        BY <1>1, <1>2, <2>1, <2>4, <3>1, OlderFacts DEF LayerOK, StepOK
    <2>6. RestOK(m)'
      BY <1>1, <1>2, <2>1, <2>4, OlderFacts DEF LayerOK, RestOK
    <2> QED
      BY <2>2, <2>3, <2>5, <2>6 DEF LayerOK
  <1> QED
    BY <1>3, <1>4 DEF IInv

(* Those who change the GitRepository, or a HelmRelease, but no cache *)
LEMMA EnvironmentStep ==
    ASSUME IInv, Environment, UNCHANGED layers,
           edits' \in 0..MaxEdits, faults' \in 0..MaxFaults, git' \in Gits,
           \/ UNCHANGED releases
           \/ \E l \in Layers, hr \in Releases : WriteRelease(l, hr)
    PROVE  IInv'
  <1> USE DEF layers, releases, caches, Environment
  <1>1. TypeOK
    BY DEF IInv
  <1>2. /\ release' \in [Layers -> Releases] /\ releaseNews' \subseteq Layers
        /\ releaseNews \subseteq releaseNews'
        /\ \A m \in Layers : m \notin releaseNews' => release'[m] = release[m]
    BY <1>1 DEF TypeOK, WriteRelease
  <1>3. TypeOK'
    BY <1>1, <1>2 DEF TypeOK
  <1>4. ASSUME NEW m \in Layers PROVE LayerOK(m)'
    BY <1>2, Frame DEF IInv
  <1> QED
    BY <1>3, <1>4 DEF IInv

LEMMA ToggleHoldStep ==
    ASSUME IInv, NEW l \in Layers, ToggleHold(l)
    PROVE  IInv'
  <1> DEFINE copy == [layer[l] EXCEPT !.hold = ~@, !.gen = @ + 1]
             stale == task[l] # Idle
             r == [task[l] EXCEPT !.stale = stale]
  <1>1. /\ TypeOK /\ LayerOK(l) /\ edits' \in 0..MaxEdits
        /\ layer' = [layer EXCEPT ![l] = copy] /\ layerNews' = layerNews \cup {l}
        /\ task' = [task EXCEPT ![l] = r]
        /\ UNCHANGED <<faults, git, releases, caches, queue>>
    <2>1. TypeOK /\ LayerOK(l) /\ edits' \in 0..MaxEdits
      BY TypeBounds DEF IInv, ToggleHold
    <2>2. task' = [task EXCEPT ![l] = r]
      BY <2>1 DEF ToggleHold, TypeOK
    <2> QED
      BY <2>1, <2>2 DEF ToggleHold, Write
  <1>2. copy \in LayerObjects
    <2>1. layer[l] \in LayerObjects
      BY <1>1, Values
    <2> DEFINE hold == ~layer[l].hold
               gen == layer[l].gen + 1
    <2>2. hold \in BOOLEAN /\ gen \in Nat
      BY <2>1 DEF LayerObjects
    <2> HIDE DEF hold, gen
    <2>3. [layer[l] EXCEPT !.hold = hold, !.gen = gen] \in LayerObjects
      BY <2>1, <2>2 DEF LayerObjects
    <2> QED
      BY <2>3 DEF hold, gen
  <1>3. /\ r \in Tasks /\ r.pc = task[l].pc /\ r.layer = task[l].layer
        /\ r.updated = task[l].updated /\ r.requeue = task[l].requeue /\ r.stale = stale
    BY <1>1, Values DEF Tasks
  <1> HIDE DEF copy, r
  <1>4. /\ layer' \in [Layers -> LayerObjects] /\ task' \in [Layers -> Tasks]
        /\ task'[l] = r
    BY <1>1, <1>2, <1>3 DEF TypeOK
  <1>5. TypeOK'
    BY <1>1, <1>4 DEF TypeOK, releases, caches
  <1>6. ASSUME NEW m \in Layers PROVE LayerOK(m)'
    <2>1. CASE m # l
      BY <1>1, <2>1, Frame DEF IInv, TypeOK, releases, caches
    <2>2. CASE m = l
      <3>1. CacheOK(l)'
        BY <1>1 DEF LayerOK, CacheOK, releases, caches
      <3>2. CopyOK(l, task[l])'
        <4>1. task[l].pc # "idle" => stale
          BY IdleType
        <4> QED
          BY <1>1, <1>3, <1>4, <4>1 DEF CopyOK
      <3>3. StepOK(l, task[l])'
        <4>1. /\ Settled(l, r.layer) => Settled(l, task[l].layer)'
              /\ ApplyIsRequired(l)' = ApplyIsRequired(l)
              /\ queue' = queue /\ gitSeen' = gitSeen
          BY <1>1, <1>4 DEF Settled, Suspended, Running, ApplyIsRequired, releases, caches
        <4> QED
          BY <1>1, <1>3, <1>4, <4>1 DEF LayerOK, StepOK
      <3>4. RestOK(l)'
        BY <1>1 DEF RestOK
      <3> QED
        BY <2>2, <3>1, <3>2, <3>3, <3>4 DEF LayerOK
    <2> QED
      BY <2>1, <2>2
  <1> QED
    BY <1>5, <1>6 DEF IInv

(* When all layers are queued, and nobody works. *)
LEMMA Fresh ==
    ASSUME TypeOK, queue = Layers, layerSeen = layer, releaseSeen = release,
           task = [l \in Layers |-> Idle]
    PROVE  IInv
  <1>1. ASSUME NEW l \in Layers PROVE LayerOK(l)
    <2>1. task[l].pc = "idle"
      BY IdleType
    <2> QED
      BY <2>1 DEF LayerOK, CacheOK, CopyOK, StepOK, RestOK
  <1> QED
    BY <1>1 DEF IInv

LEMMA InitIInv == Init => IInv
  <1> SUFFICES ASSUME Init PROVE IInv
    OBVIOUS
  <1>1. TypeOK
    <2>1. /\ edits \in 0..MaxEdits /\ faults \in 0..MaxFaults
          /\ {git, gitSeen} \subseteq Gits
      <3>1. 0 \in 0..MaxEdits /\ 0 \in 0..MaxFaults
        BY Numbers
      <3>2. \A g \in {NoGit, [rev |-> 1, ready |-> TRUE]} : g \in Gits
        BY GitValues
      <3> QED
        BY <3>1, <3>2 DEF Init
    <2>2. layer \in [Layers -> LayerObjects] /\ layerSeen \in [Layers -> LayerObjects]
      BY LayerValues DEF Init
    <2>3. release \in [Layers -> Releases] /\ releaseSeen \in [Layers -> Releases]
      BY ReleaseValues DEF Init
    <2>4. task \in [Layers -> Tasks]
      BY IdleType DEF Init
    <2> QED
      BY <2>1, <2>2, <2>3, <2>4 DEF Init, TypeOK
  <1> QED
    BY <1>1, Fresh DEF Init

LEMMA RestartStep ==
    ASSUME IInv, Restart
    PROVE  IInv'
  <1>1. TypeOK'
    <2>1. task' \in [Layers -> Tasks]
      BY IdleType DEF Restart
    <2>2. TypeOK /\ edits' \in 0..MaxEdits /\ faults' \in 0..MaxFaults
      BY TypeBounds DEF Restart
    <2> QED
      BY <2>1, <2>2 DEF Restart, TypeOK
  <1>2. ASSUME NEW l \in Layers PROVE LayerOK(l)'
    <2>1. task'[l].pc = "idle" /\ l \in queue' /\ layerSeen' = layer' /\ releaseSeen' = release'
      BY IdleType DEF Restart
    <2> QED
      BY <2>1 DEF LayerOK, CacheOK, CopyOK, StepOK, RestOK
  <1> QED
    BY <1>1, <1>2 DEF IInv

-----------------------------------------------------------------------------
(* The theorems *)

LEMMA StepIInv ==
    ASSUME IInv, NEW l \in Layers, Step(l) \/ Get(l)
    PROVE  IInv'
    BY SuspendStep, JudgeStep, ApplyStep, CheckStep, FinishStep,
       UpgradeFixStep, AddFinalizerStep, BeginStep
       DEF Step, Get

LEMMA OthersIInv ==
    ASSUME IInv,
           \/ Publish \/ FetchFails \/ FetchRecovers
           \/ \E l \in Layers : \/ HelmDeploys(l) \/ HelmFails(l)
                                \/ DeleteRelease(l) \/ ToggleSuspend(l)
    PROVE  IInv'
  <1>1. TypeOK /\ git \in Gits
    BY DEF IInv, TypeOK
  <1>2. CASE Publish
    <2>1. git' \in Gits
      BY <1>1, <1>2, Numbers DEF Publish, Gits
    <2> QED
      BY <1>2, <2>1, TypeBounds, EnvironmentStep DEF Publish
  <1>3. CASE FetchFails
    <2>1. git' \in Gits
      BY <1>1, <1>3 DEF FetchFails, Gits
    <2> QED
      BY <1>3, <2>1, TypeBounds, EnvironmentStep DEF FetchFails
  <1>4. CASE FetchRecovers
    <2>1. git' \in Gits
      BY <1>1, <1>4 DEF FetchRecovers, Gits
    <2> QED
      BY <1>4, <2>1, TypeBounds, EnvironmentStep DEF FetchRecovers
  <1>5. ASSUME NEW l \in Layers, HelmDeploys(l) PROVE IInv'
    <2>1. [release[l] EXCEPT !.acted = TRUE, !.ready = "true"] \in Releases
      BY <1>1, Values DEF Releases
    <2> QED
      BY <1>1, <1>5, <2>1, TypeBounds, EnvironmentStep DEF HelmDeploys
  <1>6. ASSUME NEW l \in Layers, HelmFails(l) PROVE IInv'
    <2>1. [release[l] EXCEPT !.acted = TRUE, !.ready = "false"] \in Releases
      BY <1>1, Values DEF Releases
    <2> QED
      BY <1>1, <1>6, <2>1, TypeBounds, EnvironmentStep DEF HelmFails
  <1>7. ASSUME NEW l \in Layers, DeleteRelease(l) PROVE IInv'
    BY <1>1, <1>7, ReleaseValues, TypeBounds, EnvironmentStep DEF DeleteRelease
  <1>8. ASSUME NEW l \in Layers, ToggleSuspend(l) PROVE IInv'
    <2>1. /\ release[l].suspended \in BOOLEAN /\ release[l] \in Releases
          /\ WriteRelease(l, [release[l] EXCEPT !.suspended = ~release[l].suspended])
      BY <1>1, <1>8, Values DEF ToggleSuspend, Releases
    <2> DEFINE suspended == ~release[l].suspended
    <2>2. suspended \in BOOLEAN
      BY <2>1
    <2> HIDE DEF suspended
    <2>3. [release[l] EXCEPT !.suspended = suspended] \in Releases
      BY <2>1, <2>2 DEF Releases
    <2>4. \E hr \in Releases : WriteRelease(l, hr)
      BY <2>1, <2>3 DEF suspended
    <2> QED
      BY <1>1, <1>8, <2>4, TypeBounds, EnvironmentStep DEF ToggleSuspend
  <1> QED
    BY <1>2, <1>3, <1>4, <1>5, <1>6, <1>7, <1>8

LEMMA QueuesAll ==
    ASSUME IInv, Resync
    PROVE  IInv'
  <1>1. /\ TypeOK /\ queue' = queue \cup Layers
        /\ UNCHANGED <<bounds, git, layers, releases, caches, task>>
    BY DEF IInv, Resync, Add
  <1>2. TypeOK'
    BY <1>1 DEF TypeOK, bounds, layers, releases, caches
  <1>3. ASSUME NEW m \in Layers PROVE LayerOK(m)'
    BY <1>1, Frame DEF IInv, layers, releases, caches
  <1> QED
    BY <1>2, <1>3 DEF IInv

LEMMA NextIInv == IInv /\ [Next]_vars => IInv'
  <1> SUFFICES ASSUME IInv, [Next]_vars PROVE IInv'
    OBVIOUS
  <1>1. CASE UNCHANGED vars
    <2>1. TypeOK'
      BY <1>1 DEF IInv, TypeOK, vars, bounds, layers, releases, caches
    <2>2. \A m \in Layers : LayerOK(m)'
      BY <1>1, Frame DEF IInv, vars, layers, releases, caches
    <2> QED
      BY <2>1, <2>2 DEF IInv
  <1>2. CASE Tick \/ SeeGit \/ Resync \/ Restart
    BY <1>2, TickStep, SeeGitStep, QueuesAll, RestartStep
  <1>3. CASE \/ Publish \/ FetchFails \/ FetchRecovers
             \/ \E l \in Layers : \/ HelmDeploys(l) \/ HelmFails(l)
                                  \/ DeleteRelease(l) \/ ToggleSuspend(l)
    BY <1>3, OthersIInv
  <1>4. CASE \E l \in Layers : Get(l) \/ Step(l)
    BY <1>4, StepIInv
  <1>5. CASE \E l \in Layers : K8sVersionNotMet(l) \/ CallFails(l) \/ ApplyFails(l)
    BY <1>5, K8sVersionStep, CallFailsStep, ApplyFailsStep
  <1>6. CASE \E l \in Layers : SeeLayer(l) \/ SeeRelease(l) \/ ToggleHold(l)
    BY <1>6, SeeLayerStep, SeeReleaseStep, ToggleHoldStep
  <1> QED
    BY <1>1, <1>2, <1>3, <1>4, <1>5, <1>6 DEF Next

(* The inductive invariant *)
THEOREM Invariance == Spec => []IInv
    BY InitIInv, NextIInv, PTL DEF Spec

(* The variables keep their types, and the counters their bounds. *)
THEOREM TypeCorrect == Spec => []TypeOK
  <1>1. IInv => TypeOK
    BY DEF IInv
  <1> QED
    BY <1>1, Invariance, PTL

(* What may be left alone, seen from caches that are up to date, may be. *)
LEMMA QuietIsSettled ==
    ASSUME IInv, NEW l \in Layers, Quiet(l)
    PROVE  /\ layer[l].status.observed = layer[l].gen
           /\ Settled(l, layer[l])
           /\ releaseSeen[l] = release[l] /\ gitSeen.rev = git.rev
           /\ l \notin releaseNews
    BY IdleType DEF IInv, Quiet, LayerOK, RestOK, CacheOK

(* For any layers, workers and bounds: without the resync, a layer that is   *)
(* left alone is deployed as the branch has it, or a call has failed twice.  *)
THEOREM NeverForgotten == Spec => []NothingForgotten
  <1>1. IInv => NothingForgotten
    <2> SUFFICES ASSUME IInv, NEW l \in Layers, Quiet(l), git.rev # 0, ~layer[l].hold
                 PROVE  Up(l) \/ CallFailed(l)
      BY DEF NothingForgotten
    <2> QED
      BY QuietIsSettled DEF Settled, Running, Up, CallFailed
  <1> QED
    BY <1>1, Invariance, PTL

(* And a layer on hold that is left alone has its HelmRelease suspended. *)
THEOREM HoldIsKept == Spec => []HoldComplete
  <1>1. IInv => HoldComplete
    <2> SUFFICES ASSUME IInv, NEW l \in Layers, Quiet(l), layer[l].hold
                 PROVE  Held(l)
      BY DEF HoldComplete
    <2> QED
      BY QuietIsSettled DEF Settled, Suspended, Held
  <1> QED
    BY <1>1, Invariance, PTL
=============================================================================
