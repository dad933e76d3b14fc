------------------------ MODULE OwnershipHistory_proofs ------------------------
(***************************************************************************)
(* For every set of layers and HelmReleases, every interval and every      *)
(* bound: no HelmRelease is deleted after a single look, and no layer      *)
(* touches one it has never had.  The record leaves the steps alone, so    *)
(* IInv holds; HInv adds what ties the record to it.                       *)
(***************************************************************************)
EXTENDS OwnershipHistory, HelmReleaseOwnership_proofs

(* The label on h is one that l has put there. *)
Marks(l, h) == cluster[h].owner = l /\ Orphaned(cluster[h])

RecordType ==
    /\ named \in [HRs -> SUBSET Layers]
    /\ look \in [Layers -> SUBSET HRs]
    /\ looks \in [HRs -> 0..2]

(* The steps in which the layer is not reconciled, or only taken down. *)
Ending == {"idle", "orphanAll", "finalize"}

(* What the prune loops go through is what the look has missed, and only   *)
(* a layer that is being deleted is taken down.                            *)
LookOK ==
    \A l \in Layers :
        /\ task[l].pc = "pruneList" => task[l].todo = look[l]
        /\ task[l].pc \in {"orphan", "prune"} =>
              \A h \in task[l].todo \cup task[l].victims : MissedBy(h, l)
        /\ task[l].pc \in {"orphanAll", "finalize"} => layer[l] # "present"

(* A label that no look stands behind was left by the deletion of a layer, *)
(* which is not reconciled any more.  In a reconcile that has missed h, a  *)
(* single look means that the label is its own: it has to wait for it.     *)
Counts(l, h) ==
    /\ looks[h] = 0 => layer[l] # "present" /\ task[l].pc \in Ending
    /\ MissedBy(h, l) =>
          /\ task[l].pc = "pruneList" => looks[h] = 2
          /\ task[l].pc = "orphan" =>
                \/ looks[h] = 2
                \/ looks[h] = 1 /\ (task[l].pending \/ Delay[l] = 0)
          /\ task[l].pc = "prune" =>
                looks[h] = 2 \/ (looks[h] = 1 /\ Delay[l] = 0)

MarksOK == \A l \in Layers, h \in HRs : Marks(l, h) => Counts(l, h)

(* A layer works on what it has had in its source; an object, or a copy    *)
(* of one, belongs to a layer that has had it.                             *)
Owners(h) == named[h] \cup {NoLayer}

Known(l, t) ==
    /\ t.pc # "adoptSource" => \A h \in t.todo : l \in named[h]
    /\ \A h \in t.victims : l \in named[h]
    /\ \A h \in HRs : t.copy[h].owner \in Owners(h)

NamedStore ==
    /\ \A h \in HRs : /\ cluster[h].owner \in Owners(h)
                      /\ cache[h].owner \in Owners(h)
    /\ \A i \in 1..Len(watch) : watch[i].obj.owner \in Owners(watch[i].hr)

NamedOK ==
    /\ \A l \in Layers : \A h \in Names(l) : l \in named[h]
    /\ NamedStore
    /\ \A l \in Layers : Known(l, task[l])

HInv == RecordType /\ LookOK /\ MarksOK /\ NamedOK

-----------------------------------------------------------------------------
(* The record leaves the system alone *)

LEMMA RecordedStep ==
    ASSUME [HNext]_hvars
    PROVE  [Next]_vars
    BY DEF HNext, hvars

THEOREM RecordOnly == HSpec => Spec
  <1>1. HInit => Init
    BY DEF HInit
  <1>2. [HNext]_hvars => [Next]_vars
    BY RecordedStep
  <1> QED
    BY <1>1, <1>2, PTL DEF HSpec, Spec

-----------------------------------------------------------------------------
(* How a step moves a reconcile *)

(* The task t of l is followed by u. *)
Moves(l, t, u) ==
    /\ u.pc = "pruneList" =>
          u = t \/ (t.pc = "pruneSource" /\ u.todo = Names(l) /\ u.victims = {})
    /\ u.pc = "orphan" =>
          \/ u = t
          \/ /\ t.pc = "pruneList" /\ u.victims = u.todo
             /\ u.todo \cap t.todo = {} /\ cluster' = cluster
          \/ /\ t.pc = "orphan" /\ u.todo \subseteq t.todo
             /\ u.victims = t.victims /\ (t.pending => u.pending)
    /\ u.pc = "prune" =>
          \/ u = t
          \/ t.pc = "orphan" /\ ~t.pending /\ u.todo = t.victims /\ u.victims = {}
          \/ t.pc = "prune" /\ u.todo \subseteq t.todo /\ u.victims = t.victims
    /\ u.pc \in {"orphanAll", "finalize"} =>
          \/ u = t
          \/ t.pc = "idle" /\ layer[l] = "deleting"
          \/ t.pc = "orphanAll"
    /\ (t.pc \in Ending /\ layer[l] # "present") => u.pc \in Ending

LEMMA SameMoves ==
    ASSUME NEW l, NEW t
    PROVE  Moves(l, t, t)
    BY DEF Moves

LEMMA IdleMoves ==
    ASSUME NEW l, NEW t
    PROVE  Moves(l, t, Idle)
    BY DEF Moves, Idle, At, Ending

LEMMA Goes ==
    ASSUME NEW l \in Layers, NEW t, Goto(l, t), task \in [Layers -> Tasks]
    PROVE  task'[l] = t /\ \A k \in Layers \ {l} : task'[k] = task[k]
    BY DEF Goto

(* Tasks that are left once they have been looped over. *)
LEMMA NextMoves ==
    ASSUME task \in [Layers -> Tasks], NEW l \in Layers, NEW h, NEW u,
           Next1(l, h, u), u = Idle \/ u = At("pruneSource"),
           task[l].pc \in {"adopt", "apply", "prune"}
    PROVE  /\ Moves(l, task[l], task'[l])
           /\ \A k \in Layers \ {l} : task'[k] = task[k]
  <1> DEFINE more == [task[l] EXCEPT !.todo = @ \ {h}]
  <1>1. task[l] \in Tasks
    OBVIOUS
  <1>2. /\ more.pc = task[l].pc /\ more.todo \subseteq task[l].todo
        /\ more.victims = task[l].victims
    BY <1>1 DEF Tasks
  <1> HIDE DEF more
  <1>3. Moves(l, task[l], more)
    BY <1>2 DEF Moves, Ending
  <1>4. Moves(l, task[l], At("pruneSource"))
    BY DEF Moves, At, Ending
  <1>5. /\ task'[l] = more \/ task'[l] = u
        /\ \A k \in Layers \ {l} : task'[k] = task[k]
    BY Goes DEF Next1, more
  <1> QED
    BY <1>3, <1>4, <1>5, IdleMoves

LEMMA JudgedMoves ==
    ASSUME task \in [Layers -> Tasks], NEW l \in Layers, NEW h, NEW w \in BOOLEAN,
           Judged(l, h, w), task[l].pc \in {"orphan", "orphanAll"}
    PROVE  /\ Moves(l, task[l], task'[l])
           /\ task'[l].pc = "orphan" => (w => task'[l].pending)
           /\ task'[l].pc = "prune" => ~w /\ task[l].pc = "orphan"
           /\ task'[l].pc # "pruneList"
           /\ task[l].pc = "orphanAll" => task'[l].pc \in Ending
           /\ \A k \in Layers \ {l} : task'[k] = task[k]
  <1> DEFINE more  == [task[l] EXCEPT !.todo = task[l].todo \ {h},
                                      !.pending = task[l].pending \/ w]
             prune == [At("prune") EXCEPT !.todo = task[l].victims]
  <1>1. task[l] \in Tasks
    OBVIOUS
  <1>2. /\ more.pc = task[l].pc /\ more.todo \subseteq task[l].todo
        /\ more.victims = task[l].victims
        /\ more.pending = (task[l].pending \/ w)
    BY <1>1 DEF Tasks
  <1>3. /\ prune.pc = "prune" /\ prune.todo = task[l].victims
        /\ prune.victims = {}
    BY DEF At
  <1>4. /\ \/ task'[l] = more
           \/ task'[l] = Idle
           \/ task[l].pc = "orphanAll" /\ task'[l] = At("finalize")
           \/ /\ task[l].pc # "orphanAll" /\ ~(task[l].pending \/ w)
              /\ task'[l] = prune
        /\ \A k \in Layers \ {l} : task'[k] = task[k]
    <2> DEFINE t == IF task[l].todo \ {h} # {} THEN more
                    ELSE IF task[l].pending \/ w THEN Idle
                    ELSE IF task[l].pc = "orphanAll" THEN At("finalize")
                    ELSE prune
    <2>1. Goto(l, t)
      BY DEF Judged
    <2>2. task'[l] = t /\ \A k \in Layers \ {l} : task'[k] = task[k]
      BY <2>1, Goes
    <2> QED
      BY <2>2
  <1> HIDE DEF more, prune
  <1>5. Moves(l, task[l], more)
    BY <1>2 DEF Moves, Ending
  <1>6. task[l].pc = "orphanAll" => Moves(l, task[l], At("finalize"))
    BY DEF Moves, At, Ending
  <1>7. (task[l].pc # "orphanAll" /\ ~(task[l].pending \/ w))
        => Moves(l, task[l], prune)
    BY <1>3 DEF Moves, Ending
  <1>8. Idle.pc = "idle" /\ At("finalize").pc = "finalize"
    BY DEF Idle, At
  <1>9. Moves(l, task[l], task'[l])
    BY <1>4, <1>5, <1>6, <1>7, IdleMoves
  <1> QED
    BY <1>2, <1>3, <1>4, <1>8, <1>9 DEF Ending

(* The verdict of Orphan on h, and what it may have stored. *)
Verdict(l, h) ==
    \/ \E w \in BOOLEAN : UNCHANGED store /\ Judged(l, h, w)
    \/ /\ Exists(cache[h]) /\ cache[h].owner = l /\ ~Orphaned(cache[h])
       /\ Current(h, cache[h])
       /\ Update(h, [cache[h] EXCEPT !.orphaned = now])
       /\ \E w \in BOOLEAN : w = Waiting(l, now) /\ Judged(l, h, w)
    \/ UNCHANGED store /\ Goto(l, Idle)

LEMMA OrphanVerdict ==
    ASSUME IInv, NEW l \in Layers, Orphan(l)
    PROVE  \E h \in task[l].todo : Verdict(l, h)
  <1>1. StoreType /\ now \in Nat /\ now \in Int /\ task[l] \in Tasks
    BY DEF IInv, StoreOK, WorldOK, TasksOK
  <1>2. PICK h \in task[l].todo :
          \/ UNCHANGED store /\ Judged(l, h, FALSE)
          \/ UNCHANGED store /\ Judged(l, h, Waiting(l, cache[h].orphaned))
          \/ /\ Exists(cache[h]) /\ cache[h].owner = l /\ ~Orphaned(cache[h])
             /\ Current(h, cache[h])
             /\ Update(h, [cache[h] EXCEPT !.orphaned = now])
             /\ Judged(l, h, Waiting(l, now))
          \/ UNCHANGED store /\ Goto(l, Idle)
    BY DEF Orphan
  <1>3. h \in HRs
    BY <1>1 DEF Tasks
  <1>4. cache[h].orphaned \in Int
    BY <1>1, <1>3 DEF StoreType, Objects, Stamps, NoLabel
  <1>5. PICK w \in BOOLEAN : w = Waiting(l, cache[h].orphaned)
    BY <1>1, <1>4, WaitingIsBoolean
  <1>6. PICK v \in BOOLEAN : v = Waiting(l, now)
    BY <1>1, WaitingIsBoolean
  <1> QED
    BY <1>2, <1>5, <1>6 DEF Verdict

LEMMA OrphanMoves ==
    ASSUME IInv, NEW l \in Layers, Orphan(l)
    PROVE  /\ Moves(l, task[l], task'[l])
           /\ \A k \in Layers \ {l} : task'[k] = task[k]
  <1>1. task \in [Layers -> Tasks] /\ task[l].pc \in {"orphan", "orphanAll"}
    BY DEF IInv, TasksOK, Orphan
  <1>2. PICK h \in task[l].todo : Verdict(l, h)
    BY OrphanVerdict
  <1>3. CASE \E w \in BOOLEAN : Judged(l, h, w)
    BY <1>1, <1>3, JudgedMoves
  <1>4. CASE Goto(l, Idle)
    BY <1>1, <1>4, Goes, IdleMoves
  <1> QED
    BY <1>2, <1>3, <1>4 DEF Verdict

(* To go where no prune loop is, and where no layer is taken down. *)
LEMMA AsideMoves ==
    ASSUME NEW l \in Layers, NEW t, NEW u, layer[l] = "present" \/ t.pc \notin Ending,
           u.pc \notin {"pruneList", "orphan", "prune", "orphanAll", "finalize"}
    PROVE  Moves(l, t, u)
    BY DEF Moves

(* The reconcile that steps moves as it may, the others stand. *)
LEMMA ReconcileMoves ==
    ASSUME IInv, NEW l \in Layers, Reconcile(l)
    PROVE  /\ Moves(l, task[l], task'[l])
           /\ \A k \in Layers \ {l} : task'[k] = task[k]
  <1>1. task \in [Layers -> Tasks] /\ task[l] \in Tasks
    BY DEF IInv, TasksOK
  <1>2. ASSUME NEW t, Goto(l, t), Moves(l, task[l], t)
        PROVE  /\ Moves(l, task[l], task'[l])
               /\ \A k \in Layers \ {l} : task'[k] = task[k]
    BY <1>1, <1>2, Goes
  <1>3. CASE StartReconcile(l)
    <2> DEFINE t == [At("adoptSource") EXCEPT
                       !.todo = Orphans(l),
                       !.copy = [h \in HRs |-> IF h \in Orphans(l)
                                               THEN cache[h] ELSE Absent]]
    <2>1. Goto(l, t) /\ layer[l] = "present"
      BY <1>3 DEF StartReconcile
    <2>2. t.pc = "adoptSource"
      BY DEF At
    <2> HIDE DEF t
    <2> QED
      BY <1>2, <2>1, <2>2, AsideMoves
  <1>4. CASE AdoptSource(l)
    <2> DEFINE t == [task[l] EXCEPT !.pc = "adopt",
                                    !.todo = task[l].todo \cap Names(l)]
    <2>1. /\ Goto(l, t) \/ Goto(l, Idle) \/ Goto(l, At("pruneSource"))
          /\ task[l].pc = "adoptSource"
      BY <1>4 DEF AdoptSource
    <2>2. t.pc = "adopt" /\ At("pruneSource").pc = "pruneSource"
      BY <1>1 DEF At, Tasks
    <2> HIDE DEF t
    <2> QED
      BY <1>2, <2>1, <2>2, AsideMoves, IdleMoves DEF Ending
  <1>5. CASE Adopt(l) \/ Prune(l) \/ Apply(l)
    <2>1. task[l].pc \in {"adopt", "prune", "apply"}
      BY <1>5 DEF Adopt, Prune, Apply
    <2>2. PICK h \in task[l].todo : \/ Next1(l, h, At("pruneSource"))
                                    \/ Next1(l, h, Idle) \/ Goto(l, Idle)
      BY <1>5 DEF Adopt, Prune, Apply
    <2> QED
      BY <1>1, <1>2, <2>1, <2>2, NextMoves, IdleMoves
  <1>6. CASE \/ PrereqNotMet(l) \/ DependenciesNotDeployed(l) \/ CallFails(l)
             \/ RemoveFinalizer(l)
    <2>1. Goto(l, Idle)
      BY <1>6 DEF PrereqNotMet, DependenciesNotDeployed, CallFails, RemoveFinalizer
    <2> QED
      BY <1>2, <2>1, IdleMoves
  <1>7. CASE PruneSource(l)
    <2> DEFINE t == [At("pruneList") EXCEPT !.todo = Names(l)]
    <2>1. /\ Goto(l, t) \/ Goto(l, Idle)
          /\ task[l].pc = "pruneSource"
      BY <1>7 DEF PruneSource
    <2>2. t.pc = "pruneList" /\ t.todo = Names(l) /\ t.victims = {}
      BY DEF At
    <2> HIDE DEF t
    <2>3. Moves(l, task[l], t)
      BY <2>1, <2>2 DEF Moves, Ending
    <2> QED
      BY <1>2, <2>1, <2>3, IdleMoves
  <1>8. CASE PruneList(l)
    <2> DEFINE gone == OwnedInCache(l) \ task[l].todo
               t == [At("orphan") EXCEPT !.todo = gone, !.victims = gone]
    <2>1. /\ Goto(l, t) \/ Goto(l, At("applySource"))
          /\ task[l].pc = "pruneList" /\ cluster' = cluster
      BY <1>8 DEF PruneList, store
    <2>2. /\ t.pc = "orphan" /\ t.victims = t.todo
          /\ t.todo \cap task[l].todo = {}
      BY DEF At
    <2> HIDE DEF t
    <2>3. Moves(l, task[l], t)
      BY <2>1, <2>2 DEF Moves, Ending
    <2>4. Moves(l, task[l], At("applySource"))
      BY <2>1, AsideMoves DEF At, Ending
    <2> QED
      BY <1>2, <2>1, <2>3, <2>4
  <1>9. CASE ApplySource(l) \/ ApplyCompare(l) \/ ApplyRead(l)
    <2> DEFINE t(to, c) == [At(to) EXCEPT !.todo = Names(l),
                                          !.copy = DryRun(l, c)]
    <2>1. \/ Goto(l, Idle) \/ Goto(l, At("applyRead"))
          \/ \E to \in {"applyCompare", "apply"} : \E c : Goto(l, t(to, c))
      BY <1>9 DEF ApplySource, ApplyCompare, ApplyRead, ReadForApply
    <2>3. /\ \A to, c : t(to, c).pc = to
          /\ At("applyRead").pc = "applyRead"
      BY DEF At
    <2> HIDE DEF t
    <2>2. task[l].pc \in {"applySource", "applyCompare", "applyRead"}
      BY <1>9 DEF ApplySource, ApplyCompare, ApplyRead, ReadForApply
    <2> QED
      BY <1>2, <2>1, <2>2, <2>3, AsideMoves, IdleMoves DEF Ending
  <1>10. CASE StartDelete(l)
    <2>1. PICK t : /\ Goto(l, t) /\ t.pc \in {"orphanAll", "finalize"}
                   /\ layer[l] = "deleting" /\ task[l].pc = "idle"
      BY <1>10 DEF StartDelete, At
    <2> QED
      BY <1>2, <2>1 DEF Moves, Ending
  <1> QED
    BY <1>3, <1>4, <1>5, <1>6, <1>7, <1>8, <1>9, <1>10, OrphanMoves DEF Reconcile

(* Every step of the system moves every reconcile as it may. *)
LEMMA StepMoves ==
    ASSUME IInv, [Next]_vars, NEW l \in Layers
    PROVE  Moves(l, task[l], task'[l])
  <1>1. CASE Restart
    <2>1. task'[l] = Idle
      BY <1>1 DEF Restart
    <2> QED
      BY <2>1, IdleMoves
  <1>2. CASE Environment /\ ~Restart
    <2>1. task' = task
      BY <1>2 DEF Environment, Tick, Edit, DeleteLayer, CollectGarbage,
                  HelmStatus, HelmUninstalled, WatchEvent
    <2> QED
      BY <2>1, SameMoves
  <1>3. ASSUME NEW k \in Layers, Reconcile(k)
        PROVE  Moves(l, task[l], task'[l])
    BY <1>3, ReconcileMoves, SameMoves
  <1>4. CASE UNCHANGED vars
    BY <1>4, SameMoves DEF vars
  <1> QED
    BY <1>1, <1>2, <1>3, <1>4 DEF Next

(* No layer comes back. *)
LEMMA LayersLeave ==
    ASSUME IInv, [Next]_vars, NEW l \in Layers, layer[l] # "present"
    PROVE  layer'[l] # "present"
  <1>1. layer \in [Layers -> {"present", "deleting", "gone"}]
    BY DEF IInv, WorldOK
  <1>2. CASE Environment
    BY <1>1, <1>2 DEF Environment, Tick, Edit, DeleteLayer, CollectGarbage,
       HelmStatus, HelmUninstalled, WatchEvent, Restart, world
  <1>3. ASSUME NEW k \in Layers, Reconcile(k)
        PROVE  layer'[l] # "present"
    <2>1. layer' = layer \/ layer' = [layer EXCEPT ![k] = "gone"]
      BY <1>3 DEF Reconcile, StartReconcile, AdoptSource, Adopt, PrereqNotMet,
         PruneSource, PruneList, Orphan, Prune, DependenciesNotDeployed,
         ApplySource, ApplyCompare, ApplyRead, ReadForApply, Apply, StartDelete,
         RemoveFinalizer, CallFails, world
    <2> QED
      BY <1>1, <2>1
  <1> QED
    BY <1>2, <1>3 DEF Next, vars

-----------------------------------------------------------------------------
(* What a step stores *)

(* Orphan marks h, which the cache has shown to be l's and not marked. *)
NewMark(l, h) ==
    /\ task[l].pc \in {"orphan", "orphanAll"}
    /\ cluster[h].owner = l /\ ~Orphaned(cluster[h])
    /\ \E w \in BOOLEAN : w = Waiting(l, now) /\ Judged(l, h, w)

Working == {"adopt", "orphan", "orphanAll", "prune", "apply"}

(* What the reconcile of l stores of h is its own, or keeps its owner, or  *)
(* has the one of the copy; if it is marked, it was, or l marks it.        *)
Stores(l, h, obj) ==
    /\ obj \in Objects /\ Exists(obj) /\ Put(h, obj)
    /\ obj.owner \in {l, cluster[h].owner, task[l].copy[h].owner}
    /\ NoNewMark(h, obj) \/ (NewMark(l, h) /\ obj.owner = l)

LEMMA AdoptStores ==
    ASSUME IInv, NEW l \in Layers, Adopt(l)
    PROVE  UNCHANGED store \/ \E h \in task[l].todo : \E obj : Stores(l, h, obj)
  <1>1. /\ task[l] \in Tasks /\ TaskOK(l, task[l]) /\ task[l].pc = "adopt"
    BY DEF IInv, TasksOK, Adopt
  <1> DEFINE obj(h) == task[l].copy[h]
             new(h) == ChangeOwner(l, obj(h))
  <1>2. PICK h \in task[l].todo :
           \/ Current(h, obj(h)) /\ Put(h, new(h))
           \/ UNCHANGED store
    BY DEF Adopt, Update
  <1>3. h \in HRs /\ obj(h) \in Objects /\ Orphaned(obj(h))
    BY <1>1 DEF Tasks, TaskOK, AdoptOK
  <1>4. /\ new(h) \in Objects /\ new(h).orphaned = NoLabel
        /\ new(h).phase = obj(h).phase
        /\ new(h).owner \in {l, obj(h).owner}
    BY <1>3 DEF ChangeOwner, Objects, Stamps
  <1>5. Exists(new(h)) /\ NoNewMark(h, new(h))
    BY <1>3, <1>4 DEF Orphaned, Exists, NoNewMark
  <1> HIDE DEF new
  <1> QED
    BY <1>2, <1>4, <1>5 DEF Stores

LEMMA OrphanStores ==
    ASSUME IInv, NEW l \in Layers, Orphan(l)
    PROVE  UNCHANGED store \/ \E h \in task[l].todo : \E obj : Stores(l, h, obj)
  <1>1. /\ StoreOK /\ StoreType /\ now \in Nat /\ task[l] \in Tasks
        /\ task[l].pc \in {"orphan", "orphanAll"}
    BY DEF IInv, StoreOK, WorldOK, TasksOK, Orphan
  <1> DEFINE new(h) == [cache[h] EXCEPT !.orphaned = now]
  <1>2. PICK h \in task[l].todo : Verdict(l, h)
    BY OrphanVerdict
  <1>3. h \in HRs /\ cache[h] \in Objects
    BY <1>1 DEF Tasks, StoreType
  <1>4. CASE UNCHANGED store
    BY <1>4
  <1>5. CASE /\ Exists(cache[h]) /\ cache[h].owner = l /\ ~Orphaned(cache[h])
             /\ Current(h, cache[h]) /\ Put(h, new(h))
             /\ \E w \in BOOLEAN : w = Waiting(l, now) /\ Judged(l, h, w)
    <2>1. cache[h] = cluster[h]
      BY <1>1, <1>3, <1>5 DEF StoreOK, CacheFaithful
    <2>2. /\ new(h) \in Objects /\ new(h).phase = cluster[h].phase
          /\ new(h).owner = l
      BY <1>1, <1>3, <1>5, <2>1 DEF Objects, Stamps
    <2>3. NewMark(l, h) /\ Exists(new(h))
      BY <1>1, <1>5, <2>1, <2>2 DEF NewMark, Exists
    <2> HIDE DEF new
    <2> QED
      BY <1>5, <2>2, <2>3 DEF Stores
  <1> QED
    BY <1>2, <1>4, <1>5 DEF Verdict, Update

LEMMA PruneStores ==
    ASSUME IInv, NEW l \in Layers, Prune(l)
    PROVE  UNCHANGED store \/ \E h \in task[l].todo : \E obj : Stores(l, h, obj)
  <1>1. StoreType /\ task[l] \in Tasks
    BY DEF IInv, StoreOK, TasksOK
  <1> DEFINE new(h) == [cluster[h] EXCEPT !.phase = "terminating"]
  <1>2. PICK h \in task[l].todo :
          \/ cluster[h].phase = "live" /\ Put(h, new(h))
          \/ UNCHANGED store
    BY DEF Prune
  <1>3. cluster[h] \in Objects
    BY <1>1 DEF Tasks, StoreType
  <1>4. /\ new(h) \in Objects /\ new(h).phase = "terminating"
        /\ new(h).owner = cluster[h].owner
        /\ new(h).orphaned = cluster[h].orphaned
    BY <1>3 DEF Objects, Phases
  <1> HIDE DEF new
  <1>5. cluster[h].phase = "live" => NoNewMark(h, new(h)) /\ Exists(new(h))
    BY <1>4 DEF NoNewMark, Exists
  <1> QED
    BY <1>2, <1>4, <1>5 DEF Stores

LEMMA ApplyStores ==
    ASSUME IInv, NEW l \in Layers, Apply(l)
    PROVE  UNCHANGED store \/ \E h \in task[l].todo : \E obj : Stores(l, h, obj)
  <1>1. /\ task[l] \in Tasks /\ TaskOK(l, task[l]) /\ task[l].pc = "apply"
    BY DEF IInv, TasksOK, Apply
  <1> DEFINE obj(h) == [task[l].copy[h] EXCEPT !.orphaned = NoLabel]
             born(h) == [obj(h) EXCEPT !.phase = "live"]
  <1>2. PICK h \in task[l].todo :
          \/ UNCHANGED store
          \/ Put(h, born(h))
          \/ Current(h, obj(h)) /\ Put(h, obj(h))
    BY DEF Apply, Update
  <1>3. h \in HRs /\ task[l].copy[h] \in Objects
    BY <1>1 DEF Tasks
  <1>4. /\ obj(h) \in Objects /\ obj(h).orphaned = NoLabel
        /\ obj(h).rv = task[l].copy[h].rv
        /\ obj(h).phase = task[l].copy[h].phase
        /\ obj(h).owner = task[l].copy[h].owner
    BY <1>3 DEF Objects, Stamps
  <1>5. /\ born(h) \in Objects /\ born(h).orphaned = NoLabel
        /\ born(h).phase = "live" /\ born(h).owner = task[l].copy[h].owner
    BY <1>4 DEF Objects, Phases
  <1>6. Current(h, obj(h)) => Exists(obj(h))
    <2>1. Current(h, obj(h)) =>
            Exists(cluster[h]) /\ task[l].copy[h].phase = cluster[h].phase
      BY <1>1, <1>4 DEF Current, TaskOK, ApplyOK
    <2> QED
      BY <1>4, <2>1 DEF Exists
  <1> HIDE DEF obj, born
  <1>7. /\ NoNewMark(h, obj(h)) /\ NoNewMark(h, born(h)) /\ Exists(born(h))
    BY <1>4, <1>5 DEF NoNewMark, Exists
  <1> QED
    BY <1>2, <1>4, <1>5, <1>6, <1>7 DEF Stores

(* All that a reconcile stores. *)
LEMMA ReconcileStores ==
    ASSUME IInv, NEW l \in Layers, Reconcile(l)
    PROVE  /\ UNCHANGED cache
           /\ \/ UNCHANGED store
              \/ /\ task[l].pc \in Working
                 /\ \E h \in task[l].todo : \E obj : Stores(l, h, obj)
  <1>1. CASE Adopt(l) \/ Orphan(l) \/ Prune(l) \/ Apply(l)
    <2>1. task[l].pc \in Working /\ UNCHANGED cache
      BY <1>1 DEF Working, Adopt, Orphan, Prune, Apply
    <2> QED
      BY <1>1, <2>1, AdoptStores, OrphanStores, PruneStores, ApplyStores
  <1>2. CASE ~(Adopt(l) \/ Orphan(l) \/ Prune(l) \/ Apply(l))
    BY <1>2 DEF Reconcile, StartReconcile, AdoptSource, PrereqNotMet,
       PruneSource, PruneList, DependenciesNotDeployed, ApplySource,
       ApplyCompare, ApplyRead, ReadForApply, StartDelete, RemoveFinalizer,
       CallFails
  <1> QED
    BY <1>1, <1>2

(* What the surroundings do to the objects: nothing but to tell of them, a *)
(* new version with the same owner and label, or the end of one.           *)
LEMMA EnvironmentStores ==
    ASSUME IInv, Environment
    PROVE  \/ UNCHANGED <<store, cache>> \/ WatchEvent \/ Restart
           \/ \E h \in HRs : \E obj \in Objects :
                 /\ Exists(obj) /\ Put(h, obj) /\ NoNewMark(h, obj)
                 /\ obj.owner = cluster[h].owner /\ UNCHANGED cache
           \/ \E h \in HRs : Remove(h) /\ UNCHANGED cache
  <1>1. StoreType
    BY DEF IInv, StoreOK
  <1>2. ASSUME NEW h \in HRs, CollectGarbage(h)
        PROVE  \E obj \in Objects :
                 /\ Exists(obj) /\ Put(h, obj) /\ NoNewMark(h, obj)
                 /\ obj.owner = cluster[h].owner /\ UNCHANGED cache
    <2> DEFINE obj == [cluster[h] EXCEPT !.phase = "terminating"]
    <2>1. /\ cluster[h].phase = "live" /\ Put(h, obj) /\ UNCHANGED cache
      BY <1>2 DEF CollectGarbage
    <2>2. /\ obj \in Objects /\ obj.phase = "terminating"
          /\ obj.owner = cluster[h].owner
          /\ obj.orphaned = cluster[h].orphaned
      BY <1>1 DEF StoreType, Objects, Phases
    <2> HIDE DEF obj
    <2> QED
      BY <2>1, <2>2 DEF NoNewMark, Exists
  <1>3. ASSUME NEW h \in HRs, HelmStatus(h)
        PROVE  \E obj \in Objects :
                 /\ Exists(obj) /\ Put(h, obj) /\ NoNewMark(h, obj)
                 /\ obj.owner = cluster[h].owner /\ UNCHANGED cache
    BY <1>1, <1>3 DEF HelmStatus, StoreType, NoNewMark
  <1>4. CASE \/ Tick \/ \E l \in Layers : Edit(l) \/ DeleteLayer(l)
             \/ WatchEvent \/ Restart
    BY <1>4 DEF Tick, Edit, DeleteLayer
  <1>5. ASSUME NEW h \in HRs, HelmUninstalled(h)
        PROVE  Remove(h) /\ UNCHANGED cache
    BY <1>5 DEF HelmUninstalled
  <1> QED
    BY <1>2, <1>3, <1>4, <1>5 DEF Environment

(* A label is where it was, or it has just been set by the owner. *)
LEMMA MarkOrigin ==
    ASSUME IInv, [Next]_vars, NEW l \in Layers, NEW h \in HRs, Marks(l, h)'
    PROVE  Marks(l, h) \/ (NewMark(l, h) /\ h \in task[l].todo)
  <1>1. StoreOK /\ StoreType /\ \A k \in Layers : task[k] \in Tasks
    BY DEF IInv, StoreOK, TasksOK
  <1>2. ASSUME cluster' = cluster
        PROVE  Marks(l, h)
    BY <1>2 DEF Marks
  <1>3. ASSUME NEW g \in HRs, NEW obj \in Objects, Exists(obj), Put(g, obj),
               NoNewMark(g, obj)
        PROVE  Marks(l, h)
    BY <1>1, <1>3, PutShort DEF Marks, NoNewMark, Orphaned
  <1>4. ASSUME NEW g \in HRs, Remove(g)
        PROVE  Marks(l, h)
    <2>1. cluster'[g] = Absent /\ (h # g => cluster'[h] = cluster[h])
      BY <1>1, <1>4 DEF Remove, StoreType
    <2> QED
      BY <2>1 DEF Marks, Orphaned, Exists, Absent
  <1>5. CASE Environment
    <2>1. WatchEvent \/ Restart \/ UNCHANGED store => cluster' = cluster
      BY DEF WatchEvent, Restart, store
    <2> QED
      BY <1>2, <1>3, <1>4, <1>5, <2>1, EnvironmentStores
  <1>6. ASSUME NEW k \in Layers, Reconcile(k)
        PROVE  Marks(l, h) \/ (NewMark(l, h) /\ h \in task[l].todo)
    <2>1. CASE UNCHANGED store
      BY <1>2, <2>1 DEF store
    <2>2. ASSUME NEW g \in task[k].todo, NEW obj, Stores(k, g, obj)
          PROVE  Marks(l, h) \/ (NewMark(l, h) /\ h \in task[l].todo)
      <3>1. g \in HRs
        BY <1>1 DEF Tasks
      <3>2. CASE NoNewMark(g, obj)
        BY <1>3, <2>2, <3>1, <3>2 DEF Stores
      <3>3. CASE h # g
        BY <1>1, <2>2, <3>1, <3>3, PutShort DEF Marks, Stores
      <3>4. CASE h = g /\ NewMark(k, g) /\ obj.owner = k
        <4>1. cluster'[h].owner = k
          BY <1>1, <2>2, <3>1, <3>4, PutShort DEF Stores
        <4>2. k = l
          BY <4>1 DEF Marks
        <4> QED
          BY <2>2, <3>4, <4>2
      <3> QED
        BY <2>2, <3>2, <3>3, <3>4 DEF Stores
    <2> QED
      BY <1>6, <2>1, <2>2, ReconcileStores
  <1>7. CASE UNCHANGED vars
    BY <1>2, <1>7 DEF vars
  <1> QED
    BY <1>5, <1>6, <1>7 DEF Next

-----------------------------------------------------------------------------
(* The record and the reconciles *)

(* What a reconcile has found is kept, until it ends or looks again. *)
LEMMA FoundStays ==
    ASSUME NEW l \in Layers, RecordType, HNext
    PROVE  /\ task'[l].pc = "idle" => look'[l] = HRs
           /\ task'[l].pc # "idle" /\ Looks(l) => look'[l] = Names(l)
           /\ task'[l].pc # "idle" /\ ~Looks(l) => look'[l] = look[l]
           /\ task'[l] = task[l] => ~Looks(l)
  <1>1. look'[l] = Found(l)
    BY DEF HNext
  <1> QED
    BY <1>1 DEF Found, Looks

LEMMA RecordTyped ==
    ASSUME RecordType, HNext
    PROVE  RecordType'
  <1>1. named' \in [HRs -> SUBSET Layers]
    BY DEF HNext, RecordType, NamedNow
  <1>2. look' \in [Layers -> SUBSET HRs]
    BY DEF HNext, RecordType, Found, Names
  <1>3. \A h \in HRs : Counted(h) \in 0..2
    BY DEF RecordType, Counted
  <1>4. looks' \in [HRs -> 0..2]
    BY <1>3 DEF HNext
  <1> QED
    BY <1>1, <1>2, <1>4 DEF RecordType

LEMMA LookStep ==
    ASSUME IInv, RecordType, LookOK, HNext
    PROVE  LookOK'
  <1> SUFFICES ASSUME NEW l \in Layers
               PROVE  /\ task'[l].pc = "pruneList" => task'[l].todo = look'[l]
                      /\ task'[l].pc \in {"orphan", "prune"} =>
                            \A h \in task'[l].todo \cup task'[l].victims :
                               h \notin look'[l]
                      /\ task'[l].pc \in {"orphanAll", "finalize"}
                            => layer'[l] # "present"
    BY DEF LookOK, MissedBy
  <1>1. /\ Moves(l, task[l], task'[l])
        /\ layer[l] # "present" => layer'[l] # "present"
    BY StepMoves, LayersLeave DEF HNext
  <1>2. /\ task[l].pc = "pruneList" => task[l].todo = look[l]
        /\ task[l].pc \in {"orphan", "prune"} =>
              \A h \in task[l].todo \cup task[l].victims : h \notin look[l]
        /\ task[l].pc \in {"orphanAll", "finalize"} => layer[l] # "present"
    BY DEF LookOK, MissedBy
  <1>3. ASSUME task'[l].pc = "pruneList"
        PROVE  task'[l].todo = look'[l]
    BY <1>1, <1>2, <1>3, FoundStays DEF Moves, Looks
  <1>4. ASSUME task'[l].pc \in {"orphan", "prune"}
        PROVE  \A h \in task'[l].todo \cup task'[l].victims : h \notin look'[l]
    <2>1. look'[l] = look[l]
      BY <1>4, FoundStays DEF Looks
    <2> QED
      BY <1>1, <1>2, <1>4, <2>1 DEF Moves
  <1>5. ASSUME task'[l].pc \in {"orphanAll", "finalize"}
        PROVE  layer'[l] # "present"
    BY <1>1, <1>2, <1>5 DEF Moves
  <1> QED
    BY <1>3, <1>4, <1>5

(* The looks that are counted for a label of l. *)
LEMMA CountedFor ==
    ASSUME RecordType, HNext, NEW l \in Layers, NEW h \in HRs, Marks(l, h)'
    PROVE  /\ Orphaned(cluster[h]) =>
                 looks'[h] = IF MissesIt(h, l)
                             THEN IF looks[h] = 0 THEN 1 ELSE 2
                             ELSE looks[h]
           /\ ~Orphaned(cluster[h]) =>
                 looks'[h] = IF MissedBy(h, l) THEN 1 ELSE 0
  <1>1. OwnerNow(h) = {l}
    BY DEF Marks, OwnerNow
  <1>2. looks'[h] = Counted(h) /\ Orphaned(cluster'[h])
    BY DEF HNext, Marks
  <1> QED
    BY <1>1, <1>2 DEF Counted

(* A label that stays: another look may have been counted. *)
LEMMA MarkKept ==
    ASSUME IInv, RecordType, HNext, NEW l \in Layers, NEW h \in HRs,
           Marks(l, h), Marks(l, h)', Counts(l, h)
    PROVE  Counts(l, h)'
  <1>1. /\ Moves(l, task[l], task'[l])
        /\ layer[l] # "present" => layer'[l] # "present"
    BY StepMoves, LayersLeave DEF HNext
  <1>2. /\ looks[h] \in 0..2
        /\ looks'[h] = IF MissesIt(h, l)
                       THEN IF looks[h] = 0 THEN 1 ELSE 2
                       ELSE looks[h]
    BY CountedFor DEF Marks, RecordType
  <1>3. ASSUME looks'[h] = 0
        PROVE  layer'[l] # "present" /\ task'[l].pc \in Ending
    <2>1. looks[h] = 0
      BY <1>2, <1>3
    <2> QED
      BY <1>1, <2>1 DEF Moves, Counts
  <1>4. ASSUME h \notin look'[l], task'[l].pc = "pruneList"
        PROVE  looks'[h] = 2
    <2>1. CASE task'[l] = task[l]
      BY <1>2, <1>4, <2>1, FoundStays DEF MissesIt, MissedBy, Counts
    <2>2. CASE task[l].pc = "pruneSource"
      <3>1. MissesIt(h, l)
        BY <1>4, <2>2, FoundStays DEF MissesIt, Looks
      <3>2. looks[h] # 0
        BY <2>2 DEF Counts, Ending
      <3> QED
        BY <1>2, <3>1, <3>2
    <2> QED
      BY <1>1, <1>4, <2>1, <2>2 DEF Moves
  <1>5. ASSUME h \notin look'[l], task'[l].pc \in {"orphan", "prune"}
        PROVE  /\ task'[l].pc = "orphan" =>
                     \/ looks'[h] = 2
                     \/ looks'[h] = 1 /\ (task'[l].pending \/ Delay[l] = 0)
               /\ task'[l].pc = "prune" =>
                     looks'[h] = 2 \/ (looks'[h] = 1 /\ Delay[l] = 0)
    <2>1. h \notin look[l] /\ looks'[h] = looks[h]
      BY <1>2, <1>5, FoundStays DEF Looks, MissesIt
    <2> QED
      BY <1>1, <1>5, <2>1 DEF Moves, Counts, MissedBy
  <1> QED
    BY <1>3, <1>4, <1>5 DEF Counts, MissedBy

(* A label that is set: the reconcile that sets it has looked once. *)
LEMMA MarkMade ==
    ASSUME IInv, RecordType, LookOK, HNext, NEW l \in Layers, NEW h \in HRs,
           NewMark(l, h), h \in task[l].todo, Marks(l, h)'
    PROVE  Counts(l, h)'
  <1>1. PICK w \in BOOLEAN : w = Waiting(l, now) /\ Judged(l, h, w)
    BY Zenon DEF NewMark
  <1>2. task[l].pc \in {"orphan", "orphanAll"} /\ task \in [Layers -> Tasks]
    BY DEF NewMark, IInv, TasksOK
  <1>3. /\ task'[l].pc = "orphan" => (w => task'[l].pending)
        /\ task'[l].pc = "prune" => ~w /\ task[l].pc = "orphan"
        /\ task'[l].pc # "pruneList"
        /\ task[l].pc = "orphanAll" => task'[l].pc \in Ending
    BY <1>1, <1>2, JudgedMoves
  <1>4. ~w => Delay[l] = 0
    <2>1. now \in Nat /\ Delay[l] \in Nat
      BY DelayAssumption DEF IInv, WorldOK
    <2>2. ~(now + Delay[l] > now) => Delay[l] = 0
      BY <2>1
    <2>3. w = (now + Delay[l] > now)
      BY <1>1, Zenon DEF Waiting
    <2> QED
      BY <2>2, <2>3, Zenon
  <1>5. looks'[h] = IF MissedBy(h, l) THEN 1 ELSE 0
    BY CountedFor DEF NewMark
  <1>6. CASE task[l].pc = "orphan"
    <2>1. looks'[h] = 1
      BY <1>5, <1>6 DEF LookOK
    <2> QED
      BY <1>3, <1>4, <2>1 DEF Counts
  <1>7. CASE task[l].pc = "orphanAll"
    <2>1. layer'[l] # "present"
      BY <1>7, LayersLeave DEF LookOK, HNext
    <2>2. task'[l].pc \notin {"pruneList", "orphan", "prune"}
      BY <1>3, <1>7 DEF Ending
    <2> QED
      BY <1>3, <1>7, <2>1, <2>2 DEF Counts
  <1> QED
    BY <1>2, <1>6, <1>7

LEMMA MarksStep ==
    ASSUME IInv, RecordType, LookOK, MarksOK, HNext
    PROVE  MarksOK'
  <1>1. ASSUME NEW l \in Layers, NEW h \in HRs, Marks(l, h)'
        PROVE  Counts(l, h)'
    <2>1. CASE Marks(l, h)
      BY <1>1, <2>1, MarkKept DEF MarksOK
    <2>2. CASE NewMark(l, h) /\ h \in task[l].todo
      BY <1>1, <2>2, MarkMade
    <2> QED
      BY <1>1, <2>1, <2>2, MarkOrigin DEF HNext
  <1> QED
    BY <1>1 DEF MarksOK

-----------------------------------------------------------------------------
(* Who has had what *)

LEMMA NamedGrows ==
    ASSUME RecordType, HNext, NEW h \in HRs
    PROVE  /\ named[h] \subseteq named'[h]
           /\ Owners(h) \subseteq Owners(h)'
           /\ \A l \in Layers : h \in Names(l)' => l \in named'[h]
  <1>1. named'[h] = named[h] \cup NamedNow(h)
    BY DEF HNext
  <1> QED
    BY <1>1 DEF Owners, Names, NamedNow

(* A task that was fine before the step is fine after it. *)
LEMMA KnownStays ==
    ASSUME RecordType, HNext, NEW l \in Layers, NEW t \in Tasks, Known(l, t)
    PROVE  Known(l, t)'
  <1>1. t.todo \cup t.victims \subseteq HRs
    BY DEF Tasks
  <1> QED
    BY <1>1, NamedGrows DEF Known

LEMMA AtKnown ==
    ASSUME NEW l, NEW pc
    PROVE  Known(l, At(pc)) /\ Known(l, Idle)
    BY DEF Known, At, Idle, NoCopy, Absent, Owners

LEMMA PlainKnown ==
    ASSUME NEW l \in Layers, NEW pc, NEW s \in SUBSET HRs, NEW v \in SUBSET HRs,
           \A h \in s \cup v : l \in named[h]
    PROVE  /\ Known(l, [At(pc) EXCEPT !.todo = s])
           /\ Known(l, [At(pc) EXCEPT !.todo = s, !.victims = v])
  <1>1. \A h \in HRs : NoCopy[h].owner \in Owners(h)
    BY DEF NoCopy, Absent, Owners
  <1> QED
    BY <1>1 DEF Known, At, Idle

LEMMA DryRunKnown ==
    ASSUME StoreType, NamedOK, NEW l \in Layers, NEW claimed
    PROVE  \A h \in HRs : DryRun(l, claimed)[h].owner \in Owners(h)
  <1> SUFFICES ASSUME NEW h \in HRs
               PROVE  DryRun(l, claimed)[h].owner \in Owners(h)
    OBVIOUS
  <1>1. cluster[h] \in Objects /\ cluster[h].owner \in Owners(h)
    BY DEF StoreType, NamedOK, NamedStore
  <1>2. h \in Names(l) => l \in Owners(h)
    BY DEF NamedOK, Owners
  <1>3. CASE h \notin Names(l)
    BY <1>3 DEF DryRun, Absent, Owners
  <1>4. CASE h \in Names(l)
    <2> DEFINE live == [cluster[h] EXCEPT !.spec = source[l][h]]
               dry  == [live EXCEPT
                          !.phase = IF Exists(live) THEN @ ELSE "live",
                          !.owner = IF h \in claimed THEN l ELSE @]
    <2>1. DryRun(l, claimed)[h] = dry
      BY <1>4 DEF DryRun
    <2>2. dry.owner = IF h \in claimed THEN l ELSE cluster[h].owner
      BY <1>1 DEF Objects
    <2> HIDE DEF dry
    <2> QED
      BY <1>1, <1>2, <1>4, <2>1, <2>2
  <1> QED
    BY <1>3, <1>4

(* What the cache shows to belong to l was in its source. *)
LEMMA OwnedKnown ==
    ASSUME NamedOK, NEW l \in Layers
    PROVE  \A h \in OwnedInCache(l) : h \in HRs /\ l \in named[h]
    BY LayersAssumption DEF OwnedInCache, NamedOK, NamedStore, Owners

LEMMA LoopKnown ==
    ASSUME task \in [Layers -> Tasks], NEW l \in Layers, Known(l, task[l]),
           NEW h, NEW u,
           Next1(l, h, u), u = Idle \/ u = At("pruneSource")
    PROVE  Known(l, task'[l])
  <1> DEFINE more == [task[l] EXCEPT !.todo = @ \ {h}]
  <1>1. task[l] \in Tasks
    OBVIOUS
  <1>2. /\ more.pc = task[l].pc /\ more.todo \subseteq task[l].todo
        /\ more.victims = task[l].victims /\ more.copy = task[l].copy
    BY <1>1 DEF Tasks
  <1>3. task'[l] = more \/ task'[l] = u
    BY Goes DEF Next1, more
  <1> HIDE DEF more
  <1>4. Known(l, more)
    BY <1>2 DEF Known
  <1> QED
    BY <1>3, <1>4, AtKnown

LEMMA JudgedKnown ==
    ASSUME task \in [Layers -> Tasks], NEW l \in Layers, Known(l, task[l]),
           task[l].pc \in {"orphan", "orphanAll"},
           NEW h, NEW w \in BOOLEAN, Judged(l, h, w)
    PROVE  Known(l, task'[l])
  <1> DEFINE more  == [task[l] EXCEPT !.todo = task[l].todo \ {h},
                                      !.pending = task[l].pending \/ w]
             prune == [At("prune") EXCEPT !.todo = task[l].victims]
  <1>1. task[l] \in Tasks
    OBVIOUS
  <1>2. /\ more.pc = task[l].pc /\ more.todo \subseteq task[l].todo
        /\ more.victims = task[l].victims /\ more.copy = task[l].copy
    BY <1>1 DEF Tasks
  <1>3. task'[l] \in {more, prune, Idle, At("finalize")}
    BY Goes DEF Judged
  <1>4. task[l].victims \in SUBSET HRs /\ \A g \in task[l].victims : l \in named[g]
    BY <1>1 DEF Known, Tasks
  <1>5. Known(l, prune)
    BY <1>4, PlainKnown
  <1> HIDE DEF more, prune
  <1>6. Known(l, more)
    BY <1>2 DEF Known
  <1> QED
    BY <1>3, <1>5, <1>6, AtKnown

(* A reconcile turns to what its source has, or to what it owns. *)
LEMMA ReconcileKnown ==
    ASSUME IInv, NamedOK, NEW l \in Layers, Reconcile(l)
    PROVE  Known(l, task'[l])
  <1>1. /\ task \in [Layers -> Tasks] /\ task[l] \in Tasks /\ Known(l, task[l])
        /\ StoreType
    BY DEF IInv, TasksOK, StoreOK, NamedOK
  <1>2. /\ Names(l) \in SUBSET HRs /\ \A h \in Names(l) : l \in named[h]
    BY DEF NamedOK, Names
  <1>3. /\ OwnedInCache(l) \in SUBSET HRs
        /\ \A h \in OwnedInCache(l) : l \in named[h]
    BY OwnedKnown
  <1>4. ASSUME NEW t, Goto(l, t), Known(l, t)
        PROVE  Known(l, task'[l])
    BY <1>1, <1>4, Goes
  <1>5. \A pc : Known(l, At(pc)) /\ Known(l, Idle)
    BY AtKnown
  <1>6. CASE StartReconcile(l)
    <2> DEFINE t == [At("adoptSource") EXCEPT
                       !.todo = Orphans(l),
                       !.copy = [h \in HRs |-> IF h \in Orphans(l)
                                               THEN cache[h] ELSE Absent]]
    <2>1. Goto(l, t)
      BY <1>6 DEF StartReconcile
    <2>2. /\ t.pc = "adoptSource"
          /\ t.victims = {}
          /\ t.copy = [h \in HRs |-> IF h \in Orphans(l) THEN cache[h] ELSE Absent]
      BY DEF At
    <2> HIDE DEF t
    <2>3. \A h \in HRs : t.copy[h].owner \in Owners(h)
      BY <2>2 DEF NamedOK, NamedStore, Absent, Owners
    <2>4. Known(l, t)
      BY <2>2, <2>3 DEF Known
    <2> QED
      BY <1>4, <2>1, <2>4
  <1>7. CASE AdoptSource(l)
    <2> DEFINE t == [task[l] EXCEPT !.pc = "adopt",
                                    !.todo = task[l].todo \cap Names(l)]
    <2>1. /\ Goto(l, t) \/ Goto(l, Idle) \/ Goto(l, At("pruneSource"))
          /\ task[l].pc = "adoptSource"
      BY <1>7 DEF AdoptSource
    <2>2. /\ t.todo \subseteq Names(l) /\ t.victims = task[l].victims
          /\ t.copy = task[l].copy
      BY <1>1 DEF Tasks
    <2> HIDE DEF t
    <2>3. Known(l, t)
      BY <1>1, <1>2, <2>1, <2>2 DEF Known
    <2> QED
      BY <1>4, <1>5, <2>1, <2>3
  <1>8. CASE Adopt(l) \/ Prune(l) \/ Apply(l)
    <2>1. PICK h \in task[l].todo : \/ Next1(l, h, At("pruneSource"))
                                    \/ Next1(l, h, Idle) \/ Goto(l, Idle)
      BY <1>8 DEF Adopt, Prune, Apply
    <2> QED
      BY <1>1, <1>4, <1>5, <2>1, LoopKnown
  <1>9. CASE Orphan(l)
    <2>1. PICK h \in task[l].todo : Verdict(l, h)
      BY <1>9, OrphanVerdict
    <2>2. task[l].pc \in {"orphan", "orphanAll"}
      BY <1>9 DEF Orphan
    <2> QED
      BY <1>1, <1>4, <1>5, <2>1, <2>2, JudgedKnown DEF Verdict
  <1>10. CASE \/ PrereqNotMet(l) \/ DependenciesNotDeployed(l) \/ CallFails(l)
              \/ RemoveFinalizer(l) \/ ApplyCompare(l)
    <2>1. Goto(l, Idle) \/ Goto(l, At("applyRead"))
      BY <1>10 DEF PrereqNotMet, DependenciesNotDeployed, CallFails,
                   RemoveFinalizer, ApplyCompare
    <2> QED
      BY <1>4, <1>5, <2>1
  <1>11. CASE PruneSource(l)
    <2>1. Goto(l, Idle) \/ Goto(l, [At("pruneList") EXCEPT !.todo = Names(l)])
      BY <1>11 DEF PruneSource
    <2>2. Known(l, [At("pruneList") EXCEPT !.todo = Names(l)])
      BY <1>2, PlainKnown
    <2> QED
      BY <1>4, <1>5, <2>1, <2>2
  <1>12. CASE PruneList(l)
    <2> DEFINE gone == OwnedInCache(l) \ task[l].todo
               t == [At("orphan") EXCEPT !.todo = gone, !.victims = gone]
    <2>1. Goto(l, t) \/ Goto(l, At("applySource"))
      BY <1>12 DEF PruneList
    <2>2. Known(l, t)
      BY <1>3, PlainKnown
    <2> QED
      BY <1>4, <1>5, <2>1, <2>2
  <1>13. CASE ApplySource(l) \/ ApplyRead(l)
    <2> DEFINE t(to, c) == [At(to) EXCEPT !.todo = Names(l),
                                          !.copy = DryRun(l, c)]
    <2>1. Goto(l, Idle) \/ \E to, c : Goto(l, t(to, c))
      BY <1>13 DEF ApplySource, ApplyRead, ReadForApply
    <2>2. ASSUME NEW to, NEW c
          PROVE  /\ t(to, c).todo = Names(l) /\ t(to, c).victims = {}
                 /\ t(to, c).copy = DryRun(l, c)
      BY DEF At
    <2> HIDE DEF t
    <2>3. ASSUME NEW to, NEW c
          PROVE  Known(l, t(to, c))
      BY <1>1, <1>2, <2>2, DryRunKnown DEF Known
    <2> QED
      BY <1>4, <1>5, <2>1, <2>3
  <1>14. CASE StartDelete(l)
    <2> DEFINE t == [At("orphanAll") EXCEPT !.todo = OwnedInCache(l)]
    <2>1. Goto(l, t) \/ Goto(l, At("finalize"))
      BY <1>14 DEF StartDelete
    <2>2. Known(l, t)
      BY <1>3, PlainKnown
    <2> QED
      BY <1>4, <1>5, <2>1, <2>2
  <1> QED
    BY <1>6, <1>7, <1>8, <1>9, <1>10, <1>11, <1>12, <1>13, <1>14 DEF Reconcile

(* The objects, and what is told of them, stay with who has had them. *)
LEMMA PutNamed ==
    ASSUME StoreOK, RecordType, HNext, NamedStore, NEW h \in HRs,
           NEW obj \in Objects, Exists(obj), Put(h, obj), UNCHANGED cache,
           obj.owner \in Owners(h)
    PROVE  NamedStore'
  <1> DEFINE n == Len(watch)
  <1>1. /\ \A g \in HRs : g # h => cluster'[g] = cluster[g]
        /\ cluster'[h].owner = obj.owner
        /\ Len(watch') = n + 1
        /\ \A i \in 1..n : watch'[i] = watch[i]
        /\ watch'[n + 1].hr = h /\ watch'[n + 1].obj = cluster'[h]
    BY PutShort
  <1>2. n \in Nat /\ \A i \in 1..n : watch[i].hr \in HRs
    BY WatchElement DEF StoreOK
  <1>3. \A g \in HRs : Owners(g) \subseteq named'[g] \cup {NoLayer}
    BY NamedGrows DEF Owners
  <1>4. \A g \in HRs : /\ cluster'[g].owner \in named'[g] \cup {NoLayer}
                       /\ cache'[g].owner \in named'[g] \cup {NoLayer}
    BY <1>1, <1>3 DEF NamedStore
  <1>5. \A i \in 1..n : watch'[i].obj.owner \in named'[watch'[i].hr] \cup {NoLayer}
    BY <1>1, <1>2, <1>3 DEF NamedStore
  <1>6. watch'[n + 1].obj.owner \in named'[watch'[n + 1].hr] \cup {NoLayer}
    BY <1>1, <1>4
  <1> HIDE DEF n
  <1>7. \A i \in 1..Len(watch') : i \in 1..n \/ i = n + 1
    BY <1>1, <1>2
  <1> QED
    BY <1>4, <1>5, <1>6, <1>7 DEF NamedStore, Owners

LEMMA RemoveNamed ==
    ASSUME StoreOK, RecordType, HNext, NamedStore, NEW h \in HRs, Remove(h),
           UNCHANGED cache
    PROVE  NamedStore'
  <1> DEFINE n == Len(watch)
             e == [hr |-> h, obj |-> Absent]
  <1>1. /\ cluster' = [cluster EXCEPT ![h] = Absent] /\ watch' = Append(watch, e)
    BY DEF Remove
  <1>2. /\ n \in Nat /\ \A i \in 1..n : watch[i].hr \in HRs
        /\ watch \in Seq([hr : HRs, obj : Objects]) /\ cluster \in [HRs -> Objects]
        /\ e \in [hr : HRs, obj : Objects]
    BY WatchElement, AbsentType DEF StoreOK, StoreType
  <1> HIDE DEF e
  <1>3. /\ Len(watch') = n + 1 /\ watch'[n + 1] = e
        /\ \A i \in 1..n : watch'[i] = watch[i]
    BY <1>1, <1>2
  <1>4. \A g \in HRs : Owners(g) \subseteq named'[g] \cup {NoLayer}
    BY NamedGrows DEF Owners
  <1>5. Absent.owner = NoLayer /\ e.hr = h /\ e.obj = Absent
    BY DEF Absent, e
  <1>6. \A g \in HRs : /\ cluster'[g].owner \in named'[g] \cup {NoLayer}
                       /\ cache'[g].owner \in named'[g] \cup {NoLayer}
    BY <1>1, <1>2, <1>4, <1>5 DEF NamedStore
  <1>7. \A i \in 1..n : watch'[i].obj.owner \in named'[watch'[i].hr] \cup {NoLayer}
    BY <1>2, <1>3, <1>4 DEF NamedStore
  <1>8. watch'[n + 1].obj.owner \in named'[watch'[n + 1].hr] \cup {NoLayer}
    BY <1>3, <1>5
  <1> HIDE DEF n
  <1>9. \A i \in 1..Len(watch') : i \in 1..n \/ i = n + 1
    BY <1>2, <1>3
  <1> QED
    BY <1>6, <1>7, <1>8, <1>9 DEF NamedStore, Owners

LEMMA WatchNamed ==
    ASSUME StoreOK, RecordType, HNext, NamedStore, WatchEvent
    PROVE  NamedStore'
  <1> DEFINE n == Len(watch)
  <1>1. /\ cache' = [cache EXCEPT ![Head(watch).hr] = Head(watch).obj]
        /\ watch' = Tail(watch) /\ cluster' = cluster /\ watch # <<>>
    BY DEF WatchEvent
  <1>2. /\ n \in Nat /\ \A i \in 1..n : watch[i].hr \in HRs
        /\ watch \in Seq([hr : HRs, obj : Objects]) /\ cache \in [HRs -> Objects]
    BY WatchElement DEF StoreOK, StoreType
  <1>3. /\ n > 0 /\ Len(watch') = n - 1 /\ Head(watch) = watch[1]
        /\ \A i \in 1..(n - 1) : watch'[i] = watch[i + 1]
    BY <1>1, <1>2
  <1>4. \A g \in HRs : Owners(g) \subseteq named'[g] \cup {NoLayer}
    BY NamedGrows DEF Owners
  <1>5. \A i \in 1..n : watch[i].obj.owner \in named'[watch[i].hr] \cup {NoLayer}
    BY <1>2, <1>4 DEF NamedStore
  <1>6. \A g \in HRs : /\ cluster'[g].owner \in named'[g] \cup {NoLayer}
                       /\ cache'[g].owner \in named'[g] \cup {NoLayer}
    BY <1>1, <1>2, <1>3, <1>4, <1>5 DEF NamedStore
  <1> HIDE DEF n
  <1>7. \A i \in 1..Len(watch') : watch'[i].obj.owner \in named'[watch'[i].hr] \cup {NoLayer}
    BY <1>2, <1>3, <1>5
  <1> QED
    BY <1>6, <1>7 DEF NamedStore, Owners

LEMMA StillNamed ==
    ASSUME StoreOK, RecordType, HNext, NamedStore,
           UNCHANGED <<store, cache>> \/ Restart
    PROVE  NamedStore'
  <1>1. \A g \in HRs : Owners(g) \subseteq named'[g] \cup {NoLayer}
    BY NamedGrows DEF Owners
  <1>2. \A i \in 1..Len(watch) : watch[i].hr \in HRs
    BY WatchElement DEF StoreOK
  <1>3. /\ cluster' = cluster /\ cache' \in {cache, cluster}
        /\ watch' \in {watch, <<>>}
    BY DEF store, Restart
  <1> QED
    BY <1>1, <1>2, <1>3 DEF NamedStore, Owners

LEMMA NamedStoreStep ==
    ASSUME IInv, RecordType, NamedOK, HNext
    PROVE  NamedStore'
  <1>1. /\ StoreOK /\ NamedStore
        /\ \A k \in Layers : task[k] \in Tasks /\ Known(k, task[k])
    BY DEF IInv, TasksOK, NamedOK
  <1>2. CASE Environment
    <2>1. \A h \in HRs : cluster[h].owner \in Owners(h)
      BY <1>1 DEF NamedStore
    <2> QED
      BY <1>1, <1>2, <2>1, EnvironmentStores, PutNamed, RemoveNamed,
         WatchNamed, StillNamed
  <1>3. ASSUME NEW l \in Layers, Reconcile(l)
        PROVE  NamedStore'
    <2>1. UNCHANGED cache
      BY <1>3, ReconcileStores
    <2>2. CASE UNCHANGED store
      BY <1>1, <2>1, <2>2, StillNamed
    <2>3. ASSUME task[l].pc \in Working, NEW h \in task[l].todo, NEW obj,
                 Stores(l, h, obj)
          PROVE  NamedStore'
      <3>1. h \in HRs
        BY <1>1 DEF Tasks
      <3>2. l \in named[h] /\ task[l].copy[h].owner \in Owners(h)
        BY <1>1, <2>3, <3>1 DEF Known, Working
      <3>3. obj.owner \in Owners(h)
        BY <1>1, <2>3, <3>1, <3>2 DEF Stores, NamedStore, Owners
      <3> QED
        BY <1>1, <2>1, <2>3, <3>1, <3>3, PutNamed DEF Stores
    <2> QED
      BY <1>3, <2>2, <2>3, ReconcileStores
  <1> QED
    BY <1>2, <1>3 DEF HNext, Next

LEMMA NamedStep ==
    ASSUME IInv, RecordType, NamedOK, HNext
    PROVE  NamedOK'
  <1>1. \A l \in Layers : \A h \in Names(l)' : l \in named'[h]
    BY NamedGrows DEF Names
  <1>2. NamedStore'
    BY NamedStoreStep
  <1>3. /\ \A k \in Layers : task[k] \in Tasks /\ Known(k, task[k])
        /\ task' \in [Layers -> Tasks]
    <2>1. IInv'
      BY NextIInv DEF HNext
    <2> QED
      BY <2>1 DEF IInv, TasksOK, NamedOK
  <1>4. ASSUME NEW l \in Layers, NEW t, t = task'[l], Known(l, t)
        PROVE  Known(l, t)'
    BY <1>3, <1>4, KnownStays
  <1>5. \A l \in Layers : Known(l, task'[l])
    <2>1. CASE Restart
      BY <2>1, AtKnown DEF Restart
    <2>2. CASE Environment /\ ~Restart
      <3>1. task' = task
        BY <2>2 DEF Environment, Tick, Edit, DeleteLayer, CollectGarbage,
                    HelmStatus, HelmUninstalled, WatchEvent
      <3> QED
        BY <1>3, <3>1
    <2>3. ASSUME NEW k \in Layers, Reconcile(k)
          PROVE  \A l \in Layers : Known(l, task'[l])
      BY <1>3, <2>3, ReconcileKnown, ReconcileMoves
    <2> QED
      BY <2>1, <2>2, <2>3 DEF HNext, Next
  <1>6. \A l \in Layers : Known(l, task[l])'
    BY <1>4, <1>5
  <1> QED
    BY <1>1, <1>2, <1>6 DEF NamedOK

-----------------------------------------------------------------------------
(* The results *)

LEMMA InitHInv ==
    ASSUME HInit
    PROVE  HInv
  <1>1. /\ \A l \in Layers : task[l] = Idle
        /\ \A h \in HRs : cluster[h] = Absent /\ cache[h] = Absent
        /\ watch = <<>>
        /\ named = [h \in HRs |-> {l \in Layers : source[l][h] # NoSpec}]
        /\ look = [l \in Layers |-> HRs]
        /\ looks = [h \in HRs |-> 0]
    BY DEF HInit, Init
  <1>2. Idle.pc = "idle" /\ ~Orphaned(Absent) /\ Absent.owner = NoLayer
    BY DEF Idle, At, Orphaned, Exists, Absent
  <1>3. RecordType
    BY <1>1 DEF RecordType
  <1>4. LookOK
    BY <1>1, <1>2 DEF LookOK
  <1>5. MarksOK
    BY <1>1, <1>2 DEF MarksOK, Marks
  <1>6. NamedOK
    <2>1. \A l \in Layers : Known(l, task[l])
      BY <1>1, AtKnown
    <2>2. NamedStore
      BY <1>1, <1>2 DEF NamedStore, Owners
    <2>3. \A l \in Layers : \A h \in Names(l) : l \in named[h]
      BY <1>1 DEF Names
    <2> QED
      BY <2>1, <2>2, <2>3 DEF NamedOK
  <1> QED
    BY <1>3, <1>4, <1>5, <1>6 DEF HInv

LEMMA NextHInv ==
    ASSUME IInv, HInv, [HNext]_hvars
    PROVE  HInv'
  <1>1. CASE HNext
    BY <1>1, RecordTyped, LookStep, MarksStep, NamedStep DEF HInv
  <1>2. CASE UNCHANGED hvars
    <2>1. /\ UNCHANGED vars /\ named' = named /\ look' = look /\ looks' = looks
      BY <1>2 DEF hvars, record
    <2>2. RecordType'
      BY <2>1 DEF HInv, RecordType
    <2>3. LookOK' /\ MarksOK'
      BY <2>1 DEF HInv, LookOK, MarksOK, Marks, Counts, MissedBy, vars
    <2>4. NamedOK'
      BY <2>1 DEF HInv, NamedOK, NamedStore, Known, Owners, Names, vars
    <2> QED
      BY <2>2, <2>3, <2>4 DEF HInv
  <1> QED
    BY <1>1, <1>2

THEOREM RecordInvariance == HSpec => []HInv
  <1>1. HInit => HInv
    BY InitHInv
  <1>2. IInv /\ HInv /\ [HNext]_hvars => HInv'
    BY NextHInv
  <1>3. HSpec => []IInv
    BY RecordOnly, Invariance, PTL
  <1> QED
    BY <1>1, <1>2, <1>3, PTL DEF HSpec

(* A marked HelmRelease that its owner is about to delete has been missed  *)
(* by two looks since it was marked, or by one if there is no interval.    *)
THEOREM SecondLookHolds == HSpec => []SecondLook
  <1>1. ASSUME HInv, NEW l \in Layers, task[l].pc = "prune", task[l] \in Tasks,
               NEW h \in task[l].todo, Marks(l, h)
        PROVE  MissedBy(h, l) /\ (looks[h] = 2 \/ (looks[h] = 1 /\ Delay[l] = 0))
    <2>1. h \in HRs /\ MissedBy(h, l)
      BY <1>1 DEF HInv, LookOK, Tasks
    <2>2. Counts(l, h)
      BY <1>1, <2>1 DEF HInv, MarksOK
    <2> QED
      BY <1>1, <2>1, <2>2 DEF Counts
  <1>2. IInv /\ HInv => SecondLook
    BY <1>1 DEF SecondLook, Marks, IInv, TasksOK
  <1>3. HSpec => []IInv
    BY RecordOnly, Invariance, PTL
  <1> QED
    BY <1>2, <1>3, RecordInvariance, PTL

(* A reconcile touches only what its layer has had in its source, and what *)
(* belongs to a layer that has had it.                                     *)
THEOREM OnlyNamedHolds == HSpec => OnlyNamed
  <1>1. ASSUME IInv, HInv, HNext, NEW l \in Layers, NEW h \in HRs,
               task'[l] # task[l], cluster'[h] # cluster[h]
        PROVE  l \in named[h] /\ cluster[h].owner \in named[h] \cup {NoLayer}
    <2>1. /\ StoreOK /\ task[l] \in Tasks /\ Known(l, task[l]) /\ NamedStore
      BY <1>1 DEF IInv, TasksOK, HInv, NamedOK
    <2>2. ~Environment
      <3>1. CASE Restart
        BY <1>1, <3>1 DEF Restart
      <3>2. CASE Environment /\ ~Restart
        <4>1. task' = task
          BY <3>2 DEF Environment, Tick, Edit, DeleteLayer, CollectGarbage,
                      HelmStatus, HelmUninstalled, WatchEvent
        <4> QED
          BY <1>1, <4>1
      <3> QED
        BY <3>1, <3>2
    <2>3. Reconcile(l)
      BY <1>1, <2>2, ReconcileMoves DEF HNext, Next
    <2>4. PICK g \in task[l].todo : \E obj : Stores(l, g, obj)
      BY <1>1, <2>3, ReconcileStores DEF store
    <2>5. task[l].pc \in Working
      BY <1>1, <2>3, ReconcileStores DEF store
    <2>6. g = h
      BY <1>1, <2>1, <2>4, PutShort DEF Stores, Tasks
    <2> QED
      BY <1>1, <2>1, <2>4, <2>5, <2>6 DEF Known, Working, NamedStore, Owners
  <1>2. IInv /\ HInv /\ [HNext]_hvars
        => [\A l \in Layers, h \in HRs :
              task'[l] # task[l] /\ cluster'[h] # cluster[h]
              => /\ l \in named[h]
                 /\ cluster[h].owner \in named[h] \cup {NoLayer}]_hvars
    BY <1>1
  <1>3. HSpec => []IInv
    BY RecordOnly, Invariance, PTL
  <1> QED
    BY <1>2, <1>3, RecordInvariance, PTL DEF HSpec, OnlyNamed
=============================================================================
