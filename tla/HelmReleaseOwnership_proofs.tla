--------------------- MODULE HelmReleaseOwnership_proofs ---------------------
(***************************************************************************)
(* For every set of layers and HelmReleases, every interval and every      *)
(* bound: the types, the contract on ownership, and the wait before a      *)
(* deletion.  All follow from one inductive invariant, IInv.               *)
(***************************************************************************)
EXTENDS HelmReleaseOwnership, TLAPS

WorldOK ==
    /\ now \in Nat
    /\ edits \in Nat
    /\ source \in [Layers -> [HRs -> Specs \cup {NoSpec}]]
    /\ layer \in [Layers -> {"present", "deleting", "gone"}]

StoreType ==
    /\ cluster \in [HRs -> Objects]
    /\ revision \in [HRs -> Nat]
    /\ cache \in [HRs -> Objects]
    /\ watch \in Seq([hr : HRs, obj : Objects])

(* Versions grow: no copy is newer than the last version given out, and    *)
(* what is on the cluster carries that one.                                *)
VersionsGrow ==
    /\ \A h \in HRs : /\ cache[h].rv <= revision[h]
                      /\ cluster[h].rv <= revision[h]
                      /\ Exists(cluster[h]) => /\ cluster[h].rv = revision[h]
                                               /\ revision[h] > 0
    /\ \A i \in 1..Len(watch) : watch[i].obj.rv <= revision[watch[i].hr]

(* A copy with the current version is the object itself, and no newer      *)
(* event is on its way.                                                    *)
CacheFaithful ==
    /\ \A h \in HRs : Current(h, cache[h]) =>
          /\ cache[h] = cluster[h]
          /\ \A i \in 1..Len(watch) : watch[i].hr # h
    /\ \A i \in 1..Len(watch) : Current(watch[i].hr, watch[i].obj) =>
          /\ watch[i].obj = cluster[watch[i].hr]
          /\ \A j \in 1..Len(watch) : j > i => watch[j].hr # watch[i].hr

(* What the controller knows, or is about to hear, of a marked HelmRelease *)
SameEra(h, obj) == /\ Exists(obj)
                   /\ obj.owner = cluster[h].owner
                   /\ obj.orphaned \in {NoLabel, cluster[h].orphaned}

LabelEra ==
    \A h \in HRs : Orphaned(cluster[h]) =>
        /\ SameEra(h, cache[h])
        /\ \A i \in 1..Len(watch) : watch[i].hr = h => SameEra(h, watch[i].obj)

StoreOK == StoreType /\ VersionsGrow /\ CacheFaithful /\ LabelEra

(* If l still owns h, and h is marked, then it has waited. *)
Settled(l, h) == (cluster[h].owner = l /\ Orphaned(cluster[h]))
                 => ~Waiting(l, cluster[h].orphaned)

AdoptOK(l, t) ==
    t.pc \in {"adoptSource", "adopt"} =>
        \A h \in t.todo :
            /\ Orphaned(t.copy[h])
            /\ Current(h, t.copy[h]) => t.copy[h] = cluster[h]

ApplyOK(l, t) ==
    t.pc = "apply" =>
        \A h \in t.todo :
            Current(h, t.copy[h]) =>
                /\ t.copy[h].phase = cluster[h].phase
                /\ \/ t.copy[h].owner = cluster[h].owner
                   \/ cluster[h].owner = NoLayer /\ t.copy[h].owner = l

PruneOK(l, t) ==
    /\ (t.pc = "orphan" /\ ~t.pending) =>
            \A h \in t.victims \ t.todo : Settled(l, h)
    /\ t.pc = "prune" => \A h \in t.todo : Settled(l, h)

TaskOK(l, t) ==
    /\ t \in Tasks
    /\ \A h \in HRs : t.copy[h].rv <= revision[h]
    /\ AdoptOK(l, t)
    /\ ApplyOK(l, t)
    /\ PruneOK(l, t)

TasksOK == /\ task \in [Layers -> Tasks]
           /\ \A l \in Layers : TaskOK(l, task[l])

IInv == WorldOK /\ StoreOK /\ TasksOK

-----------------------------------------------------------------------------
(* Facts about the values *)

LEMMA AbsentType == Absent \in Objects /\ NoCopy \in [HRs -> Objects]
    BY DEF Absent, NoCopy, Objects, Phases, Stamps, NoLabel

LEMMA ElementOf ==
    ASSUME NEW S, NEW s \in Seq(S)
    PROVE  \A i \in 1..Len(s) : s[i] \in S
    OBVIOUS

LEMMA WatchElement ==
    ASSUME StoreType
    PROVE  /\ Len(watch) \in Nat
           /\ \A i \in 1..Len(watch) : watch[i].hr \in HRs /\ watch[i].obj \in Objects
  <1> DEFINE Events == [hr : HRs, obj : Objects]
  <1>1. watch \in Seq(Events)
    BY DEF StoreType
  <1>2. \A e \in Events : e.hr \in HRs /\ e.obj \in Objects
    OBVIOUS
  <1> HIDE DEF Events
  <1>3. \A i \in 1..Len(watch) : watch[i] \in Events
    BY <1>1, ElementOf
  <1>4. Len(watch) \in Nat
    BY <1>1
  <1> QED
    BY <1>2, <1>3, <1>4

(* A task that carries no copies and is not in the prune loop is fine.     *)
LEMMA PlainTask ==
    ASSUME NEW l \in Layers, NEW pc \in PCs \ {"prune", "orphan"},
           NEW todo \in SUBSET HRs, StoreType,
           pc \in {"adoptSource", "adopt", "apply"} => todo = {}
    PROVE  /\ At(pc) \in Tasks
           /\ [At(pc) EXCEPT !.todo = todo] \in Tasks
           /\ TaskOK(l, At(pc))
           /\ TaskOK(l, [At(pc) EXCEPT !.todo = todo])
  <1> DEFINE t == [At(pc) EXCEPT !.todo = todo]
  <1>1. /\ At(pc) \in Tasks /\ t \in Tasks
        /\ At(pc).pc = pc /\ t.pc = pc
        /\ At(pc).todo = {} /\ t.todo = todo
        /\ At(pc).copy = NoCopy /\ t.copy = NoCopy
    BY AbsentType DEF At, Tasks
  <1>2. \A h \in HRs : NoCopy[h].rv <= revision[h]
    BY DEF NoCopy, Absent, StoreType
  <1> QED
    BY <1>1, <1>2 DEF TaskOK, AdoptOK, ApplyOK, PruneOK

-----------------------------------------------------------------------------
(* What a write to the store preserves *)

LEMMA PutShape ==
    ASSUME StoreType, NEW h \in HRs, NEW obj \in Objects, Put(h, obj)
    PROVE  /\ [obj EXCEPT !.rv = revision[h] + 1] \in Objects
           /\ revision' = [revision EXCEPT ![h] = @ + 1]
           /\ cluster' = [cluster EXCEPT
                            ![h] = [obj EXCEPT !.rv = revision[h] + 1]]
           /\ cluster' \in [HRs -> Objects]
           /\ revision' \in [HRs -> Nat]
           /\ watch' \in Seq([hr : HRs, obj : Objects])
           /\ Len(watch') = Len(watch) + 1
           /\ \A i \in 1..Len(watch) : watch'[i] = watch[i]
           /\ watch'[Len(watch')].hr = h
           /\ watch'[Len(watch')].obj = [obj EXCEPT !.rv = revision[h] + 1]
  <1> DEFINE new == [obj EXCEPT !.rv = revision[h] + 1]
  <1>1. new \in Objects
    <2>1. revision[h] + 1 \in Nat
      BY DEF StoreType
    <2> QED
      BY <2>1 DEF Objects
  <1>2. /\ revision' = [revision EXCEPT ![h] = @ + 1]
        /\ cluster' = [cluster EXCEPT ![h] = new]
        /\ watch' = Append(watch, [hr |-> h, obj |-> new])
    BY DEF Put
  <1>3. revision' \in [HRs -> Nat] /\ cluster' \in [HRs -> Objects]
    BY <1>1, <1>2 DEF StoreType
  <1>4. [hr |-> h, obj |-> new] \in [hr : HRs, obj : Objects]
    BY <1>1
  <1> HIDE DEF new
  <1>5. /\ watch' \in Seq([hr : HRs, obj : Objects])
        /\ Len(watch') = Len(watch) + 1
        /\ \A i \in 1..Len(watch) : watch'[i] = watch[i]
        /\ watch'[Len(watch')] = [hr |-> h, obj |-> new]
    BY <1>2, <1>4 DEF StoreType
  <1> QED
    BY <1>1, <1>2, <1>3, <1>5 DEF new

(* The versions and the faithful cache survive any Put. *)
LEMMA PutVersions ==
    ASSUME StoreOK, NEW h \in HRs, NEW obj \in Objects, Exists(obj),
           Put(h, obj), UNCHANGED cache
    PROVE  StoreType' /\ VersionsGrow' /\ CacheFaithful'
  <1> DEFINE new == [obj EXCEPT !.rv = revision[h] + 1]
             n   == Len(watch)
  <1>1. StoreType'
    BY PutShape DEF StoreOK, StoreType
  <1>2. /\ revision' = [revision EXCEPT ![h] = @ + 1]
        /\ cluster' = [cluster EXCEPT ![h] = new]
        /\ Len(watch') = n + 1
        /\ \A i \in 1..n : watch'[i] = watch[i]
        /\ watch'[n + 1].hr = h /\ watch'[n + 1].obj = new
        /\ new \in Objects
    BY PutShape DEF StoreOK
  <1>n. n \in Nat /\ new.rv = revision[h] + 1 /\ Exists(new)
    <2>1. revision[h] \in Nat
      BY DEF StoreOK, StoreType
    <2>3. n \in Nat
      BY DEF StoreOK, StoreType
    <2>2. new.rv = revision[h] + 1 /\ new.phase = obj.phase
      BY DEF Objects
    <2> QED
      BY <2>1, <2>2, <2>3 DEF Exists
  <1>3. /\ \A g \in HRs : cache[g].rv \in Nat /\ revision[g] \in Nat
        /\ \A i \in 1..n : watch[i].hr \in HRs /\ watch[i].obj \in Objects
        /\ \A i \in 1..n : watch[i].obj.rv \in Nat
    <2>1. \A g \in HRs : cache[g] \in Objects /\ revision[g] \in Nat
      BY DEF StoreOK, StoreType
    <2>3. \A i \in 1..n : watch[i].hr \in HRs /\ watch[i].obj \in Objects
      BY WatchElement DEF StoreOK
    <2>4. \A o \in Objects : o.rv \in Nat
      BY DEF Objects
    <2> QED
      BY <2>1, <2>3, <2>4
  <1> HIDE DEF new, n
  <1>4. VersionsGrow'
    <2>1. \A g \in HRs : /\ cache[g].rv <= revision'[g]
                         /\ cluster'[g].rv <= revision'[g]
                         /\ Exists(cluster'[g]) =>
                               cluster'[g].rv = revision'[g] /\ revision'[g] > 0
      BY <1>2, <1>n, <1>3 DEF StoreOK, VersionsGrow, StoreType
    <2>2. \A i \in 1..n : watch[i].obj.rv <= revision'[watch[i].hr]
      BY <1>2, <1>n, <1>3 DEF StoreOK, VersionsGrow, StoreType, n
    <2>3. watch'[n + 1].obj.rv <= revision'[watch'[n + 1].hr]
      BY <1>2, <1>n, <1>3 DEF StoreOK, StoreType
    <2> QED
      BY <1>2, <1>n, <2>1, <2>2, <2>3 DEF VersionsGrow
  <1>5. CacheFaithful'
    <2>1. \A g \in HRs : g # h => cluster'[g] = cluster[g]
      BY <1>2 DEF StoreOK, StoreType
    <2>2. cluster'[h] = new
      BY <1>2 DEF StoreOK, StoreType
    <2>3. cache[h].rv # cluster'[h].rv
      BY <1>2, <1>n, <1>3, <2>2 DEF StoreOK, VersionsGrow
    <2>4. \A i \in 1..n : watch[i].hr = h => watch[i].obj.rv # cluster'[h].rv
      BY <1>2, <1>n, <1>3, <2>2 DEF StoreOK, VersionsGrow, n
    <2>5. ASSUME NEW g \in HRs, Current(g, cache[g])'
          PROVE  cache[g] = cluster'[g] /\ \A i \in 1..Len(watch') : watch'[i].hr # g
      <3>1. g # h /\ Current(g, cache[g])
        BY <2>1, <2>3, <2>5 DEF Current
      <3>2. cache[g] = cluster[g] /\ \A i \in 1..n : watch[i].hr # g
        BY <3>1 DEF StoreOK, CacheFaithful, n
      <3> QED
        BY <1>2, <1>n, <2>1, <3>1, <3>2
    <2>6. ASSUME NEW i \in 1..n, Current(watch[i].hr, watch[i].obj)'
          PROVE  /\ watch'[i].obj = cluster'[watch'[i].hr]
                 /\ \A j \in 1..(n + 1) : j > i => watch'[j].hr # watch'[i].hr
      <3>1. watch'[i] = watch[i]
        BY <1>2
      <3>2. watch[i].hr # h /\ Current(watch[i].hr, watch[i].obj)
        BY <1>3, <2>1, <2>4, <2>6, <3>1 DEF Current
      <3>3. /\ watch[i].obj = cluster[watch[i].hr]
            /\ \A j \in 1..n : j > i => watch[j].hr # watch[i].hr
        BY <3>2 DEF StoreOK, CacheFaithful, n
      <3>4. watch[i].hr \in HRs /\ watch'[i].obj = cluster'[watch'[i].hr]
        BY <1>3, <2>1, <3>1, <3>2, <3>3
      <3>5. ASSUME NEW j \in 1..(n + 1), j > i
            PROVE  watch'[j].hr # watch'[i].hr
        <4>1. CASE j \in 1..n
          BY <1>2, <3>1, <3>3, <3>5, <4>1
        <4>2. CASE j = n + 1
          BY <1>2, <3>1, <3>2, <4>2
        <4> QED
          BY <1>n, <4>1, <4>2
      <3> QED
        BY <3>4, <3>5
    <2>7. watch'[n + 1].obj = cluster'[watch'[n + 1].hr]
      BY <1>2, <2>2
    <2> QED
      BY <1>2, <1>n, <2>5, <2>6, <2>7 DEF CacheFaithful
  <1> QED
    BY <1>1, <1>4, <1>5

(* Who is marked changes by a Put only if it says so. *)
NoNewMark(h, obj) ==
    \/ obj.orphaned = NoLabel
    \/ /\ Exists(cluster[h])
       /\ obj.owner = cluster[h].owner
       /\ obj.orphaned = cluster[h].orphaned

LEMMA PutShort ==
    ASSUME StoreOK, NEW h \in HRs, NEW obj \in Objects, Exists(obj), Put(h, obj)
    PROVE  /\ \A g \in HRs : g # h => /\ cluster'[g] = cluster[g]
                                      /\ revision'[g] = revision[g]
           /\ revision[h] \in Nat
           /\ revision'[h] = revision[h] + 1
           /\ cluster'[h].rv = revision[h] + 1
           /\ cluster'[h].phase = obj.phase
           /\ cluster'[h].owner = obj.owner
           /\ cluster'[h].orphaned = obj.orphaned
           /\ Exists(cluster'[h])
           /\ Len(watch') = Len(watch) + 1
           /\ \A i \in 1..Len(watch) : watch'[i] = watch[i]
           /\ watch'[Len(watch')].hr = h
           /\ watch'[Len(watch')].obj = cluster'[h]
  <1>1. /\ revision' = [revision EXCEPT ![h] = @ + 1]
        /\ cluster' = [cluster EXCEPT ![h] = [obj EXCEPT !.rv = revision[h] + 1]]
        /\ revision \in [HRs -> Nat] /\ cluster \in [HRs -> Objects]
    BY PutShape DEF StoreOK, StoreType
  <1>2. cluster'[h] = [obj EXCEPT !.rv = revision[h] + 1]
    BY <1>1
  <1>3. /\ cluster'[h].phase = obj.phase /\ cluster'[h].owner = obj.owner
        /\ cluster'[h].orphaned = obj.orphaned
        /\ cluster'[h].rv = revision[h] + 1
    BY <1>2 DEF Objects
  <1> QED
    BY <1>1, <1>2, <1>3, PutShape DEF StoreOK, Exists

LEMMA PutEra ==
    ASSUME StoreOK, NEW h \in HRs, NEW obj \in Objects, Exists(obj),
           Put(h, obj), UNCHANGED cache, NoNewMark(h, obj)
    PROVE  LabelEra'
  <1>1. \A g \in HRs : g # h => cluster'[g] = cluster[g]
    BY PutShort
  <1>2. ASSUME NEW g \in HRs, Orphaned(cluster'[g])
        PROVE  /\ Orphaned(cluster[g])
               /\ \A o : SameEra(g, o) => SameEra(g, o)'
    <2>1. CASE g # h
      BY <1>1, <1>2, <2>1 DEF SameEra
    <2>2. CASE g = h
      <3>1. /\ Exists(cluster[h]) /\ cluster'[h].owner = cluster[h].owner
            /\ cluster'[h].orphaned = cluster[h].orphaned
        BY <1>2, <2>2, PutShort DEF NoNewMark, Orphaned
      <3> QED
        BY <1>2, <2>2, <3>1 DEF SameEra, Orphaned
    <2> QED
      BY <2>1, <2>2
  <1>3. SameEra(h, cluster[h])' <=> Exists(cluster'[h])
    BY DEF SameEra
  <1>4. ASSUME NEW g \in HRs, Orphaned(cluster'[g])
        PROVE  /\ SameEra(g, cache[g])'
               /\ \A i \in 1..Len(watch') :
                     watch'[i].hr = g => SameEra(g, watch[i].obj)'
    <2>1. /\ SameEra(g, cache[g])
          /\ \A i \in 1..Len(watch) : watch[i].hr = g => SameEra(g, watch[i].obj)
      BY <1>2, <1>4 DEF StoreOK, LabelEra
    <2>2. SameEra(g, cache[g])'
      BY <1>2, <1>4, <2>1 DEF SameEra
    <2>3. ASSUME NEW i \in 1..Len(watch'), watch'[i].hr = g
          PROVE  SameEra(g, watch[i].obj)'
      <3>1. CASE i \in 1..Len(watch)
        <4>1. watch'[i] = watch[i] /\ watch[i].hr = g
          BY <2>3, <3>1, PutShort
        <4>2. SameEra(g, watch[i].obj)
          BY <2>1, <3>1, <4>1
        <4> QED
          BY <1>2, <1>4, <4>1, <4>2 DEF SameEra
      <3>2. CASE i = Len(watch')
        BY <1>3, <2>3, <3>2, PutShort
      <3> QED
        BY <3>1, <3>2, PutShort DEF StoreOK, StoreType
    <2> QED
      BY <2>2, <2>3
  <1> QED
    BY <1>4 DEF LabelEra

(* The reconciles in progress are still right after a Put. *)
LEMMA PutTasks ==
    ASSUME StoreOK, NEW h \in HRs, NEW obj \in Objects, Exists(obj),
           Put(h, obj), now' = now, NoNewMark(h, obj),
           NEW l \in Layers, NEW t, TaskOK(l, t)
    PROVE  TaskOK(l, t)'
  <1>1. \A g \in HRs : t.copy[g].rv \in Nat /\ t.copy[g].rv <= revision[g]
    BY DEF TaskOK, Tasks, Objects
  <1>2. \A g \in HRs : t.copy[g].rv <= revision'[g]
    BY <1>1, PutShort
  <1>3. \A g \in HRs : Current(g, t.copy[g])' =>
           /\ cluster'[g] = cluster[g]
           /\ Current(g, t.copy[g])
    BY <1>1, PutShort DEF Current
  <1>4. \A g \in HRs : Settled(l, g) => Settled(l, g)'
    <2>1. ASSUME NEW g \in HRs, Settled(l, g),
                 cluster'[g].owner = l, Orphaned(cluster'[g])
          PROVE  ~Waiting(l, cluster[g].orphaned)'
      <3>1. CASE g # h
        BY <2>1, <3>1, PutShort DEF Settled, Waiting
      <3>2. CASE g = h
        BY <2>1, <3>2, PutShort DEF Settled, Waiting, NoNewMark, Orphaned
      <3> QED
        BY <3>1, <3>2
    <2> QED
      BY <2>1 DEF Settled
  <1>5. t.todo \subseteq HRs /\ t.victims \subseteq HRs /\ t \in Tasks
    BY DEF TaskOK, Tasks
  <1>6. AdoptOK(l, t)'
    BY <1>3, <1>5 DEF AdoptOK, TaskOK
  <1>7. ApplyOK(l, t)'
    BY <1>3, <1>5 DEF ApplyOK, TaskOK
  <1>8. PruneOK(l, t)'
    BY <1>4, <1>5 DEF PruneOK, TaskOK
  <1> QED
    BY <1>2, <1>5, <1>6, <1>7, <1>8 DEF TaskOK

LEMMA PutKeeps ==
    ASSUME StoreOK, NEW h \in HRs, NEW obj \in Objects, Exists(obj),
           Put(h, obj), UNCHANGED <<cache, now>>, NoNewMark(h, obj)
    PROVE  /\ StoreOK'
           /\ \A l \in Layers : \A t : TaskOK(l, t) => TaskOK(l, t)'
  <1>1. cache' = cache /\ now' = now
    OBVIOUS
  <1>2. StoreOK'
    BY <1>1, PutVersions, PutEra DEF StoreOK
  <1>3. ASSUME NEW l \in Layers, NEW t, TaskOK(l, t)
        PROVE  TaskOK(l, t)'
    BY <1>1, <1>3, PutTasks
  <1> QED
    BY <1>2, <1>3

(* Nothing on the cluster changes; the clock may go forward. *)
LEMMA StillTasks ==
    ASSUME StoreType, UNCHANGED <<cluster, revision>>, now \in Nat,
           now' \in Nat, now <= now', NEW l \in Layers, NEW t, TaskOK(l, t)
    PROVE  TaskOK(l, t)'
  <1>1. \A g \in HRs : Settled(l, g) => Settled(l, g)'
    <2>1. ASSUME NEW g \in HRs, Settled(l, g)
          PROVE  Settled(l, g)'
      <3>1. Delay[l] \in Nat
        BY DelayAssumption
      <3>2. cluster[g].orphaned \in Int
        BY DEF StoreType, Objects, Stamps, NoLabel
      <3> QED
        BY <2>1, <3>1, <3>2 DEF Settled, Waiting, Orphaned, Exists
    <2> QED
      BY <2>1
  <1>2. t \in Tasks /\ t.todo \subseteq HRs /\ t.victims \subseteq HRs
    BY DEF TaskOK, Tasks
  <1>3. AdoptOK(l, t)' /\ ApplyOK(l, t)'
    BY DEF TaskOK, AdoptOK, ApplyOK, Current
  <1>4. PruneOK(l, t)'
    BY <1>1, <1>2 DEF TaskOK, PruneOK
  <1> QED
    BY <1>2, <1>3, <1>4 DEF TaskOK

LEMMA StillStore ==
    ASSUME StoreOK, UNCHANGED <<store, cache>>
    PROVE  StoreOK'
    BY DEF StoreOK, store, StoreType, VersionsGrow, CacheFaithful, LabelEra,
           SameEra, Current

(* Removing a HelmRelease: what is absent is current nowhere. *)
LEMMA RemoveKeeps ==
    ASSUME StoreOK, NEW h \in HRs, Remove(h), UNCHANGED <<cache, now>>
    PROVE  /\ StoreOK'
           /\ \A l \in Layers : \A t : TaskOK(l, t) => TaskOK(l, t)'
  <1> DEFINE n == Len(watch)
  <1>1. /\ cluster' = [cluster EXCEPT ![h] = Absent]
        /\ watch' = Append(watch, [hr |-> h, obj |-> Absent])
        /\ revision' = revision /\ cache' = cache /\ now' = now
    BY DEF Remove
  <1>2. [hr |-> h, obj |-> Absent] \in [hr : HRs, obj : Objects]
    BY AbsentType
  <1>3. /\ cluster' \in [HRs -> Objects] /\ cluster'[h] = Absent
        /\ \A g \in HRs : g # h => cluster'[g] = cluster[g]
    BY <1>1, AbsentType DEF StoreOK, StoreType
  <1>4. watch' \in Seq([hr : HRs, obj : Objects])
    BY <1>1, <1>2 DEF StoreOK, StoreType
  <1>5. /\ Len(watch') = n + 1 /\ n \in Nat
        /\ \A i \in 1..n : watch'[i] = watch[i]
        /\ watch'[n + 1].hr = h /\ watch'[n + 1].obj = Absent
    BY <1>1, <1>2, WatchElement DEF StoreOK, StoreType
  <1>6. ~Exists(cluster'[h]) /\ Absent.rv = 0
    BY <1>3 DEF Exists, Absent
  <1>7. \A g \in HRs : \A o : Current(g, o)' => g # h /\ Current(g, o)
    BY <1>3, <1>6 DEF Current
  <1>8. \A i \in 1..n : watch[i].hr \in HRs
    BY WatchElement DEF StoreOK
  <1> HIDE DEF n
  <1>9. StoreType'
    BY <1>1, <1>3, <1>4 DEF StoreOK, StoreType
  <1>10. VersionsGrow'
    <2>1. \A i \in 1..n : watch'[i].obj.rv <= revision'[watch'[i].hr]
      BY <1>1, <1>5 DEF StoreOK, VersionsGrow, n
    <2>2. watch'[n + 1].obj.rv <= revision'[watch'[n + 1].hr]
      BY <1>1, <1>5, <1>6 DEF StoreOK, StoreType
    <2>3. \A g \in HRs : /\ cache'[g].rv <= revision'[g]
                         /\ cluster'[g].rv <= revision'[g]
                         /\ Exists(cluster'[g]) =>
                               cluster'[g].rv = revision'[g] /\ revision'[g] > 0
      BY <1>1, <1>3, <1>6 DEF StoreOK, StoreType, VersionsGrow
    <2> QED
      BY <1>5, <2>1, <2>2, <2>3 DEF VersionsGrow
  <1>11. CacheFaithful'
    <2>1. ASSUME NEW g \in HRs, Current(g, cache[g])'
          PROVE  /\ cache'[g] = cluster'[g]
                 /\ \A i \in 1..Len(watch') : watch'[i].hr # g
      <3>1. g # h /\ Current(g, cache[g])
        BY <1>1, <1>7, <2>1
      <3>2. cache[g] = cluster[g] /\ \A i \in 1..n : watch[i].hr # g
        BY <3>1 DEF StoreOK, CacheFaithful, n
      <3> QED
        BY <1>1, <1>3, <1>5, <3>1, <3>2
    <2>2. ASSUME NEW i \in 1..(n + 1), Current(watch[i].hr, watch[i].obj)'
          PROVE  /\ watch'[i].obj = cluster'[watch'[i].hr]
                 /\ \A j \in 1..(n + 1) : j > i => watch'[j].hr # watch'[i].hr
      <3>1. i # n + 1
        BY <1>5, <1>6, <2>2 DEF Current
      <3>2. i \in 1..n /\ watch'[i] = watch[i] /\ watch[i].hr \in HRs
        BY <1>5, <1>8, <3>1
      <3>3. watch[i].hr # h /\ Current(watch[i].hr, watch[i].obj)
        BY <1>7, <2>2, <3>2
      <3>4. /\ watch[i].obj = cluster[watch[i].hr]
            /\ \A j \in 1..n : j > i => watch[j].hr # watch[i].hr
        BY <3>2, <3>3 DEF StoreOK, CacheFaithful, n
      <3>5. watch'[i].obj = cluster'[watch'[i].hr]
        BY <1>3, <3>2, <3>3, <3>4
      <3>6. ASSUME NEW j \in 1..(n + 1), j > i
            PROVE  watch'[j].hr # watch'[i].hr
        <4>1. CASE j \in 1..n
          BY <1>5, <3>2, <3>4, <3>6, <4>1
        <4>2. CASE j = n + 1
          BY <1>5, <3>2, <3>3, <4>2
        <4> QED
          BY <1>5, <4>1, <4>2
      <3> QED
        BY <3>5, <3>6
    <2> QED
      BY <1>5, <2>1, <2>2 DEF CacheFaithful
  <1>12. LabelEra'
    <2>1. ASSUME NEW g \in HRs, Orphaned(cluster'[g])
          PROVE  /\ SameEra(g, cache[g])'
                 /\ \A i \in 1..Len(watch') :
                       watch'[i].hr = g => SameEra(g, watch[i].obj)'
      <3>1. g # h /\ cluster'[g] = cluster[g] /\ Orphaned(cluster[g])
        BY <1>3, <1>6, <2>1 DEF Orphaned
      <3>2. /\ SameEra(g, cache[g])
            /\ \A i \in 1..n : watch[i].hr = g => SameEra(g, watch[i].obj)
        BY <3>1 DEF StoreOK, LabelEra, n
      <3>3. \A i \in 1..(n + 1) : watch'[i].hr = g => i \in 1..n
        BY <1>5, <3>1
      <3> QED
        BY <1>1, <1>5, <3>1, <3>2, <3>3 DEF SameEra
    <2> QED
      BY <2>1 DEF LabelEra
  <1>13. ASSUME NEW l \in Layers, NEW t, TaskOK(l, t)
         PROVE  TaskOK(l, t)'
    <2>1. t \in Tasks /\ t.todo \subseteq HRs /\ t.victims \subseteq HRs
      BY <1>13 DEF TaskOK, Tasks
    <2>2. \A g \in HRs : Settled(l, g) => Settled(l, g)'
      BY <1>1, <1>3, <1>6 DEF Settled, Orphaned, Waiting
    <2>3. AdoptOK(l, t)' /\ ApplyOK(l, t)'
      BY <1>3, <1>7, <1>13, <2>1 DEF TaskOK, AdoptOK, ApplyOK
    <2> QED
      BY <1>1, <1>13, <2>1, <2>2, <2>3 DEF TaskOK, PruneOK
  <1> QED
    BY <1>9, <1>10, <1>11, <1>12, <1>13 DEF StoreOK

(* The label is put on what the cache shows as it is: nothing else about   *)
(* this HelmRelease is on its way to the cache.                            *)
LEMMA MarkKeeps ==
    ASSUME StoreOK, now \in Nat, NEW l \in Layers, NEW h \in HRs,
           Exists(cache[h]), cache[h].owner = l, ~Orphaned(cache[h]),
           Current(h, cache[h]),
           Put(h, [cache[h] EXCEPT !.orphaned = now]), UNCHANGED <<cache, now>>
    PROVE  /\ StoreOK'
           /\ \A k \in Layers \ {l} : \A t : TaskOK(k, t) => TaskOK(k, t)'
           /\ \A g \in HRs \ {h} : Settled(l, g) => Settled(l, g)'
           /\ ~Waiting(l, now) => Settled(l, h)'
           /\ \A g \in HRs : revision[g] <= revision'[g]
  <1> DEFINE obj == [cache[h] EXCEPT !.orphaned = now]
             n   == Len(watch)
  <1>1. /\ obj \in Objects /\ obj.phase = cache[h].phase
        /\ obj.owner = l /\ obj.orphaned = now
    BY DEF StoreOK, StoreType, Objects, Stamps
  <1>2. Exists(obj) /\ cache[h] = cluster[h] /\ cluster[h].owner = l
    BY <1>1 DEF StoreOK, CacheFaithful, Exists
  <1>3. \A i \in 1..n : watch[i].hr # h
    BY DEF StoreOK, CacheFaithful
  <1> HIDE DEF obj
  <1>4. Put(h, obj) /\ cache' = cache /\ now' = now
    BY DEF obj
  <1>5. StoreType' /\ VersionsGrow' /\ CacheFaithful'
    BY <1>1, <1>2, <1>4, PutVersions
  <1>6. /\ \A g \in HRs : g # h => /\ cluster'[g] = cluster[g]
                                   /\ revision'[g] = revision[g]
        /\ revision[h] \in Nat /\ revision'[h] = revision[h] + 1
        /\ cluster'[h].rv = revision[h] + 1
        /\ cluster'[h].owner = l /\ cluster'[h].orphaned = now
        /\ Len(watch') = n + 1
        /\ \A i \in 1..n : watch'[i] = watch[i]
        /\ watch'[n + 1].hr = h /\ watch'[n + 1].obj = cluster'[h]
        /\ Exists(cluster'[h])
    BY <1>1, <1>2, <1>4, PutShort
  <1>7. n \in Nat
    BY WatchElement DEF StoreOK
  <1>r. \A g \in HRs : revision[g] \in Nat /\ revision[g] <= revision'[g]
    BY <1>6 DEF StoreOK, StoreType
  <1> HIDE DEF n
  <1>8. LabelEra'
    <2>1. ASSUME NEW g \in HRs, g # h, Orphaned(cluster'[g])
          PROVE  /\ SameEra(g, cache[g])'
                 /\ \A i \in 1..(n + 1) :
                       watch'[i].hr = g => SameEra(g, watch[i].obj)'
      <3>1. /\ SameEra(g, cache[g])
            /\ \A i \in 1..n : watch[i].hr = g => SameEra(g, watch[i].obj)
        BY <1>6, <2>1 DEF StoreOK, LabelEra, n
      <3>2. \A i \in 1..(n + 1) : watch'[i].hr = g => i \in 1..n
        BY <1>6, <1>7, <2>1
      <3> QED
        BY <1>4, <1>6, <2>1, <3>1, <3>2 DEF SameEra
    <2>2. SameEra(h, cache[h])'
      BY <1>2, <1>4, <1>6 DEF SameEra, Orphaned
    <2>3. \A i \in 1..(n + 1) : watch'[i].hr = h => SameEra(h, watch[i].obj)'
      BY <1>3, <1>6, <1>7 DEF SameEra, n
    <2> QED
      BY <1>6, <2>1, <2>2, <2>3 DEF LabelEra
  <1>9. StoreOK'
    BY <1>5, <1>8 DEF StoreOK
  <1>10. \A k \in Layers, g \in HRs :
            (k # l \/ g # h) => (Settled(k, g) => Settled(k, g)')
    BY <1>4, <1>6 DEF Settled, Waiting
  <1>11. ~Waiting(l, now) => Settled(l, h)'
    BY <1>4, <1>6 DEF Settled, Waiting
  <1>12. ASSUME NEW k \in Layers \ {l}, NEW t, TaskOK(k, t)
         PROVE  TaskOK(k, t)'
    <2>1. /\ t \in Tasks /\ t.todo \subseteq HRs /\ t.victims \subseteq HRs
          /\ \A g \in HRs : t.copy[g].rv \in Nat /\ t.copy[g].rv <= revision[g]
      BY <1>12 DEF TaskOK, Tasks, Objects
    <2>2. \A g \in HRs : Current(g, t.copy[g])' =>
             cluster'[g] = cluster[g] /\ Current(g, t.copy[g])
      BY <1>6, <2>1 DEF Current
    <2>3. \A g \in HRs : t.copy[g].rv <= revision'[g]
      BY <1>6, <2>1
    <2>4. AdoptOK(k, t)' /\ ApplyOK(k, t)'
      BY <1>12, <2>1, <2>2 DEF TaskOK, AdoptOK, ApplyOK
    <2>5. PruneOK(k, t)'
      BY <1>10, <1>12, <2>1 DEF TaskOK, PruneOK
    <2> QED
      BY <2>1, <2>3, <2>4, <2>5 DEF TaskOK
  <1> QED
    BY <1>9, <1>10, <1>11, <1>12, <1>r

(* The informer takes the next event; or it starts again from a list.      *)
LEMMA WatchKeeps ==
    ASSUME StoreOK, WatchEvent
    PROVE  StoreOK'
  <1> DEFINE n == Len(watch)
             e == Head(watch)
  <1>1. /\ cache' = [cache EXCEPT ![e.hr] = e.obj] /\ watch' = Tail(watch)
        /\ cluster' = cluster /\ revision' = revision
        /\ watch # <<>>
    BY DEF WatchEvent
  <1>2. /\ n \in Nat /\ n > 0 /\ e = watch[1] /\ Len(watch') = n - 1
        /\ \A i \in 1..(n - 1) : watch'[i] = watch[i + 1]
    BY <1>1 DEF StoreOK, StoreType
  <1>3. \A i \in 1..n : watch[i].hr \in HRs /\ watch[i].obj \in Objects
    BY WatchElement DEF StoreOK
  <1>4. watch' \in Seq([hr : HRs, obj : Objects])
    BY <1>1 DEF StoreOK, StoreType
  <1> HIDE DEF n, e
  <1>5. /\ e.hr \in HRs /\ e.obj \in Objects
        /\ cache'[e.hr] = e.obj
        /\ \A g \in HRs : g # e.hr => cache'[g] = cache[g]
        /\ cache' \in [HRs -> Objects]
    BY <1>1, <1>2, <1>3 DEF StoreOK, StoreType
  <1>6. StoreType'
    BY <1>1, <1>4, <1>5 DEF StoreOK, StoreType
  <1>7. VersionsGrow'
    BY <1>1, <1>2, <1>5 DEF StoreOK, VersionsGrow, n
  <1>8. CacheFaithful'
    <2>1. ASSUME NEW g \in HRs, Current(g, cache[g])'
          PROVE  /\ cache'[g] = cluster'[g]
                 /\ \A i \in 1..Len(watch') : watch'[i].hr # g
      <3>1. CASE g = e.hr
        <4>1. Current(watch[1].hr, watch[1].obj)
          BY <1>1, <1>2, <1>5, <2>1, <3>1 DEF Current
        <4>2. /\ watch[1].obj = cluster[watch[1].hr]
              /\ \A j \in 1..n : j > 1 => watch[j].hr # watch[1].hr
          BY <1>2, <4>1 DEF StoreOK, CacheFaithful, n
        <4> QED
          BY <1>1, <1>2, <1>5, <3>1, <4>2
      <3>2. CASE g # e.hr
        <4>1. Current(g, cache[g])
          BY <1>1, <1>5, <2>1, <3>2 DEF Current
        <4>2. cache[g] = cluster[g] /\ \A i \in 1..n : watch[i].hr # g
          BY <4>1 DEF StoreOK, CacheFaithful, n
        <4> QED
          BY <1>1, <1>2, <1>5, <3>2, <4>2
      <3> QED
        BY <3>1, <3>2
    <2>2. ASSUME NEW i \in 1..(n - 1), Current(watch[i].hr, watch[i].obj)'
          PROVE  /\ watch'[i].obj = cluster'[watch'[i].hr]
                 /\ \A j \in 1..(n - 1) : j > i => watch'[j].hr # watch'[i].hr
      <3>1. i + 1 \in 1..n /\ watch'[i] = watch[i + 1]
        BY <1>2
      <3>2. Current(watch[i + 1].hr, watch[i + 1].obj)
        BY <1>1, <2>2, <3>1 DEF Current
      <3>3. /\ watch[i + 1].obj = cluster[watch[i + 1].hr]
            /\ \A j \in 1..n : j > i + 1 => watch[j].hr # watch[i + 1].hr
        BY <3>1, <3>2 DEF StoreOK, CacheFaithful, n
      <3>4. \A j \in 1..(n - 1) : j + 1 \in 1..n /\ watch'[j] = watch[j + 1]
        BY <1>2
      <3> QED
        BY <1>1, <1>2, <3>1, <3>3, <3>4
    <2> QED
      BY <1>2, <2>1, <2>2 DEF CacheFaithful
  <1>9. LabelEra'
    <2>1. ASSUME NEW g \in HRs, Orphaned(cluster'[g])
          PROVE  /\ SameEra(g, cache[g])'
                 /\ \A i \in 1..(n - 1) :
                       watch'[i].hr = g => SameEra(g, watch[i].obj)'
      <3>1. /\ SameEra(g, cache[g])
            /\ \A i \in 1..n : watch[i].hr = g => SameEra(g, watch[i].obj)
        BY <1>1, <2>1 DEF StoreOK, LabelEra, n
      <3>2. \A j \in 1..(n - 1) : j + 1 \in 1..n /\ watch'[j] = watch[j + 1]
        BY <1>2
      <3>3. g = e.hr => SameEra(g, e.obj)
        BY <1>2, <3>1
      <3>5. SameEra(g, cache'[g])
        BY <1>5, <3>1, <3>3
      <3>6. \A i \in 1..(n - 1) : watch'[i].hr = g => SameEra(g, watch'[i].obj)
        BY <3>1, <3>2
      <3> QED
        BY <1>1, <3>5, <3>6 DEF SameEra
    <2> QED
      BY <1>2, <2>1 DEF LabelEra
  <1> QED
    BY <1>6, <1>7, <1>8, <1>9 DEF StoreOK

LEMMA RestartKeeps ==
    ASSUME StoreOK, Restart
    PROVE  StoreOK'
  <1>1. /\ cache' = cluster /\ watch' = <<>>
        /\ cluster' = cluster /\ revision' = revision
    BY DEF Restart
  <1>2. StoreType'
    BY <1>1 DEF StoreOK, StoreType
  <1>3. \A h \in HRs : cluster[h].rv <= revision[h]
    BY DEF StoreOK, VersionsGrow
  <1>4. Len(watch') = 0
    BY <1>1
  <1>5. VersionsGrow'
    BY <1>1, <1>3, <1>4 DEF StoreOK, VersionsGrow
  <1>6. CacheFaithful'
    BY <1>1, <1>4 DEF CacheFaithful
  <1>7. LabelEra'
    BY <1>1, <1>4 DEF LabelEra, SameEra, Orphaned
  <1> QED
    BY <1>2, <1>5, <1>6, <1>7 DEF StoreOK

-----------------------------------------------------------------------------
(* One step of a reconcile *)

LEMMA Frame ==
    ASSUME IInv, NEW l \in Layers, NEW t, Goto(l, t), UNCHANGED world,
           StoreOK', TaskOK(l, t)',
           \A k \in Layers \ {l} : \A s : TaskOK(k, s) => TaskOK(k, s)'
    PROVE  IInv'
  <1>1. WorldOK'
    BY DEF IInv, WorldOK, world
  <1>2. t \in Tasks
    BY DEF TaskOK
  <1>3. task \in [Layers -> Tasks] /\ \A k \in Layers : TaskOK(k, task[k])
    BY DEF IInv, TasksOK
  <1>4. /\ task' = [task EXCEPT ![l] = t] /\ task' \in [Layers -> Tasks]
        /\ task'[l] = t /\ \A k \in Layers \ {l} : task'[k] = task[k]
    BY <1>2, <1>3 DEF Goto
  <1>5. \A k \in Layers : TaskOK(k, task[k])'
    <2>1. ASSUME NEW k \in Layers \ {l}
          PROVE  TaskOK(k, task[k])'
      <3>1. TaskOK(k, task[k])
        BY <1>3
      <3>2. \A s : s = task[k] => TaskOK(k, s)'
        BY <3>1
      <3>3. task'[k] = task[k]
        BY <1>4
      <3> QED
        BY <3>2, <3>3 DEF TaskOK, AdoptOK, ApplyOK, PruneOK
    <2>2. TaskOK(l, task[l])'
      <3>1. task'[l] = t
        BY <1>4
      <3> QED
        BY <3>1 DEF TaskOK, AdoptOK, ApplyOK, PruneOK
    <2> QED
      BY <2>1, <2>2
  <1> QED
    BY <1>1, <1>4, <1>5 DEF IInv, TasksOK

LEMMA Quiet ==
    ASSUME IInv, NEW l \in Layers, NEW t, Goto(l, t), TaskOK(l, t),
           UNCHANGED <<world, store, cache>>
    PROVE  IInv'
  <1>1. StoreOK /\ StoreType /\ now \in Nat
    BY DEF IInv, StoreOK, WorldOK
  <1>2. /\ UNCHANGED <<cluster, revision>> /\ now' = now /\ UNCHANGED world
        /\ UNCHANGED <<store, cache>>
    BY DEF store, world
  <1>3. StoreOK'
    BY <1>1, <1>2, StillStore
  <1>4. \A k \in Layers : \A s : TaskOK(k, s) => TaskOK(k, s)'
    BY <1>1, <1>2, StillTasks
  <1> QED
    BY <1>2, <1>3, <1>4, Frame

LEMMA IdleTask ==
    ASSUME StoreType, NEW l \in Layers
    PROVE  TaskOK(l, Idle) /\ TaskOK(l, At("finalize"))
           /\ TaskOK(l, At("pruneSource")) /\ TaskOK(l, At("applySource"))
           /\ TaskOK(l, At("applyRead"))
    BY PlainTask DEF Idle, PCs

LEMMA StartReconcileStep ==
    ASSUME IInv, NEW l \in Layers, StartReconcile(l)
    PROVE  IInv'
  <1> DEFINE copy == [h \in HRs |-> IF h \in Orphans(l) THEN cache[h] ELSE Absent]
             t == [At("adoptSource") EXCEPT !.todo = Orphans(l), !.copy = copy]
  <1>1. StoreOK /\ StoreType
    BY DEF IInv, StoreOK
  <1>2. copy \in [HRs -> Objects] /\ Orphans(l) \in SUBSET HRs
    BY <1>1, AbsentType DEF StoreType, Orphans
  <1>3. \A h \in HRs : copy[h].rv <= revision[h]
    BY <1>1 DEF StoreOK, StoreType, VersionsGrow, Absent
  <1>4. \A h \in Orphans(l) : /\ Orphaned(copy[h])
                              /\ Current(h, copy[h]) => copy[h] = cluster[h]
    BY <1>1, <1>2 DEF StoreOK, CacheFaithful, Orphans
  <1> HIDE DEF copy
  <1>5. /\ t \in Tasks /\ t.pc = "adoptSource" /\ t.todo = Orphans(l)
        /\ t.copy = copy
    BY <1>2 DEF At, Tasks, PCs
  <1> HIDE DEF t
  <1>6. TaskOK(l, t)
    BY <1>3, <1>4, <1>5 DEF TaskOK, AdoptOK, ApplyOK, PruneOK
  <1>7. Goto(l, t) /\ UNCHANGED <<world, store, cache>>
    BY DEF StartReconcile, t, copy
  <1> QED
    BY <1>6, <1>7, Quiet

LEMMA AdoptSourceStep ==
    ASSUME IInv, NEW l \in Layers, AdoptSource(l)
    PROVE  IInv'
  <1> DEFINE mine == task[l].todo \cap Names(l)
             t == [task[l] EXCEPT !.pc = "adopt", !.todo = mine]
  <1>1. StoreType /\ TaskOK(l, task[l]) /\ task[l] \in Tasks
    BY DEF IInv, StoreOK, TasksOK, TaskOK
  <1>2. /\ t \in Tasks /\ t.pc = "adopt" /\ t.todo = mine
        /\ t.copy = task[l].copy
    BY <1>1 DEF Tasks, PCs
  <1>3. TaskOK(l, t)
    BY <1>1, <1>2 DEF TaskOK, AdoptOK, ApplyOK, PruneOK, AdoptSource
  <1> HIDE DEF t, mine
  <1>4. \/ Goto(l, At("pruneSource")) \/ Goto(l, t) \/ Goto(l, Idle)
    BY DEF AdoptSource, t, mine
  <1>5. UNCHANGED <<world, store, cache>>
    BY DEF AdoptSource
  <1> QED
    BY <1>1, <1>3, <1>4, <1>5, IdleTask, Quiet

LEMMA PlainSteps ==
    ASSUME IInv, NEW l \in Layers,
           \/ PrereqNotMet(l) \/ PruneSource(l) \/ DependenciesNotDeployed(l)
           \/ ApplyCompare(l) \/ StartDelete(l) \/ CallFails(l)
    PROVE  IInv'
  <1>1. StoreType
    BY DEF IInv, StoreOK
  <1>2. UNCHANGED <<world, store, cache>>
    BY DEF PrereqNotMet, PruneSource, DependenciesNotDeployed, ApplyCompare,
           StartDelete, CallFails
  <1>3. /\ Names(l) \in SUBSET HRs /\ OwnedInCache(l) \in SUBSET HRs
    BY DEF Names, OwnedInCache
  <1>4. /\ TaskOK(l, [At("pruneList") EXCEPT !.todo = Names(l)])
        /\ TaskOK(l, [At("orphanAll") EXCEPT !.todo = OwnedInCache(l)])
    BY <1>1, <1>3, PlainTask DEF PCs
  <1>5. \E t : Goto(l, t) /\ TaskOK(l, t)
    BY <1>1, <1>4, IdleTask DEF PrereqNotMet, PruneSource, StartDelete,
       DependenciesNotDeployed, ApplyCompare, CallFails
  <1> QED
    BY <1>2, <1>5, Quiet

LEMMA PruneListStep ==
    ASSUME IInv, NEW l \in Layers, PruneList(l)
    PROVE  IInv'
  <1> DEFINE gone == OwnedInCache(l) \ task[l].todo
             t == [At("orphan") EXCEPT !.todo = gone, !.victims = gone]
  <1>1. StoreType /\ gone \in SUBSET HRs
    BY DEF IInv, StoreOK, OwnedInCache
  <1> HIDE DEF gone
  <1>2. /\ t \in Tasks /\ t.pc = "orphan" /\ t.todo = gone
        /\ t.victims = gone /\ t.copy = NoCopy
    BY <1>1, AbsentType DEF At, Tasks, PCs
  <1>3. \A h \in HRs : NoCopy[h].rv <= revision[h]
    BY <1>1 DEF NoCopy, Absent, StoreType
  <1> HIDE DEF t
  <1>4. TaskOK(l, t)
    BY <1>2, <1>3 DEF TaskOK, AdoptOK, ApplyOK, PruneOK
  <1>5. /\ Goto(l, t) \/ Goto(l, At("applySource"))
        /\ UNCHANGED <<world, store, cache>>
    BY DEF PruneList, t, gone
  <1> QED
    BY <1>1, <1>4, <1>5, IdleTask, Quiet

LEMMA UpdateKeeps ==
    ASSUME StoreOK, now \in Nat, NEW h \in HRs, NEW obj \in Objects,
           Exists(obj), UNCHANGED <<cache, now>>, NoNewMark(h, obj),
           Update(h, obj) \/ Put(h, obj) \/ UNCHANGED store
    PROVE  /\ StoreOK'
           /\ \A l \in Layers : \A t : TaskOK(l, t) => TaskOK(l, t)'
  <1>1. CASE Put(h, obj)
    BY <1>1, PutKeeps
  <1>2. CASE UNCHANGED store
    <2>1. StoreOK'
      BY <1>2, StillStore
    <2>2. StoreType /\ cluster' = cluster /\ revision' = revision /\ now' = now
      BY <1>2 DEF StoreOK, store
    <2>3. \A l \in Layers : \A t : TaskOK(l, t) => TaskOK(l, t)'
      BY <2>2, StillTasks
    <2> QED
      BY <2>1, <2>3
  <1> QED
    BY <1>1, <1>2 DEF Update

(* A loop over todo goes on, or ends in a task that carries nothing.       *)
LEMMA LoopStep ==
    ASSUME IInv, NEW l \in Layers, NEW h \in HRs, NEW u,
           u = At("pruneSource") \/ u = Idle,
           task[l].pc \in {"adopt", "apply", "prune"},
           Next1(l, h, u) \/ Goto(l, Idle), UNCHANGED <<world, cache>>, StoreOK',
           \A k \in Layers : \A s : TaskOK(k, s) => TaskOK(k, s)'
    PROVE  IInv'
  <1> DEFINE t == [task[l] EXCEPT !.todo = @ \ {h}]
  <1>1. StoreType /\ TaskOK(l, task[l]) /\ task[l] \in Tasks
    BY DEF IInv, StoreOK, TasksOK, TaskOK
  <1>2. /\ t \in Tasks /\ t.pc = task[l].pc /\ t.todo = task[l].todo \ {h}
        /\ t.copy = task[l].copy
    BY <1>1 DEF Tasks
  <1>3. TaskOK(l, t)
    BY <1>1, <1>2 DEF TaskOK, AdoptOK, ApplyOK, PruneOK
  <1> HIDE DEF t
  <1>4. PICK s : s = t
    OBVIOUS
  <1>5. Goto(l, s) \/ Goto(l, u) \/ Goto(l, Idle)
    BY <1>4 DEF Next1, t
  <1>6. TaskOK(l, s)' /\ TaskOK(l, Idle)' /\ TaskOK(l, u)'
    <2>1. TaskOK(l, s) /\ TaskOK(l, u) /\ TaskOK(l, Idle)
      BY <1>1, <1>3, <1>4, IdleTask
    <2> HIDE <1>4
    <2> QED
      BY <2>1
  <1> QED
    BY <1>5, <1>6, Frame

LEMMA AdoptStep ==
    ASSUME IInv, NEW l \in Layers, Adopt(l)
    PROVE  IInv'
  <1>1. /\ StoreOK /\ StoreType /\ now \in Nat /\ task[l] \in Tasks
        /\ TaskOK(l, task[l]) /\ task[l].pc = "adopt"
        /\ UNCHANGED <<world, cache>> /\ now' = now
    BY DEF IInv, StoreOK, WorldOK, TasksOK, Adopt, world
  <1>2. PICK h \in task[l].todo :
          LET obj == task[l].copy[h]
          IN  IF Current(h, obj)
              THEN /\ Update(h, ChangeOwner(l, obj))
                   /\ Next1(l, h, At("pruneSource"))
              ELSE UNCHANGED store /\ Goto(l, Idle)
    BY DEF Adopt
  <1> DEFINE obj == task[l].copy[h]
             new == ChangeOwner(l, obj)
  <1>3. h \in HRs /\ obj \in Objects
    BY <1>1 DEF Tasks
  <1>4. Orphaned(obj)
    BY <1>1 DEF TaskOK, AdoptOK
  <1>5. /\ new \in Objects /\ Exists(new) /\ NoNewMark(h, new)
    BY <1>3, <1>4 DEF ChangeOwner, Objects, Exists, Orphaned, NoNewMark, Stamps
  <1>6. /\ Update(h, new) \/ UNCHANGED store
        /\ Next1(l, h, At("pruneSource")) \/ Goto(l, Idle)
    BY <1>2
  <1> HIDE DEF new, obj
  <1>7. StoreOK' /\ \A k \in Layers : \A s : TaskOK(k, s) => TaskOK(k, s)'
    BY <1>1, <1>3, <1>5, <1>6, UpdateKeeps
  <1> QED
    BY <1>1, <1>3, <1>6, <1>7, LoopStep

LEMMA PruneStep ==
    ASSUME IInv, NEW l \in Layers, Prune(l)
    PROVE  IInv'
  <1>1. /\ StoreOK /\ StoreType /\ now \in Nat /\ task[l] \in Tasks
        /\ task[l].pc = "prune"
        /\ UNCHANGED <<world, cache>> /\ now' = now
    BY DEF IInv, StoreOK, WorldOK, TasksOK, Prune, world
  <1>2. PICK h \in task[l].todo :
          /\ \/ /\ cluster[h].phase = "live"
                /\ Put(h, [cluster[h] EXCEPT !.phase = "terminating"])
             \/ UNCHANGED store
          /\ Next1(l, h, Idle) \/ Goto(l, Idle)
    BY DEF Prune
  <1> DEFINE new == [cluster[h] EXCEPT !.phase = "terminating"]
  <1>3. h \in HRs /\ cluster[h] \in Objects
    BY <1>1 DEF Tasks, StoreType
  <1>4. /\ new \in Objects /\ Exists(new)
        /\ Exists(cluster[h]) => NoNewMark(h, new)
    BY <1>3 DEF Objects, Phases, Exists, NoNewMark
  <1>5. CASE cluster[h].phase = "live" /\ Put(h, new)
    <2>1. NoNewMark(h, new)
      BY <1>4, <1>5 DEF Exists
    <2> HIDE DEF new
    <2>2. StoreOK' /\ \A k \in Layers : \A s : TaskOK(k, s) => TaskOK(k, s)'
      BY <1>1, <1>3, <1>4, <1>5, <2>1, UpdateKeeps
    <2> QED
      BY <1>1, <1>2, <1>3, <2>2, LoopStep
  <1>6. CASE UNCHANGED store
    <2>1. StoreOK'
      BY <1>1, <1>6, StillStore
    <2>2. \A k \in Layers : \A s : TaskOK(k, s) => TaskOK(k, s)'
      BY <1>1, <1>6, StillTasks DEF store
    <2> QED
      BY <1>1, <1>2, <1>3, <2>1, <2>2, LoopStep
  <1> QED
    BY <1>2, <1>5, <1>6

LEMMA WaitingIsBoolean ==
    ASSUME NEW l \in Layers, NEW x \in Int, now \in Nat
    PROVE  \E w \in BOOLEAN : w = Waiting(l, x)
  <1>1. Delay[l] \in Nat
    BY DelayAssumption
  <1>2. (x + Delay[l] > now) \in BOOLEAN
    BY <1>1
  <1> QED
    BY <1>2, Zenon DEF Waiting

(* The verdict w on h is sound: so is what the reconcile makes of it.      *)
LEMMA JudgedStep ==
    ASSUME IInv, NEW l \in Layers, NEW h \in HRs, NEW w \in BOOLEAN,
           h \in task[l].todo, task[l].pc \in {"orphan", "orphanAll"},
           Judged(l, h, w), UNCHANGED <<world, cache>>, StoreOK',
           \A k \in Layers \ {l} : \A s : TaskOK(k, s) => TaskOK(k, s)',
           \A g \in HRs \ {h} : Settled(l, g) => Settled(l, g)',
           ~w => Settled(l, h)',
           \A g \in HRs : revision[g] <= revision'[g]
    PROVE  IInv'
  <1> DEFINE pending == task[l].pending \/ w
             rest    == task[l].todo \ {h}
             more    == [task[l] EXCEPT !.todo = rest, !.pending = pending]
             prune   == [At("prune") EXCEPT !.todo = task[l].victims]
  <1>1. /\ StoreOK /\ StoreType /\ StoreType' /\ TaskOK(l, task[l])
        /\ task[l] \in Tasks
    BY DEF IInv, StoreOK, TasksOK, TaskOK
  <1>2. /\ task[l].pending \in BOOLEAN /\ task[l].todo \subseteq HRs
        /\ task[l].victims \subseteq HRs
        /\ \A g \in HRs : /\ task[l].copy[g].rv \in Nat
                          /\ task[l].copy[g].rv <= revision[g]
                          /\ revision[g] \in Nat /\ revision'[g] \in Nat
    BY <1>1 DEF Tasks, Objects, TaskOK, StoreType
  <1>3. /\ more \in Tasks /\ more.pc = task[l].pc /\ more.todo = rest
        /\ more.pending = pending /\ more.victims = task[l].victims
        /\ more.copy = task[l].copy
    BY <1>1, <1>2 DEF Tasks
  <1>4. /\ prune \in Tasks /\ prune.pc = "prune" /\ prune.copy = NoCopy
        /\ prune.todo = task[l].victims
    BY <1>2, AbsentType DEF At, Tasks, PCs
  <1>5. /\ \/ rest # {} /\ Goto(l, more)
           \/ Goto(l, Idle)
           \/ Goto(l, At("finalize"))
           \/ /\ rest = {} /\ ~pending /\ task[l].pc = "orphan"
              /\ Goto(l, prune)
    BY DEF Judged
  <1>6. PICK m, p : m = more /\ p = prune
    OBVIOUS
  <1>7. CASE Goto(l, more)
    <2>1. /\ m \in Tasks /\ m.pc \in {"orphan", "orphanAll"}
          /\ \A g \in HRs : m.copy[g].rv <= revision'[g]
      BY <1>2, <1>3, <1>6
    <2>2. (m.pc = "orphan" /\ ~m.pending) =>
             \A g \in m.victims \ m.todo : Settled(l, g)'
      <3>1. SUFFICES ASSUME m.pc = "orphan", ~m.pending,
                            NEW g \in m.victims \ m.todo
                     PROVE  Settled(l, g)'
        OBVIOUS
      <3>2. CASE g = h
        BY <1>3, <1>6, <3>1, <3>2
      <3>3. CASE g # h
        <4>1. g \in task[l].victims \ task[l].todo /\ ~task[l].pending
              /\ task[l].pc = "orphan"
          BY <1>3, <1>6, <3>1, <3>3
        <4>2. g \in HRs /\ Settled(l, g)
          BY <1>1, <1>2, <4>1 DEF TaskOK, PruneOK
        <4> QED
          BY <3>3, <4>2
      <3> QED
        BY <3>2, <3>3
    <2>3. TaskOK(l, m)'
      BY <2>1, <2>2 DEF TaskOK, AdoptOK, ApplyOK, PruneOK
    <2> QED
      BY <1>6, <1>7, <2>3, Frame
  <1>8. CASE Goto(l, Idle) \/ Goto(l, At("finalize"))
    <2>1. \A pc \in {"idle", "finalize"} : TaskOK(l, At(pc))'
      <3>1. SUFFICES ASSUME NEW pc \in {"idle", "finalize"}
                     PROVE  TaskOK(l, At(pc))'
        OBVIOUS
      <3>2. /\ At(pc) \in Tasks /\ At(pc).pc = pc /\ At(pc).copy = NoCopy
        BY AbsentType DEF At, Tasks, PCs
      <3>3. \A g \in HRs : NoCopy[g].rv <= revision'[g]
        BY <1>2 DEF NoCopy, Absent
      <3> QED
        BY <3>2, <3>3 DEF TaskOK, AdoptOK, ApplyOK, PruneOK
    <2>2. TaskOK(l, Idle)' /\ TaskOK(l, At("finalize"))'
      BY <2>1 DEF Idle
    <2> QED
      BY <1>8, <2>2, Frame
  <1>9. CASE /\ rest = {} /\ ~pending /\ task[l].pc = "orphan"
             /\ Goto(l, prune)
    <2>1. /\ p \in Tasks /\ p.pc = "prune"
          /\ \A g \in HRs : p.copy[g].rv <= revision'[g]
      BY <1>2, <1>4, <1>6 DEF NoCopy, Absent
    <2>2. \A g \in p.todo : Settled(l, g)'
      <3>1. SUFFICES ASSUME NEW g \in p.todo PROVE Settled(l, g)'
        OBVIOUS
      <3>2. CASE g = h
        BY <1>9, <3>2
      <3>3. CASE g # h
        <4>1. g \in task[l].victims \ task[l].todo /\ ~task[l].pending
          BY <1>4, <1>6, <1>9, <3>1, <3>3
        <4>2. g \in HRs /\ Settled(l, g)
          BY <1>1, <1>2, <1>9, <4>1 DEF TaskOK, PruneOK
        <4> QED
          BY <3>3, <4>2
      <3> QED
        BY <3>2, <3>3
    <2>3. TaskOK(l, p)'
      BY <2>1, <2>2 DEF TaskOK, AdoptOK, ApplyOK, PruneOK
    <2> QED
      BY <1>6, <1>9, <2>3, Frame
  <1> QED
    BY <1>5, <1>7, <1>8, <1>9

LEMMA OrphanStep ==
    ASSUME IInv, NEW l \in Layers, Orphan(l)
    PROVE  IInv'
  <1>1. /\ StoreOK /\ StoreType /\ now \in Nat /\ task[l] \in Tasks
        /\ task[l].pc \in {"orphan", "orphanAll"}
        /\ UNCHANGED <<world, cache>> /\ now' = now
    BY DEF IInv, StoreOK, WorldOK, TasksOK, Orphan, world
  <1>2. PICK h \in task[l].todo :
          \/ /\ ~Exists(cache[h]) \/ cache[h].owner # l
             /\ UNCHANGED store /\ Judged(l, h, FALSE)
          \/ /\ Exists(cache[h]) /\ cache[h].owner = l /\ Orphaned(cache[h])
             /\ UNCHANGED store
             /\ Judged(l, h, Waiting(l, cache[h].orphaned))
          \/ /\ Exists(cache[h]) /\ cache[h].owner = l /\ ~Orphaned(cache[h])
             /\ Current(h, cache[h])
             /\ Update(h, [cache[h] EXCEPT !.orphaned = now])
             /\ Judged(l, h, Waiting(l, now))
          \/ UNCHANGED store /\ Goto(l, Idle)
    BY DEF Orphan
  <1>3. h \in HRs /\ cache[h] \in Objects
    BY <1>1 DEF Tasks, StoreType
  <1>4. CASE /\ UNCHANGED store
             /\ \/ /\ ~Exists(cache[h]) \/ cache[h].owner # l
                   /\ Judged(l, h, FALSE)
                \/ /\ Orphaned(cache[h])
                   /\ Judged(l, h, Waiting(l, cache[h].orphaned))
                \/ Goto(l, Idle)
    <2>1. StoreOK' /\ cluster' = cluster /\ revision' = revision
      BY <1>1, <1>4, StillStore DEF store
    <2>2. \A k \in Layers : \A s : TaskOK(k, s) => TaskOK(k, s)'
      BY <1>1, <2>1, StillTasks
    <2>3. \A g \in HRs : /\ Settled(l, g) => Settled(l, g)'
                         /\ revision[g] <= revision'[g]
      BY <1>1, <2>1 DEF Settled, Waiting, StoreType
    <2>4. CASE (~Exists(cache[h]) \/ cache[h].owner # l) /\ Judged(l, h, FALSE)
      <3>1. Settled(l, h)
        BY <1>1, <1>3, <2>4 DEF StoreOK, LabelEra, SameEra, Settled
      <3> QED
        BY <1>1, <1>3, <2>1, <2>2, <2>3, <2>4, <3>1, JudgedStep
    <2>5. CASE Orphaned(cache[h]) /\ Judged(l, h, Waiting(l, cache[h].orphaned))
      <3>1. ~Waiting(l, cache[h].orphaned) => Settled(l, h)
        BY <1>1, <1>3, <2>5 DEF StoreOK, LabelEra, SameEra, Settled, Orphaned
      <3>2. PICK w \in BOOLEAN : w = Waiting(l, cache[h].orphaned)
        <4>1. cache[h].orphaned \in Int
          BY <1>3 DEF Objects, Stamps, NoLabel
        <4> QED
          BY <1>1, <4>1, WaitingIsBoolean
      <3>3. Judged(l, h, w) /\ (~w => Settled(l, h)')
        BY <1>3, <2>3, <2>5, <3>1, <3>2
      <3> QED
        BY <1>1, <1>3, <2>1, <2>2, <2>3, <3>3, JudgedStep
    <2>6. CASE Goto(l, Idle)
      <3>1. TaskOK(l, Idle)
        BY <1>1, IdleTask
      <3> QED
        BY <1>1, <1>4, <2>6, <3>1, Quiet
    <2> QED
      BY <1>4, <2>4, <2>5, <2>6
  <1>5. CASE /\ Exists(cache[h]) /\ cache[h].owner = l /\ ~Orphaned(cache[h])
             /\ Current(h, cache[h])
             /\ Update(h, [cache[h] EXCEPT !.orphaned = now])
             /\ Judged(l, h, Waiting(l, now))
    <2>1. cache[h] = cluster[h]
      BY <1>1, <1>3, <1>5 DEF StoreOK, CacheFaithful
    <2>2. [cache[h] EXCEPT !.orphaned = now] # cluster[h]
      BY <1>1, <1>3, <1>5, <2>1 DEF Orphaned, Objects, NoLabel
    <2>3. Put(h, [cache[h] EXCEPT !.orphaned = now])
      BY <1>5, <2>2 DEF Update
    <2>4. PICK w \in BOOLEAN : w = Waiting(l, now)
      BY <1>1, WaitingIsBoolean
    <2>5. /\ StoreOK'
          /\ \A k \in Layers \ {l} : \A s : TaskOK(k, s) => TaskOK(k, s)'
          /\ \A g \in HRs \ {h} : Settled(l, g) => Settled(l, g)'
          /\ ~w => Settled(l, h)'
          /\ \A g \in HRs : revision[g] <= revision'[g]
      BY <1>1, <1>3, <1>5, <2>3, <2>4, MarkKeeps
    <2> QED
      BY <1>1, <1>3, <1>5, <2>4, <2>5, JudgedStep
  <1> QED
    BY <1>2, <1>4, <1>5

(* What the dry run hands back is the live object, but for the spec, and   *)
(* for the owner where there was none.                                     *)
LEMMA DryRunFaithful ==
    ASSUME StoreType, source \in [Layers -> [HRs -> Specs \cup {NoSpec}]],
           NEW l \in Layers, NEW claimed \in Claims(l)
    PROVE  /\ DryRun(l, claimed) \in [HRs -> Objects]
           /\ \A h \in HRs :
                 DryRun(l, claimed)[h].rv \in {0, cluster[h].rv}
           /\ \A h \in Names(l) :
                 Current(h, DryRun(l, claimed)[h]) =>
                    /\ DryRun(l, claimed)[h].phase = cluster[h].phase
                    /\ \/ DryRun(l, claimed)[h].owner = cluster[h].owner
                       \/ /\ cluster[h].owner = NoLayer
                          /\ DryRun(l, claimed)[h].owner = l
  <1> DEFINE D(h) ==
        [phase    |-> IF Exists(cluster[h]) THEN cluster[h].phase ELSE "live",
         owner    |-> IF h \in claimed THEN l ELSE cluster[h].owner,
         orphaned |-> cluster[h].orphaned,
         spec     |-> source[l][h],
         rv       |-> cluster[h].rv]
  <1>1. \A h \in HRs : cluster[h] \in Objects
    BY DEF StoreType
  <1>2. \A h \in Names(l) : DryRun(l, claimed)[h] = D(h)
    BY <1>1 DEF DryRun, Names, Objects, Exists
  <1>3. \A h \in HRs \ Names(l) : DryRun(l, claimed)[h] = Absent
    BY DEF DryRun
  <1>4. \A h \in HRs : D(h) \in Objects
    BY <1>1 DEF Objects, Phases, Exists
  <1>5. \A h \in HRs : DryRun(l, claimed)[h] \in Objects
    BY <1>2, <1>3, <1>4, AbsentType
  <1>6. DryRun(l, claimed) \in [HRs -> Objects]
    BY <1>5 DEF DryRun
  <1>7. claimed \cap Foreign(l) = {}
    BY DEF Claims
  <1>8. ASSUME NEW h \in Names(l), Current(h, D(h))
        PROVE  /\ D(h).phase = cluster[h].phase
               /\ \/ D(h).owner = cluster[h].owner
                  \/ cluster[h].owner = NoLayer /\ D(h).owner = l
    BY <1>7, <1>8 DEF Current, Foreign
  <1>9. \A h \in HRs : DryRun(l, claimed)[h].rv \in {0, cluster[h].rv}
    <2>1. \A h \in Names(l) : DryRun(l, claimed)[h].rv = cluster[h].rv
      <3>1. \A h : D(h).rv = cluster[h].rv
        OBVIOUS
      <3> HIDE DEF D
      <3> QED
        BY <1>2, <3>1
    <2>2. \A h \in HRs \ Names(l) : DryRun(l, claimed)[h].rv = 0
      BY <1>3 DEF Absent
    <2> QED
      BY <2>1, <2>2
  <1> QED
    BY <1>2, <1>6, <1>8, <1>9

LEMMA ReadForApplyStep ==
    ASSUME IInv, NEW l \in Layers, ApplySource(l) \/ ApplyRead(l)
    PROVE  IInv'
  <1>1. /\ StoreOK /\ StoreType /\ WorldOK
    BY DEF IInv, StoreOK
  <1>2. PICK to \in {"applyCompare", "apply"} :
          /\ \/ \E claimed \in Claims(l) :
                   \/ Goto(l, Idle)
                   \/ Goto(l, [At(to) EXCEPT !.todo = Names(l),
                                             !.copy = DryRun(l, claimed)])
             \/ Goto(l, Idle)
          /\ UNCHANGED <<world, store, cache>>
    BY DEF ApplySource, ApplyRead, ReadForApply
  <1>3. CASE Goto(l, Idle)
    BY <1>1, <1>2, <1>3, IdleTask, Quiet
  <1>4. ASSUME NEW claimed \in Claims(l),
               Goto(l, [At(to) EXCEPT !.todo = Names(l),
                                      !.copy = DryRun(l, claimed)])
        PROVE  IInv'
    <2> DEFINE copy == DryRun(l, claimed)
               t == [At(to) EXCEPT !.todo = Names(l), !.copy = copy]
    <2>1. /\ copy \in [HRs -> Objects]
          /\ \A h \in HRs : copy[h].rv \in {0, cluster[h].rv}
          /\ \A h \in Names(l) : Current(h, copy[h]) =>
                /\ copy[h].phase = cluster[h].phase
                /\ \/ copy[h].owner = cluster[h].owner
                   \/ cluster[h].owner = NoLayer /\ copy[h].owner = l
      BY <1>1, DryRunFaithful DEF WorldOK
    <2>2. \A h \in HRs : copy[h].rv <= revision[h]
      <3>1. \A h \in HRs : /\ revision[h] \in Nat /\ cluster[h].rv <= revision[h]
        BY <1>1 DEF StoreOK, StoreType, VersionsGrow
      <3> HIDE DEF copy
      <3> QED
        BY <2>1, <3>1
    <2> HIDE DEF copy
    <2>3. /\ t \in Tasks /\ t.pc = to /\ t.todo = Names(l) /\ t.copy = copy
          /\ Names(l) \subseteq HRs
      BY <2>1 DEF At, Tasks, PCs, Names
    <2> HIDE DEF t
    <2>4. TaskOK(l, t)
      BY <2>1, <2>2, <2>3 DEF TaskOK, AdoptOK, ApplyOK, PruneOK
    <2> QED
      BY <1>2, <1>4, <2>4, Quiet DEF t, copy
  <1> QED
    BY <1>2, <1>3, <1>4

LEMMA ApplyStep ==
    ASSUME IInv, NEW l \in Layers, Apply(l)
    PROVE  IInv'
  <1>1. /\ StoreOK /\ StoreType /\ now \in Nat /\ task[l] \in Tasks
        /\ TaskOK(l, task[l]) /\ task[l].pc = "apply"
        /\ UNCHANGED <<world, cache>> /\ now' = now
    BY DEF IInv, StoreOK, WorldOK, TasksOK, Apply, world
  <1> DEFINE obj(h) == [task[l].copy[h] EXCEPT !.orphaned = NoLabel]
  <1>2. PICK h \in task[l].todo :
          /\ \/ UNCHANGED store
             \/ Put(h, [obj(h) EXCEPT !.phase = "live"])
             \/ Current(h, obj(h)) /\ Update(h, obj(h))
          /\ Next1(l, h, Idle) \/ Goto(l, Idle)
    BY DEF Apply
  <1>3. /\ h \in HRs /\ task[l].copy[h] \in Objects
    BY <1>1 DEF Tasks
  <1>4. /\ obj(h) \in Objects /\ obj(h).orphaned = NoLabel
        /\ obj(h).rv = task[l].copy[h].rv
        /\ obj(h).phase = task[l].copy[h].phase
    BY <1>3 DEF Objects, Stamps
  <1>5. /\ [obj(h) EXCEPT !.phase = "live"] \in Objects
        /\ Exists([obj(h) EXCEPT !.phase = "live"])
        /\ NoNewMark(h, [obj(h) EXCEPT !.phase = "live"])
    BY <1>4 DEF Objects, Phases, Exists, NoNewMark
  <1>6. Current(h, obj(h)) => Exists(obj(h)) /\ NoNewMark(h, obj(h))
    BY <1>1, <1>4 DEF TaskOK, ApplyOK, Current, Exists, NoNewMark
  <1> HIDE DEF obj
  <1>7. StoreOK' /\ \A k \in Layers : \A s : TaskOK(k, s) => TaskOK(k, s)'
    <2>1. CASE UNCHANGED store
      <3>1. StoreOK'
        BY <1>1, <2>1, StillStore
      <3> QED
        BY <1>1, <2>1, <3>1, StillTasks DEF store
    <2>2. CASE Put(h, [obj(h) EXCEPT !.phase = "live"])
      BY <1>1, <1>3, <1>5, <2>2, UpdateKeeps
    <2>3. CASE Current(h, obj(h)) /\ Update(h, obj(h))
      BY <1>1, <1>3, <1>4, <1>6, <2>3, UpdateKeeps
    <2> QED
      BY <1>2, <2>1, <2>2, <2>3
  <1> QED
    BY <1>1, <1>2, <1>3, <1>7, LoopStep

LEMMA RemoveFinalizerStep ==
    ASSUME IInv, NEW l \in Layers, RemoveFinalizer(l)
    PROVE  IInv'
  <1>1. /\ StoreOK /\ StoreType /\ now \in Nat /\ now' = now
        /\ UNCHANGED <<store, cache>> /\ Goto(l, Idle)
        /\ cluster' = cluster /\ revision' = revision
    BY DEF IInv, StoreOK, WorldOK, RemoveFinalizer, store
  <1>2. StoreOK'
    BY <1>1, StillStore
  <1>3. WorldOK'
    BY DEF IInv, WorldOK, RemoveFinalizer
  <1>4. \A k \in Layers : \A s : TaskOK(k, s) => TaskOK(k, s)'
    BY <1>1, StillTasks
  <1>5. TaskOK(l, Idle)'
    BY <1>1, <1>4, IdleTask
  <1>6. TasksOK'
    <2>1. /\ task \in [Layers -> Tasks] /\ Idle \in Tasks
          /\ \A k \in Layers : TaskOK(k, task[k])
      BY <1>1, PlainTask DEF IInv, TasksOK, Idle, PCs
    <2>2. /\ task' \in [Layers -> Tasks]
          /\ \A k \in Layers : task'[k] \in {Idle, task[k]}
      BY <1>1, <2>1 DEF Goto
    <2>3. ASSUME NEW k \in Layers, NEW s, s = task'[k]
          PROVE  TaskOK(k, s)'
      BY <1>1, <1>4, <2>1, <2>2, <2>3, IdleTask
    <2> QED
      BY <2>2, <2>3 DEF TasksOK
  <1> QED
    BY <1>2, <1>3, <1>6 DEF IInv

-----------------------------------------------------------------------------
(* The surroundings *)

(* The reconciles stand still while the store changes. *)
LEMMA TasksStand ==
    ASSUME TasksOK, UNCHANGED task,
           \A k \in Layers : \A s : TaskOK(k, s) => TaskOK(k, s)'
    PROVE  TasksOK'
  <1>1. task' = task /\ task \in [Layers -> Tasks]
        /\ \A k \in Layers : TaskOK(k, task[k])
    BY DEF TasksOK
  <1>2. ASSUME NEW k \in Layers, NEW s, s = task[k]
        PROVE  TaskOK(k, s)'
    BY <1>1, <1>2
  <1>3. \A k \in Layers : TaskOK(k, task[k])'
    BY <1>1, <1>2
  <1> QED
    BY <1>1, <1>3 DEF TasksOK

LEMMA EnvironmentStep ==
    ASSUME IInv, Environment
    PROVE  IInv'
  <1>1. /\ StoreOK /\ StoreType /\ WorldOK /\ TasksOK /\ now \in Nat
    BY DEF IInv, StoreOK, WorldOK
  <1>2. ASSUME UNCHANGED <<store, cache, task>>, WorldOK', now <= now'
        PROVE  IInv'
    <2>1. /\ cluster' = cluster /\ revision' = revision /\ task' = task
          /\ UNCHANGED <<store, cache>> /\ now' \in Nat
      BY <1>2 DEF store, WorldOK
    <2>2. StoreOK'
      BY <1>1, <2>1, StillStore
    <2>3. \A k \in Layers : \A s : TaskOK(k, s) => TaskOK(k, s)'
      BY <1>1, <1>2, <2>1, StillTasks
    <2> QED
      BY <1>1, <1>2, <2>1, <2>2, <2>3, TasksStand DEF IInv
  <1>3. CASE Tick
    BY <1>1, <1>2, <1>3 DEF Tick, WorldOK
  <1>4. CASE \E l \in Layers : Edit(l)
    <2>1. PICK l \in Layers : Edit(l)
      BY <1>4
    <2>2. PICK h \in HRs, s \in Specs \cup {NoSpec} :
             source' = [source EXCEPT ![l][h] = s]
      BY <2>1 DEF Edit
    <2>3. source' \in [Layers -> [HRs -> Specs \cup {NoSpec}]]
      BY <1>1, <2>2 DEF WorldOK
    <2> QED
      BY <1>1, <1>2, <2>1, <2>3 DEF Edit, WorldOK
  <1>5. CASE \E l \in Layers : DeleteLayer(l)
    BY <1>1, <1>2, <1>5 DEF DeleteLayer, WorldOK
  <1>6. ASSUME NEW h \in HRs, NEW obj \in Objects, Exists(obj), Put(h, obj),
               NoNewMark(h, obj), UNCHANGED <<world, cache, task>>
        PROVE  IInv'
    <2>1. StoreOK' /\ \A k \in Layers : \A s : TaskOK(k, s) => TaskOK(k, s)'
      BY <1>1, <1>6, PutKeeps DEF world
    <2>2. WorldOK'
      BY <1>1, <1>6 DEF WorldOK, world
    <2> QED
      BY <1>1, <1>6, <2>1, <2>2, TasksStand DEF IInv
  <1>7. CASE \E h \in HRs : CollectGarbage(h) \/ HelmStatus(h)
    <2>1. PICK h \in HRs : CollectGarbage(h) \/ HelmStatus(h)
      BY <1>7
    <2> DEFINE ended == [cluster[h] EXCEPT !.phase = "terminating"]
    <2>2. /\ cluster[h] \in Objects /\ ended \in Objects /\ Exists(ended)
          /\ Exists(cluster[h]) => /\ NoNewMark(h, ended)
                                   /\ NoNewMark(h, cluster[h])
      BY <1>1 DEF StoreType, Objects, Phases, Exists, NoNewMark
    <2>3. /\ Exists(cluster[h]) /\ UNCHANGED <<world, cache, task>>
          /\ Put(h, ended) \/ Put(h, cluster[h])
      BY <2>1 DEF CollectGarbage, HelmStatus, Exists
    <2> HIDE DEF ended
    <2> QED
      BY <1>6, <2>2, <2>3
  <1>8. CASE \E h \in HRs : HelmUninstalled(h)
    <2>1. PICK h \in HRs : HelmUninstalled(h)
      BY <1>8
    <2>2. /\ Remove(h) /\ UNCHANGED <<world, cache, task>>
          /\ UNCHANGED <<cache, now>>
      BY <2>1 DEF HelmUninstalled, world
    <2>3. StoreOK' /\ \A k \in Layers : \A s : TaskOK(k, s) => TaskOK(k, s)'
      BY <1>1, <2>2, RemoveKeeps
    <2>4. WorldOK'
      BY <1>1, <2>2 DEF WorldOK, world
    <2> QED
      BY <1>1, <2>2, <2>3, <2>4, TasksStand DEF IInv
  <1>9. CASE WatchEvent
    <2>1. /\ UNCHANGED <<world, cluster, revision, task>> /\ now' = now
          /\ cluster' = cluster /\ revision' = revision
      BY <1>9 DEF WatchEvent, world
    <2>2. StoreOK'
      BY <1>1, <1>9, WatchKeeps
    <2>3. \A k \in Layers : \A s : TaskOK(k, s) => TaskOK(k, s)'
      BY <1>1, <2>1, StillTasks
    <2>4. WorldOK'
      BY <1>1, <2>1 DEF WorldOK, world
    <2> QED
      BY <1>1, <2>1, <2>2, <2>3, <2>4, TasksStand DEF IInv
  <1>10. CASE Restart
    <2>1. /\ UNCHANGED <<world, cluster, revision>> /\ now' = now
          /\ cluster' = cluster /\ revision' = revision
          /\ task' = [l \in Layers |-> Idle]
      BY <1>10 DEF Restart, world
    <2>2. StoreOK'
      BY <1>1, <1>10, RestartKeeps
    <2>3. \A k \in Layers : \A s : TaskOK(k, s) => TaskOK(k, s)'
      BY <1>1, <2>1, StillTasks
    <2>4. WorldOK'
      BY <1>1, <2>1 DEF WorldOK, world
    <2>5. \A l \in Layers : TaskOK(l, Idle)'
      BY <1>1, <2>3, IdleTask
    <2>6. Idle \in Tasks
      BY <1>1, AbsentType DEF Idle, At, Tasks, PCs
    <2>7. TasksOK'
      <3>1. \A l \in Layers : task'[l] = Idle
        BY <2>1
      <3>2. \A l \in Layers : \A s : s = Idle => TaskOK(l, s)'
        BY <2>5
      <3> QED
        BY <2>1, <2>6, <3>1, <3>2 DEF TasksOK
    <2> QED
      BY <2>2, <2>4, <2>7 DEF IInv
  <1> QED
    BY <1>3, <1>4, <1>5, <1>7, <1>8, <1>9, <1>10 DEF Environment

LEMMA InitIInv ==
    ASSUME Init
    PROVE  IInv
  <1>1. WorldOK
    BY SourcesAssumption DEF Init, WorldOK
  <1>2. StoreType
    BY AbsentType DEF Init, StoreType
  <1>3. /\ \A h \in HRs : /\ cluster[h] = Absent /\ cache[h] = Absent
                          /\ revision[h] = 0
        /\ Len(watch) = 0
    BY DEF Init
  <1>4. ~Exists(Absent) /\ Absent.rv = 0
    BY DEF Exists, Absent
  <1>5. StoreOK
    BY <1>2, <1>3, <1>4 DEF StoreOK, VersionsGrow, CacheFaithful, Current,
       LabelEra, Orphaned
  <1>6. \A l \in Layers : TaskOK(l, Idle) /\ Idle \in Tasks
    BY <1>2, IdleTask DEF TaskOK
  <1>7. TasksOK
    BY <1>6 DEF Init, TasksOK
  <1> QED
    BY <1>1, <1>5, <1>7 DEF IInv

LEMMA NextIInv ==
    ASSUME IInv, [Next]_vars
    PROVE  IInv'
  <1>1. CASE Environment
    BY <1>1, EnvironmentStep
  <1>2. ASSUME NEW l \in Layers, Reconcile(l)
        PROVE  IInv'
    BY <1>2, StartReconcileStep, AdoptSourceStep, AdoptStep, PlainSteps,
       PruneListStep, OrphanStep, PruneStep, ReadForApplyStep, ApplyStep,
       RemoveFinalizerStep DEF Reconcile
  <1>3. CASE UNCHANGED vars
    <2>1. /\ UNCHANGED <<store, cache, world>> /\ now' = now /\ task' = task
          /\ cluster' = cluster /\ revision' = revision
      BY <1>3 DEF vars, store, world
    <2>2. StoreOK /\ StoreType /\ WorldOK /\ TasksOK /\ now \in Nat
      BY DEF IInv, StoreOK, WorldOK
    <2>3. StoreOK'
      BY <2>1, <2>2, StillStore
    <2>4. \A k \in Layers : \A s : TaskOK(k, s) => TaskOK(k, s)'
      BY <2>1, <2>2, StillTasks
    <2>5. WorldOK'
      BY <2>1, <2>2 DEF WorldOK, world
    <2> QED
      BY <2>1, <2>2, <2>3, <2>4, <2>5, TasksStand DEF IInv
  <1> QED
    BY <1>1, <1>2, <1>3 DEF Next

THEOREM Invariance == Spec => []IInv
  <1>1. Init => IInv
    BY InitIInv
  <1>2. IInv /\ [Next]_vars => IInv'
    BY NextIInv
  <1> QED
    BY <1>1, <1>2, PTL DEF Spec

-----------------------------------------------------------------------------
(* The results *)

(* Every reachable state is well typed, whatever the bounds. *)
THEOREM TypeCorrect == Spec => []TypeOK
  <1>1. IInv => TypeOK
    BY DEF IInv, WorldOK, StoreOK, StoreType, TasksOK, TypeOK
  <1> QED
    BY <1>1, Invariance, PTL

(* A HelmRelease about to be pruned that its layer still owns and that is  *)
(* still marked has waited for the interval of that layer.                 *)
THEOREM GraceHolds == Spec => []GraceBeforePrune
  <1>1. IInv => GraceBeforePrune
    <2>1. SUFFICES ASSUME IInv, NEW l \in Layers, task[l].pc = "prune",
                          NEW h \in task[l].todo, cluster[h].owner = l,
                          Orphaned(cluster[h])
                   PROVE  cluster[h].orphaned + Delay[l] <= now
      BY DEF GraceBeforePrune
    <2>2. /\ TaskOK(l, task[l]) /\ task[l] \in Tasks /\ StoreType /\ now \in Nat
      BY <2>1 DEF IInv, TasksOK, StoreOK, WorldOK
    <2>3. ~Waiting(l, cluster[h].orphaned)
      BY <2>1, <2>2 DEF TaskOK, PruneOK, Settled
    <2>4. cluster[h].orphaned \in Int
      BY <2>1, <2>2 DEF StoreType, Tasks, Objects, Stamps, NoLabel
    <2>5. Delay[l] \in Nat
      BY DelayAssumption
    <2> QED
      BY <2>2, <2>3, <2>4, <2>5 DEF Waiting
  <1> QED
    BY <1>1, Invariance, PTL

(* The ownership a reader of the contract sees, after a Put. *)
LEMMA PutSeen ==
    ASSUME StoreOK, NEW h \in HRs, NEW obj \in Objects, Exists(obj), Put(h, obj)
    PROVE  Owned' = [Owned EXCEPT ![h] = Seen(obj)]
  <1>1. /\ \A g \in HRs : g # h => cluster'[g] = cluster[g]
        /\ cluster'[h].phase = obj.phase
        /\ cluster'[h].owner = obj.owner
        /\ cluster'[h].orphaned = obj.orphaned
    BY PutShort
  <1> QED
    BY <1>1 DEF Owned, Seen

LEMMA StillSeen ==
    ASSUME cluster' = cluster
    PROVE  Owned' = Owned
    BY DEF Owned

(* How an object that is stored may differ from the one it replaces: it is *)
(* new, its label is dropped (with or without a new owner), it keeps both, *)
(* it is marked, or it is deleted.                                         *)
Allowed(h, obj) ==
    \/ /\ ~Exists(cluster[h])
       /\ obj.phase = "live" /\ obj.orphaned = NoLabel
    \/ /\ Exists(cluster[h]) /\ obj.phase = cluster[h].phase
       /\ \/ /\ obj.orphaned = NoLabel
             /\ \/ obj.owner = cluster[h].owner
                \/ obj.owner \in Layers /\ cluster[h].owner = NoLayer
                \/ obj.owner \in Layers /\ Orphaned(cluster[h])
          \/ /\ obj.owner = cluster[h].owner
             /\ obj.orphaned = cluster[h].orphaned
          \/ /\ obj.owner = cluster[h].owner /\ obj.orphaned = now
             /\ cluster[h].orphaned = NoLabel
             /\ cluster[h].owner # NoLayer
    \/ /\ cluster[h].phase = "live" /\ obj.phase = "terminating"
       /\ obj.owner = cluster[h].owner
       /\ obj.orphaned = cluster[h].orphaned

(* To store such an object is a step of the contract, or none.             *)
LEMMA PutRefines ==
    ASSUME StoreOK, NEW h \in HRs, NEW obj \in Objects, Exists(obj),
           Put(h, obj), UNCHANGED now, Allowed(h, obj)
    PROVE  Contract!Step(h) \/ Owned' = Owned
  <1>1. Owned' = [Owned EXCEPT ![h] = Seen(obj)]
    BY PutSeen
  <1>2. /\ Owned[h] = [phase |-> cluster[h].phase, owner |-> cluster[h].owner,
                       orphaned |-> cluster[h].orphaned]
        /\ Seen(obj) = [phase |-> obj.phase, owner |-> obj.owner,
                        orphaned |-> obj.orphaned]
        /\ Owned = [g \in HRs |-> Owned[g]]
        /\ obj.owner \in Layers \cup {NoLayer}
    BY DEF Owned, Seen, Objects
  <1>3. Contract!Becomes(h, Seen(obj))
    BY <1>1 DEF Contract!Becomes
  <1>4. Contract!NoLabel = NoLabel /\ (Contract!Exists(h) <=> Exists(cluster[h]))
    BY <1>2 DEF Contract!NoLabel, NoLabel, Contract!Exists, Exists
  <1>5. CASE /\ ~Exists(cluster[h])
             /\ obj.phase = "live" /\ obj.orphaned = NoLabel
    BY <1>2, <1>3, <1>4, <1>5 DEF Contract!Step, Contract!Create
  <1>6. CASE /\ Exists(cluster[h]) /\ obj.phase = cluster[h].phase
             /\ obj.owner = cluster[h].owner /\ obj.orphaned = NoLabel
    <2>1. CASE cluster[h].orphaned = NoLabel
      BY <1>1, <1>2, <1>6, <2>1
    <2>2. CASE cluster[h].orphaned # NoLabel
      <3>1. Seen(obj) = [Owned[h] EXCEPT !.orphaned = NoLabel]
        BY <1>2, <1>6
      <3> QED
        BY <1>2, <1>3, <1>4, <1>6, <2>2, <3>1
           DEF Contract!Step, Contract!Rescue
    <2> QED
      BY <2>1, <2>2
  <1>7. CASE /\ Exists(cluster[h]) /\ obj.phase = cluster[h].phase
             /\ obj.orphaned = NoLabel /\ obj.owner \in Layers
             /\ cluster[h].owner = NoLayer \/ Orphaned(cluster[h])
    <2>1. PICK o : o = obj.owner
      OBVIOUS
    <2>2. Seen(obj) = [phase |-> Owned[h].phase, owner |-> o,
                       orphaned |-> Contract!NoLabel]
      BY <1>2, <1>4, <1>7, <2>1
    <2>3. Contract!GivenTo(h, o)
      BY <1>3, <2>2 DEF Contract!GivenTo
    <2>4. Contract!Exists(h) /\ o \in Layers
      BY <1>4, <1>7, <2>1
    <2>5. CASE cluster[h].owner = NoLayer
      <3>1. Owned[h].owner = NoLayer
        BY <1>2, <2>5
      <3>2. Contract!Claim(h)
        BY <2>3, <2>4, <3>1 DEF Contract!Claim
      <3> QED
        BY <3>2 DEF Contract!Step
    <2>6. CASE Orphaned(cluster[h])
      <3>1. Owned[h].orphaned # Contract!NoLabel
        BY <1>2, <1>4, <2>6 DEF Orphaned
      <3>2. Contract!Adopt(h)
        BY <2>3, <2>4, <3>1 DEF Contract!Adopt
      <3> QED
        BY <3>2 DEF Contract!Step
    <2> QED
      BY <1>7, <2>5, <2>6
  <1>8. CASE /\ Exists(cluster[h]) /\ obj.phase = cluster[h].phase
             /\ obj.owner = cluster[h].owner
             /\ obj.orphaned = cluster[h].orphaned
    BY <1>1, <1>2, <1>8
  <1>9. CASE /\ Exists(cluster[h]) /\ obj.phase = cluster[h].phase
             /\ obj.owner = cluster[h].owner /\ obj.orphaned = now
             /\ cluster[h].orphaned = NoLabel /\ cluster[h].owner # NoLayer
    <2>1. Seen(obj) = [Owned[h] EXCEPT !.orphaned = now]
      BY <1>2, <1>9
    <2> QED
      BY <1>2, <1>3, <1>4, <1>9, <2>1 DEF Contract!Step, Contract!Mark
  <1>10. CASE /\ cluster[h].phase = "live" /\ obj.phase = "terminating"
              /\ obj.owner = cluster[h].owner
              /\ obj.orphaned = cluster[h].orphaned
    <2>1. Seen(obj) = [Owned[h] EXCEPT !.phase = "terminating"]
      BY <1>2, <1>10
    <2> QED
      BY <1>2, <1>3, <1>10, <2>1 DEF Contract!Step, Contract!Delete
  <1> QED
    BY <1>5, <1>6, <1>7, <1>8, <1>9, <1>10 DEF Allowed

LEMMA RemoveRefines ==
    ASSUME StoreOK, NEW h \in HRs, cluster[h].phase = "terminating",
           Remove(h), UNCHANGED now
    PROVE  Contract!Step(h)
  <1>1. cluster' = [cluster EXCEPT ![h] = Absent]
    BY DEF Remove
  <1>2. cluster \in [HRs -> Objects]
    BY DEF StoreOK, StoreType
  <1>3. Owned' = [Owned EXCEPT ![h] = Seen(Absent)]
    BY <1>1, <1>2 DEF Owned
  <1>4. Seen(Absent) = Contract!Absent
    BY DEF Seen, Absent, NoLabel, Contract!Absent, Contract!NoLabel
  <1>5. Owned[h].phase = "terminating"
    BY DEF Owned, Seen
  <1> QED
    BY <1>3, <1>4, <1>5 DEF Contract!Step, Contract!Vanish, Contract!Becomes

(* A step that leaves the clock alone and stores nothing but what is       *)
(* Allowed keeps the contract.                                             *)
LEMMA UpdateRefines ==
    ASSUME StoreOK, NEW h \in HRs, NEW obj \in Objects, Exists(obj),
           Update(h, obj) \/ Put(h, obj) \/ UNCHANGED store, UNCHANGED now,
           Allowed(h, obj)
    PROVE  Contract!Step(h) \/ Owned' = Owned
  <1>1. CASE Put(h, obj)
    BY <1>1, PutRefines
  <1>2. CASE UNCHANGED store
    BY <1>2, StillSeen DEF store
  <1> QED
    BY <1>1, <1>2 DEF Update

LEMMA AdoptRefines ==
    ASSUME IInv, NEW l \in Layers, Adopt(l)
    PROVE  Owned' = Owned \/ \E h \in HRs : Contract!Step(h)
  <1>1. /\ StoreOK /\ StoreType /\ task[l] \in Tasks /\ TaskOK(l, task[l])
        /\ task[l].pc = "adopt" /\ UNCHANGED now
    BY DEF IInv, StoreOK, TasksOK, Adopt, world
  <1> DEFINE obj(h) == task[l].copy[h]
             new(h) == ChangeOwner(l, obj(h))
  <1>2. PICK h \in task[l].todo :
           \/ Current(h, obj(h)) /\ Update(h, new(h))
           \/ UNCHANGED store
    BY DEF Adopt
  <1>3. h \in HRs /\ obj(h) \in Objects /\ Orphaned(obj(h))
    BY <1>1 DEF Tasks, TaskOK, AdoptOK
  <1>4. CASE UNCHANGED store
    BY <1>4, StillSeen DEF store
  <1>5. CASE Current(h, obj(h)) /\ Update(h, new(h))
    <2>1. obj(h) = cluster[h] /\ Exists(cluster[h]) /\ Orphaned(cluster[h])
      BY <1>1, <1>3, <1>5 DEF TaskOK, AdoptOK, Current
    <2>2. /\ new(h) \in Objects /\ new(h).orphaned = NoLabel
          /\ new(h).phase = cluster[h].phase
          /\ new(h).owner \in {l, cluster[h].owner}
      BY <1>3, <2>1 DEF ChangeOwner, Objects, Stamps
    <2> HIDE DEF new, obj
    <2>3. Exists(new(h)) /\ Allowed(h, new(h))
      BY <2>1, <2>2 DEF Allowed, Exists
    <2> QED
      BY <1>1, <1>3, <1>5, <2>2, <2>3, UpdateRefines
  <1> QED
    BY <1>2, <1>4, <1>5

LEMMA OrphanRefines ==
    ASSUME IInv, NEW l \in Layers, Orphan(l)
    PROVE  Owned' = Owned \/ \E h \in HRs : Contract!Step(h)
  <1>1. StoreOK /\ StoreType /\ now \in Nat /\ task[l] \in Tasks /\ UNCHANGED now
    BY DEF IInv, StoreOK, WorldOK, TasksOK, Orphan, world
  <1> DEFINE new(h) == [cache[h] EXCEPT !.orphaned = now]
  <1>2. PICK h \in task[l].todo :
           \/ /\ Exists(cache[h]) /\ cache[h].owner = l /\ ~Orphaned(cache[h])
              /\ Current(h, cache[h]) /\ Update(h, new(h))
           \/ UNCHANGED store
    BY DEF Orphan
  <1>3. h \in HRs /\ cache[h] \in Objects
    BY <1>1 DEF Tasks, StoreType
  <1>4. CASE UNCHANGED store
    BY <1>4, StillSeen DEF store
  <1>5. CASE /\ Exists(cache[h]) /\ cache[h].owner = l /\ ~Orphaned(cache[h])
             /\ Current(h, cache[h]) /\ Update(h, new(h))
    <2>1. cache[h] = cluster[h]
      BY <1>1, <1>3, <1>5 DEF StoreOK, CacheFaithful
    <2>2. /\ new(h) \in Objects /\ new(h).orphaned = now
          /\ new(h).phase = cluster[h].phase /\ new(h).owner = cluster[h].owner
      BY <1>1, <1>3, <2>1 DEF Objects, Stamps
    <2>3. /\ Exists(cluster[h]) /\ cluster[h].orphaned = NoLabel
          /\ cluster[h].owner # NoLayer
      BY <1>5, <2>1, LayersAssumption DEF Orphaned
    <2> HIDE DEF new
    <2>4. Exists(new(h)) /\ Allowed(h, new(h))
      BY <2>2, <2>3 DEF Allowed, Exists
    <2> QED
      BY <1>1, <1>3, <1>5, <2>2, <2>4, UpdateRefines
  <1> QED
    BY <1>2, <1>4, <1>5

(* Prune and the garbage collector. *)
LEMMA DeleteRefines ==
    ASSUME StoreOK, NEW h \in HRs, cluster[h].phase = "live", UNCHANGED now,
           Put(h, [cluster[h] EXCEPT !.phase = "terminating"])
    PROVE  Contract!Step(h) \/ Owned' = Owned
  <1> DEFINE new == [cluster[h] EXCEPT !.phase = "terminating"]
  <1>1. cluster[h] \in Objects
    BY DEF StoreOK, StoreType
  <1>2. /\ new \in Objects /\ new.phase = "terminating"
        /\ new.owner = cluster[h].owner /\ new.orphaned = cluster[h].orphaned
    BY <1>1 DEF Objects, Phases
  <1>3. Put(h, new)
    OBVIOUS
  <1> HIDE DEF new
  <1>4. Exists(new) /\ Allowed(h, new)
    BY <1>2 DEF Allowed, Exists
  <1> QED
    BY <1>2, <1>3, <1>4, PutRefines

LEMMA PruneRefines ==
    ASSUME IInv, NEW l \in Layers, Prune(l)
    PROVE  Owned' = Owned \/ \E h \in HRs : Contract!Step(h)
  <1>1. StoreOK /\ task[l] \in Tasks /\ UNCHANGED now
    BY DEF IInv, TasksOK, Prune, world
  <1>2. PICK h \in task[l].todo :
          \/ /\ cluster[h].phase = "live"
             /\ Put(h, [cluster[h] EXCEPT !.phase = "terminating"])
          \/ UNCHANGED store
    BY DEF Prune
  <1>3. h \in HRs
    BY <1>1 DEF Tasks
  <1>4. CASE UNCHANGED store
    BY <1>4, StillSeen DEF store
  <1> QED
    BY <1>1, <1>2, <1>3, <1>4, DeleteRefines

LEMMA ApplyRefines ==
    ASSUME IInv, NEW l \in Layers, Apply(l)
    PROVE  Owned' = Owned \/ \E h \in HRs : Contract!Step(h)
  <1>1. /\ StoreOK /\ StoreType /\ task[l] \in Tasks /\ TaskOK(l, task[l])
        /\ task[l].pc = "apply" /\ UNCHANGED now
    BY DEF IInv, StoreOK, TasksOK, Apply, world
  <1> DEFINE obj(h) == [task[l].copy[h] EXCEPT !.orphaned = NoLabel]
             born(h) == [obj(h) EXCEPT !.phase = "live"]
  <1>2. PICK h \in task[l].todo :
          \/ UNCHANGED store
          \/ ~Exists(cluster[h]) /\ Put(h, born(h))
          \/ Current(h, obj(h)) /\ Update(h, obj(h))
    BY DEF Apply
  <1>3. h \in HRs /\ task[l].copy[h] \in Objects
    BY <1>1 DEF Tasks
  <1>4. /\ obj(h) \in Objects /\ obj(h).orphaned = NoLabel
        /\ obj(h).rv = task[l].copy[h].rv
        /\ obj(h).phase = task[l].copy[h].phase
        /\ obj(h).owner = task[l].copy[h].owner
    BY <1>3 DEF Objects, Stamps
  <1>5. /\ born(h) \in Objects /\ born(h).orphaned = NoLabel
        /\ born(h).phase = "live"
    BY <1>4 DEF Objects, Phases
  <1>6. CASE UNCHANGED store
    BY <1>6, StillSeen DEF store
  <1> HIDE DEF obj, born
  <1>7. CASE ~Exists(cluster[h]) /\ Put(h, born(h))
    <2>1. Exists(born(h)) /\ Allowed(h, born(h))
      BY <1>5, <1>7 DEF Exists, Allowed
    <2> QED
      BY <1>1, <1>3, <1>5, <1>7, <2>1, PutRefines
  <1>8. CASE Current(h, obj(h)) /\ Update(h, obj(h))
    <2>1. Current(h, task[l].copy[h]) /\ Exists(cluster[h])
      BY <1>4, <1>8 DEF Current
    <2>2. /\ obj(h).phase = cluster[h].phase
          /\ \/ obj(h).owner = cluster[h].owner
             \/ cluster[h].owner = NoLayer /\ obj(h).owner \in Layers
      BY <1>1, <1>4, <2>1 DEF TaskOK, ApplyOK
    <2>3. Exists(obj(h)) /\ Allowed(h, obj(h))
      BY <1>4, <2>1, <2>2 DEF Exists, Allowed
    <2> QED
      BY <1>1, <1>3, <1>4, <1>8, <2>3, UpdateRefines
  <1> QED
    BY <1>2, <1>6, <1>7, <1>8

LEMMA EnvironmentRefines ==
    ASSUME IInv, Environment
    PROVE  (Owned' = Owned /\ now' = now) \/ Contract!Next
  <1>1. StoreOK /\ StoreType
    BY DEF IInv, StoreOK
  <1>2. CASE Tick
    BY <1>2, StillSeen DEF Tick, store, Contract!Next, Contract!Tick
  <1>3. CASE \/ \E l \in Layers : Edit(l) \/ DeleteLayer(l)
             \/ WatchEvent \/ Restart
    <2>1. cluster' = cluster /\ now' = now
      BY <1>3 DEF Edit, DeleteLayer, WatchEvent, Restart, world, store
    <2> QED
      BY <2>1, StillSeen
  <1>4. ASSUME NEW h \in HRs, CollectGarbage(h)
        PROVE  (Owned' = Owned /\ now' = now) \/ Contract!Step(h)
    <2>1. /\ cluster[h].phase = "live" /\ UNCHANGED now
          /\ Put(h, [cluster[h] EXCEPT !.phase = "terminating"])
      BY <1>4 DEF CollectGarbage, world
    <2> QED
      BY <1>1, <2>1, DeleteRefines
  <1>5. ASSUME NEW h \in HRs, HelmStatus(h)
        PROVE  (Owned' = Owned /\ now' = now) \/ Contract!Step(h)
    <2>1. Exists(cluster[h]) /\ Put(h, cluster[h]) /\ UNCHANGED now
      BY <1>5 DEF HelmStatus, world
    <2>2. Allowed(h, cluster[h]) /\ cluster[h] \in Objects
      BY <1>1, <2>1 DEF Allowed, StoreType
    <2> QED
      BY <1>1, <2>1, <2>2, PutRefines
  <1>6. ASSUME NEW h \in HRs, HelmUninstalled(h)
        PROVE  Contract!Step(h)
    <2>1. cluster[h].phase = "terminating" /\ Remove(h) /\ UNCHANGED now
      BY <1>6 DEF HelmUninstalled, world
    <2> QED
      BY <1>1, <2>1, RemoveRefines
  <1> QED
    BY <1>2, <1>3, <1>4, <1>5, <1>6 DEF Environment, Contract!Next

LEMMA ContractStep ==
    ASSUME IInv, [Next]_vars
    PROVE  [Contract!Next]_(Contract!vars)
  <1>1. CASE Environment
    BY <1>1, EnvironmentRefines DEF Contract!vars
  <1>2. ASSUME NEW l \in Layers, Reconcile(l)
        PROVE  Owned' = Owned \/ \E h \in HRs : Contract!Step(h)
    <2>1. CASE Adopt(l) \/ Orphan(l) \/ Prune(l) \/ Apply(l)
      BY <2>1, AdoptRefines, OrphanRefines, PruneRefines, ApplyRefines
    <2>2. CASE \/ StartReconcile(l) \/ AdoptSource(l) \/ PrereqNotMet(l)
               \/ PruneSource(l) \/ PruneList(l) \/ DependenciesNotDeployed(l)
               \/ ApplySource(l) \/ ApplyCompare(l) \/ ApplyRead(l)
               \/ StartDelete(l) \/ RemoveFinalizer(l) \/ CallFails(l)
      <3>1. cluster' = cluster
        BY <2>2 DEF StartReconcile, AdoptSource, PrereqNotMet, PruneSource,
           PruneList, DependenciesNotDeployed, ApplySource, ApplyCompare,
           ApplyRead, ReadForApply, StartDelete, RemoveFinalizer, CallFails,
           store
      <3> QED
        BY <3>1, StillSeen
    <2> QED
      BY <1>2, <2>1, <2>2 DEF Reconcile
  <1>3. ASSUME NEW l \in Layers, Reconcile(l)
        PROVE  now' = now
    BY <1>3 DEF Reconcile, StartReconcile, AdoptSource, Adopt, PrereqNotMet,
       PruneSource, PruneList, Orphan, Prune, DependenciesNotDeployed,
       ApplySource, ApplyCompare, ApplyRead, ReadForApply, Apply, StartDelete,
       RemoveFinalizer, CallFails, world
  <1>4. CASE UNCHANGED vars
    BY <1>4, StillSeen DEF vars, Contract!vars
  <1> QED
    BY <1>1, <1>2, <1>3, <1>4 DEF Next, Contract!Next, Contract!vars

LEMMA ContractInit ==
    ASSUME Init
    PROVE  Contract!Init
  <1>1. Seen(Absent) = Contract!Absent
    BY DEF Seen, Absent, NoLabel, Contract!Absent, Contract!NoLabel
  <1>2. Owned = [h \in HRs |-> Contract!Absent]
    BY <1>1 DEF Init, Owned
  <1> QED
    BY <1>2 DEF Init, Contract!Init

(* What the layers do together, seen as owners and labels, is what         *)
(* OwnershipContract allows.                                               *)
THEOREM ContractImplemented == Spec => ContractKept
  <1>1. Init => Contract!Init
    BY ContractInit
  <1>2. IInv /\ [Next]_vars => [Contract!Next]_(Contract!vars)
    BY ContractStep
  <1> QED
    BY <1>1, <1>2, Invariance, PTL DEF Spec, ContractKept, Contract!Spec

(* A HelmRelease that has an owner and no label never changes hands.       *)
THEOREM TransferHolds == Spec => TransferNeedsLabel
  <1>1. [Contract!Next]_(Contract!vars)
        => [Contract!LabelledTransfers]_(Contract!vars)
    <2>1. SUFFICES ASSUME Contract!Next PROVE Contract!LabelledTransfers
      OBVIOUS
    <2>2. CASE Contract!Tick
      BY <2>2 DEF Contract!Tick, Contract!LabelledTransfers, Contract!HandedOver
    <2>3. ASSUME NEW g \in HRs, Contract!Step(g)
          PROVE  Contract!LabelledTransfers
      <3>1. DOMAIN Owned = HRs
        BY DEF Owned
      <3>2. PICK r : Owned' = [Owned EXCEPT ![g] = r]
        BY <2>3 DEF Contract!Step, Contract!Create, Contract!Claim,
           Contract!Mark, Contract!Adopt, Contract!Rescue, Contract!Delete,
           Contract!Vanish, Contract!GivenTo, Contract!Becomes
      <3>3. \A h \in HRs : h # g => Owned'[h] = Owned[h]
        BY <3>1, <3>2
      <3>4. Contract!HandedOver(g) => Contract!MayBeHandedOver(g)
        <4>1. Owned[g] = [phase |-> cluster[g].phase, owner |-> cluster[g].owner,
                          orphaned |-> cluster[g].orphaned]
          BY DEF Owned, Seen
        <4> QED
          BY <2>3, <3>1, <4>1 DEF Contract!Step, Contract!Create,
             Contract!Claim, Contract!Mark, Contract!Adopt, Contract!Rescue,
             Contract!Delete, Contract!Vanish, Contract!GivenTo,
             Contract!Becomes, Contract!Exists, Contract!Absent,
             Contract!HandedOver, Contract!MayBeHandedOver
      <3> QED
        BY <3>3, <3>4 DEF Contract!LabelledTransfers, Contract!HandedOver
    <2> QED
      BY <2>1, <2>2, <2>3 DEF Contract!Next
  <1> QED
    BY <1>1, ContractImplemented, PTL
       DEF ContractKept, Contract!Spec, TransferNeedsLabel, Contract!TransferNeedsLabel
=============================================================================
