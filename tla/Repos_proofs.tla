---------------------------- MODULE Repos_proofs ----------------------------
(***************************************************************************)
(* For every set of layers, number of revisions, and bound: the types, that *)
(* no link is left behind, that layers are linked to whole data, and that   *)
(* no report is older than the read, or than the one before.  All follow    *)
(* from IInv.                                                               *)
(***************************************************************************)
EXTENDS Repos, TLAPS

-----------------------------------------------------------------------------
(* The invariant *)

Marks == {NoArtifact} \cup Revs

WorldOK ==
    /\ git \in {Gone} \cup Marks /\ head \in Revs
    /\ uses \in SUBSET Layers /\ leaving \in SUBSET Layers
    /\ edits \in 0..MaxEdits /\ crashes \in 0..MaxCrashes

IncomingOK == events \in Seq({Gone} \cup Marks) /\ seen \in {Gone} \cup Marks

MemoryOK ==
    /\ repos \in {None} \cup Objs /\ made \in {0} \cup Objs /\ repos <= made
    /\ objs \in [Objs -> [rev : Marks, users : SUBSET Layers]]

DiskOK == /\ dir \in [Revs -> {"none", "empty", "full", "partial"}]
          /\ link \in [Layers -> {NoLink} \cup Revs]

DropOK == removing \in BOOLEAN /\ due \in BOOLEAN

PCs == {"idle", "recheck", "list", "sync", "rename", "link", "linking", "tidy"}

Watches == [pc : PCs, queue : Seq(Marks), obj : {None} \cup Objs,
            todo : SUBSET Layers, linked : SUBSET Layers,
            at : Layers \cup {NoLayer}, target : {None} \cup Revs]

(* What a step of the watch relies on.  The objects at work are among those *)
(* this process has made.                                                   *)
WatchOK ==
    /\ watch \in Watches
    /\ watch.obj <= made
    /\ watch.pc \notin {"idle", "recheck", "list"} => watch.obj # None
    /\ watch.pc \in {"idle", "recheck"} <=> watch.queue = <<>>
    /\ watch.pc = "recheck" => seen # Gone
    /\ watch.pc = "linking" => watch.at \in Layers /\ watch.target \in Revs
    /\ watch.pc \in {"list", "sync", "rename"} => watch.linked = {}

Tasks == [pc : {"idle", "link", "linking", "read", "files", "report"},
          obj : {None} \cup Objs, rev : {None, Torn} \cup Revs]

TaskOK(t) == /\ t \in Tasks
             /\ t.obj <= made
             /\ t.pc # "idle" => t.obj # None
             /\ t.pc = "linking" => t.rev \in Revs

TasksOK == /\ task \in [Layers -> Tasks]
           /\ \A l \in Layers : TaskOK(task[l])

ReportOK == /\ read \in [Layers -> {None, Torn} \cup Revs]
            /\ deployed \in [Layers -> {None} \cup Revs]

Shape == /\ WorldOK /\ IncomingOK /\ MemoryOK /\ DiskOK /\ DropOK
         /\ WatchOK /\ TasksOK /\ ReportOK

Linking(l) == task[l].pc = "linking"

(* From the first link the mapper makes until the end of its TidyRepo, a link *)
(* that is made, or about to be made, leads to the revision that stays.       *)
LinksOK ==
    made = 1 /\ watch.pc \in {"link", "linking", "tidy"} =>
       /\ \A l \in watch.linked : link[l] = Rev
       /\ watch.pc = "linking" =>
             watch.target = Rev /\ \A l \in Layers : ~Linking(l)
       /\ watch.linked # {} =>
             \A l \in Layers : Linking(l) => task[l].rev = Rev

(* If the later one is a revision, it is not an older one. *)
Before(earlier, later) == later > 0 => earlier <= later

BeforeAll(rev, queue) == \A i \in 1..Len(queue) : Before(rev, queue[i])

(* Seen by the watch: all that is still to come is at least as new. *)
Seen(rev) == rev <= head /\ Before(rev, seen) /\ BeforeAll(rev, events)

InOrder(queue) == \A i, j \in 1..Len(queue) : i < j => Before(queue[i], queue[j])

EventsOK == /\ InOrder(events)
            /\ \A i \in 1..Len(events) : events[i] <= head

QueueOK == /\ InOrder(watch.queue)
           /\ \A i \in 1..Len(watch.queue) : Seen(watch.queue[i])

(* Mapped: all that is still to come to the repository object, or is in the *)
(* hands of the mapper, is at least as new.                                 *)
Handled(rev) == Seen(rev) /\ BeforeAll(rev, watch.queue)

OrderOK ==
    /\ git > 0 => git = head
    /\ EventsOK /\ Seen(seen) /\ QueueOK
    /\ repos # None => Handled(objs[repos].rev)

(* The repository object, too, holds one that is at least as new. *)
Past(rev) == Handled(rev) /\ (repos # None => Before(rev, objs[repos].rev))

(* What has been linked, read or reported, is about to be, or may yet be    *)
(* with an object at hand, came from a repository object.                   *)
PastOK ==
    /\ \A i \in Objs : Past(objs[i].rev)
    /\ watch.pc = "linking" => Past(watch.target)
    /\ \A l \in Layers :
          /\ Linking(l) => Past(task[l].rev)
          /\ Past(link[l]) /\ Past(read[l]) /\ Past(deployed[l])

(* Unless the process was started again, or the data is being dropped, a    *)
(* directory is without its data only until it is renamed, and half gone    *)
(* only while an older one is tidied away.                                  *)
Filling(r) == watch.pc = "rename" /\ Rev = r
Tidying(r) == watch.pc = "tidy" /\ Rev # r

DataOK ==
    crashes = 0 /\ ~removing =>
       /\ \A r \in Revs :
             /\ dir[r] = "empty" => Filling(r)
             /\ dir[r] = "partial" => Tidying(r)
       /\ watch.pc \in {"link", "linking"} /\ repos = watch.obj =>
             Rev \in Revs /\ dir[Rev] = "full"

IInv == Shape /\ LinksOK /\ OrderOK /\ PastOK /\ DataOK

-----------------------------------------------------------------------------
(* Facts about the values *)

LEMMA Constants ==
    /\ MaxRev \in Nat \ {0} /\ MaxLag \in Nat \ {0}
    /\ MaxEdits \in Nat /\ MaxCrashes \in Nat
    /\ Revs = 1..MaxRev /\ Objs = 1..(MaxEdits + 1)
    /\ Founders \subseteq Layers /\ NoLayer \notin Layers
  BY BoundsAssumption, LayersAssumption DEF Revs, Objs

LEMMA MappingType ==
    ASSUME NEW queue \in Seq(Marks)
    PROVE  /\ Mapping(queue) \in Watches
           /\ Mapping(queue).queue = queue
           /\ Mapping(queue).pc = IF queue = <<>> THEN "idle" ELSE "list"
           /\ Mapping(queue).obj = None /\ Mapping(queue).linked = {}
  BY DEF Mapping, Watches, PCs, Marks, None

(* What the mapper has yet to map *)
LEMMA TailFacts ==
    ASSUME NEW S, NEW s \in Seq(S), s # <<>>
    PROVE  /\ Len(s) \in Nat \ {0} /\ Head(s) = s[1] /\ s[1] \in S
           /\ Tail(s) \in Seq(S) /\ Len(Tail(s)) = Len(s) - 1
           /\ \A i \in 1..Len(Tail(s)) : Tail(s)[i] = s[i + 1]
  OBVIOUS

LEMMA StepFacts ==
    ASSUME watch \in Watches, NEW pc \in PCs
    PROVE  /\ Step(pc) \in Watches
           /\ Step(pc).pc = pc /\ Step(pc).queue = watch.queue
           /\ Step(pc).obj = watch.obj /\ Step(pc).linked = watch.linked
           /\ Step(pc).at = watch.at /\ Step(pc).target = watch.target
  BY DEF Step, Watches

LEMMA SameWorld == WorldOK /\ UNCHANGED world => WorldOK'
  BY DEF WorldOK, world

LEMMA SameIncoming == IncomingOK /\ UNCHANGED incoming => IncomingOK'
  BY DEF IncomingOK, incoming

LEMMA SameMemory == MemoryOK /\ UNCHANGED memory => MemoryOK'
  BY DEF MemoryOK, memory

LEMMA SameDisk == DiskOK /\ UNCHANGED disk => DiskOK'
  BY DEF DiskOK, disk

LEMMA SameDrop == DropOK /\ UNCHANGED drop => DropOK'
  BY DEF DropOK, drop

LEMMA SameReport == ReportOK /\ UNCHANGED report => ReportOK'
  BY DEF ReportOK, report

LEMMA SameWatch ==
    ASSUME MemoryOK, WatchOK, UNCHANGED <<watch, seen>>, made' \in Nat, made' >= made
    PROVE  WatchOK'
  <1>1. made \in Nat /\ watch.obj \in Nat
    BY Constants DEF MemoryOK, WatchOK, Watches, None
  <1> QED
    BY <1>1 DEF WatchOK

LEMMA SameTasks ==
    ASSUME MemoryOK, TasksOK, task' = task, made' \in Nat, made' >= made
    PROVE  TasksOK'
  <1>1. made \in Nat
    BY Constants DEF MemoryOK
  <1>2. \A l \in Layers : task[l].obj \in Nat
    BY Constants DEF TasksOK, TaskOK, Tasks, None
  <1> QED
    BY <1>1, <1>2 DEF TasksOK, TaskOK

LEMMA AddMemory ==
    ASSUME MemoryOK, NEW rev \in Marks, Add(rev)
    PROVE  /\ MemoryOK' /\ made' \in Nat /\ made' >= made
           /\ repos' \in Objs /\ repos' <= made' /\ objs'[repos'].rev = rev
  <1>1. CASE repos = None
    <2>1. /\ made' = made + 1 /\ made' \in Objs /\ repos' = made'
          /\ objs' = [objs EXCEPT ![made'] = [rev |-> rev, users |-> {}]]
      BY <1>1 DEF Add, NewRepo
    <2> QED
      BY <2>1, Constants DEF MemoryOK
  <1>2. CASE repos # None
    <2>1. /\ repos \in Objs /\ UNCHANGED <<repos, made>>
          /\ objs' = [objs EXCEPT ![repos].rev = rev]
      BY <1>2 DEF Add, SetGitRepo, MemoryOK
    <2>2. objs[repos] \in [rev : Marks, users : SUBSET Layers]
      BY <2>1 DEF MemoryOK
    <2> QED
      BY <2>1, <2>2, Constants DEF MemoryOK
  <1> QED
    BY <1>1, <1>2

LEMMA WithoutType ==
    ASSUME DiskOK, NEW dirs, NEW from, NEW to \in {"none", "partial"}
    PROVE  Without(dirs, from, to) \in [Revs -> {"none", "empty", "full", "partial"}]
  BY DEF Without, DiskOK

LEMMA DeleteType ==
    ASSUME DiskOK, DropOK, Delete, UNCHANGED link, due' \in BOOLEAN
    PROVE  DiskOK' /\ DropOK'
  <1>1. CASE repos = None
    BY <1>1 DEF Delete, DiskOK, DropOK
  <1>2. CASE repos # None
    <2>1. dir' = Without(Revs, {"full"}, "partial") /\ removing' = TRUE
      BY <1>2 DEF Delete
    <2>2. dir' \in [Revs -> {"none", "empty", "full", "partial"}]
      BY <2>1, WithoutType
    <2> QED
      BY <2>1, <2>2 DEF DiskOK, DropOK
  <1> QED
    BY <1>1, <1>2

(* A new queue for the mapper *)
LEMMA MappingOK ==
    ASSUME MemoryOK', NEW queue \in Seq(Marks), watch' = Mapping(queue)
    PROVE  WatchOK'
  <1>1. made' \in Nat
    BY Constants DEF MemoryOK
  <1> QED
    BY <1>1, MappingType DEF WatchOK, None

-----------------------------------------------------------------------------
(* The types: the watches *)

LEMMA EventShape ==
    ASSUME Shape, Event
    PROVE  Shape'
  <1>1. /\ seen' = Head(events) /\ events' = Tail(events) /\ events # <<>>
        /\ UNCHANGED <<world, memory, link, due, task, report>>
        /\ watch.pc = "idle"
    BY DEF Event
  <1>2. WorldOK' /\ MemoryOK' /\ TasksOK' /\ ReportOK'
    BY <1>1, SameWorld, SameMemory, SameReport DEF Shape, TasksOK, TaskOK, memory
  <1>3. IncomingOK'
    BY <1>1, TailFacts DEF Shape, IncomingOK
  <1>4. DiskOK' /\ DropOK'
    <2>1. CASE seen' = Gone
      BY <1>1, <2>1, DeleteType DEF Event, Shape, DropOK
    <2>2. CASE seen' # Gone
      BY <1>1, <2>2 DEF Event, Shape, DiskOK, DropOK
    <2> QED
      BY <2>1, <2>2
  <1>5. WatchOK'
    <2>1. CASE seen' = Gone
      BY <1>1, <2>1 DEF Event, Shape, WatchOK, memory
    <2>2. CASE seen' # Gone
      <3>1. seen' \in Marks
        BY <1>3, <2>2 DEF IncomingOK
      <3>2. CASE seen = Gone
        <4>1. watch' = Mapping(<<seen'>>)
          BY <2>2, <3>2 DEF Event
        <4>2. <<seen'>> \in Seq(Marks)
          BY <3>1
        <4> QED
          BY <4>1, <4>2, <1>2, MappingOK
      <3>3. CASE seen # Gone /\ HasNewRevision(seen, seen')
        <4>1. watch' = Mapping(<<seen, seen'>>)
          BY <2>2, <3>3 DEF Event, UpdateEvent
        <4>2. seen \in Marks
          BY <3>3 DEF Shape, IncomingOK
        <4>3. <<seen, seen'>> \in Seq(Marks)
          BY <4>2, <3>1
        <4> QED
          BY <4>1, <4>3, <1>2, MappingOK
      <3>4. CASE seen # Gone /\ ~HasNewRevision(seen, seen')
        <4>1. watch' = Step("recheck")
          BY <2>2, <3>4 DEF Event
        <4> QED
          BY <1>1, <2>2, <4>1, StepFacts DEF Shape, WatchOK, PCs, memory
      <3> QED
        BY <3>2, <3>3, <3>4
    <2> QED
      BY <2>1, <2>2
  <1> QED
    BY <1>2, <1>3, <1>4, <1>5 DEF Shape

LEMMA ResyncShape ==
    ASSUME Shape, Resync
    PROVE  Shape'
  <1>1. /\ UNCHANGED <<world, incoming, memory, disk, drop, task, report>>
        /\ watch.pc = "idle" /\ seen # Gone /\ watch' = Step("recheck")
    BY DEF Resync
  <1>2. WatchOK'
    BY <1>1, StepFacts DEF Shape, WatchOK, PCs, memory, incoming
  <1>3. TasksOK'
    BY <1>1 DEF Shape, TasksOK, TaskOK, memory
  <1> QED
    BY <1>1, <1>2, <1>3, SameWorld, SameIncoming, SameMemory, SameDisk, SameDrop,
       SameReport DEF Shape

LEMMA RecheckShape ==
    ASSUME Shape, Recheck
    PROVE  Shape'
  <1>1. /\ UNCHANGED <<world, incoming, disk, drop, task, report>>
        /\ Add(seen) /\ seen \in Marks
        /\ watch' = Mapping(<<seen, seen>>) \/ watch' = Mapping(<<>>)
    BY DEF Recheck, UpdateEvent, Shape, WatchOK, IncomingOK
  <1>2. MemoryOK' /\ made' \in Nat /\ made' >= made
    BY <1>1, AddMemory DEF Shape
  <1>3. WatchOK'
    <2>1. <<seen, seen>> \in Seq(Marks) /\ <<>> \in Seq(Marks)
      BY <1>1
    <2> QED
      BY <1>1, <1>2, <2>1, MappingOK
  <1>4. TasksOK'
    BY <1>1, <1>2, SameTasks DEF Shape
  <1> QED
    BY <1>1, <1>2, <1>3, <1>4, SameWorld, SameIncoming, SameDisk, SameDrop,
       SameReport DEF Shape

LEMMA MappedShape ==
    ASSUME MemoryOK, WatchOK, MemoryOK', Mapped, watch.pc \notin {"idle", "recheck"}
    PROVE  WatchOK'
  <1>1. watch.queue \in Seq(Marks) /\ watch.queue # <<>>
    BY DEF WatchOK, Watches
  <1>2. Tail(watch.queue) \in Seq(Marks)
    BY <1>1, TailFacts
  <1> QED
    BY <1>2, MappingOK DEF Mapped

LEMMA RepoMapperShape ==
    ASSUME Shape, RepoMapper
    PROVE  Shape'
  <1>1. /\ UNCHANGED <<world, incoming, disk, drop, task, report>>
        /\ watch.pc = "list"
    BY DEF RepoMapper
  <1>2. MemoryOK' /\ TasksOK' /\ WatchOK'
    <2>1. CASE uses = {}
      <3>1. Mapped /\ UNCHANGED memory
        BY <2>1 DEF RepoMapper
      <3> QED
        BY <1>1, <3>1, SameMemory, MappedShape DEF Shape, TasksOK, TaskOK, memory
    <2>2. CASE uses # {}
      <3>1. /\ Add(Head(watch.queue))
            /\ watch' = [watch EXCEPT !.pc = "sync", !.obj = repos', !.todo = uses]
        BY <2>2 DEF RepoMapper
      <3>2. Head(watch.queue) \in Marks
        BY <1>1, TailFacts DEF Shape, WatchOK, Watches
      <3>3. /\ MemoryOK' /\ made' \in Nat /\ made' >= made
            /\ repos' \in Objs /\ repos' <= made'
        BY <3>1, <3>2, AddMemory DEF Shape
      <3>4. repos' # None
        BY <3>3, Constants DEF None
      <3>5. uses \in SUBSET Layers
        BY DEF Shape, WorldOK
      <3>6. WatchOK'
        BY <1>1, <3>1, <3>3, <3>4, <3>5 DEF Shape, WatchOK, Watches, PCs
      <3> QED
        BY <1>1, <3>3, <3>6, SameTasks DEF Shape
    <2> QED
      BY <2>1, <2>2
  <1> QED
    BY <1>1, <1>2, SameWorld, SameIncoming, SameDisk, SameDrop, SameReport DEF Shape

LEMMA WatchShape ==
    ASSUME Shape, UNCHANGED <<world, incoming, drop, task, report, repos, made>>,
           MemoryOK', DiskOK', WatchOK'
    PROVE  Shape'
  <1>1. TasksOK'
    BY DEF Shape, TasksOK, TaskOK
  <1> QED
    BY <1>1, SameWorld, SameIncoming, SameDrop, SameReport DEF Shape

LEMMA SyncShape ==
    ASSUME Shape, NothingToSync \/ Fetched \/ FetchFailed \/ Rename
    PROVE  Shape'
  <1>1. /\ UNCHANGED <<world, incoming, memory, link, drop, task, report>>
        /\ watch.pc \in {"sync", "rename"}
        /\ watch' = Step("link") \/ watch' = Step("rename") \/ Mapped
    BY DEF NothingToSync, Fetched, FetchFailed, Rename, disk
  <1>2. MemoryOK'
    BY <1>1, SameMemory DEF Shape
  <1>3. DiskOK'
    BY <1>1 DEF NothingToSync, Fetched, FetchFailed, Rename, disk, Shape, DiskOK
  <1>4. WatchOK'
    <2>1. CASE Mapped
      BY <1>1, <1>2, <2>1, MappedShape DEF Shape
    <2>2. ASSUME NEW pc \in {"link", "rename"}, watch' = Step(pc) PROVE WatchOK'
      BY <1>1, <2>2, StepFacts DEF Shape, WatchOK, PCs, memory, incoming
    <2> QED
      BY <1>1, <2>1, <2>2
  <1> QED
    BY <1>1, <1>2, <1>3, <1>4, WatchShape DEF memory

LEMMA LinkLayerShape ==
    ASSUME Shape, NEW l \in Layers, LinkLayer(l)
    PROVE  Shape'
  <1>1. /\ UNCHANGED <<world, incoming, memory, disk, drop, task, report>>
        /\ watch.pc = "link"
        /\ \/ Rev \in Revs /\ watch' = [watch EXCEPT !.pc = "linking",
                                !.todo = @ \ {l}, !.at = l, !.target = Rev]
           \/ watch' = [watch EXCEPT !.todo = @ \ {l}]
    BY DEF LinkLayer, LinkBegin, HasLayer, Rev
  <1>2. watch.todo \ {l} \in SUBSET Layers
    BY DEF Shape, WatchOK, Watches
  <1>3. WatchOK'
    <2>1. CASE Rev \in Revs /\ watch' = [watch EXCEPT !.pc = "linking",
                                !.todo = @ \ {l}, !.at = l, !.target = Rev]
      BY <1>1, <1>2, <2>1 DEF Shape, WatchOK, Watches, PCs, memory, incoming
    <2>2. CASE watch' = [watch EXCEPT !.todo = @ \ {l}]
      BY <1>1, <1>2, <2>2 DEF Shape, WatchOK, Watches, PCs, memory, incoming
    <2> QED
      BY <1>1, <2>1, <2>2
  <1> QED
    BY <1>1, <1>3, SameMemory, SameDisk, WatchShape DEF Shape, memory

LEMMA LayerLinkedShape ==
    ASSUME Shape, LayerLinked
    PROVE  Shape'
  <1>1. /\ UNCHANGED <<world, incoming, repos, made, dir, drop, task, report>>
        /\ watch.pc = "linking"
        /\ link' = [link EXCEPT ![watch.at] = watch.target]
        /\ objs' = [objs EXCEPT ![watch.obj].users = @ \cup {watch.at}]
        /\ watch' = [watch EXCEPT !.pc = "link", !.linked = @ \cup {watch.at},
                                  !.at = NoLayer, !.target = None]
    BY DEF LayerLinked, LinkEnd
  <1>2. watch.at \in Layers /\ watch.target \in Revs /\ watch.obj \in Objs
    BY <1>1 DEF Shape, WatchOK, Watches
  <1>3. DiskOK'
    BY <1>1, <1>2 DEF Shape, DiskOK
  <1>4. MemoryOK'
    <2>1. objs[watch.obj] \in [rev : Marks, users : SUBSET Layers]
      BY <1>2 DEF Shape, MemoryOK
    <2>2. objs[watch.obj].users \cup {watch.at} \in SUBSET Layers
      BY <1>2, <2>1
    <2> QED
      BY <1>1, <1>2, <2>1, <2>2 DEF Shape, MemoryOK
  <1>5. WatchOK'
    <2>1. watch.linked \cup {watch.at} \in SUBSET Layers
      BY <1>2 DEF Shape, WatchOK, Watches
    <2> QED
      BY <1>1, <1>2, <2>1 DEF Shape, WatchOK, Watches, PCs, None
  <1> QED
    BY <1>1, <1>3, <1>4, <1>5, WatchShape

LEMMA TidyShape ==
    ASSUME Shape, TidyRepo \/ Tidied
    PROVE  Shape'
  <1>1. /\ UNCHANGED <<world, incoming, memory, link, drop, task, report>>
        /\ watch.pc \in {"link", "tidy"}
        /\ watch' = Step("tidy") \/ Mapped
    BY DEF TidyRepo, Tidied
  <1>2. MemoryOK'
    BY <1>1, SameMemory DEF Shape
  <1>3. DiskOK'
    BY <1>1, WithoutType DEF TidyRepo, Tidied, Shape, DiskOK
  <1>4. WatchOK'
    <2>1. CASE Mapped
      BY <1>1, <1>2, <2>1, MappedShape DEF Shape
    <2>2. CASE watch' = Step("tidy")
      BY <1>1, <2>2, StepFacts DEF Shape, WatchOK, PCs, memory, incoming
    <2> QED
      BY <1>1, <2>1, <2>2
  <1> QED
    BY <1>1, <1>2, <1>3, <1>4, WatchShape DEF memory

LEMMA RemoveUserShape ==
    ASSUME Shape, NEW l \in Layers, RemoveUser(l)
    PROVE  Shape'
  <1>1. /\ UNCHANGED <<git, head, uses, edits, crashes, incoming, repos, made, disk,
                       removing, watch, task, report>>
        /\ leaving' = leaving \ {l}
    BY DEF RemoveUser
  <1>2. WorldOK'
    BY <1>1 DEF Shape, WorldOK
  <1>3. MemoryOK' /\ DropOK'
    <2>1. CASE repos = None
      BY <1>1, <2>1 DEF RemoveUser, Shape, MemoryOK, DropOK
    <2>2. CASE repos # None
      <3>1. /\ objs' = [objs EXCEPT ![repos].users = @ \ {l}]
            /\ due' = LastUser(repos, l)
        BY <2>2 DEF RemoveUser
      <3>2. repos \in Objs /\ objs[repos] \in [rev : Marks, users : SUBSET Layers]
        BY <2>2 DEF Shape, MemoryOK
      <3>3. objs[repos].users \ {l} \in SUBSET Layers
        BY <3>2
      <3> QED
        BY <1>1, <3>1, <3>2, <3>3 DEF Shape, MemoryOK, DropOK, LastUser
    <2> QED
      BY <2>1, <2>2
  <1>4. WatchOK' /\ TasksOK'
    BY <1>1 DEF Shape, WatchOK, TasksOK, TaskOK, incoming
  <1> QED
    BY <1>1, <1>2, <1>3, <1>4, SameIncoming, SameDisk, SameReport DEF Shape

LEMMA DropShape ==
    ASSUME Shape, DropRepo \/ Deleted
    PROVE  Shape'
  <1>1. /\ UNCHANGED <<world, incoming, made, objs, link, watch, task, report>>
        /\ repos' = repos \/ repos' = None
    BY DEF DropRepo, Deleted, memory
  <1>2. MemoryOK'
    BY <1>1, Constants DEF Shape, MemoryOK, None
  <1>3. DiskOK' /\ DropOK'
    <2>1. CASE DropRepo
      BY <1>1, <2>1, DeleteType DEF DropRepo, Shape
    <2>2. CASE Deleted
      BY <2>2 DEF Deleted, Shape, DiskOK, DropOK
    <2> QED
      BY <2>1, <2>2
  <1>4. WatchOK' /\ TasksOK'
    BY <1>1 DEF Shape, WatchOK, TasksOK, TaskOK, incoming
  <1> QED
    BY <1>1, <1>2, <1>3, <1>4, SameWorld, SameIncoming, SameReport DEF Shape

-----------------------------------------------------------------------------
(* The types: reconciles, the world outside, restarts *)

LEMMA TaskStep ==
    ASSUME TasksOK, NEW l \in Layers, NEW t, TaskOK(t), task' = [task EXCEPT ![l] = t],
           made' = made
    PROVE  TasksOK'
  BY DEF TasksOK, TaskOK

LEMMA IdleOK == MemoryOK => TaskOK(Idle)
  BY Constants DEF MemoryOK, TaskOK, Idle, Tasks, None

LEMMA ReconcileShape ==
    ASSUME Shape, NEW l \in Layers, Reconcile(l)
    PROVE  Shape'
  <1> DEFINE t == task[l]
  <1>1. UNCHANGED <<world, incoming, memory, dir, drop, watch>>
    BY DEF Reconcile, Start, WaitForData, DataLinked, ListFiles, ReadFiles,
           GetRevision, Fail, Stop, disk
  <1>2. MemoryOK' /\ WatchOK'
    BY <1>1, SameMemory DEF Shape, WatchOK, memory, incoming
  <1>3. TaskOK(t) /\ t \in Tasks
    BY DEF Shape, TasksOK, TaskOK
  <1>4. ASSUME NEW u, TaskOK(u), task' = [task EXCEPT ![l] = u],
               UNCHANGED <<disk, report>>
        PROVE  Shape'
    BY <1>1, <1>2, <1>4, TaskStep, SameWorld, SameIncoming, SameDisk, SameDrop,
       SameReport DEF Shape, memory
  <1>5. CASE Start(l)
    <2>1. repos \in Objs /\ repos # None /\ repos <= made
      BY <1>5 DEF Start, HasRevision, Shape, MemoryOK
    <2> DEFINE u == [Idle EXCEPT !.pc = "link", !.obj = repos]
    <2>2. Idle \in Tasks
      BY DEF Idle, Tasks
    <2>3. u \in Tasks /\ u.pc = "link" /\ u.obj = repos
      BY <2>1, <2>2 DEF Tasks
    <2>4. TaskOK(u)
      BY <2>1, <2>3 DEF TaskOK
    <2> QED
      BY <1>4, <1>5, <2>4 DEF Start
  <1>6. CASE WaitForData(l)
    <2>1. objs[t.obj].rev \in Revs
      BY <1>6 DEF WaitForData, LinkBegin, HasLayer
    <2>2. TaskOK([t EXCEPT !.pc = "linking", !.rev = objs[t.obj].rev])
      BY <1>3, <1>6, <2>1 DEF WaitForData, TaskOK, Tasks
    <2>3. task' = [task EXCEPT ![l] = [t EXCEPT !.pc = "linking",
                                                !.rev = objs[t.obj].rev]]
      BY <1>6 DEF WaitForData, Shape, TasksOK
    <2> QED
      BY <1>4, <1>6, <2>2, <2>3 DEF WaitForData
  <1>7. CASE DataLinked(l)
    <2>1. /\ t.pc = "linking" /\ link' = [link EXCEPT ![l] = t.rev]
          /\ task' = [task EXCEPT ![l] = [t EXCEPT !.pc = "read"]]
      BY <1>7 DEF DataLinked, LinkEnd, At, Shape, TasksOK
    <2>2. TaskOK([t EXCEPT !.pc = "read"])
      BY <1>3, <2>1 DEF TaskOK, Tasks
    <2>3. TasksOK'
      BY <1>1, <2>1, <2>2, TaskStep DEF Shape, memory
    <2>4. DiskOK'
      BY <1>1, <1>3, <2>1 DEF Shape, DiskOK, TaskOK
    <2>5. UNCHANGED report
      BY <1>7 DEF DataLinked
    <2> QED
      BY <1>1, <1>2, <2>3, <2>4, <2>5, SameWorld, SameIncoming, SameDrop, SameReport
         DEF Shape
  <1>8. CASE ListFiles(l)
    <2>1. PICK rev \in {Torn} \cup Revs :
             task' = [task EXCEPT ![l].pc = "files", ![l].rev = rev]
      BY <1>8 DEF ListFiles, HasLayer
    <2>2. TaskOK([t EXCEPT !.pc = "files", !.rev = rev])
      BY <1>3, <1>8 DEF ListFiles, TaskOK, Tasks
    <2>3. task' = [task EXCEPT ![l] = [t EXCEPT !.pc = "files", !.rev = rev]]
      BY <2>1 DEF Shape, TasksOK
    <2> QED
      BY <1>4, <1>8, <2>2, <2>3 DEF ListFiles
  <1>9. CASE ReadFiles(l)
    <2>1. task' = [task EXCEPT ![l] = [t EXCEPT !.pc = "report"]]
      BY <1>9 DEF ReadFiles, At, Shape, TasksOK
    <2>2. TaskOK([t EXCEPT !.pc = "report"])
      BY <1>3, <1>9 DEF ReadFiles, TaskOK, Tasks
    <2>3. TasksOK'
      BY <1>1, <2>1, <2>2, TaskStep DEF Shape, memory
    <2>4. ReportOK'
      BY <1>9 DEF ReadFiles, HasLayer, Shape, ReportOK
    <2>5. UNCHANGED disk
      BY <1>9 DEF ReadFiles
    <2> QED
      BY <1>1, <1>2, <2>3, <2>4, <2>5, SameWorld, SameIncoming, SameDrop, SameDisk
         DEF Shape
  <1>10. CASE GetRevision(l)
    <2>1. /\ task' = [task EXCEPT ![l] = Idle] /\ UNCHANGED disk
          /\ deployed' = [deployed EXCEPT ![l] = objs[repos].rev] /\ read' = read
          /\ objs[repos].rev \in Revs
      BY <1>10 DEF GetRevision, HasRevision
    <2>2. TasksOK'
      BY <1>1, <2>1, IdleOK, TaskStep DEF Shape, memory
    <2>3. ReportOK'
      BY <2>1 DEF Shape, ReportOK
    <2> QED
      BY <1>1, <1>2, <2>1, <2>2, <2>3, SameWorld, SameIncoming, SameDrop, SameDisk
         DEF Shape
  <1>11. CASE Fail(l) \/ Stop(l)
    BY <1>4, <1>11, IdleOK DEF Fail, Stop, Shape
  <1> QED
    BY <1>5, <1>6, <1>7, <1>8, <1>9, <1>10, <1>11 DEF Reconcile

LEMMA WorldShape ==
    ASSUME Shape, World
    PROVE  Shape'
  <1>1. /\ UNCHANGED <<crashes, seen, memory, disk, drop, watch, task, report>>
        /\ WorldOK' /\ events' \in Seq({Gone} \cup Marks)
    <2>1. CASE \E rev \in Revs : Publish(rev)
      BY <2>1 DEF Publish, Notify, Shape, WorldOK, IncomingOK, Marks
    <2>2. CASE DeleteGitRepository \/ CreateGitRepository
      <3>1. /\ UNCHANGED <<head, uses, crashes, leaving, seen, memory, disk, drop,
                            watch, task, report>>
            /\ git' \in {Gone} \cup Marks /\ events' = Append(events, git')
            /\ edits' = edits \/ (edits < MaxEdits /\ edits' = edits + 1)
        BY <2>2 DEF DeleteGitRepository, CreateGitRepository, Edit, Notify, Marks
      <3>2. edits' \in 0..MaxEdits
        BY <3>1, Constants DEF Shape, WorldOK
      <3>3. events' \in Seq({Gone} \cup Marks)
        BY <3>1 DEF Shape, IncomingOK
      <3> QED
        BY <3>1, <3>2, <3>3 DEF Shape, WorldOK
    <2>3. ASSUME NEW l \in Layers, LeaveSource(l) \/ JoinSource(l)
          PROVE  /\ UNCHANGED <<crashes, seen, memory, disk, drop, watch, task, report>>
                 /\ WorldOK' /\ events' \in Seq({Gone} \cup Marks)
      BY <2>3, Constants DEF LeaveSource, JoinSource, Edit, Shape, WorldOK, IncomingOK,
         incoming
    <2> QED
      BY <2>1, <2>2, <2>3 DEF World
  <1>2. IncomingOK' /\ WatchOK' /\ TasksOK'
    BY <1>1 DEF Shape, IncomingOK, WatchOK, TasksOK, TaskOK, memory
  <1> QED
    BY <1>1, <1>2, SameMemory, SameDisk, SameDrop, SameReport DEF Shape

LEMMA NoObjectsType == NoObjects \in [Objs -> [rev : Marks, users : SUBSET Layers]]
  BY DEF NoObjects, Marks

LEMMA StartingOK ==
    ASSUME repos' = None, made' = 0, objs' = NoObjects,
           watch' = Mapping(<<>>), task' = [l \in Layers |-> Idle]
    PROVE  MemoryOK' /\ WatchOK' /\ TasksOK'
  <1>1. MemoryOK'
    BY NoObjectsType DEF MemoryOK, None
  <1>2. WatchOK'
    <2>1. <<>> \in Seq(Marks)
      OBVIOUS
    <2> QED
      BY <1>1, <2>1, MappingOK
  <1>3. TasksOK'
    BY DEF TasksOK, TaskOK, Tasks, Idle, None
  <1> QED
    BY <1>1, <1>2, <1>3

LEMMA RestartShape ==
    ASSUME Shape, Restart
    PROVE  Shape'
  <1>1. MemoryOK' /\ WatchOK' /\ TasksOK'
    BY StartingOK DEF Restart
  <1>2. WorldOK'
    BY Constants DEF Restart, Shape, WorldOK
  <1>4. IncomingOK'
    <2>2. <<git>> \in Seq({Gone} \cup Marks) /\ <<>> \in Seq({Gone} \cup Marks)
      BY DEF Shape, WorldOK
    <2> QED
      BY <2>2 DEF Restart, IncomingOK
  <1>3. DropOK' /\ UNCHANGED <<disk, report>>
    BY DEF Restart, DropOK
  <1> QED
    BY <1>1, <1>2, <1>3, <1>4, SameDisk, SameReport DEF Shape

LEMMA InitShape == Init => Shape
  <1> SUFFICES ASSUME Init PROVE Shape
    OBVIOUS
  <1>1. MemoryOK
    BY NoObjectsType DEF Init, MemoryOK, None
  <1>2. WatchOK
    <2>1. watch = Mapping(<<>>) /\ made = 0 /\ None = 0
      BY DEF Init, None
    <2>2. <<>> \in Seq(Marks)
      OBVIOUS
    <2>3. /\ watch \in Watches /\ watch.queue = <<>> /\ watch.pc = "idle"
          /\ watch.obj = None
      BY <2>1, <2>2, MappingType, Zenon
    <2> QED
      BY <2>1, <2>2, <2>3 DEF WatchOK
  <1>3. WorldOK /\ IncomingOK
    BY Constants DEF Init, WorldOK, IncomingOK, Marks
  <1>4. DiskOK /\ DropOK /\ ReportOK
    BY DEF Init, DiskOK, DropOK, ReportOK
  <1>5. TasksOK
    BY <1>1, IdleOK DEF Init, TasksOK, TaskOK
  <1> QED
    BY <1>1, <1>2, <1>3, <1>4, <1>5 DEF Shape

LEMMA NextShape == Shape /\ [Next]_vars => Shape'
  <1> SUFFICES ASSUME Shape, [Next]_vars PROVE Shape'
    OBVIOUS
  <1>1. CASE SourceWatch
    BY <1>1, EventShape, RecheckShape, RepoMapperShape, SyncShape, LinkLayerShape,
       LayerLinkedShape, TidyShape DEF SourceWatch
  <1>2. CASE LayerWatch \/ Deleted
    BY <1>2, RemoveUserShape, DropShape DEF LayerWatch
  <1>3. CASE UNCHANGED vars
    BY <1>3, SameWorld, SameIncoming, SameMemory, SameDisk, SameDrop, SameReport
       DEF vars, Shape, WatchOK, TasksOK, TaskOK, incoming, memory
  <1> QED
    BY <1>1, <1>2, <1>3, ResyncShape, WorldShape, RestartShape, ReconcileShape DEF Next

-----------------------------------------------------------------------------
(* The links *)

LEMMA LinksSame ==
    ASSUME LinksOK, UNCHANGED <<made, link, task>>, Rev' = Rev, watch'.pc = watch.pc,
           watch'.linked = watch.linked, watch'.target = watch.target
    PROVE  LinksOK'
  BY DEF LinksOK, Linking

LEMMA NoLinks ==
    watch'.pc \notin {"link", "linking", "tidy"}
    \/ (watch'.pc \in {"link", "tidy"} /\ watch'.linked = {}) => LinksOK'
  BY DEF LinksOK

LEMMA MappedLinks ==
    ASSUME Shape, watch.pc \notin {"idle", "recheck"}, Mapped
    PROVE  LinksOK'
  <1>1. Tail(watch.queue) \in Seq(Marks)
    BY TailFacts DEF Shape, WatchOK, Watches
  <1>2. watch'.pc \in {"idle", "list"}
    BY <1>1, MappingType DEF Mapped
  <1> QED
    BY <1>2, NoLinks

(* With one repository object, all those who have one have the same. *)
LEMMA OneObject ==
    ASSUME Shape, made = 1
    PROVE  /\ watch.obj # None => watch.obj = 1
           /\ \A l \in Layers : task[l].pc # "idle" => task[l].obj = 1
  BY Constants DEF Shape, WatchOK, Watches, TasksOK, TaskOK, Tasks, None

LEMMA LinkLayerLinks ==
    ASSUME Shape, LinksOK, NEW l \in Layers, LinkLayer(l)
    PROVE  LinksOK'
  <1>1. /\ UNCHANGED <<made, objs, link, task>> /\ watch.pc = "link"
        /\ watch \in Watches
    BY DEF LinkLayer, memory, disk, Shape, WatchOK
  <1>2. CASE /\ ~Locked(watch.obj)
             /\ watch' = [watch EXCEPT !.pc = "linking", !.todo = @ \ {l},
                                       !.at = l, !.target = Rev]
    <2>1. /\ watch'.pc = "linking" /\ watch'.target = Rev
          /\ watch'.linked = watch.linked /\ watch'.obj = watch.obj
      BY <1>1, <1>2 DEF Watches
    <2>2. Rev' = Rev
      BY <1>1, <2>1 DEF Rev
    <2>3. made = 1 => \A k \in Layers : ~Linking(k)
      BY <1>1, <1>2, OneObject DEF Locked, Linking, Shape, WatchOK
    <2> QED
      BY <1>1, <2>1, <2>2, <2>3 DEF LinksOK, Linking
  <1>3. CASE watch' = [watch EXCEPT !.todo = @ \ {l}]
    <2>1. /\ watch'.pc = watch.pc /\ watch'.target = watch.target
          /\ watch'.linked = watch.linked /\ watch'.obj = watch.obj
      BY <1>1, <1>3 DEF Watches
    <2> QED
      BY <1>1, <2>1, LinksSame DEF Rev
  <1> QED
    BY <1>2, <1>3 DEF LinkLayer, LinkBegin

LEMMA LayerLinkedLinks ==
    ASSUME Shape, LinksOK, LayerLinked
    PROVE  LinksOK'
  <1>1. /\ UNCHANGED <<made, task>> /\ watch.pc = "linking"
        /\ watch \in Watches /\ watch.at \in Layers /\ watch.obj \in Objs
        /\ link \in [Layers -> {NoLink} \cup Revs]
        /\ objs \in [Objs -> [rev : Marks, users : SUBSET Layers]]
    BY DEF LayerLinked, Shape, WatchOK, Watches, DiskOK, MemoryOK
  <1>2. /\ watch'.pc = "link" /\ watch'.linked = watch.linked \cup {watch.at}
        /\ watch'.obj = watch.obj
    BY <1>1 DEF LayerLinked, Watches
  <1>3. Rev' = Rev
    BY <1>1, <1>2 DEF LayerLinked, Rev
  <1>4. /\ link'[watch.at] = watch.target
        /\ \A l \in Layers \ {watch.at} : link'[l] = link[l]
    BY <1>1 DEF LayerLinked, LinkEnd
  <1>5. watch.linked \in SUBSET Layers
    BY <1>1 DEF Watches
  <1> QED
    BY <1>1, <1>2, <1>3, <1>4, <1>5 DEF LinksOK, Linking

LEMMA SourceWatchLinks ==
    ASSUME Shape, LinksOK, SourceWatch \/ Resync
    PROVE  LinksOK'
  <1> USE NoLinks
  <1>1. CASE Event \/ Resync
    <2>1. watch' = watch \/ watch' = Step("recheck")
          \/ \E queue \in Seq(Marks) : watch' = Mapping(queue)
      <3>1. ASSUME Event, seen' # Gone, seen = Gone PROVE watch' = Mapping(<<seen'>>)
        BY <3>1 DEF Event
      <3>2. ASSUME Event, seen' # Gone, seen # Gone
            PROVE watch' = Step("recheck") \/ watch' = Mapping(<<seen, seen'>>)
        BY <3>2 DEF Event, UpdateEvent
      <3>3. seen \in {Gone} \cup Marks
        BY DEF Shape, IncomingOK
      <3>4. Event => seen' \in {Gone} \cup Marks
        BY EventShape DEF Shape, IncomingOK
      <3>5. ASSUME Event, seen' # Gone PROVE <<seen'>> \in Seq(Marks)
        BY <3>4, <3>5
      <3>6. ASSUME Event, seen' # Gone, seen # Gone PROVE <<seen, seen'>> \in Seq(Marks)
        BY <3>3, <3>4, <3>6
      <3>7. Event /\ seen' = Gone => watch' = watch
        BY DEF Event
      <3>8. Resync => watch' = Step("recheck")
        BY DEF Resync
      <3> QED
        BY <1>1, <3>1, <3>2, <3>5, <3>6, <3>7, <3>8
    <2>2. watch.pc = "idle" /\ watch \in Watches
      BY <1>1 DEF Event, Resync, Shape, WatchOK
    <2>3. watch'.pc \in {"idle", "recheck", "list"}
      BY <2>1, <2>2, MappingType, StepFacts DEF PCs
    <2> QED
      BY <2>3
  <1>2. CASE Recheck
    <2>1. seen \in Marks
      BY <1>2 DEF Recheck, Shape, WatchOK, IncomingOK
    <2>2. <<seen, seen>> \in Seq(Marks) /\ <<>> \in Seq(Marks)
      BY <2>1
    <2>3. watch' = Mapping(<<seen, seen>>) \/ watch' = Mapping(<<>>)
      BY <1>2 DEF Recheck, UpdateEvent
    <2>4. watch'.pc \in {"idle", "list"}
      BY <2>2, <2>3, MappingType
    <2> QED
      BY <2>4
  <1>3. CASE Mapped /\ watch.pc \notin {"idle", "recheck"}
    BY <1>3, MappedLinks
  <1>4. CASE RepoMapper /\ ~Mapped
    <2>1. watch' = [watch EXCEPT !.pc = "sync", !.obj = repos', !.todo = uses]
      BY <1>4 DEF RepoMapper
    <2>2. watch'.pc = "sync"
      BY <2>1 DEF Shape, WatchOK, Watches
    <2> QED
      BY <2>2
  <1>5. CASE (NothingToSync \/ Fetched \/ FetchFailed \/ Rename) /\ ~Mapped
    <2>1. /\ watch' = Step("rename") \/ watch' = Step("link")
          /\ watch.pc \in {"sync", "rename"}
      BY <1>5 DEF NothingToSync, Fetched, FetchFailed, Rename
    <2>2. watch'.pc \in {"rename", "link"} /\ watch'.linked = {}
      BY <2>1, StepFacts DEF Shape, WatchOK, PCs
    <2> QED
      BY <2>2
  <1>6. CASE TidyRepo
    <2>1. /\ watch' = Step("tidy") /\ watch.pc = "link"
          /\ UNCHANGED <<made, objs, link, task>>
      BY <1>6 DEF TidyRepo, memory
    <2>2. /\ watch'.pc = "tidy" /\ watch'.linked = watch.linked
          /\ watch'.obj = watch.obj
      BY <2>1, StepFacts DEF Shape, WatchOK, PCs
    <2> QED
      BY <2>1, <2>2 DEF LinksOK, Linking, Rev
  <1>7. /\ RepoMapper \/ NothingToSync \/ Fetched \/ FetchFailed \/ Rename \/ Tidied
               => watch.pc \notin {"idle", "recheck"}
        /\ Tidied => Mapped
    BY DEF RepoMapper, NothingToSync, Fetched, FetchFailed, Rename, Tidied
  <1> QED
    BY <1>1, <1>2, <1>3, <1>4, <1>5, <1>6, <1>7, LinkLayerLinks, LayerLinkedLinks
       DEF SourceWatch

(* All steps that leave the watch, the links and the revisions alone *)
LEMMA OtherLinks ==
    ASSUME Shape, LinksOK, LayerWatch \/ Deleted \/ World
    PROVE  LinksOK'
  <1>1. UNCHANGED <<made, link, task, watch>>
    BY DEF LayerWatch, RemoveUser, DropRepo, Deleted, World, Publish, DeleteGitRepository,
           CreateGitRepository, LeaveSource, JoinSource, memory, disk
  <1>2. \A i \in Objs : objs'[i].rev = objs[i].rev
    <2>1. CASE objs' = objs
      BY <2>1
    <2>2. ASSUME NEW l \in Layers, repos \in Objs,
                 objs' = [objs EXCEPT ![repos].users = @ \ {l}]
          PROVE  \A i \in Objs : objs'[i].rev = objs[i].rev
      BY <2>2 DEF Shape, MemoryOK
    <2>3. objs' = objs \/ \E l \in Layers :
             repos \in Objs /\ objs' = [objs EXCEPT ![repos].users = @ \ {l}]
      BY DEF LayerWatch, RemoveUser, DropRepo, Deleted, World, Publish,
             DeleteGitRepository, CreateGitRepository, LeaveSource, JoinSource, memory,
             Shape, MemoryOK
    <2> QED
      BY <2>1, <2>2, <2>3
  <1>3. CASE watch.pc \in {"link", "linking", "tidy"}
    <2>1. watch.obj \in Objs
      BY <1>3 DEF Shape, WatchOK, Watches
    <2>2. Rev' = Rev
      BY <1>1, <1>2, <2>1 DEF Rev
    <2> QED
      BY <1>1, <2>2, LinksSame
  <1>4. CASE watch.pc \notin {"link", "linking", "tidy"}
    BY <1>1, <1>4, NoLinks
  <1> QED
    BY <1>3, <1>4

LEMMA ReconcileLinks ==
    ASSUME Shape, LinksOK, NEW l \in Layers, Reconcile(l)
    PROVE  LinksOK'
  <1>1. /\ UNCHANGED <<made, objs, watch>> /\ Rev' = Rev
        /\ task \in [Layers -> Tasks] /\ link \in [Layers -> {NoLink} \cup Revs]
    BY DEF Reconcile, Start, WaitForData, DataLinked, ListFiles, ReadFiles, GetRevision,
           Fail, Stop, memory, Rev, Shape, TasksOK, DiskOK
  <1>2. \A k \in Layers \ {l} : task'[k] = task[k] /\ link'[k] = link[k]
    BY <1>1 DEF Reconcile, Start, WaitForData, DataLinked, LinkEnd, ListFiles, ReadFiles,
           GetRevision, Fail, Stop, At, disk
  <1>3. CASE WaitForData(l)
    <2>1. /\ task[l].pc # "idle" /\ ~Locked(task[l].obj) /\ link' = link
          /\ task'[l].rev = objs[task[l].obj].rev
      BY <1>1, <1>3 DEF WaitForData, LinkBegin, disk, Tasks
    <2>2. ASSUME made = 1, watch.pc \in {"link", "linking", "tidy"}
          PROVE  watch.pc # "linking" /\ task'[l].rev = Rev
      BY <2>1, <2>2, OneObject DEF Locked, Rev, Shape, WatchOK
    <2> QED
      BY <1>1, <1>2, <2>1, <2>2 DEF LinksOK, Linking
  <1>4. CASE DataLinked(l)
    <2>1. Linking(l) /\ ~Linking(l)' /\ link'[l] = task[l].rev
      BY <1>1, <1>4 DEF DataLinked, LinkEnd, At, Linking, Tasks
    <2>2. watch.linked \in SUBSET Layers
      BY DEF Shape, WatchOK, Watches
    <2>3. \A k \in Layers : Linking(k)' => Linking(k) /\ task'[k] = task[k]
      BY <1>2, <2>1 DEF Linking
    <2>4. CASE made = 1 /\ watch.pc \in {"link", "linking", "tidy"}
      <3>1. watch.pc # "linking"
        BY <2>1, <2>4 DEF LinksOK
      <3>2. \A k \in watch.linked : link'[k] = Rev
        BY <1>2, <2>1, <2>2, <2>4 DEF LinksOK
      <3> QED
        BY <1>1, <2>3, <2>4, <3>1, <3>2 DEF LinksOK
    <2> QED
      BY <1>1, <2>4 DEF LinksOK
  <1>5. CASE ~WaitForData(l) /\ ~DataLinked(l)
    <2>1. link' = link /\ ~Linking(l)'
      <3>1. CASE Start(l)
        BY <1>1, <3>1 DEF Start, Linking, Tasks, Idle, disk
      <3>2. CASE ListFiles(l) \/ ReadFiles(l)
        BY <1>1, <3>2 DEF ListFiles, ReadFiles, At, Linking, Tasks, disk
      <3>3. CASE GetRevision(l) \/ Fail(l) \/ Stop(l)
        BY <1>1, <3>3 DEF GetRevision, Fail, Stop, Linking, Idle, disk
      <3> QED
        BY <1>5, <3>1, <3>2, <3>3 DEF Reconcile
    <2> QED
      BY <1>1, <1>2, <2>1 DEF LinksOK, Linking
  <1> QED
    BY <1>3, <1>4, <1>5

LEMMA RestartLinks == Restart => LinksOK'
  <1> SUFFICES ASSUME Restart PROVE LinksOK'
    OBVIOUS
  <1>1. watch' = Mapping(<<>>) /\ <<>> \in Seq(Marks)
    BY DEF Restart
  <1>2. watch'.pc = "idle"
    BY <1>1, MappingType
  <1> QED
    BY <1>2, NoLinks

LEMMA NextLinks == Shape /\ LinksOK /\ [Next]_vars => LinksOK'
  <1> SUFFICES ASSUME Shape, LinksOK, [Next]_vars PROVE LinksOK'
    OBVIOUS
  <1>1. CASE UNCHANGED vars
    BY <1>1, LinksSame DEF vars, memory, disk, Rev
  <1> QED
    BY <1>1, SourceWatchLinks, OtherLinks, ReconcileLinks, RestartLinks DEF Next

-----------------------------------------------------------------------------
(* The order of the revisions *)

(* What is past stays so. *)
StaysPast == \A x \in Int : Past(x) => Past(x)'

LEMMA OrderSame ==
    ASSUME OrderOK, UNCHANGED <<git, head, events, seen>>,
           watch'.queue = watch.queue, repos' = repos,
           repos # None => objs'[repos].rev = objs[repos].rev
    PROVE  OrderOK' /\ StaysPast
  BY DEF OrderOK, EventsOK, QueueOK, Seen, Handled, BeforeAll, InOrder, Before,
         StaysPast, Past

(* What the mapper has mapped leaves its queue. *)
LEMMA OrderMapped ==
    ASSUME Shape, OrderOK, watch.pc \notin {"idle", "recheck"}, Mapped,
           UNCHANGED <<git, head, events, seen, repos, objs>>
    PROVE  OrderOK' /\ StaysPast
  <1> DEFINE q == watch.queue
  <1>1. q \in Seq(Marks) /\ q # <<>>
    BY DEF Shape, WatchOK, Watches
  <1>2. /\ Tail(q) \in Seq(Marks) /\ Len(q) \in Nat /\ Len(Tail(q)) = Len(q) - 1
        /\ \A i \in 1..Len(Tail(q)) : Tail(q)[i] = q[i + 1]
    BY <1>1, TailFacts
  <1>3. watch'.queue = Tail(q)
    BY <1>2, MappingType DEF Mapped
  <1>4. ASSUME NEW i \in 1..Len(Tail(q)) PROVE i + 1 \in 1..Len(q) /\ Tail(q)[i] = q[i + 1]
    BY <1>2
  <1>5. InOrder(Tail(q))
    <2>1. ASSUME NEW i \in 1..Len(Tail(q)), NEW j \in 1..Len(Tail(q)), i < j
          PROVE  Before(Tail(q)[i], Tail(q)[j])
      <3>1. i + 1 < j + 1
        BY <1>2, <2>1
      <3> QED
        BY <1>4, <3>1 DEF OrderOK, QueueOK, InOrder
    <2> QED
      BY <2>1 DEF InOrder
  <1>6. ASSUME NEW x, BeforeAll(x, q) PROVE BeforeAll(x, Tail(q))
    BY <1>4, <1>6 DEF BeforeAll
  <1>7. \A i \in 1..Len(Tail(q)) : Seen(Tail(q)[i])
    BY <1>4 DEF OrderOK, QueueOK
  <1> HIDE DEF q
  <1> QED
    BY <1>3, <1>5, <1>6, <1>7 DEF OrderOK, EventsOK, QueueOK, Seen, Handled, q,
       StaysPast, Past

(* The repository object is set to what nothing to come is older than. *)
LEMMA OrderAdd ==
    ASSUME Shape, OrderOK, NEW rev \in Marks, Add(rev), Seen(rev),
           \A x : Past(x) => Before(x, rev) /\ BeforeAll(x, watch'.queue),
           UNCHANGED <<git, head, events, seen>>,
           BeforeAll(rev, watch'.queue), QueueOK'
    PROVE  OrderOK' /\ StaysPast
  <1>1. repos' \in Objs /\ objs'[repos'].rev = rev
    BY AddMemory DEF Shape
  <1>2. \A x : Seen(x) => (x <= head' /\ Before(x, seen') /\ BeforeAll(x, events'))
    BY DEF Seen
  <1>3. Handled(objs[repos].rev)'
    BY <1>1, <1>2 DEF Handled, Seen
  <1>4. StaysPast
    BY <1>1, <1>2 DEF StaysPast, Past, Handled, Seen, Before
  <1>5. (git > 0 => git = head)' /\ EventsOK' /\ Seen(seen)'
    BY <1>2 DEF OrderOK, EventsOK, InOrder, Seen, Before
  <1> QED
    BY <1>3, <1>4, <1>5 DEF OrderOK

LEMMA RepoMapperOrder ==
    ASSUME Shape, OrderOK, RepoMapper
    PROVE  OrderOK' /\ StaysPast
  <1> DEFINE q == watch.queue
             rev == Head(q)
  <1>1. UNCHANGED <<git, head, events, seen>> /\ watch.pc = "list"
    BY DEF RepoMapper, world, incoming
  <1>2. CASE Mapped /\ UNCHANGED memory
    BY <1>1, <1>2, OrderMapped DEF memory
  <1>3. CASE Add(rev) /\ watch' = [watch EXCEPT !.pc = "sync", !.obj = repos',
                                                !.todo = uses]
    <2>1. watch'.queue = q /\ q \in Seq(Marks) /\ q # <<>>
      BY <1>1, <1>3 DEF Shape, WatchOK, Watches
    <2>2. Len(q) \in Nat \ {0} /\ rev = q[1] /\ rev \in Marks
      BY <2>1, TailFacts
    <2>3. Seen(rev) /\ \A x : Past(x) => Before(x, rev) /\ BeforeAll(x, q)
      BY <2>2 DEF OrderOK, QueueOK, Past, Handled, BeforeAll
    <2>4. BeforeAll(rev, q)
      <3>1. ASSUME NEW i \in 1..Len(q) PROVE Before(rev, q[i])
        <4>1. CASE i = 1
          <5>1. rev \in Nat
            BY <2>2, Constants DEF Marks, NoArtifact
          <5> QED
            BY <2>2, <4>1, <5>1 DEF Before
        <4>2. CASE 1 < i
          BY <2>2, <4>2 DEF OrderOK, QueueOK, InOrder
        <4> QED
          BY <2>2, <4>1, <4>2
      <3> QED
        BY <3>1 DEF BeforeAll
    <2>5. QueueOK'
      BY <1>1, <2>1 DEF OrderOK, QueueOK, InOrder, Seen, BeforeAll, Before
    <2> HIDE DEF rev, q
    <2> QED
      BY <1>1, <1>3, <2>1, <2>2, <2>3, <2>4, <2>5, OrderAdd
  <1> QED
    BY <1>2, <1>3 DEF RepoMapper

(* The same revision once or twice is in order. *)
LEMMA Repeated ==
    ASSUME NEW rev \in Int, NEW queue, queue = <<>> \/ queue = <<rev, rev>>
    PROVE  /\ InOrder(queue) /\ BeforeAll(rev, queue)
           /\ \A i \in 1..Len(queue) : queue[i] = rev
           /\ \A x : Before(x, rev) => BeforeAll(x, queue)
  <1>1. \A i \in 1..Len(queue) : queue[i] = rev
    OBVIOUS
  <1> QED
    BY <1>1 DEF InOrder, BeforeAll, Before

LEMMA RecheckOrder ==
    ASSUME Shape, OrderOK, Recheck
    PROVE  OrderOK' /\ StaysPast
  <1>1. /\ UNCHANGED <<git, head, events, seen>>
        /\ Add(seen) /\ seen \in Marks
        /\ watch' = Mapping(<<seen, seen>>) \/ watch' = Mapping(<<>>)
    BY DEF Recheck, UpdateEvent, Shape, WatchOK, IncomingOK, world, incoming
  <1>2. seen \in Int
    BY <1>1, Constants DEF Marks, NoArtifact
  <1>3. watch'.queue = <<>> \/ watch'.queue = <<seen, seen>>
    <2>1. <<seen, seen>> \in Seq(Marks) /\ <<>> \in Seq(Marks)
      BY <1>1
    <2> QED
      BY <1>1, <2>1, MappingType
  <1>4. Seen(seen) /\ \A x : Past(x) => Before(x, seen)
    BY DEF OrderOK, Past, Handled, Seen
  <1>5. /\ InOrder(watch'.queue) /\ BeforeAll(seen, watch'.queue)
        /\ \A i \in 1..Len(watch'.queue) : watch'.queue[i] = seen
        /\ \A x : Past(x) => BeforeAll(x, watch'.queue)
    BY <1>2, <1>3, <1>4, Repeated
  <1>6. QueueOK'
    BY <1>1, <1>4, <1>5 DEF QueueOK, Seen, InOrder, BeforeAll, Before
  <1> QED
    BY <1>1, <1>4, <1>5, <1>6, OrderAdd

(* An event that is handled becomes what the watch has seen; what it maps is *)
(* what it had seen before, and that.                                        *)
LEMMA EventOrder ==
    ASSUME Shape, OrderOK, Event
    PROVE  OrderOK' /\ StaysPast
  <1>1. /\ seen' = Head(events) /\ events' = Tail(events) /\ events # <<>>
        /\ UNCHANGED <<git, head, repos, objs>> /\ watch.pc = "idle"
    BY DEF Event, world, memory
  <1>2. events \in Seq({Gone} \cup Marks)
    BY DEF Shape, IncomingOK
  <1>3. /\ Len(events) \in Nat \ {0} /\ seen' = events[1] /\ seen' \in {Gone} \cup Marks
        /\ Len(events') = Len(events) - 1
        /\ \A i \in 1..Len(events') : events'[i] = events[i + 1]
    BY <1>1, <1>2, TailFacts
  <1>4. ASSUME NEW i \in 1..Len(events')
        PROVE  i + 1 \in 1..Len(events) /\ 1 < i + 1 /\ events'[i] = events[i + 1]
    BY <1>3
  <1>5. 1 \in 1..Len(events)
    BY <1>3
  <1>6. ASSUME NEW x, Seen(x)
        PROVE  x <= head' /\ Before(x, seen') /\ BeforeAll(x, events')
    BY <1>1, <1>3, <1>4, <1>5, <1>6 DEF Seen, BeforeAll
  <1>7. seen' <= head' /\ BeforeAll(seen', events')
    BY <1>1, <1>3, <1>4, <1>5 DEF OrderOK, EventsOK, InOrder, BeforeAll
  <1>8. EventsOK'
    <2>1. ASSUME NEW i \in 1..Len(events'), NEW j \in 1..Len(events'), i < j
          PROVE  Before(events'[i], events'[j])
      <3>1. i + 1 < j + 1
        BY <2>1, <1>3
      <3> QED
        BY <1>4, <3>1 DEF OrderOK, EventsOK, InOrder
    <2>2. \A i \in 1..Len(events') : events'[i] <= head'
      BY <1>1, <1>4 DEF OrderOK, EventsOK
    <2> QED
      BY <2>1, <2>2 DEF EventsOK, InOrder
  <1>9. seen' \in Int /\ seen \in Int
    BY <1>3, Constants DEF Shape, IncomingOK, Marks, NoArtifact, Gone
  <1>10. Seen(seen)' /\ Seen(seen)
    BY <1>7, <1>9 DEF Seen, Before, OrderOK
  <1>11. watch'.queue = <<>> \/ watch'.queue = <<seen'>> \/ watch'.queue = <<seen, seen'>>
    <2>1. watch.queue = <<>> /\ watch \in Watches
      BY <1>1 DEF Shape, WatchOK
    <2>2. CASE watch' = watch \/ watch' = Step("recheck")
      BY <2>1, <2>2, StepFacts DEF PCs
    <2>3. CASE seen' # Gone /\ seen = Gone /\ watch' = Mapping(<<seen'>>)
      <3>1. <<seen'>> \in Seq(Marks)
        BY <1>3, <2>3
      <3> QED
        BY <2>3, <3>1, MappingType
    <2>4. CASE seen' # Gone /\ seen # Gone /\ watch' = Mapping(<<seen, seen'>>)
      <3>1. seen \in Marks /\ seen' \in Marks
        BY <1>3, <2>4 DEF Shape, IncomingOK
      <3>2. <<seen, seen'>> \in Seq(Marks)
        BY <3>1
      <3> QED
        BY <2>4, <3>2, MappingType
    <2> QED
      BY <2>2, <2>3, <2>4 DEF Event, UpdateEvent
  <1>12. \A i \in 1..Len(watch'.queue) :
            watch'.queue[i] = seen' \/ (i = 1 /\ watch'.queue[i] = seen)
    BY <1>11
  <1>13. Before(seen, seen')
    BY <1>6, <1>10
  <1>14. InOrder(watch'.queue)
    BY <1>9, <1>12, <1>13, <1>11 DEF InOrder, Before
  <1>15. \A i \in 1..Len(watch'.queue) :
            /\ watch'.queue[i] <= head' /\ Before(watch'.queue[i], seen')
            /\ BeforeAll(watch'.queue[i], events')
    BY <1>6, <1>7, <1>9, <1>10, <1>12, <1>13 DEF Before
  <1>16. ASSUME NEW x, Seen(x) PROVE BeforeAll(x, watch'.queue)
    BY <1>6, <1>12, <1>16 DEF BeforeAll, Seen
  <1>17. QueueOK'
    BY <1>14, <1>15 DEF QueueOK, Seen
  <1>18. \A x : Seen(x) => (x <= head' /\ Before(x, seen') /\ BeforeAll(x, events')
                            /\ BeforeAll(x, watch'.queue))
    BY <1>6, <1>16
  <1>19. repos' # None => Handled(objs[repos].rev)'
    BY <1>1, <1>18 DEF OrderOK, Handled, Seen
  <1>20. StaysPast
    BY <1>1, <1>18 DEF StaysPast, Past, Handled, Seen, Before
  <1> QED
    BY <1>1, <1>8, <1>10, <1>17, <1>19, <1>20 DEF OrderOK

(* The other steps of the two watches *)
LEMMA WatchOrder ==
    ASSUME Shape, OrderOK,
           \/ Resync \/ NothingToSync \/ Fetched \/ FetchFailed \/ Rename \/ LayerLinked
           \/ TidyRepo \/ Tidied \/ LayerWatch \/ Deleted
           \/ \E l \in Layers : LinkLayer(l)
    PROVE  OrderOK' /\ StaysPast
  <1>1. UNCHANGED <<git, head, events, seen>>
    BY DEF Resync, NothingToSync, Fetched, FetchFailed, Rename, LinkLayer, LayerLinked,
           TidyRepo, Tidied, LayerWatch, RemoveUser, DropRepo, Deleted, world, incoming
  <1>2. CASE Mapped /\ (NothingToSync \/ FetchFailed \/ Rename \/ Tidied)
    <2>1. watch.pc \notin {"idle", "recheck"} /\ UNCHANGED <<repos, objs>>
      BY <1>2 DEF NothingToSync, FetchFailed, Rename, Tidied, memory
    <2> QED
      BY <1>1, <1>2, <2>1, OrderMapped
  <1>3. CASE Deleted
    <2>1. repos' = None /\ watch' = watch
      BY <1>3 DEF Deleted
    <2> QED
      BY <1>1, <2>1 DEF OrderOK, EventsOK, QueueOK, Seen, Handled, BeforeAll, InOrder,
         Before, StaysPast, Past
  <1>4. CASE ~Deleted /\ ~(Mapped /\ (NothingToSync \/ FetchFailed \/ Rename \/ Tidied))
    <2>1. watch \in Watches
      BY DEF Shape, WatchOK
    <2>2. watch'.queue = watch.queue
      <3>1. CASE Resync \/ NothingToSync \/ Fetched \/ FetchFailed \/ Rename \/ TidyRepo
                 \/ Tidied
        BY <1>4, <2>1, <3>1, StepFacts
           DEF Resync, NothingToSync, Fetched, FetchFailed, Rename, TidyRepo, Tidied, PCs
      <3>2. CASE LayerWatch
        BY <3>2 DEF LayerWatch, RemoveUser, DropRepo
      <3>3. CASE LayerLinked
        BY <2>1, <3>3 DEF LayerLinked, Watches
      <3>4. ASSUME NEW l \in Layers, LinkLayer(l) PROVE watch'.queue = watch.queue
        BY <2>1, <3>4 DEF LinkLayer, Watches
      <3> QED
        BY <1>4, <3>1, <3>2, <3>3, <3>4
    <2>3. repos' = repos
      BY <1>4 DEF Resync, NothingToSync, Fetched, FetchFailed, Rename, LinkLayer,
         LayerLinked, TidyRepo, Tidied, LayerWatch, RemoveUser, DropRepo, memory
    <2>4. ASSUME repos # None PROVE objs'[repos].rev = objs[repos].rev
      <3>1. repos \in Objs /\ objs \in [Objs -> [rev : Marks, users : SUBSET Layers]]
        BY <2>4 DEF Shape, MemoryOK
      <3>2. \/ objs' = objs
            \/ \E i : \E S : objs' = [objs EXCEPT ![i].users = S]
        BY <1>4, <2>4 DEF Resync, NothingToSync, Fetched, FetchFailed, Rename, LinkLayer,
           LayerLinked, TidyRepo, Tidied, LayerWatch, RemoveUser, DropRepo, memory
      <3> QED
        BY <3>1, <3>2
    <2> QED
      BY <1>1, <2>2, <2>3, <2>4, OrderSame
  <1> QED
    BY <1>2, <1>3, <1>4

LEMMA ReconcileOrder ==
    ASSUME Shape, OrderOK, NEW l \in Layers, Reconcile(l)
    PROVE  OrderOK' /\ StaysPast
  <1>1. UNCHANGED <<git, head, events, seen, repos, objs, watch>>
    BY DEF Reconcile, Start, WaitForData, DataLinked, ListFiles, ReadFiles, GetRevision,
           Fail, Stop, world, incoming, memory
  <1> QED
    BY <1>1, OrderSame

(* An event that is no revision, or the head of the branch *)
LEMMA NotifyOrder ==
    ASSUME Shape, OrderOK, NEW e \in {Gone} \cup Marks, events' = Append(events, e),
           git' = e, e > 0 => e = head', head' \in Revs, head <= head',
           UNCHANGED <<seen, repos, objs, watch>>
    PROVE  OrderOK' /\ StaysPast
  <1>1. head \in Int /\ head' \in Int /\ e \in Int
    BY Constants DEF Shape, WorldOK, Marks, Gone, NoArtifact
  <1>2. events \in Seq({Gone} \cup Marks) /\ seen \in {Gone} \cup Marks
    BY DEF Shape, IncomingOK
  <1>3. /\ Len(events) \in Nat /\ Len(events') = Len(events) + 1
        /\ \A i \in 1..Len(events) : events'[i] = events[i] /\ events[i] \in {Gone} \cup Marks
        /\ events'[Len(events) + 1] = e
    BY <1>2
  <1>4. \A i \in 1..Len(events') : i \in 1..Len(events) \/ i = Len(events) + 1
    BY <1>3
  <1>5. \A x \in {Gone} \cup Marks : x \in Int
    BY Constants DEF Marks, Gone, NoArtifact
  <1>6. ASSUME NEW x \in Int, x <= head PROVE x <= head' /\ Before(x, e)
    BY <1>1, <1>6 DEF Before
  <1>7. ASSUME NEW x \in Int, Seen(x)
        PROVE  x <= head' /\ Before(x, seen') /\ BeforeAll(x, events')
    BY <1>3, <1>4, <1>6, <1>7 DEF Seen, BeforeAll
  <1>8. EventsOK'
    <2>1. ASSUME NEW i \in 1..Len(events'), NEW j \in 1..Len(events'), i < j
          PROVE  Before(events'[i], events'[j])
      <3>1. i \in 1..Len(events)
        BY <1>3, <1>4, <2>1
      <3>2. events[i] \in Int /\ events[i] <= head /\ events'[i] = events[i]
        BY <1>3, <1>5, <3>1 DEF OrderOK, EventsOK
      <3>3. CASE j \in 1..Len(events)
        BY <1>3, <2>1, <3>1, <3>3 DEF OrderOK, EventsOK, InOrder
      <3>4. CASE j = Len(events) + 1
        BY <1>3, <1>6, <3>2, <3>4
      <3> QED
        BY <1>4, <3>3, <3>4
    <2>2. ASSUME NEW i \in 1..Len(events') PROVE events'[i] <= head'
      <3>1. CASE i \in 1..Len(events)
        BY <1>3, <1>5, <1>6, <3>1 DEF OrderOK, EventsOK
      <3>2. CASE i = Len(events) + 1
        <4>1. head' >= 1
          BY Constants
        <4> QED
          BY <1>1, <1>3, <3>2, <4>1
      <3> QED
        BY <1>4, <3>1, <3>2
    <2> QED
      BY <2>1, <2>2 DEF EventsOK, InOrder
  <1>9. seen \in Int
    BY <1>2, <1>5
  <1>10. repos # None => objs[repos].rev \in Int
    BY <1>5 DEF Shape, MemoryOK
  <1>11. \A i \in 1..Len(watch.queue) : watch.queue[i] \in Int
    BY <1>5 DEF Shape, WatchOK, Watches
  <1>12. QueueOK' /\ Seen(seen)'
    BY <1>7, <1>9, <1>11 DEF OrderOK, QueueOK, Seen, InOrder, Before
  <1>13. repos' # None => Handled(objs[repos].rev)'
    BY <1>7, <1>10 DEF OrderOK, Handled, Seen, BeforeAll, Before
  <1>14. StaysPast
    BY <1>7 DEF StaysPast, Past, Handled, Seen, BeforeAll, Before
  <1> QED
    BY <1>8, <1>12, <1>13, <1>14 DEF OrderOK

LEMMA WorldOrder ==
    ASSUME Shape, OrderOK, World
    PROVE  OrderOK' /\ StaysPast
  <1>1. head \in Revs /\ head \in Int
    BY Constants DEF Shape, WorldOK
  <1>2. ASSUME NEW rev \in Revs, Publish(rev) PROVE OrderOK' /\ StaysPast
    <2>1. /\ events' = Append(events, rev) /\ git' = rev /\ head' = rev /\ head <= rev
          /\ UNCHANGED <<seen, repos, objs, watch>>
      BY <1>1, <1>2 DEF Publish, Notify, memory
    <2>2. rev \in {Gone} \cup Marks
      BY DEF Marks
    <2> QED
      BY <1>2, <2>1, <2>2, NotifyOrder
  <1>3. CASE DeleteGitRepository \/ CreateGitRepository
    <2>1. /\ events' = Append(events, git') /\ git' \in {Gone} \cup Marks
          /\ git' <= 0 /\ UNCHANGED <<head, seen, repos, objs, watch>>
      BY <1>3 DEF DeleteGitRepository, CreateGitRepository, Notify, memory, Marks,
         Gone, NoArtifact
    <2>2. PICK e \in {Gone} \cup Marks : e = git' /\ e <= 0
      BY <2>1
    <2>3. e \in Int
      BY <2>2, Constants DEF Marks, Gone, NoArtifact
    <2>4. ~(e > 0) /\ head' \in Revs /\ head <= head'
      BY <1>1, <2>1, <2>2, <2>3
    <2> QED
      BY <2>1, <2>2, <2>4, NotifyOrder
  <1>4. ASSUME NEW l \in Layers, LeaveSource(l) \/ JoinSource(l) PROVE OrderOK' /\ StaysPast
    BY <1>4, OrderSame DEF LeaveSource, JoinSource, incoming, memory
  <1> QED
    BY <1>2, <1>3, <1>4 DEF World

LEMMA RestartOrder ==
    ASSUME Shape, OrderOK, Restart
    PROVE  OrderOK' /\ StaysPast
  <1>1. /\ UNCHANGED <<git, head>> /\ repos' = None /\ seen' = Gone
        /\ events' = <<>> \/ events' = <<git>>
        /\ watch' = Mapping(<<>>)
    BY DEF Restart
  <1>2. watch'.queue = <<>>
    <2>1. <<>> \in Seq(Marks)
      OBVIOUS
    <2> QED
      BY <1>1, <2>1, MappingType
  <1>3. head \in Int /\ head > 0 /\ git \in Int
    BY Constants DEF Shape, WorldOK, Marks, Gone, NoArtifact
  <1>4. git <= head
    BY <1>3 DEF OrderOK
  <1>5. \A i \in 1..Len(events') : i = 1 /\ events'[i] = git
    <2>1. CASE events' = <<>>
      BY <2>1
    <2>2. CASE events' = <<git>>
      BY <2>2
    <2> QED
      BY <1>1, <2>1, <2>2
  <1>6. EventsOK'
    BY <1>1, <1>4, <1>5 DEF EventsOK, InOrder
  <1>7. ASSUME NEW x, x <= head PROVE Before(x, git)
    BY <1>7 DEF Before, OrderOK
  <1>8. ASSUME NEW x, x <= head
        PROVE  x <= head' /\ Before(x, seen') /\ BeforeAll(x, events')
               /\ BeforeAll(x, watch'.queue)
    BY <1>1, <1>2, <1>5, <1>7, <1>8 DEF BeforeAll, Before, Gone
  <1>9. Seen(seen)'
    BY <1>1, <1>3, <1>8 DEF Seen, Gone
  <1>10. QueueOK'
    BY <1>2 DEF QueueOK, InOrder
  <1>12. StaysPast
    BY <1>1, <1>8 DEF StaysPast, Past, Handled, Seen
  <1>13. (git > 0 => git = head)'
    BY <1>1 DEF OrderOK
  <1> QED
    BY <1>1, <1>6, <1>9, <1>10, <1>12, <1>13 DEF OrderOK

LEMMA NextOrder == Shape /\ OrderOK /\ [Next]_vars => OrderOK' /\ StaysPast
  <1> SUFFICES ASSUME Shape, OrderOK, [Next]_vars PROVE OrderOK' /\ StaysPast
    OBVIOUS
  <1>1. CASE UNCHANGED vars
    BY <1>1, OrderSame DEF vars, world, incoming, memory
  <1> QED
    BY <1>1, EventOrder, RecheckOrder, RepoMapperOrder, WatchOrder, ReconcileOrder,
       WorldOrder, RestartOrder DEF Next, SourceWatch

-----------------------------------------------------------------------------
(* Where revisions are kept *)

(* Past in the next state, of what is a revision there *)
StillPast(x) ==
    /\ x <= head' /\ Before(x, seen') /\ BeforeAll(x, events')
    /\ BeforeAll(x, watch'.queue)
    /\ repos' # None => Before(x, objs'[repos'].rev)

LEMMA Kept ==
    ASSUME Shape, Shape', OrderOK', StaysPast
    PROVE  /\ \A x \in Int : Past(x) => StillPast(x)
           /\ repos' # None => StillPast(objs'[repos'].rev)
           /\ StillPast(NoArtifact) /\ StillPast(None) /\ StillPast(Torn)
  <1>1. \A x \in Int : Past(x) => StillPast(x)
    BY DEF StaysPast, Past, Handled, Seen, StillPast
  <1>2. repos' # None => StillPast(objs'[repos'].rev)
    <2>1. repos' # None => objs'[repos'].rev \in Int
      BY Constants DEF Shape, MemoryOK, Marks, NoArtifact
    <2> QED
      BY <2>1 DEF OrderOK, Handled, Seen, StillPast, Before
  <1>3. ASSUME NEW x \in {0, -1} PROVE StillPast(x)
    <2>1. \A y \in {Gone} \cup Marks : Before(x, y)
      BY Constants DEF Before, Marks, Gone, NoArtifact
    <2>2. seen' \in {Gone} \cup Marks /\ BeforeAll(x, events')
      <3>1. events' \in Seq({Gone} \cup Marks) /\ seen' \in {Gone} \cup Marks
        BY DEF Shape, IncomingOK
      <3>2. \A j \in 1..Len(events') : events'[j] \in {Gone} \cup Marks
        BY <3>1
      <3> QED
        BY <2>1, <3>1, <3>2 DEF BeforeAll
    <2>3. BeforeAll(x, watch'.queue)
      <3>1. watch'.queue \in Seq(Marks)
        BY DEF Shape, WatchOK, Watches
      <3>2. \A j \in 1..Len(watch'.queue) : watch'.queue[j] \in Marks
        BY <3>1
      <3> QED
        BY <2>1, <3>2 DEF BeforeAll
    <2>4. repos' # None => objs'[repos'].rev \in Marks
      BY DEF Shape, MemoryOK
    <2>5. x <= head'
      BY Constants DEF Shape, WorldOK
    <2> QED
      BY <2>1, <2>2, <2>3, <2>4, <2>5 DEF StillPast
  <1> QED
    BY <1>1, <1>2, <1>3 DEF NoArtifact, None, Torn

(* Only the object in the map is set. *)
LEMMA ObjectsStep ==
    ASSUME Shape, [Next]_vars, NEW i \in Objs
    PROVE  \/ objs'[i].rev \in {objs[i].rev, NoArtifact}
           \/ i = repos'
  <1>1. objs \in [Objs -> [rev : Marks, users : SUBSET Layers]]
    BY DEF Shape, MemoryOK
  <1>2. ASSUME NEW rev, Add(rev)
        PROVE  objs'[i].rev = objs[i].rev \/ i = repos'
    BY <1>1, <1>2 DEF Add, NewRepo, SetGitRepo
  <1>3. ASSUME NEW k, NEW S, objs' = [objs EXCEPT ![k].users = S]
        PROVE  objs'[i].rev = objs[i].rev
    BY <1>1, <1>3
  <1>4. CASE RepoMapper \/ Recheck
    BY <1>2, <1>4 DEF RepoMapper, Recheck, memory
  <1>5. CASE LayerLinked
    <2>1. \E S : objs' = [objs EXCEPT ![watch.obj].users = S]
      BY <1>5 DEF LayerLinked
    <2> QED
      BY <1>3, <2>1
  <1>6. CASE LayerWatch
    <2>1. objs' = objs \/ \E S : objs' = [objs EXCEPT ![repos].users = S]
      BY <1>6 DEF LayerWatch, RemoveUser, DropRepo, memory
    <2> QED
      BY <1>3, <2>1
  <1>7. CASE Restart
    BY <1>7 DEF Restart, NoObjects
  <1>8. CASE \/ Event \/ NothingToSync \/ Fetched \/ FetchFailed \/ Rename \/ TidyRepo
             \/ Tidied \/ Resync \/ Deleted \/ World \/ UNCHANGED vars
             \/ \E l \in Layers : LinkLayer(l) \/ Reconcile(l)
    BY <1>8 DEF Event, NothingToSync, Fetched, FetchFailed, Rename, TidyRepo, Tidied,
       Resync, Deleted, World, DeleteGitRepository, CreateGitRepository, Publish,
       LeaveSource, JoinSource, LinkLayer, Reconcile, Start, WaitForData, DataLinked,
       ListFiles, ReadFiles, GetRevision, Fail, Stop, memory, vars
  <1> QED
    BY <1>4, <1>5, <1>6, <1>7, <1>8 DEF Next, SourceWatch

(* What the mapper is about to link comes from the object it works on. *)
LEMMA TargetStep ==
    ASSUME Shape, [Next]_vars, watch'.pc = "linking"
    PROVE  \/ watch.pc = "linking" /\ watch'.target = watch.target
           \/ watch.obj \in Objs /\ watch'.target = objs[watch.obj].rev
  <1>1. watch \in Watches /\ (watch.pc = "link" => watch.obj \in Objs)
    BY DEF Shape, WatchOK, Watches
  <1>2. ASSUME NEW l \in Layers, LinkLayer(l)
        PROVE  \/ watch.pc = "linking" /\ watch'.target = watch.target
               \/ watch.obj \in Objs /\ watch'.target = objs[watch.obj].rev
    BY <1>1, <1>2 DEF LinkLayer, Rev, Watches
  <1>3. CASE watch' = watch
    BY <1>3
  <1>4. CASE \/ Event \/ Recheck \/ RepoMapper \/ NothingToSync \/ Fetched \/ FetchFailed
             \/ Rename \/ LayerLinked \/ TidyRepo \/ Tidied \/ Resync \/ Restart
    <2>1. \/ watch' = watch
          \/ \E q : watch' = Mapping(q)
          \/ \E pc \in {"recheck", "rename", "link", "tidy"} : watch' = Step(pc)
          \/ \E x, y : watch' = [watch EXCEPT !.pc = "sync", !.obj = x, !.todo = y]
          \/ \E x : watch' = [watch EXCEPT !.pc = "link", !.linked = x,
                                            !.at = NoLayer, !.target = None]
      <3>1. CASE Event
        BY <3>1 DEF Event
      <3>2. CASE RepoMapper \/ LayerLinked
        BY <3>2 DEF RepoMapper, LayerLinked, Mapped
      <3>3. CASE \/ Recheck \/ NothingToSync \/ Fetched \/ FetchFailed \/ Rename
                 \/ TidyRepo \/ Tidied \/ Resync \/ Restart
        BY <3>3 DEF Recheck, NothingToSync, Fetched, FetchFailed, Rename, TidyRepo,
           Tidied, Resync, Restart, Mapped
      <3> QED
        BY <1>4, <3>1, <3>2, <3>3
    <2>2. \A q : Mapping(q).pc # "linking"
      BY DEF Mapping
    <2>3. \A pc \in {"recheck", "rename", "link", "tidy"} : Step(pc).pc # "linking"
      BY <1>1 DEF Step, Watches
    <2>4. CASE \E x, y : watch' = [watch EXCEPT !.pc = "sync", !.obj = x, !.todo = y]
      BY <1>1, <2>4 DEF Watches
    <2>5. CASE \E x : watch' = [watch EXCEPT !.pc = "link", !.linked = x,
                                            !.at = NoLayer, !.target = None]
      BY <1>1, <2>5 DEF Watches
    <2> QED
      BY <1>3, <2>1, <2>2, <2>3, <2>4, <2>5
  <1>5. CASE LayerWatch \/ Deleted \/ World \/ UNCHANGED vars
             \/ \E l \in Layers : Reconcile(l)
    <2>1. watch' = watch
      BY <1>5 DEF LayerWatch, RemoveUser, DropRepo, Deleted, World,
         DeleteGitRepository, CreateGitRepository, Publish, LeaveSource, JoinSource,
         Reconcile, Start, WaitForData, DataLinked, ListFiles, ReadFiles, GetRevision,
         Fail, Stop, vars
    <2> QED
      BY <1>3, <2>1
  <1> QED
    BY <1>2, <1>4, <1>5 DEF Next, SourceWatch

(* So does what a reconcile links; it reads what is linked, and reports what *)
(* the object in the map holds.                                              *)
LEMMA LayerStep ==
    ASSUME Shape, [Next]_vars, NEW l \in Layers
    PROVE  /\ Linking(l)' =>
                 \/ Linking(l) /\ task'[l].rev = task[l].rev
                 \/ task[l].obj \in Objs /\ task'[l].rev = objs[task[l].obj].rev
           /\ \/ link'[l] = link[l]
              \/ Linking(l) /\ link'[l] = task[l].rev
              \/ watch.pc = "linking" /\ link'[l] = watch.target
           /\ read'[l] \in {read[l], link[l], Torn}
           /\ \/ deployed'[l] = deployed[l]
              \/ repos \in Objs /\ deployed'[l] = objs[repos].rev
  <1> DEFINE OK == /\ Linking(l)' =>
                         \/ Linking(l) /\ task'[l].rev = task[l].rev
                         \/ /\ task[l].obj \in Objs
                            /\ task'[l].rev = objs[task[l].obj].rev
                   /\ \/ link'[l] = link[l]
                      \/ Linking(l) /\ link'[l] = task[l].rev
                      \/ watch.pc = "linking" /\ link'[l] = watch.target
                   /\ read'[l] \in {read[l], link[l], Torn}
                   /\ \/ deployed'[l] = deployed[l]
                      \/ repos \in Objs /\ deployed'[l] = objs[repos].rev
  <1>1. /\ task \in [Layers -> Tasks] /\ link \in [Layers -> {NoLink} \cup Revs]
        /\ read \in [Layers -> {None, Torn} \cup Revs]
        /\ deployed \in [Layers -> {None} \cup Revs]
        /\ TaskOK(task[l])
        /\ repos \in {None} \cup Objs
    BY DEF Shape, TasksOK, DiskOK, ReportOK, MemoryOK
  <1>2. CASE UNCHANGED <<task, link, report>>
    BY <1>2 DEF report, Linking
  <1>3. CASE LayerLinked
    <2>1. UNCHANGED <<task, report>> /\ watch.pc = "linking"
          /\ link' = [link EXCEPT ![watch.at] = watch.target]
      BY <1>3 DEF LayerLinked, LinkEnd
    <2> QED
      BY <1>1, <2>1 DEF report, Linking
  <1>4. CASE Restart
    BY <1>4 DEF Restart, Linking, Idle, disk, report
  <1>5. ASSUME NEW k \in Layers, Reconcile(k) PROVE OK
    <2>1. CASE Start(k)
      BY <1>1, <2>1 DEF Start, Linking, Idle, disk, report
    <2>2. CASE WaitForData(k)
      <3>1. UNCHANGED <<link, read, deployed>>
        BY <2>2 DEF WaitForData, disk, report
      <3>2. CASE k = l
        <4>1. task[l].obj \in Objs /\ task'[l].rev = objs[task[l].obj].rev
          BY <1>1, <2>2, <3>2 DEF WaitForData, TaskOK, Tasks
        <4> QED
          BY <3>1, <4>1
      <3>3. CASE k # l
        <4>1. task'[l] = task[l]
          BY <1>1, <2>2, <3>3 DEF WaitForData
        <4> QED
          BY <3>1, <4>1 DEF Linking
      <3> QED
        BY <3>2, <3>3
    <2>3. CASE DataLinked(k)
      <3>1. /\ link' = [link EXCEPT ![k] = task[k].rev] /\ Linking(k)
            /\ task' = At(k, "read") /\ UNCHANGED <<read, deployed>>
        BY <2>3 DEF DataLinked, LinkEnd, Linking, report
      <3>2. Linking(l)' => k # l /\ task'[l] = task[l]
        BY <1>1, <3>1 DEF At, Linking, Tasks
      <3>3. link'[l] = IF k = l THEN task[k].rev ELSE link[l]
        BY <1>1, <3>1
      <3> QED
        BY <3>1, <3>2, <3>3 DEF Linking
    <2>4. CASE ListFiles(k) \/ ReadFiles(k)
      <3>1. UNCHANGED <<link, deployed>>
        BY <2>4 DEF ListFiles, ReadFiles, disk, report
      <3>2. Linking(l)' => task'[l] = task[l]
        BY <1>1, <2>4 DEF ListFiles, ReadFiles, At, Linking, Tasks
      <3>3. read'[l] \in {read[l], link[l], Torn}
        BY <1>1, <2>4 DEF ListFiles, ReadFiles, report
      <3> QED
        BY <3>1, <3>2, <3>3 DEF Linking
    <2>5. CASE GetRevision(k) \/ Fail(k) \/ Stop(k)
      <3>1. UNCHANGED <<link, read>>
        BY <2>5 DEF GetRevision, Fail, Stop, disk, report
      <3>2. Linking(l)' => task'[l] = task[l]
        BY <1>1, <2>5 DEF GetRevision, Fail, Stop, Linking, Idle
      <3>3. \/ deployed'[l] = deployed[l]
            \/ repos \in Objs /\ deployed'[l] = objs[repos].rev
        BY <1>1, <2>5 DEF GetRevision, HasRevision, Fail, Stop, report
      <3> QED
        BY <3>1, <3>2, <3>3 DEF Linking
    <2> QED
      BY <1>5, <2>1, <2>2, <2>3, <2>4, <2>5 DEF Reconcile
  <1>6. CASE ~LayerLinked /\ ~Restart /\ ~\E k \in Layers : Reconcile(k)
    <2>1. UNCHANGED <<task, link, report>>
      BY <1>6 DEF Next, SourceWatch, Event, Delete, Recheck, RepoMapper, NothingToSync,
         Fetched, FetchFailed, Rename, TidyRepo, Tidied, LinkLayer, Resync, LayerWatch,
         DropRepo, RemoveUser, Deleted, World, DeleteGitRepository, CreateGitRepository,
         Publish, LeaveSource, JoinSource, vars, report, disk
    <2> QED
      BY <1>2, <2>1
  <1> QED
    BY <1>3, <1>4, <1>5, <1>6

LEMMA NextPast ==
    ASSUME Shape, Shape', OrderOK', StaysPast, PastOK, [Next]_vars
    PROVE  PastOK'
  <1>1. /\ \A i \in Objs : objs[i].rev \in Int
        /\ \A l \in Layers : /\ link[l] \in Int /\ read[l] \in Int
                             /\ deployed[l] \in Int
        /\ watch.pc = "linking" => watch.target \in Int
        /\ \A l \in Layers : Linking(l) => task[l].rev \in Int
    <2>1. /\ \A x \in Marks : x \in Int
          /\ \A x \in Revs : x \in Int
      BY Constants DEF Marks, NoArtifact
    <2> QED
      BY <2>1 DEF Shape, MemoryOK, DiskOK, ReportOK, WatchOK, TasksOK, TaskOK, Linking,
         NoLink, None, Torn
  <1>2. \A x \in Int : Past(x) => StillPast(x)
    BY Kept
  <1>3. \A i \in Objs : StillPast(objs[i].rev)
    BY <1>1, <1>2 DEF PastOK
  <1>4. \A i \in Objs : StillPast(objs'[i].rev)
    BY <1>3, ObjectsStep, Kept, Constants DEF None
  <1>5. watch.pc = "linking" => StillPast(watch.target)
    BY <1>1, <1>2 DEF PastOK
  <1>6. watch'.pc = "linking" => StillPast(watch'.target)
    BY <1>3, <1>5, TargetStep
  <1>7. ASSUME NEW l \in Layers
        PROVE  /\ Linking(l)' => StillPast(task'[l].rev)
               /\ StillPast(link'[l]) /\ StillPast(read'[l])
               /\ StillPast(deployed'[l])
    <2>1. /\ Linking(l) => StillPast(task[l].rev)
          /\ StillPast(link[l]) /\ StillPast(read[l]) /\ StillPast(deployed[l])
      BY <1>1, <1>2 DEF PastOK
    <2> QED
      BY <1>3, <1>5, <2>1, LayerStep, Kept
  <1> QED
    BY <1>4, <1>6, <1>7 DEF PastOK, Past, Handled, Seen, StillPast

-----------------------------------------------------------------------------
(* The data of the revisions *)

(* Nothing that matters to the data has changed. *)
LEMMA DataSame ==
    ASSUME DataOK, UNCHANGED <<crashes, removing, dir, repos>>,
           watch'.pc = watch.pc, watch'.obj = watch.obj, Rev' = Rev
    PROVE  DataOK'
  BY DEF DataOK, Filling, Tidying

(* The mapper is through, or waits: nothing is filled, tidied or linked. *)
LEMMA DataStill ==
    ASSUME DataOK, UNCHANGED <<crashes, removing, dir>>,
           watch.pc \notin {"rename", "tidy"}, watch'.pc \notin {"link", "linking"}
    PROVE  DataOK'
  BY DEF DataOK, Filling, Tidying

(* The repository is dropped, or there is none. *)
LEMMA DeleteData ==
    ASSUME DataOK, Delete, UNCHANGED <<crashes, repos, watch, objs>>
    PROVE  DataOK'
  BY DEF DataOK, Delete, Filling, Tidying, Rev

LEMMA SourceWatchData ==
    ASSUME Shape, DataOK, SourceWatch \/ Resync
    PROVE  DataOK'
  <1>1. /\ watch \in Watches /\ dir \in [Revs -> {"none", "empty", "full", "partial"}]
        /\ watch.pc \notin {"idle", "recheck", "list"} => watch.obj \in Objs
        /\ objs \in [Objs -> [rev : Marks, users : SUBSET Layers]]
    BY DEF Shape, WatchOK, Watches, DiskOK, MemoryOK
  <1>2. \A q : Mapping(q).pc \in {"idle", "list"}
    BY DEF Mapping
  <1>3. \A pc \in PCs : Step(pc).pc = pc /\ Step(pc).obj = watch.obj
    BY <1>1, StepFacts
  <1>4. CASE Event
    <2>1. UNCHANGED <<crashes, repos, objs>> /\ watch.pc = "idle"
      BY <1>4 DEF Event, world, memory
    <2>2. \/ Delete /\ UNCHANGED watch
          \/ /\ UNCHANGED <<dir, removing>>
             /\ (\E q : watch' = Mapping(q)) \/ watch' = Step("recheck")
      BY <1>4 DEF Event
    <2>3. "recheck" \in PCs
      BY DEF PCs
    <2> QED
      BY <1>2, <1>3, <2>1, <2>2, <2>3, DeleteData, DataStill
  <1>5. CASE Resync \/ Recheck \/ RepoMapper \/ FetchFailed
    <2>1. UNCHANGED <<crashes, dir, removing>> /\ watch.pc \in {"idle", "recheck", "list", "sync"}
      BY <1>5 DEF Resync, Recheck, RepoMapper, FetchFailed, world, disk, drop
    <2>2. \/ \E q : watch' = Mapping(q)
          \/ watch' = Step("recheck")
          \/ \E x, y : watch' = [watch EXCEPT !.pc = "sync", !.obj = x, !.todo = y]
      BY <1>5 DEF Resync, Recheck, RepoMapper, FetchFailed, Mapped
    <2>3. CASE \E x, y : watch' = [watch EXCEPT !.pc = "sync", !.obj = x, !.todo = y]
      <3>1. watch'.pc = "sync"
        BY <1>1, <2>3 DEF Watches
      <3> QED
        BY <2>1, <3>1, DataStill
    <2>4. "recheck" \in PCs
      BY DEF PCs
    <2> QED
      BY <1>2, <1>3, <2>1, <2>2, <2>3, <2>4, DataStill
  <1>6. CASE NothingToSync
    <2>1. /\ UNCHANGED <<crashes, dir, removing, repos, objs>> /\ watch.pc = "sync"
          /\ \/ \E q : watch' = Mapping(q)
             \/ Exists(Rev) /\ watch' = Step("link")
      BY <1>6 DEF NothingToSync, Mapped, world, disk, drop, memory
    <2>2. CASE Exists(Rev) /\ watch' = Step("link")
      <3>1. watch'.pc = "link" /\ watch'.obj = watch.obj /\ Rev' = Rev
        BY <1>3, <2>1, <2>2 DEF PCs, Rev
      <3>2. ASSUME crashes = 0 /\ ~removing
            PROVE  Rev \in Revs /\ dir[Rev] = "full"
        <4>1. Rev \in Revs /\ dir[Rev] # "none"
          BY <2>2 DEF Exists
        <4>2. dir[Rev] # "empty" /\ dir[Rev] # "partial"
          BY <2>1, <3>2, <4>1 DEF DataOK, Filling, Tidying
        <4>3. dir[Rev] \in {"none", "empty", "full", "partial"}
          BY <1>1, <4>1
        <4> QED
          BY <4>1, <4>2, <4>3
      <3> QED
        BY <2>1, <3>1, <3>2 DEF DataOK, Filling, Tidying
    <2> QED
      BY <1>2, <2>1, <2>2, DataStill
  <1>7. CASE Fetched
    <2>1. /\ UNCHANGED <<crashes, removing, repos>> /\ watch.pc = "sync"
          /\ dir' = [dir EXCEPT ![Rev] = "empty"] /\ Rev' = Rev
          /\ watch'.pc = "rename"
      BY <1>3, <1>7 DEF Fetched, world, drop, memory, Rev, PCs
    <2>2. \A r \in Revs : r # Rev => dir'[r] = dir[r]
      BY <1>1, <2>1
    <2>3. Rev \in Revs => dir'[Rev] = "empty"
      BY <1>1, <2>1
    <2> QED
      BY <2>1, <2>2, <2>3 DEF DataOK, Filling, Tidying
  <1>8. CASE Rename
    <2>1. /\ UNCHANGED <<crashes, removing, repos, objs>> /\ watch.pc = "rename"
      BY <1>8 DEF Rename, world, drop, memory
    <2>2. CASE Exists(Rev)
      <3>1. /\ dir' = [dir EXCEPT ![Rev] = "full"] /\ Rev \in Revs
            /\ watch'.pc = "link" /\ watch'.obj = watch.obj /\ Rev' = Rev
        BY <1>3, <1>8, <2>1, <2>2 DEF Rename, Exists, Rev, PCs
      <3>2. dir'[Rev] = "full" /\ \A r \in Revs : r # Rev => dir'[r] = dir[r]
        BY <1>1, <3>1
      <3> QED
        BY <2>1, <3>1, <3>2 DEF DataOK, Filling, Tidying
    <2>3. CASE ~Exists(Rev)
      <3>1. dir' = dir /\ watch'.pc \in {"idle", "list"}
        BY <1>2, <1>8, <2>3 DEF Rename, Mapped
      <3>2. \A r \in Revs : Rev = r => dir[r] # "empty"
        BY <2>3 DEF Exists
      <3> QED
        BY <2>1, <3>1, <3>2 DEF DataOK, Filling, Tidying
    <2> QED
      BY <2>2, <2>3
  <1>9. CASE LayerLinked \/ \E l \in Layers : LinkLayer(l)
    <2>1. /\ UNCHANGED <<crashes, removing, repos, dir>>
          /\ watch.pc \in {"link", "linking"} /\ watch'.pc \in {"link", "linking"}
          /\ watch'.obj = watch.obj
      BY <1>1, <1>9 DEF LayerLinked, LinkLayer, world, drop, memory, disk, Watches
    <2>2. objs'[watch.obj].rev = objs[watch.obj].rev
      <3>1. watch.obj \in Objs
        BY <1>1, <2>1
      <3>2. ASSUME NEW S, objs' = [objs EXCEPT ![watch.obj].users = S]
            PROVE  objs'[watch.obj].rev = objs[watch.obj].rev
        BY <1>1, <3>1, <3>2
      <3>3. objs' = objs \/ \E S : objs' = [objs EXCEPT ![watch.obj].users = S]
        BY <1>9 DEF LayerLinked, LinkLayer, memory
      <3> QED
        BY <3>2, <3>3
    <2> QED
      BY <2>1, <2>2 DEF DataOK, Filling, Tidying, Rev
  <1>10. CASE TidyRepo
    <2>1. /\ UNCHANGED <<crashes, removing, repos, objs>> /\ watch.pc = "link"
          /\ watch'.pc = "tidy" /\ watch'.obj = watch.obj /\ Rev' = Rev
          /\ dir' = Without(Revs \ {Rev}, {"full"}, "partial")
      BY <1>3, <1>10 DEF TidyRepo, world, drop, memory, Rev, PCs
    <2>2. \A r \in Revs : dir'[r] = dir[r] \/ (dir'[r] = "partial" /\ r # Rev)
      BY <2>1 DEF Without
    <2> QED
      BY <2>1, <2>2 DEF DataOK, Filling, Tidying
  <1>11. CASE Tidied
    <2>1. /\ UNCHANGED <<crashes, removing>> /\ watch.pc = "tidy"
          /\ watch'.pc \in {"idle", "list"}
          /\ dir' = Without(Revs \ {Rev}, {"empty", "full", "partial"}, "none")
      BY <1>2, <1>11 DEF Tidied, Mapped, world, drop
    <2>2. \A r \in Revs : dir'[r] = IF r = Rev THEN dir[r] ELSE "none"
      BY <1>1, <2>1 DEF Without
    <2> QED
      BY <2>1, <2>2 DEF DataOK, Filling, Tidying
  <1> QED
    BY <1>4, <1>5, <1>6, <1>7, <1>8, <1>9, <1>10, <1>11 DEF SourceWatch

LEMMA NextData == Shape /\ DataOK /\ [Next]_vars => DataOK'
  <1> SUFFICES ASSUME Shape, DataOK, [Next]_vars PROVE DataOK'
    OBVIOUS
  <1>1. CASE SourceWatch \/ Resync
    BY <1>1, SourceWatchData
  <1>2. CASE LayerWatch
    <2>1. UNCHANGED <<crashes, repos, watch>>
      BY <1>2 DEF LayerWatch, RemoveUser, DropRepo, world, memory
    <2>2. CASE DropRepo
      BY <2>1, <2>2, DeleteData DEF DropRepo, memory
    <2>3. CASE ~DropRepo
      <3>1. UNCHANGED <<dir, removing>>
            /\ (objs' = objs \/ \E S : objs' = [objs EXCEPT ![repos].users = S])
        BY <1>2, <2>3 DEF LayerWatch, RemoveUser, disk
      <3>2. watch.obj \in Objs => objs'[watch.obj].rev = objs[watch.obj].rev
        BY <3>1 DEF Shape, MemoryOK
      <3>3. watch.pc \notin {"idle", "recheck", "list"} => watch.obj \in Objs
        BY DEF Shape, WatchOK, Watches
      <3> QED
        BY <2>1, <3>1, <3>2, <3>3 DEF DataOK, Filling, Tidying, Rev
    <2> QED
      BY <2>2, <2>3
  <1>3. CASE Deleted
    <2>1. repos' = None /\ dir' = [r \in Revs |-> "none"] /\ watch' = watch
      BY <1>3 DEF Deleted
    <2>2. watch.pc \in {"link", "linking"} => watch.obj # None
      BY DEF Shape, WatchOK
    <2> QED
      BY <2>1, <2>2 DEF DataOK
  <1>4. CASE Restart
    <2>1. crashes' # 0
      BY <1>4, Constants DEF Restart, Shape, WorldOK
    <2> QED
      BY <2>1 DEF DataOK
  <1>5. CASE World \/ UNCHANGED vars \/ \E l \in Layers : Reconcile(l)
    <2>1. UNCHANGED <<crashes, removing, dir, repos, objs, watch>>
      BY <1>5 DEF World, DeleteGitRepository, CreateGitRepository, Publish, LeaveSource,
         JoinSource, Reconcile, Start, WaitForData, DataLinked, ListFiles, ReadFiles,
         GetRevision, Fail, Stop, vars, world, drop, disk, memory
    <2> QED
      BY <2>1, DataSame DEF Rev
  <1> QED
    BY <1>1, <1>2, <1>3, <1>4, <1>5 DEF Next

LEMMA InitIInv == Init => IInv
  <1> SUFFICES ASSUME Init PROVE IInv
    OBVIOUS
  <1>1. <<>> \in Seq(Marks) /\ watch = Mapping(<<>>)
    BY DEF Init
  <1>2. watch.queue = <<>> /\ watch.pc = "idle"
    BY <1>1, MappingType, Zenon
  <1>3. LinksOK
    BY <1>2 DEF LinksOK
  <1>4. OrderOK
    <2>1. \A i \in 1..Len(events) : i = 1 /\ events[i] = 0
      BY DEF Init, NoArtifact
    <2>2. repos = None /\ git = 0 /\ head = 1 /\ seen = -1
      BY DEF Init, NoArtifact, Gone
    <2>3. \A l \in Layers : deployed[l] = 0
      BY DEF Init, None
    <2> QED
      BY <1>2, <2>1, <2>2, <2>3 DEF OrderOK, EventsOK, QueueOK, Seen, Handled, BeforeAll,
         InOrder, Before
  <1>5. PastOK
    <2>1. \A i \in 1..Len(events) : events[i] = 0
      BY DEF Init, NoArtifact
    <2>2. repos = None /\ head = 1 /\ seen = -1 /\ objs = NoObjects
      BY DEF Init, Gone
    <2>3. \A l \in Layers : /\ deployed[l] = 0 /\ read[l] = 0 /\ link[l] = -1
                            /\ ~Linking(l)
      BY DEF Init, None, NoLink, Linking, Idle
    <2>4. \A x \in {0, -1} : Past(x)
      BY <1>2, <2>1, <2>2 DEF Past, Handled, Seen, BeforeAll, Before
    <2>5. \A i \in Objs : objs[i].rev = 0
      BY <2>2 DEF NoObjects, NoArtifact
    <2> QED
      BY <1>2, <2>3, <2>4, <2>5 DEF PastOK
  <1>6. DataOK
    BY <1>2 DEF Init, DataOK
  <1> QED
    BY <1>3, <1>4, <1>5, <1>6, InitShape DEF IInv

LEMMA NextIInv == IInv /\ [Next]_vars => IInv'
  BY NextShape, NextLinks, NextOrder, NextPast, NextData DEF IInv

-----------------------------------------------------------------------------
(* The invariant holds in every reachable state. *)
THEOREM Invariance == Spec => []IInv
  BY InitIInv, NextIInv, PTL DEF Spec

(* Every variable stays within its type, and nobody works on a repository    *)
(* object without having one, whatever is dropped in the meantime.           *)
THEOREM TypeCorrect == Spec => []TypeOK
  <1>1. Shape => TypeOK
    BY DEF Shape, WorldOK, IncomingOK, MemoryOK, DiskOK, DropOK, WatchOK, Watches, PCs,
           TasksOK, TaskOK, Tasks, ReportOK, Marks, TypeOK
  <1>2. IInv => TypeOK
    BY <1>1 DEF IInv
  <1> QED
    BY <1>2, Invariance, PTL

(* While TidyRepo removes the older revisions, no layer the mapper has       *)
(* linked leads to one of them, whatever LinkData the reconciles call.       *)
THEOREM LinksHold == Spec => []NoLinkLeftBehind
  <1>1. IInv => NoLinkLeftBehind
    BY DEF IInv, LinksOK, NoLinkLeftBehind
  <1> QED
    BY <1>1, Invariance, PTL

(* A layer never reports a revision older than the one it has read: what it  *)
(* has read came from an object that is past, whichever is in the map now.   *)
THEOREM ReadIsCovered == Spec => []ReportCoversRead
  <1>1. ASSUME IInv, NEW l \in Layers, HasRevision
        PROVE  objs[repos].rev >= read[l]
    <2>1. repos # None /\ objs[repos].rev > 0 /\ objs[repos].rev \in Int
      BY <1>1, Constants DEF HasRevision
    <2>2. read[l] \in Int /\ Past(read[l])
      BY <1>1, Constants DEF IInv, Shape, ReportOK, PastOK, None, Torn
    <2> QED
      BY <2>1, <2>2 DEF Past, Before
  <1>2. IInv => ReportCoversRead
    BY <1>1 DEF ReportCoversRead
  <1> QED
    BY <1>2, Invariance, PTL

(* Until the process is started again, the mapper links the layers to whole  *)
(* data, unless the repository is dropped under its feet.                    *)
THEOREM DataIsWhole == Spec => []SyncedUnlessRestarted
  <1>1. IInv => SyncedUnlessRestarted
    BY DEF IInv, DataOK, SyncedUnlessRestarted
  <1> QED
    BY <1>1, Invariance, PTL

(* The revision a layer reports never goes back: the old GitRepository that  *)
(* the mapper is given before the new one is not older than what has been    *)
(* reported by then.                                                         *)
THEOREM ReportHolds == Spec => DeployedNeverRollsBack
  <1>1. ASSUME IInv, [Next]_vars, NEW l \in Layers PROVE deployed'[l] >= deployed[l]
    <2>1. deployed \in [Layers -> {None} \cup Revs] /\ deployed[l] \in Int
      BY <1>1, Constants DEF IInv, Shape, ReportOK, None
    <2>2. CASE deployed' = deployed
      BY <2>1, <2>2
    <2>3. ASSUME NEW k \in Layers, GetRevision(k) PROVE deployed'[l] >= deployed[l]
      <3>1. /\ repos # None /\ objs[repos].rev \in Revs /\ objs[repos].rev \in Int
            /\ objs[repos].rev > 0
            /\ deployed' = [deployed EXCEPT ![k] = objs[repos].rev]
        BY <2>3, Constants DEF GetRevision, HasRevision
      <3>2. deployed[l] <= objs[repos].rev
        BY <1>1, <3>1 DEF IInv, PastOK, Past, Before
      <3> QED
        BY <2>1, <3>1, <3>2
    <2>4. deployed' = deployed \/ \E k \in Layers : GetRevision(k)
      BY <1>1 DEF Next, SourceWatch, Event, Recheck, RepoMapper, NothingToSync, Fetched,
         FetchFailed, Rename, LayerLinked, TidyRepo, Tidied, LinkLayer, Resync,
         LayerWatch, DropRepo, RemoveUser, Deleted, World, DeleteGitRepository,
         CreateGitRepository, Publish, LeaveSource, JoinSource, Restart, Reconcile,
         Start, WaitForData, DataLinked, ListFiles, ReadFiles, Fail, Stop, vars, report
    <2> QED
      BY <2>2, <2>3, <2>4
  <1>2. ASSUME IInv, [Next]_vars
        PROVE  [\A l \in Layers : deployed'[l] >= deployed[l]]_vars
    BY <1>1, <1>2
  <1> QED
    BY <1>2, Invariance, PTL DEF Spec, DeployedNeverRollsBack

=============================================================================
