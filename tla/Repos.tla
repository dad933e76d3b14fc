------------------------------- MODULE Repos -------------------------------
(***************************************************************************)
(* How the data of one GitRepository reaches the layers that use it.       *)
(* Three kinds of goroutines share the controller's disk and its map of    *)
(* repositories: the watch on the GitRepository (fetches a revision, links *)
(* the layers to it, removes the other revisions), the watch on the        *)
(* AddonsLayers (drops a repository that has lost its last user), and the  *)
(* reconcilers, one per layer (link, read, report the revision).           *)
(*                                                                         *)
(* Abstractions.  A revision is its position in the history of the branch, *)
(* and it holds a directory for every layer.  The removal of directories   *)
(* has one point in between, at which each of them has lost some of its    *)
(* files.  The old link goes in the same step in which the new one is      *)
(* made: the moment without one is a failed read, which Stop allows for.   *)
(* What a reconcile does between reading the data and reporting the        *)
(* revision is the subject of other modules.                               *)
(***************************************************************************)
EXTENDS Integers, Sequences, FiniteSets

CONSTANTS
    Layers,      \* AddonsLayer names
    Founders,    \* the layers that use the GitRepository from the start
    NoLayer,     \* not a layer
    MaxRev,      \* bound: revisions of the branch
    MaxEdits,    \* bound: source changes of layers, GitRepository deletions
    MaxCrashes,  \* bound: restarts of the controller
    MaxLag       \* bound: GitRepository events yet to be handled

ASSUME LayersAssumption == Founders \subseteq Layers /\ NoLayer \notin Layers
ASSUME BoundsAssumption == /\ {MaxRev, MaxLag} \subseteq Nat \ {0}
                           /\ {MaxEdits, MaxCrashes} \subseteq Nat

VARIABLES
    git,         \* the revision of the GitRepository's artifact
    head,        \* the latest revision of the branch
    uses,        \* the layers whose source is this GitRepository
    edits, crashes,
    events,      \* GitRepository events on their way to the watch
    seen,        \* the GitRepository the last of them brought
    leaving,     \* layers whose source has changed: events for their watch
    repos,       \* the repository object in the map of repositories
    made,        \* repository objects made by this process
    objs,        \* objs[i]: what repository object i holds
    dir,         \* dir[r]: the data directory of revision r
    link,        \* link[l]: the revision the layer's symbolic link leads to
    removing,    \* Delete is at work, under the lock of the map
    watch,       \* the watch on the GitRepository
    due,         \* the watch on the layers is about to call Delete
    task,        \* task[l]: the reconcile of l
    read,        \* read[l]: the revision the last reconcile of l has read
    deployed     \* deployed[l]: status.deployedRevision of l

world    == <<git, head, uses, edits, crashes, leaving>>
incoming == <<events, seen>>
memory   == <<repos, made, objs>>
disk     == <<dir, link>>
drop     == <<removing, due>>
report   == <<read, deployed>>
vars == <<world, incoming, memory, disk, drop, watch, task, report>>

Revs       == 1..MaxRev
Objs       == 1..(MaxEdits + 1)
Gone       == -1            \* there is no GitRepository
NoArtifact == 0             \* there is one, and it has no artifact yet
NoLink     == -1
None       == 0             \* no object in the map; nothing read or deployed
Torn       == -1            \* a read of less, or more, than one revision

-----------------------------------------------------------------------------
(* The map of repositories *)

NewRepo(rev) ==
    /\ made + 1 \in Objs
    /\ made'  = made + 1
    /\ objs'  = [objs EXCEPT ![made + 1] = [rev |-> rev, users |-> {}]]
    /\ repos' = made + 1

(* Under syncLock and the lock of the map, not under the object's own lock *)
SetGitRepo(rev) ==
    /\ objs' = [objs EXCEPT ![repos].rev = rev]
    /\ UNCHANGED <<repos, made>>

Add(rev) == /\ ~removing
            /\ IF repos = None THEN NewRepo(rev) ELSE SetGitRepo(rev)

Without(dirs, from, to) ==
    [r \in Revs |-> IF r \in dirs /\ dir[r] \in from THEN to ELSE dir[r]]

(* TidyAll first, under no lock but that of the map. *)
Delete ==
    /\ ~removing
    /\ IF repos = None THEN UNCHANGED <<dir, removing>>
       ELSE /\ dir' = Without(Revs, {"full"}, "partial")
            /\ removing' = TRUE

Deleted ==
    /\ removing
    /\ removing' = FALSE
    /\ dir' = [r \in Revs |-> "none"]
    /\ repos' = None
    /\ UNCHANGED <<world, incoming, made, objs, link, due, watch, task, report>>

Exists(rev) == rev \in Revs /\ dir[rev] # "none"

-----------------------------------------------------------------------------
(* LinkData, under the object's lock from LinkBegin to LinkEnd *)

(* Mutant: LinkData without its lock *)
Unlocked(i) == FALSE

Locked(i) == \/ watch.pc = "linking" /\ watch.obj = i
             \/ \E l \in Layers : task[l].pc = "linking" /\ task[l].obj = i

(* The directory of a layer may be gone from a directory half removed. *)
HasLayer(rev)  == rev \in Revs /\ dir[rev] \in {"full", "partial"}
MissLayer(rev) == rev \in Revs => dir[rev] # "full"

LinkBegin(i) == ~Locked(i) /\ HasLayer(objs[i].rev)
NoData(i)    == ~Locked(i) /\ MissLayer(objs[i].rev)

LinkEnd(l, rev) == link' = [link EXCEPT ![l] = rev]

-----------------------------------------------------------------------------
(* The watch on the GitRepository: predicate, then mapper *)

Step(pc) == [watch EXCEPT !.pc = pc]

Mapping(queue) == [pc |-> IF queue = <<>> THEN "idle" ELSE "list",
                   queue |-> queue, obj |-> None, todo |-> {}, linked |-> {},
                   at |-> NoLayer, target |-> None]

Mapped == watch' = Mapping(Tail(watch.queue))

(* Mutant: The mapper that is given the new object first *)
NewBeforeOld(old, new) == <<new, old>>

(* The handler of an update maps the old object, then the new one. *)
UpdateEvent(old, new) == <<old, new>>

HasNewRevision(old, new) == new # NoArtifact /\ old # new

Event ==
    /\ watch.pc = "idle" /\ ~removing
    /\ events # <<>>
    /\ seen' = Head(events)
    /\ events' = Tail(events)
    /\ IF seen' = Gone THEN Delete /\ UNCHANGED watch
       ELSE /\ UNCHANGED <<dir, removing>>
            /\ watch' = IF seen = Gone THEN Mapping(<<seen'>>)
                        ELSE IF HasNewRevision(seen, seen')
                        THEN Mapping(UpdateEvent(seen, seen'))
                        ELSE Step("recheck")
    /\ UNCHANGED <<world, memory, link, due, task, report>>

(* Every sync-period the informer hands out what it holds once more. *)
Resync ==
    /\ watch.pc = "idle" /\ ~removing
    /\ events = <<>> /\ seen # Gone
    /\ watch' = Step("recheck")
    /\ UNCHANGED <<world, incoming, memory, disk, drop, task, report>>

(* Mutant: IsSynced that says what its name says *)
IsSyncedNamed(rev) == Exists(rev)

(* IsSynced says whether the data is NOT there. *)
IsSynced(rev) == ~Exists(rev)

Recheck ==
    /\ watch.pc = "recheck"
    /\ Add(seen)
    /\ watch' = Mapping(IF IsSynced(seen) THEN UpdateEvent(seen, seen)
                        ELSE <<>>)
    /\ UNCHANGED <<world, incoming, disk, drop, task, report>>

RepoMapper ==
    /\ watch.pc = "list"
    /\ IF uses = {} THEN Mapped /\ UNCHANGED memory
       ELSE /\ Add(Head(watch.queue))
            /\ watch' = [watch EXCEPT !.pc = "sync", !.obj = repos',
                                      !.todo = uses]
    /\ UNCHANGED <<world, incoming, disk, drop, task, report>>

Rev == objs[watch.obj].rev

(* SyncRepo: no artifact, or the data is there *)
NothingToSync ==
    /\ watch.pc = "sync"
    /\ \/ Rev = NoArtifact /\ Mapped
       \/ Exists(Rev) /\ watch' = Step("link")
    /\ UNCHANGED <<world, incoming, memory, disk, drop, task, report>>

(* SyncRepo: the data is unpacked elsewhere and its directory made. *)
Fetched ==
    /\ watch.pc = "sync"
    /\ Rev \in Revs /\ ~Exists(Rev)
    /\ dir' = [dir EXCEPT ![Rev] = "empty"]
    /\ watch' = Step("rename")
    /\ UNCHANGED <<world, incoming, memory, link, drop, task, report>>

FetchFailed ==
    /\ watch.pc = "sync"
    /\ Rev \in Revs /\ ~Exists(Rev)
    /\ Mapped
    /\ UNCHANGED <<world, incoming, memory, disk, drop, task, report>>

(* SyncRepo: the data takes the place of its directory, unless TidyAll has *)
(* meanwhile removed the directory that held them all.                     *)
(* Mutant: an error of the rename is logged, not returned. *)
RenameIgnored ==
    /\ watch.pc = "rename"
    /\ ~Locked(watch.obj)
    /\ \/ dir' = IF Exists(Rev) THEN [dir EXCEPT ![Rev] = "full"] ELSE dir
       \/ UNCHANGED dir
    /\ watch' = Step("link")
    /\ UNCHANGED <<world, incoming, memory, link, drop, task, report>>

Rename ==
    /\ watch.pc = "rename"
    /\ ~Locked(watch.obj)
    /\ IF Exists(Rev) THEN /\ dir' = [dir EXCEPT ![Rev] = "full"]
                           /\ watch' = Step("link")
       ELSE Mapped /\ UNCHANGED dir
    /\ UNCHANGED <<world, incoming, memory, link, drop, task, report>>

LinkLayer(l) ==
    /\ watch.pc = "link" /\ l \in watch.todo
    /\ \/ /\ LinkBegin(watch.obj)
          /\ watch' = [watch EXCEPT !.pc = "linking", !.todo = @ \ {l},
                                    !.at = l, !.target = Rev]
       \/ /\ NoData(watch.obj)
          /\ watch' = [watch EXCEPT !.todo = @ \ {l}]
    /\ UNCHANGED <<world, incoming, memory, disk, drop, task, report>>

LayerLinked ==
    /\ watch.pc = "linking"
    /\ LinkEnd(watch.at, watch.target)
    /\ objs' = [objs EXCEPT ![watch.obj].users = @ \cup {watch.at}]
    /\ watch' = [watch EXCEPT !.pc = "link", !.linked = @ \cup {watch.at},
                              !.at = NoLayer, !.target = None]
    /\ UNCHANGED <<world, incoming, repos, made, dir, drop, task, report>>

(* TidyRepo: every revision but the present one *)
TidyRepo ==
    /\ watch.pc = "link" /\ watch.todo = {}
    /\ dir' = Without(Revs \ {Rev}, {"full"}, "partial")
    /\ watch' = Step("tidy")
    /\ UNCHANGED <<world, incoming, memory, link, drop, task, report>>

Tidied ==
    /\ watch.pc = "tidy"
    /\ dir' = Without(Revs \ {Rev}, {"empty", "full", "partial"}, "none")
    /\ Mapped
    /\ UNCHANGED <<world, incoming, memory, link, drop, task, report>>

-----------------------------------------------------------------------------
(* The watch on the AddonsLayers *)

SyncLocked(i) == watch.obj = i /\ watch.pc \in {"rename", "tidy"}

LastUser(i, l) == objs[i].users \subseteq {l}

RemoveUser(l) ==
    /\ l \in leaving /\ ~due /\ ~removing
    /\ leaving' = leaving \ {l}
    /\ IF repos = None THEN UNCHANGED <<objs, due>>
       ELSE /\ ~SyncLocked(repos)
            /\ objs' = [objs EXCEPT ![repos].users = @ \ {l}]
            /\ due' = LastUser(repos, l)
    /\ UNCHANGED <<git, head, uses, edits, crashes, incoming, repos, made, disk,
                   removing, watch, task, report>>

DropRepo ==
    /\ due
    /\ due' = FALSE
    /\ Delete
    /\ UNCHANGED <<world, incoming, memory, link, watch, task, report>>

-----------------------------------------------------------------------------
(* A reconcile of a layer *)

Idle == [pc |-> "idle", obj |-> None, rev |-> None]

At(l, pc) == [task EXCEPT ![l].pc = pc]

(* Mutant: no question asked *)
AnyRevision == TRUE

HasRevision == repos # None /\ objs[repos].rev \in Revs

(* isReady, then checkData: without a ready revision there is no reconcile *)
Start(l) ==
    /\ task[l].pc = "idle" /\ l \in uses
    /\ ~removing /\ HasRevision
    /\ task' = [task EXCEPT ![l] = [Idle EXCEPT !.pc = "link", !.obj = repos]]
    /\ UNCHANGED <<world, incoming, memory, disk, drop, watch, report>>

(* waitForData: tried again every second, until Fail *)
WaitForData(l) ==
    /\ task[l].pc = "link"
    /\ LinkBegin(task[l].obj)
    /\ task' = [task EXCEPT ![l].pc = "linking",
                            ![l].rev = objs[task[l].obj].rev]
    /\ UNCHANGED <<world, incoming, memory, disk, drop, watch, report>>

DataLinked(l) ==
    /\ task[l].pc = "linking"
    /\ LinkEnd(l, task[l].rev)
    /\ task' = At(l, "read")
    /\ UNCHANGED <<world, incoming, memory, dir, drop, watch, report>>

(* kubectl lists the files behind the link, *)
ListFiles(l) ==
    /\ task[l].pc = "read"
    /\ HasLayer(link[l])
    /\ task' = [task EXCEPT ![l].pc = "files",
                   ![l].rev = IF dir[link[l]] = "full" THEN link[l] ELSE Torn]
    /\ UNCHANGED <<world, incoming, memory, disk, drop, watch, report>>

(* and reads each of them, wherever the link leads by then. *)
ReadFiles(l) ==
    /\ task[l].pc = "files"
    /\ HasLayer(link[l])
    /\ read' = [read EXCEPT ![l] = IF task[l].rev = link[l] THEN link[l]
                                                            ELSE Torn]
    /\ task' = At(l, "report")
    /\ UNCHANGED <<world, incoming, memory, disk, drop, watch, deployed>>

(* getRevision asks the map once more, and the status has what it says. *)
GetRevision(l) ==
    /\ task[l].pc = "report"
    /\ ~removing /\ HasRevision
    /\ deployed' = [deployed EXCEPT ![l] = objs[repos].rev]
    /\ task' = [task EXCEPT ![l] = Idle]
    /\ UNCHANGED <<world, incoming, memory, disk, drop, watch, read>>

(* Out of tries, nothing behind the link, no repository or no artifact *)
Fail(l) ==
    /\ \/ task[l].pc = "link" /\ NoData(task[l].obj)
       \/ task[l].pc \in {"read", "files"} /\ MissLayer(link[l])
       \/ task[l].pc = "report" /\ ~removing /\ ~HasRevision
    /\ task' = [task EXCEPT ![l] = Idle]
    /\ UNCHANGED <<world, incoming, memory, disk, drop, watch, report>>

(* For what is not this module's business: HelmReleases that are not ready, *)
(* dependencies that are not deployed.                                      *)
Stop(l) ==
    /\ task[l].pc \in {"read", "files", "report"}
    /\ task' = [task EXCEPT ![l] = Idle]
    /\ UNCHANGED <<world, incoming, memory, disk, drop, watch, report>>

-----------------------------------------------------------------------------
(* The world outside, and restarts of the controller *)

Notify(what) == /\ Len(events) < MaxLag
                /\ events' = Append(events, what)

(* source-controller finds the branch where it was, or one commit further. *)
Publish(rev) ==
    /\ git # Gone
    /\ rev \in {head, head + 1} \cap Revs /\ rev # git
    /\ git' = rev /\ head' = rev
    /\ Notify(rev)
    /\ UNCHANGED <<uses, edits, crashes, leaving, seen, memory, disk, drop,
                   watch, task, report>>

Edit == edits < MaxEdits /\ edits' = edits + 1

DeleteGitRepository ==
    /\ git # Gone
    /\ Edit
    /\ git' = Gone
    /\ Notify(Gone)
    /\ UNCHANGED <<head, uses, crashes, leaving, seen, memory, disk, drop, watch,
                   task, report>>

CreateGitRepository ==
    /\ git = Gone
    /\ git' = NoArtifact
    /\ Notify(NoArtifact)
    /\ UNCHANGED <<head, uses, edits, crashes, leaving, seen, memory, disk, drop,
                   watch, task, report>>

LeaveSource(l) ==
    /\ l \in uses
    /\ Edit
    /\ uses' = uses \ {l}
    /\ leaving' = leaving \cup {l}
    /\ UNCHANGED <<git, head, crashes, incoming, memory, disk, drop, watch, task,
                   report>>

JoinSource(l) ==
    /\ l \notin uses
    /\ Edit
    /\ uses' = uses \cup {l}
    /\ UNCHANGED <<git, head, crashes, leaving, incoming, memory, disk, drop,
                   watch, task, report>>

NoObjects == [i \in Objs |-> [rev |-> NoArtifact, users |-> {}]]

(* The volume outlives the process; the informer starts with a create event. *)
Restart ==
    /\ crashes < MaxCrashes
    /\ crashes' = crashes + 1
    /\ events' = IF git = Gone THEN <<>> ELSE <<git>>
    /\ seen' = Gone
    /\ leaving' = {}
    /\ repos' = None /\ made' = 0 /\ objs' = NoObjects
    /\ removing' = FALSE /\ due' = FALSE
    /\ watch' = Mapping(<<>>)
    /\ task' = [l \in Layers |-> Idle]
    /\ UNCHANGED <<git, head, uses, edits, disk, report>>

-----------------------------------------------------------------------------
Init ==
    /\ git = NoArtifact /\ head = 1 /\ uses = Founders
    /\ edits = 0 /\ crashes = 0 /\ leaving = {}
    /\ events = <<NoArtifact>> /\ seen = Gone
    /\ repos = None /\ made = 0 /\ objs = NoObjects
    /\ dir = [r \in Revs |-> "none"]
    /\ link = [l \in Layers |-> NoLink]
    /\ removing = FALSE /\ due = FALSE
    /\ watch = Mapping(<<>>)
    /\ task = [l \in Layers |-> Idle]
    /\ read = [l \in Layers |-> None]
    /\ deployed = [l \in Layers |-> None]

SourceWatch ==
    \/ Event \/ Recheck \/ RepoMapper \/ NothingToSync \/ Fetched \/ FetchFailed
    \/ Rename \/ LayerLinked \/ TidyRepo \/ Tidied
    \/ \E l \in Layers : LinkLayer(l)

LayerWatch == DropRepo \/ \E l \in Layers : RemoveUser(l)

Reconcile(l) ==
    \/ Start(l) \/ WaitForData(l) \/ DataLinked(l) \/ ListFiles(l)
    \/ ReadFiles(l) \/ GetRevision(l) \/ Fail(l) \/ Stop(l)

World ==
    \/ DeleteGitRepository \/ CreateGitRepository
    \/ \E rev \in Revs : Publish(rev)
    \/ \E l \in Layers : LeaveSource(l) \/ JoinSource(l)

Next ==
    \/ SourceWatch \/ Resync \/ LayerWatch \/ Deleted \/ World \/ Restart
    \/ \E l \in Layers : Reconcile(l)

Spec == Init /\ [][Next]_vars

(* The watches are goroutines that wait for nothing but events and locks; the  *)
(* informer resyncs for as long as the process lives and queues every layer    *)
(* when it does; a lock of sync.RWMutex starves nobody.  A download that is    *)
(* tried for ever succeeds some time, and so does a reconcile.                 *)
UnderLock == Rename \/ \E l \in Layers : LinkLayer(l)

Fairness ==
    /\ WF_vars(SourceWatch) /\ SF_vars(UnderLock) /\ SF_vars(Fetched)
    /\ WF_vars(Resync) /\ SF_vars(LayerWatch) /\ WF_vars(Deleted)
    /\ \A l \in Layers :
          /\ WF_vars(Start(l) \/ DataLinked(l) \/ Fail(l))
          /\ SF_vars(WaitForData(l)) /\ SF_vars(ListFiles(l))
          /\ SF_vars(ReadFiles(l)) /\ SF_vars(GetRevision(l))

FairSpec == Spec /\ Fairness
-----------------------------------------------------------------------------
(* Every variable stays within its type, and nobody works on a repository    *)
(* object without having one, whatever is dropped in the meantime.           *)
TypeOK ==
    /\ git \in {Gone, NoArtifact} \cup Revs /\ head \in Revs
    /\ uses \subseteq Layers /\ leaving \subseteq Layers
    /\ edits \in 0..MaxEdits /\ crashes \in 0..MaxCrashes
    /\ events \in Seq({Gone, NoArtifact} \cup Revs)
    /\ seen \in {Gone, NoArtifact} \cup Revs
    /\ repos \in {None} \cup Objs /\ made \in {0} \cup Objs
    /\ objs \in [Objs -> [rev : {NoArtifact} \cup Revs, users : SUBSET Layers]]
    /\ dir \in [Revs -> {"none", "empty", "full", "partial"}]
    /\ link \in [Layers -> {NoLink} \cup Revs]
    /\ removing \in BOOLEAN /\ due \in BOOLEAN
    /\ watch \in [pc : {"idle", "recheck", "list", "sync", "rename", "link",
                        "linking", "tidy"},
                  queue : Seq({NoArtifact} \cup Revs),
                  obj : {None} \cup Objs, todo : SUBSET Layers,
                  linked : SUBSET Layers, at : Layers \cup {NoLayer},
                  target : {None} \cup Revs]
    /\ task \in [Layers -> [pc : {"idle", "link", "linking", "read", "files",
                                  "report"},
                            obj : {None} \cup Objs,
                            rev : {None, Torn} \cup Revs]]
    /\ \A l \in Layers : task[l].pc # "idle" => task[l].obj # None
    /\ watch.pc \notin {"idle", "recheck", "list"} => watch.obj # None
    /\ read \in [Layers -> {None, Torn} \cup Revs]
    /\ deployed \in [Layers -> {None} \cup Revs]

(* While the mapper of the GitRepository watch removes the older revisions,  *)
(* none of the layers it has linked leads to one of them, however their      *)
(* reconciles relink them in the meantime: LinkData looks the directory up   *)
(* and makes the link under one hold of the object's lock.  This is so for   *)
(* the first object a process makes of the repository: a reconcile that goes *)
(* on with one that has been dropped holds a lock its successor has not.     *)
NoLinkLeftBehind ==
    watch.pc = "tidy" /\ made = 1 => \A l \in watch.linked : link[l] = Rev

(* The revision a layer reports never goes back, although the repository     *)
(* object is set to the old GitRepository before it is set to the new one,   *)
(* and reconciles, restarts and dropped repositories come in between.        *)
DeployedNeverRollsBack ==
    [][\A l \in Layers : deployed'[l] >= deployed[l]]_vars

(* What a layer has read is never newer than what it then reports to have    *)
(* deployed, although getRevision asks the map again, where the repository   *)
(* may have been set back, dropped or made anew since LinkData.              *)
ReportCoversRead ==
    \A l \in Layers : task[l].pc = "report" /\ HasRevision
                      => objs[repos].rev >= read[l]

(* What remains of SyncedMeansData: while the process lives, the mapper that *)
(* links the layers links them to whole data - whatever the reconciles link, *)
(* and whichever older revisions are tidied away - unless the repository is  *)
(* dropped under its feet.                                                   *)
SyncedUnlessRestarted ==
    watch.pc \in {"link", "linking"} /\ crashes = 0
    /\ repos = watch.obj /\ ~removing
    => dir[Rev] = "full"

(* Once the source has settled, every layer that uses it reports its present *)
(* revision and is linked to its whole data, for good: lost events, failed   *)
(* downloads, repositories dropped under the feet of a mapper or a reconcile *)
(* are all made good by a later resync.                                      *)
Settled(l) == deployed[l] = git /\ link[l] = git /\ dir[git] = "full"
Converges  == <>[](git \in Revs => \A l \in uses : Settled(l))

-----------------------------------------------------------------------------
(* What a comment says of the program, and what it does not do *)

(* A revision that is already synced has its data.  A restart between the    *)
(* making of its directory and the rename leaves an empty one for good.      *)
SyncedMeansData == watch.pc = "link" => dir[Rev] = "full"

=============================================================================
