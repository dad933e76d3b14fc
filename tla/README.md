# Kraan, modelled in TLA+

Kraan deploys *layers* of addons to a Kubernetes cluster. An `AddonsLayer`
custom resource names a directory of a git repository that holds
`HelmRelease` definitions, the layers it depends on, and an interval. The
kraan-controller keeps the HelmReleases on the cluster equal to the ones in
that directory; helm-controller (another program) installs them, and
source-controller (another one) publishes the repository as an artifact.

This directory holds a model of the controller: what it does to the
HelmReleases, how the source data gets to it, how it decides that a layer is
deployed, and when it looks at a layer again. `PROJECT.json` lists, machine-readable, the lines of source each
definition stands for, the runs, the mutants, the findings, the hazards and the
theorems.

## The system

Everything runs in one process with a work queue, four workers (`--concurrent`,
`main/main.go`) and one goroutine per watch. An AddonsLayer is in the hands of
at most one worker; different layers are reconciled side by side. The
client reads from informer caches and writes to the API server.

| part | source | state | operations | model |
|---|---|---|---|---|
| ownership of HelmReleases | `pkg/apply/layerApplier.go`, `controllers/addons_controller.go` | owner reference, `orphaned` label and spec of each HelmRelease, on the server and in the cache | adopt, label, delete, apply; deletion of a layer | `HelmReleaseOwnership`, `OwnershipContract`, `OwnershipHistory` |
| source data | `pkg/repos/repos.go`, watches and `repoMapperFunc` in `controllers/addons_controller.go` | map of repositories, each with its users and its GitRepository; one directory per revision, one link per layer | Add, SyncRepo, LinkData, TidyRepo, RemoveUser, Delete, getRevision | `Repos` |
| deployment of the layers in order | `controllers/addons_controller.go`, `pkg/layers/layers.go` | status of each AddonsLayer: state, version, generation, revision | isReady, prune, DependenciesDeployed, apply, checkSuccess, status update | `LayerDeployment`, `Rollout` |
| work queue, watches on AddonsLayers and HelmReleases, `layerMapperFunc` | `addons_controller.go:85-260`, `:740-812`, `:992-1071`; `layers.go:185-260` | queued layers; flags and age of a status | requeue, delays, setStatus, map | `LayerQueue` |
| hold | `addons_controller.go:601-668`, `layers.go:421` | `spec.suspend` of the HelmReleases | suspendHelmReleases | `LayerQueue` |
| upgradeFix | `addons_controller.go:882` | conditions of an earlier version | one status update | `LayerQueue` |
| resource list of the status | `addons_controller.go:517-553`, `layerApplier.go:810-855`, `:937-974` | `status.resources` | compare | `LayerQueue`, one entry |
| HelmRepositories | `layerApplier.go:578-593` | | apply | not modelled |
| kubectl, tarconsumer | `pkg/internal/` | none | run a program, download and unpack | their outcomes only |
| common, logging, metrics, API types, main | | | helpers and start-up | not modelled |
| mocks, fakes, chart, config, scripts | | | | not modelled |

How they interact. A GitRepository event makes the mapper fetch the revision,
link every layer that uses it, remove the other revisions and queue the layers.
A reconcile links its layer again, reads the files behind the link several
times with `kubectl apply --dry-run=server`, adopts, prunes and applies
HelmReleases through the API server, asks the map of repositories for the
revision and writes it to the status. Other layers read that status, from the
cache, to decide whether they may be applied. Every write comes back as an event
of a watch, which changes the cache and queues the layer, the owner of the
HelmRelease, or the layers that depend on it; what a reconcile has set in its
status decides whether it queues its layer itself.

What is hard in it:

- Interleaving: workers of different layers write the same HelmReleases; only
  the resource version of an Update orders them, and a Delete has none.
- Stale reads: owners, labels, conditions and dependencies are read from caches
  that lag behind the reader's own writes.
- Time between look and use: the files are read, compared, read again and
  applied, and the revision asked for last.
- Locks: `repoData` has two of them, `reposData` one, and `TidyAll` runs under
  none of its object's.
- Order: an update event of a GitRepository is mapped for the old object and
  then for the new one.
- Being forgotten: a reconcile that ends without asking for another one, while
  what it has seen in the caches is no longer so.
- Restarts, failed calls and downloads at any point; events that are not
  repeated; timeouts that race with success.

What makes each part correct:

- Ownership: a HelmRelease changes hands only while it is marked, and is deleted
  only after the interval; a failed or stale reconcile does no harm.
- Source data: no link to a removed revision, no report that goes back, and
  every layer ends up with the present revision.
- Deployment: nothing of a layer is applied before its dependencies have been
  there, no status overwrites a newer one, and all layers get deployed.
- Queue and hold: a layer that nobody will look at again is finished, deployed or
  held; and every layer gets there without the periodic resync.

## The modules

### HelmReleaseOwnership

One action per call of a reconcile: `task[l].pc` names the call to come,
`todo` the releases its loop has yet to visit, `copy` the objects it has read.
`cluster` is what the API server holds, `cache` the informer's, `watch` the
events on their way to it. `StartReconcile`, `AdoptSource` and `Adopt` are
`adopt`; `PruneSource`, `PruneList`, `Orphan` and `Prune` are `processPrune`;
`ApplySource`, `ApplyCompare`, `ApplyRead` and `Apply` are `processApply`;
`Orphan` is a look at the label, the Update that sets it and the comparison with
the interval, in one step: only that Update writes, and it is refused by its
version if anything has come between;
`StartDelete`, `Orphan` and `RemoveFinalizer` are the deletion path of
`Reconcile`. The order in which Go walks a map is a choice of `h` from `todo`;
the order of the files kubectl prints is the choice of the claimed set in
`Claims`, because `addOwnerRefs` stops at the first foreign release. The API
server takes an Update only with the current resource version (`Current`); the
garbage collector and helm-controller are actions of the environment.

`OwnershipContract` is the abstract specification: owners and labels only, and
the ways they may change. `ContractKept` says that `HelmReleaseOwnership`
implements it, with the cluster seen through `Seen`.

### OwnershipHistory

`HelmReleaseOwnership` with a record of what has happened, for the two
properties that the present state cannot express: a label on a release does not
tell whether a look at a source, or the deletion of its layer, has put it there,
nor how often the release has been missed since. `named[h]` are the layers that
have ever had `h` in their source, `look[l]` is what `PruneSource` has found
there, and `looks[h]` counts, up to 2, the looks of its owner that have missed
`h` since the one that marked it. No guard reads them: `HNext` is `Next` with
the record written, and `RecordOnly` proves `HSpec => Spec`.

### Repos

One GitRepository, the layers that use it and three kinds of goroutines:
`watch` is the one of the GitRepository (predicate, then mapper, one event at a
time), `due` and `removing` belong to the one of the AddonsLayers, `task[l]` is
a reconcile. `objs` are the repository objects, `repos` the one in the map: a
reconcile or a mapper may go on with one that has been dropped. `dir[r]` is
`none`, `empty` (made, not yet renamed to), `full` or `partial` (half removed).
`LinkBegin` and `LinkEnd` are the look-up and the symlink in `LinkData`, under
the object's lock. Two facts of the code that are easy to misread and that the
model has as they are: `IsSynced` answers whether the data is *not* there
(`repos.go:417`), and the update handler of controller-runtime maps the old
object before the new one.

What a reconcile does with a read of less, or more, than one revision (`Torn`) is
in `HelmReleaseOwnership`: it reads the source afresh at every call, so a torn
read is an edit just before the call and one just after it that takes it back.
`GraceBeforePrune` and `SecondLook` hold for any number of edits by proof: a
release that a torn read does not show is marked, and goes only if another look,
after the interval, does not show it either.

Abstractions: every revision holds a directory for every layer; a directory is
removed in two steps; a race on the strings in `repoData` yields the old or the
new value; the old link goes in the step that makes the new one.

### LayerDeployment

The whole of `processAddonLayer` for every layer, from the cached AddonsLayer
(`Begin`) to the status update (`Finish`), one action per look at the caches or
the source. `Depend` appears twice because `processApply` asks twice.
`OtherDeployed` is `isOtherDeployed` with its five conditions. `End(l, state)`
is a `setStatus` followed by the return. `Finish` writes the status only if the
copy it started from is current: this is the conflict of `Status().Update`.
`ApplyFails` is an apply that has written the HelmRelease and fails after that.
helm-controller acts on a HelmRelease when its generation is ahead.

Abstractions: one GitRepository for all layers, whose fetch and link are one
step (`SyncRepo`; `Repos` has the details); one HelmRelease per layer, which
nobody else claims (`HelmReleaseOwnership` has the rest); the message of a
condition is left out, so an update of the message alone is no update; a
timeout may pass at any time.

`Rollout` is the abstract specification: a layer's addons come to a cluster only
when those of its dependencies have been deployed there. `RolloutKept` says
that `LayerDeployment` implements it, for dependencies on layers that have their
HelmRelease in every revision (`Lasting`): of another layer, `Deployed` promises
nothing (see the observations below).

### LayerQueue

The same reconcile once more, this time for what `LayerDeployment` leaves to
fairness: `queue` and who puts layers into it. `Take` is a worker that is free;
`UpgradeFix`, `AddFinalizer` and `Begin` are the three ways to start; `Suspend`
(`suspendHelmReleases`), `Judge` (`isReady` to `ApplyIsRequired`), `Apply`,
`Check` (`checkSuccess`) and `Finish` (`updateResources`, the status update,
`updateRequeue`) follow, one action per look at the caches or write to the
server; `ApplyFails` is the apply that stops before the HelmRepositories.
`SetStatus` is `setStatus` with its early return: the same condition
sets no flag. `SeeLayer`, `SeeRelease` and `SeeGit` are the three watches with
their predicates and mappers (`Itself`, `Dependents`, `Owner`). Users put layers
on hold, take them off, suspend and delete HelmReleases; helm-controller acts on
what is not suspended; a call, a fetch or a deployment may fail, and the process
may restart, at any step.

Abstractions: the revision of the GitRepository is behind the links when its
event is handled (`Repos` has the way there); every layer of `Deploying` has one
HelmRelease, in every revision, that nobody else claims, so nothing is pruned or
adopted; an object that the cache is behind on is a name in `layerNews` or
`releaseNews` (what the resource version would tell, and the events to come, in
one set: several events of one object come as its last); all delays and the
back-off of the queue are "some time later"; a conflict between the dry run and
the update is one of the failing calls; semantic versions of dependencies are in
`LayerDeployment`.

## The runs

Every passing run checks deadlock too.

| run | what varies | bounds | checks |
|---|---|---|---|
| `ownership_one` | two layers, one HelmRelease, all initial sources | 2 edits, 5 versions, time to 2, 2 events under way | TypeOK, GraceBeforePrune, SecondLook, ContractKept, TransferNeedsLabel, OnlyNamed |
| `repos_safe` | one layer, two revisions | 2 edits, 1 restart, 2 events under way | TypeOK, NoLinkLeftBehind, ReportCoversRead, SyncedUnlessRestarted, DeployedNeverRollsBack |
| `repos_converge` | one layer, two revisions, fairness | 1 edit, 2 events under way | Converges |
| `layers_revisions` | base and top, two revisions, top loses its release | no edits, no faults | TypeOK, RolloutKept, ReportNeverRollsBack |
| `layers_converge` | a version or a dependency edited, the upper release carries its layer's version, fairness | 1 edit, 1 revision | DeployedVersion, RolloutKept, AllDeployed |
| `layers_faults` | any one fault (an apply that stops half way among them), fairness | 1 fault, 1 revision | AllDeployed |
| `queue_two` | base with a HelmRelease, new, deployed by an earlier version or held; top depends on it; any one edit, fault or second revision; fairness without the resync | one upset, 1 worker, 2 revisions, timeout of one tick | TypeOK, NothingForgotten, HoldComplete, Settles |

Why these bounds. Two layers are the two parties of every race over a release,
and the two ends of a dependency. For the source data one layer is enough to
have three goroutines at work on one repository (its reconcile, the mapper, the
watch that drops the repository), and two revisions to have an older one.
One release shows every transfer; the loops over several, and their shared
verdict, are covered for any number by the proofs. Five versions of a release
allow it to be created, marked, adopted, applied and touched by
helm-controller. Two events under way are needed for a cache that is behind the
reader's own write by one event while another arrives. An interval of one tick
and a clock to 2 let a label expire, be dropped and be set again. One fault may
fall on any step, and what follows is the recovery from it. Every property of
every passing run has a mutant, a plausible slip in the code, that the same run
refutes: the cases it needs do occur within the bounds. In `queue_two` one worker
is the scarcest there can be, the one upset may be an edit, a failure, a restart
or a new revision at any step, and the first revision, where there is none yet, is
one more change under way;
the safety properties hold for any number of layers, workers, revisions and
upsets by proof.

The latest revision is the first one in `layers_converge` and `layers_faults`: with
a second one their state spaces pass three million states and no longer fit a
liveness check of a few minutes. `queue_two` has the second revision, as its upset
or none, and asks the same question of two layers that depend on each other;
`layers_revisions` and `repos_*` have it for the safety properties and for the way
of the data. A second revision *and* a failure are not checked together for
liveness.

What the properties say:

- `GraceBeforePrune`: what a reconcile is about to delete, that its layer still
  owns and that is still marked, has waited, although the label was read from a
  cache several calls earlier.
- `ContractKept`, `TransferNeedsLabel`: see above; a stale copy never moves a
  release, because its version is no longer current. The second follows from the
  contract and is stated apart because it is what the user guide promises.
- `SecondLook`: what is about to be deleted, still owned and marked, has been
  missed by two looks at the source since it was marked, unless the layer has no
  interval. A label that the deletion of a layer has left, one look at a source
  that is being changed, or a torn read, is never enough. It does not say that
  the wait is counted from the last removal (see the observations).
- `OnlyNamed`: no reconcile writes or deletes a release that its layer has never
  had in its source, or that belongs to a layer that has never had it. This
  confines the findings `adopted_then_pruned` and `shared_release`: the deletion
  and the unchecked apply hit layers that have defined the same release, and no
  others. The labels and caches alone do not show it: a release is adopted, listed
  and deleted by name, from copies that may be stale.
- `NoLinkLeftBehind`: while the mapper removes older revisions, no layer it has
  linked leads to one of them, although reconciles link the same layers. This is
  claimed for the first object a process makes of the repository. Once one has
  been dropped, a reconcile that still holds it links under a lock its successor
  does not know, and TLC shows the link left behind; the next reconcile repairs
  it.
- `ReportCoversRead`: the revision about to be reported for a layer is never older
  than the one its files were read from, although `getRevision` asks the map
  again, and the repository may have been set back, dropped or made anew since
  (`HasRevision`). It may be newer: that is the finding
  `applied_before_dependency`.
- `SyncedUnlessRestarted`: what remains of the comment at `repos.go:436`, which
  `empty_after_crash` refutes: as long as the process lives and the repository
  has not been dropped under it, the mapper links layers to whole data only.
- `DeployedNeverRollsBack` (in `Repos`) and `ReportNeverRollsBack` (in
  `LayerDeployment`): two different ways for a status to go back, through the
  repository object and through a stale AddonsLayer.
- `Converges`, `AllDeployed`: lost events, failed downloads, dropped
  repositories, conflicts, stale verdicts are not final.
- `NothingForgotten`: when no event, no queue entry and no reconcile is left for a
  layer, it is deployed in the present revision, with its HelmRelease of that
  revision, running and ready; or a call has failed twice in the same way. Every
  look at a cache that turns out stale is repaired by an event to come or a flag.
- `TypeOK` (in `LayerQueue`): besides types, no status shows the message of one
  state next to another state. A layer is kept from being forgotten by the change
  of its condition, so a condition must not survive, in part, the next one
  (`setStatus` empties the list first).
- `HoldComplete`: the same for a layer on hold: suspended, and says so.
- `Settles`: with fair workers, watches and helm-controller, and no resync, that
  is where every layer ends up, or waits for one that cannot.
- `RolloutKept`, `DeployedVersion`: what can be relied upon of a dependency, and
  of a version, in spite of the findings below: a layer reported as `Deployed` at
  its present generation has its HelmRelease on the cluster, and of that version.

### Fairness

`Repos!Fairness`: the watches are goroutines that wait for events and locks only
(WF), a `sync.RWMutex` starves nobody (SF on the steps that take a lock), the
informer hands out its objects again every sync-period (60 s, `main.go:150`)
and queues every layer with it (WF on `Resync` and on the start of a
reconcile). A download that is tried for ever succeeds some time (SF on
`Fetched`), and so does a read.

`LayerDeployment!Fairness`: workers and informers run; every layer is
queued at least at each resync, so `Reconcile(l)`, which is always enabled, is
weakly fair; helm-controller and source-controller retry for ever. Users,
failures and restarts have no fairness: they may happen, within their bounds,
or not.

`LayerQueue!Fairness` has nothing for `Resync`: `Settles` is about what the
flags and events do by themselves. The queue is first-in first-out, so a layer
in it is taken although the workers are busy with others time and again (SF on
`Get`); a reconcile under way goes on (WF on `Step`), informers deliver (WF on
`SeeLayer`, `SeeRelease`, `SeeGit`), time passes (WF on `Tick`), helm-controller
and source-controller go on trying (WF on `HelmDeploys`, `FetchRecovers`), and
the first revision is published (WF on `Publish` when there is none, so that there
is something to deploy). Edits and faults have none.

`HelmReleaseOwnership` has no liveness property and no fairness.

## Findings

Runs that are expected to be violated, each for one statement of the
documentation or of a comment that the code does not keep:

| run | statement | what happens |
|---|---|---|
| `adopted_then_pruned` | user guide: a release moved to another layer is adopted rather than deleted | Prune deletes by name what was listed before the adoption |
| `shared_release` | user guide: layers that do not own a release fail to apply it | `addOwnerRefs` ends without error at an orphaned release and the rest is applied unchecked |
| `deployed_before_ready` | user guide: waits for the releases before `Deployed` | the Ready condition of the previous generation counts |
| `applied_before_dependency` | README: dependencies are deployed first | the revision compared, reported and applied are asked for at different times |
| `empty_after_crash` | `repos.go:436`: already synced | a restart between `MkdirAll` and `Rename` leaves an empty directory for good |

Smaller observations of the same kind, seen in the models and not kept as runs:

- `addons_controller.go:819`: the releases to mark when a layer is deleted come
  from the cache; one it does not show yet goes unmarked.
- `layerApplier.go:683`: a label left over from an earlier removal, not yet
  dropped by an apply, is kept, and a second removal is not waited for.
- `addons_controller.go:193`: `RemoveUser` answers whether the last user is gone,
  but only the mapper records users; a repository may be dropped under a layer
  whose reconcile uses it. `Converges` shows that it comes back.
- `layers.go:200`: a call that fails twice in the same way sets the same
  condition, which sets no flag; the layer waits for the resync, where
  `docs/design/README.md:130` expects a back-off. It is the exception in
  `NothingForgotten`.
- `addons_types.go:78`: the timeout "defaults to Interval"; `CreateLayer` makes it
  one minute.
- `addons_controller.go:389`: a layer whose dependencies are not deployed is queued
  again with the queue's back-off (`SetRequeue`), where `docs/design/README.md`
  says after the interval.
- `layers.go:200`: a status that goes from `Applying` to `Applying` keeps its age, so
  a second apply has only what is left of the first one's timeout.
- A `NotDeployed` entry of the resource list carries the present time and so
  differs at every pass: each one writes a status, whose event causes the next.
- `addons_controller.go:601`: a hold suspends the releases listed as the layer's;
  one that another layer has adopted since is suspended all the same.
- `layerApplier.go:857`: a layer whose last HelmRelease has gone from the source is
  reported `Deployed` although the HelmRelease is still there, at an older
  version or not ready, if the cache does not show it yet: nothing is pruned,
  nothing is compared. `Lasting` is the condition without which
  `DeployedVersion` fails.
- `layerApplier.go:295`: a HelmRepository is refused when another layer owns it,
  like a HelmRelease, but nothing ever marks one as orphaned: moved from one layer
  to another, it makes the new one fail until the old one is deleted.
- `addons_controller.go:514`: the revision reported is looked up after the files
  were read (`GetRevision` in `Repos`); a new one may have come in between.

## The proofs

`HelmReleaseOwnership_proofs` proves, for every set of layers, releases and
specs, every interval and every bound, from the assumptions named in
`HelmReleaseOwnership` (`NoLayer` and `NoSpec` are not values, intervals are
naturals) and nothing else:

| theorem | statement |
|---|---|
| `Invariance` | `Spec => []IInv` |
| `TypeCorrect` | `Spec => []TypeOK` |
| `GraceHolds` | `Spec => []GraceBeforePrune` |
| `ContractImplemented` | `Spec => ContractKept` |
| `TransferHolds` | `Spec => TransferNeedsLabel` |

`GraceBeforePrune` is not inductive: the decision is taken on the cache, and
nothing in it says how the cache relates to the cluster. `IInv` is the
conjunction of

- `WorldOK`, `StoreType`: types;
- `VersionsGrow`: no copy is newer than the last version given out, and the
  object on the cluster carries that version;
- `CacheFaithful`: a cached object or a pending event that carries the current
  version *is* the current object, and no later event follows it; this is what
  an Update with a matching version rests on;
- `LabelEra`: as long as a release is marked, the cache and all events under way
  show its present owner, and its present label or none; so a label found in the
  cache is the one on the cluster if that one has an owner and is marked. It
  holds because a reconcile marks only what it sees unmarked *at the current
  version*;
- `TasksOK`: for each reconcile, `AdoptOK` (what it adopts is marked, and is the
  object itself if current), `ApplyOK` (what it applies changes the owner only
  of a release without one) and `PruneOK` (what the orphan loop has passed, with
  no verdict to wait, has waited).

The proof has lemmas for the three primitives that change the store (`Put`,
`Remove`, `WatchEvent`) and then one per action; `NextIInv` puts them together.
`ContractStep` shows that each action is a step of the contract, or a stutter,
from `IInv` at both ends.

`OwnershipHistory_proofs` goes on from there, under the same assumptions:

| theorem | statement |
|---|---|
| `RecordOnly` | `HSpec => Spec`, so every theorem above holds of `HSpec` |
| `RecordInvariance` | `HSpec => []HInv` |
| `SecondLookHolds` | `HSpec => []SecondLook` |
| `OnlyNamedHolds` | `HSpec => OnlyNamed` |

`HInv` is what ties the record to the state, and uses `IInv` at every step:

- `LookOK`: the prune loops go through what the look has missed, and only a layer
  that is being deleted is taken down;
- `MarksOK`: for every label and its owner, how many looks stand behind it
  (`Counts`). None, and then the owner is being deleted and reconciles no more;
  one, and then a reconcile that has missed the release has put the label there
  itself and has its verdict to wait, or there is no interval; or two. The
  middle case is where `LabelEra` is needed: a label seen in the cache is the one
  on the cluster;
- `NamedOK`: owners on the cluster, in the cache, in the events and in the copies
  of the reconciles are layers that have had the release, and the loops of a
  reconcile hold only what its layer has had.

`OnlyNamed` needs the last in full, because a step acts on a copy read many steps
earlier, from a cache that may show an owner from long ago.

`LayerQueue_proofs` proves, for every set of layers, dependencies (cyclic ones
too), number of workers, timeout and bound, from the assumptions named in
`LayerQueue`:

| theorem | statement |
|---|---|
| `Invariance` | `Spec => []IInv` |
| `TypeCorrect` | `Spec => []TypeOK` |
| `NeverForgotten` | `Spec => []NothingForgotten` |
| `HoldIsKept` | `Spec => []HoldComplete` |

Neither property is inductive: they speak of the moment when nothing is left to
come, and what makes them true is decided many steps earlier. `IInv` is `TypeOK`
and, for each layer,

- `CacheOK`: a cached object that differs from the one on the server has an event
  under way;
- `CopyOK`: the copy a reconcile works on is the present layer, or marked stale, and
  then its status update will be refused and the layer queued;
- `StepOK`: what a reconcile has judged on its way (the dependencies, the release,
  the hold) still holds of the caches, or a flag is set, or the layer is queued;
- `RestOK`: a layer without a reconcile is queued, or what the caches show of it is
  final.

The last two say the same thing at different moments: a change of a cache always
comes with an entry in the queue, and only the end of a reconcile may leave a
layer out of it.

`LayerDeployment_proofs` proves, for every set of layers, dependencies (cyclic
ones too), contents of the revisions and bounds, from the assumptions named in
`LayerDeployment` (the last of them, `NoAddonAssumption`: `NoAddon` is not the
HelmRelease of any layer):

| theorem | statement |
|---|---|
| `Invariance` | `Spec => []IInv` |
| `TypeCorrect` | `Spec => []TypeOK` |
| `VersionHolds` | `Spec => []DeployedVersion` |
| `ReportHolds` | `Spec => ReportNeverRollsBack` |
| `RolloutImplemented` | `Spec => RolloutKept` |

What a status says has been decided on three caches, none of which need be
up to date with the others. `IInv` relates them:

- `SourceOK`: the revision behind the links is not ahead of the cached
  GitRepository, nor that of the real one;
- `RevisionOK`: no status, written or in the making, reports a revision that is
  ahead of those; hence `Check` never reports an older one than its copy had;
- `DeployedOK`, `ReleasesOK`: a status that says Deployed, in whatever copy, is
  of a layer whose HelmRelease has been installed, because a Ready condition
  in the cache has been true of the object;
- `VersionsGrow`: the version of a HelmRelease grows, that in the cache is not
  ahead of it, and neither is ahead of the layer in the cache, which is not
  ahead of the layer;
- `StepOK`, `TaskVersionOK`: what a reconcile has judged still holds when it acts
  on it: dependencies have been installed, and a release found equal to the
  source is at the version of the copy, since nothing older can follow.

In the refinement `ApplyStarts` shows that an apply is a `Start`, `HelmInstalls`
that a deployment is an `Install`; all other steps are stutters.

`Repos_proofs` proves, for every set of layers, number of revisions and bound,
from the assumptions named in `Repos`:

| theorem | statement |
|---|---|
| `Invariance` | `Spec => []IInv` |
| `TypeCorrect` | `Spec => []TypeOK` |
| `LinksHold` | `Spec => []NoLinkLeftBehind` |
| `ReadIsCovered` | `Spec => []ReportCoversRead` |
| `DataIsWhole` | `Spec => []SyncedUnlessRestarted` |
| `ReportHolds` | `Spec => DeployedNeverRollsBack` |

Here `IInv` is the conjunction of five invariants, each inductive given those
before it:

- `Shape`: types, and that the objects at work are among those made;
- `LinksOK`: from the first link the mapper makes until its TidyRepo ends, a
  link that is made, or about to be made by whoever holds the lock, leads to
  the revision that stays. The condition `made = 1` cannot be dropped: it is
  what makes all locks the same one (`OneObject`);
- `OrderOK`: what is between the branch and a layer's report, namely the events,
  what the watch has seen, the mapper's queue and the repository object, is in
  the order of the branch, where `NoArtifact` and a deletion count as no
  revision. That is why setting the object to the old GitRepository first does
  no harm: nothing that is newer has got past the mapper.
- `PastOK`: what has been linked, read or reported is not ahead of the repository
  object, nor of anything on its way to it. It has to speak of all dropped
  objects too, since a reconcile may still link from one; a report that
  follows can then neither go back nor fall behind the read;
- `DataOK`: in a process that has not been restarted, and with no repository being
  dropped, a directory is empty only while the mapper is between making and
  renaming it, and half removed only while it is tidied and is not the present
  one. Both exceptions are needed: the restart is the finding, and a drop runs
  under no lock of the mapper.

Only model-checked: all liveness (`Converges`, `AllDeployed`, `Settles`), and the
findings. Liveness under fairness and ENABLED, induction over data, and
anything with a RECURSIVE operator stay with TLC: the provers at hand do not
reach them. (No module here declares a recursive operator.)

## Plan

1. Done: ownership, checked and proved.
2. Done: source data, checked.
3. Done: deployment in order, checked.
4. Done: work queue, hold, `upgradeFix`, an entry of the resource list, checked
   and proved.
5. Done: proofs for the deployment in order and its refinement of `Rollout`.
6. Done: proofs for the source data.
7. Done: what the state alone does not tell of a label, with a record
   (`OwnershipHistory`), checked and proved; what is read and what is reported,
   and the data of the revisions, proved.
8. Next: HelmRepositories as objects, with the owner that they keep.

## Not modelled, and why

HelmRepositories: created and updated by the same calls as HelmReleases, never
pruned, adopted or orphaned; that the call for them fails when the HelmReleases
have been applied is `ApplyFails`. The commands `kubectl` and `kustomize`, tar files,
HTTP: pure I/O, present as outcomes. Metrics, events and logs: written only.
Several GitRepositories: they share nothing but the lock of the map. Two
controllers at once: the chart enables leader election. `CompareAsJSON`: taken as
equality of specs. The rest is in the plan.
