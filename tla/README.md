# A TLA+ model of the fusioninfer controller

fusioninfer is a Kubernetes operator. A user writes an `InferenceService`, a
list of roles (router, worker, prefiller, decoder); the controller turns it into
a Volcano `PodGroup`, one `LeaderWorkerSet` (LWS) for every replica of a worker
role, and, for a router role, the eight objects that put a gateway route and an
endpoint picker (EPP) in front of the leader pods. This directory models that
controller, the builders it uses and the generated code it stands on (deep copies,
shared informers, the Model types' validation), checks them with TLC on small
instances and proves the main results with TLAPS for all instances.

## Inventory

| Part | Source | State | Operations | Modelled |
|---|---|---|---|---|
| InferenceService controller | `pkg/controller/inferenceservice_controller.go` | none of its own: the API server's objects, the informers' caches, the workqueue | `Reconcile`: fetch, PodGroup, LWSs and cleanup, router objects, status | `Reconciler` |
| API types, conditions | `api/core/v1alpha1/inferenceservice_types.go`, `pkg/controller/condition.go` | spec, status | condition setters, component summary | `Roles`, `Status` |
| Gang scheduling | `pkg/scheduling/podgroup.go` | pure | gang decisions, `BuildPodGroup` | `Scheduling`, `Manifest` |
| Workload builder | `pkg/workload/lws.go` | pure | `BuildLWS` | `Workload`, `Manifest` |
| Router builders | `pkg/router/*.go` | `EPP_IMAGE` of the process | EPP objects, pool, route, EPP configuration | `Router`, `Manifest` |
| Spec hash | `pkg/util/hash.go` | pure | `ComputeSpecHash` | constant `Hash`, assumed free of collisions |
| Manager start | `cmd/main.go` | environment | start, watches | `Restart`, partly |
| ModelLoader controller | `pkg/controller/modelloader_controller.go` | none | an empty scaffold | no: it changes no state |
| Model, ClusterModel types | `api/core/v1alpha1/model_types.go` | the objects | create, update and delete under the validation rules of the types; no controller acts on them | `Models` |
| Deep copies | `api/core/v1alpha1/zz_generated.deepcopy.go` | memory shared between cache and readers | `DeepCopyInto`, `DeepCopy`, `DeepCopyObject` of every type | `DeepCopy` |
| Informer factory | `client-go/informers/externalversions` | maps of informers and of started ones, wait group, lock | options, `InformerFor`, `ForResource`, `Start`, `Shutdown`, `WaitForCacheSync` | `InformerFactory` |
| Generated clients | rest of `client-go` | none | typed requests, builders of apply configurations, fakes | no: one call each of library code |
| config, docs | - | - | manifests, a web site | no |

The parts meet in one place: a pass of `Reconcile` calls the builders on its copy
of the spec and writes what they return. Everything else happens through shared
objects in the API server: users edit, delete and recreate the service; the LWS
controller reports readiness; the garbage collector removes children whose owner
is gone; informers bring all this to the controller's cache, late, and every
delivery enqueues another pass. The informer factory is the same mechanism for
programs outside the manager, and the deep copies are what keeps a pass, which
changes the service it has read in place, from writing into a cache.

What is hard here: every read comes from a cache that may be old; every write may
be refused or may lose its answer; the pass is a sequence of independent writes
that may stop anywhere (error, panic, crash); its own status update wakes it
again; a recreated service has its predecessor's name and finds its
predecessor's children. `PROJECT.json` lists each of these hazards with its line
and the properties that watch it.

What makes each part correct:

* controller: nothing is ever left undone with nobody to wake the controller;
  the status tells the truth about the spec it names; the PodGroup is there
  before the pods that need it; children do not outlive their service; the
  self-inflicted passes die down;
* builders: the PodGroup, the LWSs, the pool and the EPP configuration, built in
  different packages, fit together;
* informer factory: whoever asks, starts, waits and shuts down, in whatever order,
  an informer is made once and run once, a reported sync is true, and the blocking
  calls return;
* deep copies: a copy is equal and shares no memory;
* Model types: the rules hold an artifact fixed through every sequence of updates.

## Modules

`Roles` <- `Scheduling` <- `Workload` <- `Router` <- `Status` <- `Reconciler`
(each extends the one before), and `Manifest` on `Router`. `LevelTriggered` is
the abstract controller `Reconciler` implements. `InformerFactory`, `DeepCopy` and
`Models` stand alone. The `MC` modules hold the instances. The proofs are in
`ReconcilerProofs`, on which `LevelTriggeredProofs` and `GangProofs` build, and in
`ManifestProofs`, `InformerFactoryProofs`, `DeepCopyProofs` and `ModelsProofs`;
`Sums` has the lemmas about sums over finite sets. An operator whose comment
starts with "Mutant of" is a wrong version of the definition that follows it,
which the runs must tell from the right one.

**Roles, Scheduling, Workload, Router, Status** are the pure code: one operator
per Go function, under the function's name. A spec is a sequence of role records;
a pod template is an image (everything the user writes) and the resource limits
of its containers. The service's name is left out, as there is one service.
Builder results keep what properties tell apart: sizes, labels, the task
annotation, which command wraps the first container, what the spec hash covers.

**Reconciler** is the controller and its world.

| Variables | In the code |
|---|---|
| `svc`, `api` | the service and its children in the API server; a child has its label `hash`, `content`, `owner` uid and reported `status`; `rolledOut` says whether an LWS's pods run its current template |
| `svcCache`, `cache`, `behind` | the manager's informers: their copies, and the keys whose latest version they do not have yet |
| `queued` | the workqueue holds the service |
| `pc`, `ri`, `idx`, `orphans`, `running`, `started` | where a pass stands: the step of `Reconcile`, the role, the replica or router object, the list of `cleanupOrphanLWS`, what `aggregateLWSStatus` has read |
| `unread` | the replicas whose Get failed in the last pass; a history variable, which no step reads |
| `local`, `stale`, `err` | `inferSvc`, whether its resourceVersion is still the current one, `reconcileErr` |
| `eppImage` | `EPP_IMAGE` of the running manager |
| `uids`, `faults`, `crashes`, `flaps` | counters for the bounds |

One action per step of the pass, in program order: `FetchService` (or
`IgnoreDeleted`), `ReconcilePodGroup`, `ReconcileLWS` per replica,
`ListOrphanLWS` and `DeleteOrphanLWS`, `NextRole`/`EndLoop`, `ReconcileRouter`
per object, `ReadLWSStatus` per replica, `UpdateStatus`; `PanicInBuildLWS` where
the code indexes an empty slice (the controller runtime recovers the panic and
requeues). An error goes to the status loop with `err` set, as the code does; that
of a List in `cleanupOrphanLWS` too, while `aggregateLWSStatus` drops the error of
a Get and takes the replica for missing. Nothing retries such a pass, so the status
may understate the replicas in `unread` until the next event; `QuiescentStatus` and
`EventuallyActive` make that one exception, by name.
The environment has one action each: `CreateService`, `EditSpec`,
`DeleteService`, `Deliver` (an informer), `LWSProgresses`, `LWSUnready`,
`LWSRollsOut`, `GarbageCollect`, `Restart`. An update of an LWS keeps the readiness
its old pods reported until `LWSRollsOut` replaces them: `aggregateLWSStatus` does
not compare generations, and `EventuallyActive` asks that the service ends up
Active on the template it has, not on the one before.

Abstractions, and why they are sound for what is checked:

* The Get, the comparison and the write of one child are one step. The Get reads
  the cache, which only `Deliver` changes; an Update is accepted only if the
  cached version is still current and a Create only if there is no object, so a
  change between Get and write shows as a refused write either way.
* `Deliver(k)` brings the latest version. Intermediate versions are seen when
  they are delivered while they are current. Keys are delivered in any order,
  also within a kind, which allows more than the watches do.
* Lost, failed and refused requests differ: a refused one is decided by the
  state, a failed one has no effect, a lost answer has its effect and an error.
* Deletion of the service is background deletion, the default.
* `lastUpdateTime` has the resolution of a second, so a status that is otherwise
  equal may or may not be a new version (`touched` in `StatusWritten`).
* The LWS schema refuses a pod template without containers (`Admitted`, external).

**LevelTriggered** says what such a controller promises, in six variables: what is
desired, what the controller has in view and what its pass has seen of it, its
configuration, the actual state, and whether it is due. It may come to rest (end a
pass and not be due) only when the actual state is what the *current* desire asks
for; at rest it writes nothing; a pass writes a part only with what the one desire
it began with asks for. The mapping, in `Reconciler`: `desired`, `view` and `seen`
are the specs of `svc`, `svcCache` and `local` (nothing between passes), the
configuration is `eppImage`, the actual state is the content of each child, and
`due` is `~Quiescent`. Deletes of orphans and of the garbage collector, status
updates and events map to `Disturb`, `Wake` or stuttering.

**Manifest** enumerates the manifests a user can write, role by role, and states
what must hold between the objects built from each.

**InformerFactory** has the fields of `sharedInformerFactory` (`informers`,
`startedInformers`, `wg`, `shuttingDown`, the options in `config`), the goroutines
in `informer.Run`, the informers that have synced, and for each caller the method
it is blocked in and the informers it was handed. The constructor's loop applies
one option per step (`applied` counts them) before anybody has the factory.
Methods hold the factory's lock from beginning to end, so each is one action
(`ForResource` and `InformerFor`, `Start`, `Shutdown`, `WaitForCacheSync`) up to
where it blocks outside the lock (`ShutdownReturns`; `SyncDone` for every informer
polled, `WaitForCacheSyncReturns`). `Sync`, `GoroutineEnds` and `Close` are the
informers and the owners of stop channels. A caller uses the factory as the
comment on its interface shows, and makes no call after its `Shutdown`; `asked` is
what it held at its last `Start`.

**DeepCopy** is a heap of cells, one for everything a pointer, slice or map refers
to, and one operator per `DeepCopyInto` that says which references get new memory.
The cache holds an object, readers copy it from the cache or from each other and
change anything they reach. An address is an owner and a place in the object, so a
copy has the places of its original; `Reach` follows references four times, as
deep as the types are nested (list, items, roles, template, raw bytes). `ObjectMeta`,
`ListMeta` and `RawExtension` are copied by library code.

**Models** is the API server's store of Models and ClusterModels. Each CEL rule of
`model_types.go` is an operator, with the API server's treatment of transition
rules: one that stands at an optional field is skipped when the field is absent
before or after. Requests carry every valid and invalid spec.

## Runs

Passing runs (TLC exhausts the state space; the largest has two million states,
and none takes more than about two minutes):

| Run | Instance | Shows |
|---|---|---|
| `workload` | worker 2x2 nodes, 1x2, 1x1 with a new image, and two broken templates (one panics the builder, one is refused); one edit, one failed or unanswered request, one crash | `TypeOK`, `QuiescentConverged` (a broken service never comes to rest), `GangLWSHasPodGroup`, and the refinement `IsLevelTriggered`, under every lag of the informers |
| `recreate` | a service with a surplus replica or a PodGroup to leave behind, created twice, deleted twice | `StatusOfObservedGeneration`, `EventuallyConverged`, `ChildrenOwned` |
| `router` | a router and a worker role whose strategy, route and type change; one restart with another EPP image | `QuiescentConverged` for the eight router objects |
| `liveness` | one replica that gets another image or is scaled to zero; it starts, becomes ready, loses readiness once, is rolled out; one fault | `QuiescentStatus`, `StatusOfObservedGeneration`, `EventuallyConverged`, `EventuallyActive`, `ChildrenSettle` |
| `manifest` | every manifest of up to three roles with replicas unset, -1 or 2, nodes unset, 1 or 2 | `GangDecisionsAgree`, `TasksMatchLWS`, `MinMemberIsGangSize`, `PoolSelectsEveryLeader` |
| `informers` | two callers, a namespaced, a cluster-scoped and an unknown resource, every kind of option, some given twice | `TypeOK` (the wait group is never negative), `RunOnce`, `NothingRunsAfterShutdown`, `SyncedAsReported`, `InformersAsConfigured`, `ShutdownTerminates`, `WaitForCacheSyncTerminates` |
| `deepcopy` | an object and a list of each of the four kinds with all optional fields, none, or all but one; two readers, two changes | `CopiesAreEqual`, `OthersUntouched` |
| `models` | two names of each kind, valid and malformed fields, two objects created | `ArtifactIsFixed` |

`Quiescent` means that no pass runs or is due and no event is on its way: the
states in which the controller may stay for ever. `QuiescentConverged` and
`QuiescentStatus` say that it stays only where its work is done.

Runs that find a claim of a comment in the code violated:

| Run | Claim | What happens |
|---|---|---|
| `failed_sticks` | conditions are "the latest available observations" | one conflict sets Failed=True and nothing ever resets it: when the LWS is ready the service rests with Active=True and Failed=True |
| `removed_role` | `cleanupOrphanLWS` deletes LWSs "no longer needed" | the LWSs of a removed or renamed role stay |
| `podgroup_race` | the PodGroup "must be created before LWS" | a recreated service adopts its predecessor's PodGroup by name, which is then collected |
| `multinode_worker` | multi-node deployments are gang scheduled | not a worker role beside a prefiller and a decoder |

### Bounds

`MaxGeneration` 2 is one edit: an edit can meet a pass at every step, and a
second only repeats this from a state of the same kind, since a pass starts from
scratch. `MaxUid` 2 with two deletions covers a service recreated over its
predecessor's children and one deleted for good. One fault and one crash reach
every single failure at every step; two replicas are the least for which a
scale-down deletes something and keeps something (`liveness` scales to zero, so
that one does). In `informers` two callers race at every step and two known types
are the least for which a `Start` can find one informer started and another not.
In `deepcopy` a copy of a changed copy needs two readers, and a second change shows
what the first has shared; the fields of a type are independent, so each is left
out on its own. In `models` two creations allow an object beside another and a
recreation under the old name. The theorems do away with all these bounds for the
invariants they state. Deadlock is not checked: a controller with nothing to do
stops, callers that have shut down are done, and the bounds stop the environment.

### Fairness

The worker goroutine, each informer, the LWS controller and the garbage
collector keep running (weak fairness of `Reconcile`, `Deliver(k)`,
`LWSProgresses(k)`, `GarbageCollect(k)`): the workqueue retries a failed item
with a bounded backoff and never drops it, and watches are re-established. No
promise is made about users, failures or restarts; the bounds end them.

In `InformerFactory` goroutines that can go on do: a returned `wg.Wait`, the
polling of `cache.WaitForCacheSync`, an informer's first list (its reflector
retries for ever) and an informer whose channel is closed. Nobody has to call
anything or to close a channel: `ShutdownTerminates` starts from channels that are
closed, and `WaitForCacheSyncTerminates` names the one case in which the call does
not return by itself, an informer stopped before it synced, which stays marked as
started.

## Proofs

`ReconcilerProofs`, for every set of specs, hash without collisions and bound:

* `TypesAreCorrect`: `Spec => []TypeOK`;
* `QuiescenceIsConvergence`: `Spec => []QuiescentConverged`;
* `QuiescentStatusIsTrue`: `Spec => []QuiescentStatus`;
* `StatusIsOfItsGeneration`: `Spec => []StatusOfObservedGeneration`, for specs
  with distinct role names (the component map is keyed by name).

The argument. `QuiescentConverged` says nothing while a pass runs, so it is not
inductive. The invariant `IInv` says what a pass knows on the way:

* `CacheOK`: an informer that is not behind has the API server's version;
* `CopyOK`: a copy of the service that is not stale is the current one;
* `StaleOK`: a pass with a stale copy is followed by another;
* `Done`: if no other pass is due (`~Again`: not queued, no error, no informer
  behind) then everything the pass has gone past is as the spec wants it, and
  what it has read for the status is what the LWSs report (but for `unread`); between passes, the
  whole service is converged.

Why `Done` is kept: everyone else's step makes another pass due
(`OthersCauseAPass`); a step of the pass that leaves none due has written nothing
(`QuietStep`), so the child it looked at was up to date in the cache, the cache
was exact, and equal labels mean equal contents (`AppliedHolds`, from
`HashAssumption`). `IInv` was checked by TLC on the instances above before it was
proved. Assumptions used: specs are what the CRD admits (`SpecsAssumption`),
bounds are natural numbers, LWS statuses are the known ones, the hash has no
collisions on what the builders can build.

`LevelTriggeredProofs`: `ControllerIsLevelTriggered`, `Spec => IsLevelTriggered`,
the refinement, from the same assumptions and `AbsentAssumption` (the value for
"no object" is no spec, service or child). Each action of `Reconciler` maps to one
step of `LevelTriggered` or to stuttering. Three facts carry it: what a step of a
pass writes is in `WantedOf` of the pass's own spec (`WantedPodGroup`, `WantedLWS`
and their like for the router's objects); a step that starts at rest and leaves the
controller at rest writes nothing; and by `IInv` a step that ends at rest finds the
current desire met.

`GangProofs`: `GangHasPodGroupUntilRecreated`,
`Spec => [](uids <= 1 => GangLWSHasPodGroup)`. The property alone is not inductive:
a pass that skips the PodGroup because its cache shows one relies on the cache.
`GangOK` therefore says that whoever relies on the PodGroup (a cached copy, a
gang-scheduled LWS, a pass past the PodGroup of a spec that needs one) has it as
long as the first service lives, and `OwnersOK` that no child has an owner that was
never created, so the garbage collector takes nothing of the first service while it
exists. `uids <= 1` cannot be dropped: `podgroup_race` is the counterexample.

`ManifestProofs`, for every manifest with distinct names, whatever the number of
roles, replicas and nodes: `GangDecisionsAgree` (for any roles at all),
`TasksMatchLWS` (needs that one role writes a task, hence the names),
`MinMemberIsGangSize` and `PoolSelectsEveryLeader`. `MinMemberIsGangSize` compares a
sum over roles, each replicas times nodes, with a sum over the gang's
LeaderWorkerSets. It needs induction over finite sets, and the library's induction
theorems cannot be applied here, since they take a predicate as a parameter; `Sums`
instead takes a smallest counterexample (a least natural number, from the library's
well-foundedness of `<`) and removes an element from it. It gives that `SumFunction`
adds element by element, that a sum over a disjoint union is the sum of the sums
and that a sum of a constant is a product. `CountsAssumption` says that replicas
and nodes are integers or unset, as in the CRD.

`InformerFactoryProofs`, for any callers, any finite set of resources and any
options: `TypeOK`, `RunOnce`, `NothingRunsAfterShutdown`, `SyncedAsReported` and
`InformersAsConfigured`. None is inductive; the invariant adds

* `GoroutinesOK`: goroutines run informers of the map whose type is marked started,
  which is why a `Start` that looks at the mark never runs one twice;
* `Counted`: the wait group is the number of goroutines; `StartAdds` shows that a
  `Start` adds as many goroutines as types, since informers of different types
  differ and those it starts are none of the running ones. Hence a `wg.Wait` that
  returns finds none;
* `ReturnOK`: a caller waits only in a factory that is shutting down, where `Start`
  does nothing, so what `wg.Wait` found stays true;
* `AskedOK`: what a caller asked for before `Start` is started, so it is in the copy
  `WaitForCacheSync` takes, and stays synced or still to be polled;
* `ConfigOK`: the configuration is what the last option of each kind says, among
  the options applied so far; an informer is made only when all are. Options are
  lists of the four kinds (`OptionsAssumption`).

`DeepCopyProofs`, for any number of readers and writes and every object made of the
API's types: `OthersUntouched` (an action property) and `CopiesAreEqual`. The
invariant is about the heap: every struct has the fields of its type, every
reference stays with its owner, a party's root is its own, and four rounds of
`Follow` reach everything. `StructCopied` goes through the types and shows that each
`DeepCopyInto` moves exactly the references and keeps the rest; then following
references commutes with copying (`ReachImage`), so a copy is a closed part of the
heap with the shape of its original. `ObjectsAssumption` asks the same of the objects
the cache starts with, which is what decoding a request makes: no shared memory
between objects and no deeper nesting than the types have.

`ModelsProofs`, for all names, sources and references and any number of objects:
`ArtifactIsFixed`, from the invariant that every stored object was admitted by the
rules of its kind and has the artifact recorded at its creation.

Every invariant and action property that a passing run checks has a theorem. Only
model-checked are the liveness properties (`EventuallyConverged`, `ChildrenOwned`,
`EventuallyActive`, `ChildrenSettle`, `ShutdownTerminates`,
`WaitForCacheSyncTerminates`), as fairness is out of the prover's reach. The run
`workload`, which checks `GangLWSHasPodGroup`, creates the service once and so asks
no more than its theorem states.

## Not modelled

Of the controller: more than one service (name collisions), more than one worker
or manager at a time (leader election is library code), roles that share a name,
edits of children by others, foreground deletion, hash collisions, and what
Volcano, the LWS controller and the endpoint picker do with the objects.

Whole parts: the ModelLoader controller, whose `Reconcile` is an empty scaffold
and changes nothing; the typed clients, listers, fakes and apply configurations,
each method of which is one call of library code or one assignment; flags, TLS,
metrics and webhooks in `main.go`; manifests and the documentation site. Of the
Model types: whether a LoRA's `baseModelRef` names an existing base model, which
neither a rule nor any code looks at, and string patterns, reduced to one malformed
value.

## Plan

Done: the builders, the controller with its environment and its refinement of the
abstract controller, rollout of an LWS, liveness, the informer factory, deep
copies and the Model types; the invariants and the refinement proved as above.
Next, in this order:

1. that a pass never rolls a child back to an older generation's content unless a
   later pass is due;
2. the gang property across recreations: which children a recreated service may
   adopt, and that the PodGroup is there again whenever the controller is at rest;
3. that orphans are bounded: an LWS of a role the spec has is at rest only within
   its replicas, also for specs from which other roles were removed;
4. safety lemmas towards the liveness properties: that every pass gets shorter
   with each step, so that fairness is all that is left to TLC.
