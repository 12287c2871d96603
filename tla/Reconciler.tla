----------------------------- MODULE Reconciler -----------------------------
(***************************************************************************)
(* The InferenceService controller (pkg/controller) against the API        *)
(* server.  One service name is modelled with all its child objects.       *)
(*                                                                         *)
(* The controller reads through the manager's cached client and writes to  *)
(* the API server, so every read may be old: svcCache and cache are the    *)
(* informers' copies, behind the keys whose latest version the informer    *)
(* has not delivered yet.  A write based on an old version is refused (the *)
(* resourceVersion conflict of Update, AlreadyExists of Create); a Delete  *)
(* carries no precondition.  Every delivery is a watch event that enqueues *)
(* the service (For and Owns without predicates); a service is reconciled  *)
(* by one worker at a time and queued remembers that another pass is due.  *)
(*                                                                         *)
(* A pass takes one step for each child: the cached Get, the comparison of *)
(* the spec-hash labels and the Create or Update that follows.  Between    *)
(* steps everyone else moves: the user edits, deletes and recreates the    *)
(* service, the LeaderWorkerSet controller reports readiness, the garbage  *)
(* collector removes children of a dead owner, informers deliver, requests *)
(* fail or lose their answer, the manager crashes and restarts.            *)
(***************************************************************************)
EXTENDS Status

CONSTANTS
  Specs,          \* the role sequences a user may put in the spec
  Hash(_),        \* util.ComputeSpecHash, as stored in the spec-hash label
  EPPImages,      \* the values EPP_IMAGE may have when the manager starts
  LWSStatuses,    \* what LeaderWorkerSets report: of "Started" and "Ready"
  MaxUid,         \* bound: how often the service is created
  MaxDeletes,     \* bound: how often it is deleted
  MaxGeneration,  \* bound: spec edits of one service object
  MaxFaults,      \* bound: API requests that fail or lose their answer
  MaxCrashes,     \* bound: restarts of the manager
  MaxFlaps        \* bound: ready replicas that become unready again

ComponentTypes == {"router", "prefiller", "decoder", "worker"}

(* What the CRD schema admits, as far as the controller looks at it. *)
IsSpec(spec) ==
  /\ spec \in Seq([name: {spec[k].name : k \in DOMAIN spec},
                   componentType: ComponentTypes,
                   replicas: Int \cup {Nil},
                   nodeCount: (Nat \ {0}) \cup {Nil},
                   template: {spec[k].template : k \in DOMAIN spec},
                   strategy: {spec[k].strategy : k \in DOMAIN spec},
                   endpointPickerConfig: {spec[k].endpointPickerConfig : k \in DOMAIN spec},
                   httproute: {spec[k].httproute : k \in DOMAIN spec}])
  /\ spec # << >>

ASSUME SpecsAssumption == \A spec \in Specs : IsSpec(spec)

ASSUME BoundsAssumption ==
  /\ MaxUid \in Nat /\ MaxDeletes \in Nat /\ MaxGeneration \in Nat
  /\ MaxFaults \in Nat /\ MaxCrashes \in Nat /\ MaxFlaps \in Nat

ASSUME StatusesAssumption == LWSStatuses \subseteq {"Started", "Ready"}

-----------------------------------------------------------------------------
(* Keys of the objects: kind, role name and replica index where there are any. *)
ServiceKey            == <<"InferenceService", Nil, 0>>
PodGroupKey           == <<"PodGroup", Nil, 0>>
LWSKey(roleName, i)   == <<"LeaderWorkerSet", roleName, i>>
RouterKey(n)          == <<RouterKinds[n], Nil, 0>>

LWSKeysOf(spec) ==
  UNION {{LWSKey(spec[k].name, j) : j \in ReplicaIndices(spec[k])} : k \in WorkerRoles(spec)}

LWSKeys == UNION {LWSKeysOf(spec) : spec \in Specs}

Keys == {PodGroupKey} \cup LWSKeys \cup {RouterKey(n) : n \in DOMAIN RouterKinds}

(* The contents the builders can give the object at a key. *)
Contents ==
  [key \in Keys |->
     CASE key = PodGroupKey -> {BuildPodGroup(spec) : spec \in Specs}
       [] key \in LWSKeys ->
            UNION {{BuildLWS(spec, spec[k], key[3]) :
                      k \in {m \in WorkerRoles(spec) : spec[m].name = key[2]}} :
                     spec \in Specs}
       [] OTHER ->
            UNION {{BuildRouterObject(key[1], spec, spec[k], image) :
                      k \in DOMAIN spec \ WorkerRoles(spec), image \in EPPImages} :
                     spec \in Specs}]

(* No two contents of one object have the same hash.  The code computes a  *)
(* 32-bit FNV hash, which makes this likely, not certain.                  *)
ASSUME HashAssumption ==
  \A key \in Keys : \A c, d \in Contents[key] : Hash(c) = Hash(d) => c = d

VARIABLES
  svc,        \* the InferenceService in the API server, or Nil
  api,        \* the child objects in the API server, Nil where there is none
  svcCache, cache,  \* the informers' copies of the two
  behind,     \* keys with a version the informers have not delivered
  queued,     \* the service is in the workqueue
  pc,         \* where the worker's pass stands, "idle" between passes
  local,      \* the pass's copy of the service
  stale,      \* that copy is not the API server's version
  err,        \* reconcileErr # nil
  ri, idx,    \* loop variables: the role, and the replica or router object
  orphans,    \* LeaderWorkerSets listed for deletion, not yet deleted
  running, started, \* <<role name, index>> of the replicas read as ready, as started
  unread,     \* those the last pass could not read (a history variable)
  eppImage,   \* EPP_IMAGE of the running manager
  uids, faults, crashes, flaps  \* counters for the bounds

passVars  == <<pc, local, stale, err, ri, idx, orphans, running, started, unread>>
envVars   == <<eppImage, uids, crashes, flaps>>
vars == <<svc, api, svcCache, cache, behind, queued, passVars, envVars, faults>>

Init ==
  /\ svc = Nil /\ svcCache = Nil
  /\ api = [k \in Keys |-> Nil] /\ cache = api
  /\ behind = {} /\ queued = FALSE
  /\ pc = "idle" /\ local = Nil /\ stale = FALSE /\ err = FALSE
  /\ ri = 1 /\ idx = 0 /\ orphans = {} /\ running = {} /\ started = {} /\ unread = {}
  /\ eppImage \in EPPImages
  /\ uids = 0 /\ faults = 0 /\ crashes = 0 /\ flaps = 0
-----------------------------------------------------------------------------
(* Writes of child objects. *)

(* Mutant of NewObject: SetControllerReference is forgotten. *)
NewObjectUnowned(content, owner) ==
  [hash |-> Hash(content), content |-> content, owner |-> Nil, status |-> "None",
   rolledOut |-> TRUE]

(* rolledOut, of a LeaderWorkerSet: its pods, and the status it reports of *)
(* them, are of its current template.                                      *)
NewObject(content, owner) ==
  [hash |-> Hash(content), content |-> content, owner |-> owner, status |-> "None",
   rolledOut |-> TRUE]

(* The LeaderWorkerSet schema requires containers in the worker template. *)
Admitted(key, content) == key \in LWSKeys => content.worker.limits # << >>

(* Mutants of UpToDate: an existing Deployment is never updated; a label *)
(* that is never the same.                                               *)
UpToDateDeployment(key, content) ==
  cache[key] # Nil /\ (key[1] \in {"ServiceAccount", "Deployment"}
                        \/ cache[key].hash = Hash(content))
UpToDateNever(key, content) == FALSE

(* The Get finds the object and its label is the one just built; the *)
(* ServiceAccount is never compared.                                 *)
UpToDate(key, content) ==
  /\ cache[key] # Nil
  /\ key = RouterKey(1) \/ cache[key].hash = Hash(content)

(* Mutant of Write: an Update replaces the spec and not the labels. *)
WriteOldLabel(key, content) ==
  /\ Admitted(key, content)
  /\ \/ /\ cache[key] = Nil /\ api[key] = Nil
        /\ api' = [api EXCEPT ![key] = NewObject(content, local.uid)]
     \/ /\ cache[key] # Nil /\ key \notin behind
        /\ api' = [api EXCEPT ![key] = [cache[key] EXCEPT !.content = content,
                                                          !.rolledOut = FALSE]]
  /\ behind' = behind \cup {key}

(* The Create or Update the API server accepts.  An Update replaces labels *)
(* and spec and keeps ownerReferences and status, which is that of the     *)
(* pods of the earlier spec until the LeaderWorkerSet controller acts.     *)
Write(key, content) ==
  /\ Admitted(key, content)
  /\ \/ /\ cache[key] = Nil
        /\ api[key] = Nil
        /\ api' = [api EXCEPT ![key] = NewObject(content, local.uid)]
     \/ /\ cache[key] # Nil
        /\ key \notin behind
        /\ api' = [api EXCEPT ![key] = [cache[key] EXCEPT !.hash = Hash(content),
                                                          !.content = content,
                                                          !.rolledOut = FALSE]]
  /\ behind' = behind \cup {key}

(* AlreadyExists, Conflict, NotFound or Invalid. *)
Refused(key, content) ==
  \/ ~Admitted(key, content)
  \/ cache[key] = Nil /\ api[key] # Nil
  \/ cache[key] # Nil /\ key \in behind

(* One child is reconciled without an error. *)
Applied(key, content) ==
  /\ UNCHANGED faults
  /\ \/ UpToDate(key, content) /\ UNCHANGED <<api, behind>>
     \/ ~UpToDate(key, content) /\ Write(key, content)

(* One child's reconcile returns an error: the API server refuses the write, *)
(* the request fails, or it takes effect and its answer is lost.             *)
Errored(key, content) ==
  \/ /\ ~UpToDate(key, content) /\ Refused(key, content)
     /\ UNCHANGED <<api, behind, faults>>
  \/ /\ faults < MaxFaults /\ faults' = faults + 1
     /\ \/ UNCHANGED <<api, behind>>
        \/ ~UpToDate(key, content) /\ Write(key, content)
-----------------------------------------------------------------------------
(* The pass: Reconcile and the functions it calls, in program order. *)

Goto(label, role, j) == pc' = label /\ ri' = role /\ idx' = j

(* Mutant of Fail: the error is logged and not kept. *)
FailForgotten == UNCHANGED err /\ Goto("aggregate", 1, 0)

(* reconcileErr is set: the remaining children are skipped, the status is not. *)
Fail == err' = TRUE /\ Goto("aggregate", 1, 0)

(* A pass returns; its variables are gone, the history stays. *)
EndPass ==
  /\ Goto("idle", 1, 0)
  /\ local' = Nil /\ stale' = FALSE /\ err' = FALSE
  /\ orphans' = {} /\ running' = {} /\ started' = {} /\ UNCHANGED unread

(* Loop bodies look at the role at ri. *)
role == local.spec[ri]
InLoop == ri <= Len(local.spec)

passFrame == UNCHANGED <<svc, svcCache, cache, queued, local, stale, envVars>>

(* The worker takes the service from the queue; a deleted one is ignored.  An *)
(* error of this Get puts it back and changes nothing.                        *)
IgnoreDeleted ==
  /\ pc = "idle" /\ queued /\ svcCache = Nil
  /\ queued' = FALSE
  /\ UNCHANGED <<svc, api, svcCache, cache, behind, passVars, envVars, faults>>

FetchService ==
  /\ pc = "idle" /\ queued /\ svcCache # Nil
  /\ queued' = FALSE
  /\ local' = IF svcCache.conditions = NoConditions THEN SetInitCondition(svcCache)
                                                    ELSE svcCache
  /\ stale' = (ServiceKey \in behind)
  /\ unread' = {}
  /\ Goto("podgroup", 1, 0)
  /\ UNCHANGED <<svc, api, svcCache, cache, behind, err, orphans, running, started,
                 envVars, faults>>

(* Mutant of ReconcilePodGroup: its error is logged and the pass goes on. *)
ReconcilePodGroupIgnored ==
  /\ pc = "podgroup"
  /\ LET content == BuildPodGroup(local.spec)
     IN  IF NeedsGangScheduling(local.spec)
           THEN Applied(PodGroupKey, content) \/ Errored(PodGroupKey, content)
           ELSE UNCHANGED <<api, behind, faults>>
  /\ Goto("roles", 1, 0)
  /\ UNCHANGED <<err, orphans, running, started, unread>> /\ passFrame

ReconcilePodGroup ==
  /\ pc = "podgroup"
  /\ LET content == BuildPodGroup(local.spec)
     IN  \/ /\ ~NeedsGangScheduling(local.spec)
            /\ Goto("roles", 1, 0) /\ UNCHANGED <<api, behind, err, faults>>
         \/ /\ NeedsGangScheduling(local.spec)
            /\ Applied(PodGroupKey, content)
            /\ Goto("roles", 1, 0) /\ UNCHANGED err
         \/ /\ NeedsGangScheduling(local.spec)
            /\ Errored(PodGroupKey, content)
            /\ Fail
  /\ UNCHANGED <<orphans, running, started, unread>> /\ passFrame

(* The replica loop of reconcileLWS. *)
ReconcileLWS ==
  /\ pc = "roles" /\ InLoop /\ ~IsRouter(role) /\ idx \in ReplicaIndices(role)
  /\ ~BuildLWSPanics(role)
  /\ LET key     == LWSKey(role.name, idx)
         content == BuildLWS(local.spec, role, idx)
     IN  \/ Applied(key, content) /\ Goto("roles", ri, idx + 1) /\ UNCHANGED err
         \/ Errored(key, content) /\ Fail
  /\ UNCHANGED <<orphans, running, started, unread>> /\ passFrame

(* BuildLWS panics; the controller runtime recovers the panic and requeues. *)
(* No status is written.                                                    *)
PanicInBuildLWS ==
  /\ pc = "roles" /\ InLoop /\ ~IsRouter(role) /\ idx \in ReplicaIndices(role)
  /\ BuildLWSPanics(role)
  /\ EndPass /\ queued' = TRUE
  /\ UNCHANGED <<svc, api, svcCache, cache, behind, envVars, faults>>

(* Mutant of ListOrphanLWS: an index off by one keeps the first surplus one. *)
ListOrphanLWSOffByOne ==
  /\ pc = "roles" /\ InLoop /\ ~IsRouter(role) /\ idx \notin ReplicaIndices(role)
  /\ orphans' = {k \in LWSKeys : /\ cache[k] # Nil
                                 /\ k[2] = role.name
                                 /\ k[3] > GetReplicaCount(role)}
  /\ Goto("cleanup", ri, idx)
  /\ UNCHANGED <<api, behind, err, running, started, unread, faults>> /\ passFrame

(* cleanupOrphanLWS lists the cached LeaderWorkerSets with the role's label, *)
(* or the List fails.                                                        *)
ListOrphanLWS ==
  /\ pc = "roles" /\ InLoop /\ ~IsRouter(role) /\ idx \notin ReplicaIndices(role)
  /\ \/ /\ orphans' = {k \in LWSKeys : /\ cache[k] # Nil
                                       /\ k[2] = role.name
                                       /\ k[3] \notin ReplicaIndices(role)}
        /\ Goto("cleanup", ri, idx) /\ UNCHANGED <<err, faults>>
     \/ /\ faults < MaxFaults /\ faults' = faults + 1
        /\ Fail /\ UNCHANGED orphans
  /\ UNCHANGED <<api, behind, running, started, unread>> /\ passFrame

(* What a Delete request does; NotFound is not an error. *)
Deleted(k) ==
  /\ api' = [api EXCEPT ![k] = Nil]
  /\ behind' = IF api[k] = Nil THEN behind ELSE behind \cup {k}

DeleteOrphanLWS ==
  /\ pc = "cleanup"
  /\ \E k \in orphans :
       \/ /\ Deleted(k) /\ UNCHANGED <<err, faults, pc, ri, idx>>
          /\ orphans' = orphans \ {k}
       \/ /\ faults < MaxFaults /\ faults' = faults + 1
          /\ Deleted(k) \/ UNCHANGED <<api, behind>>
          /\ orphans' = {} /\ Fail
  /\ UNCHANGED <<running, started, unread>> /\ passFrame

(* The role loops go on to the next role: after the cleanup of a worker *)
(* role, past the roles a loop does not handle.                         *)
NextRole ==
  /\ pc \in {"roles", "cleanup", "router", "aggregate"} /\ InLoop
  /\ \/ pc = "cleanup" /\ orphans = {} /\ Goto("roles", ri + 1, 0)
     \/ pc = "roles" /\ IsRouter(role) /\ Goto("roles", ri + 1, 0)
     \/ pc = "router" /\ ~IsRouter(role) /\ Goto("router", ri + 1, 1)
     \/ pc = "router" /\ idx > Len(RouterKinds) /\ Goto("router", ri + 1, 1)
     \/ /\ pc = "aggregate" /\ (IsRouter(role) \/ idx \notin ReplicaIndices(role))
        /\ Goto("aggregate", ri + 1, 0)
  /\ UNCHANGED <<api, behind, err, orphans, running, started, unread, faults>> /\ passFrame

(* A role loop is finished. *)
EndLoop ==
  /\ pc \in {"roles", "router", "aggregate"} /\ ~InLoop
  /\ \/ pc = "roles" /\ Goto("router", 1, 1)
     \/ pc = "router" /\ Goto("aggregate", 1, 0)
     \/ pc = "aggregate" /\ Goto("status", 1, 0)
  /\ UNCHANGED <<api, behind, err, orphans, running, started, unread, faults>> /\ passFrame

(* The eight steps of reconcileRouter for a router role. *)
ReconcileRouter ==
  /\ pc = "router" /\ InLoop /\ IsRouter(role) /\ idx \in DOMAIN RouterKinds
  /\ LET key     == RouterKey(idx)
         content == BuildRouterObject(RouterKinds[idx], local.spec, role, eppImage)
     IN  \/ Applied(key, content) /\ Goto("router", ri, idx + 1) /\ UNCHANGED err
         \/ Errored(key, content) /\ Fail
  /\ UNCHANGED <<orphans, running, started, unread>> /\ passFrame

(* The loop of aggregateLWSStatus: one cached Get.  A replica whose object is *)
(* missing is skipped, and so is one whose Get fails: that error is dropped.  *)
(* Of two roles with one name the later one's readings count.                 *)
ReadLWSStatus ==
  /\ pc = "aggregate" /\ InLoop /\ ~IsRouter(role) /\ idx \in ReplicaIndices(role)
  /\ LET lws == cache[LWSKey(role.name, idx)]
         me  == <<role.name, idx>>
     IN  \/ /\ running' = IF lws # Nil /\ lws.status = "Ready" THEN running \cup {me}
                                                              ELSE running \ {me}
            /\ started' = IF lws # Nil /\ lws.status # "None" THEN started \cup {me}
                                                             ELSE started \ {me}
            /\ unread' = unread \ {me} /\ UNCHANGED faults
         \/ /\ faults < MaxFaults /\ faults' = faults + 1
            /\ running' = running \ {me} /\ started' = started \ {me}
            /\ unread' = unread \cup {me}
  /\ Goto("aggregate", ri, idx + 1)
  /\ UNCHANGED <<api, behind, err, orphans>> /\ passFrame

(* The service with the status Reconcile has put together when it reaches *)
(* the status update.                                                     *)
FinalService ==
  LET new == [local EXCEPT !.components = Components(local.spec, running, started)]
  IN  IF err THEN SetFailedCondition(new)
      ELSE IF CheckAllComponentsReady(new.components) THEN SetActiveCondition(new)
      ELSE SetProcessingCondition(new)

(* Mutants of StatusWritten: the service is fetched again before the update, *)
(* to avoid the conflict; the status is patched without a version check.     *)
StatusWrittenRefetched ==
  /\ svcCache # Nil /\ ServiceKey \notin behind
  /\ svc' = [svc EXCEPT !.observedGeneration = svc.generation,
                       !.conditions = FinalService.conditions,
                       !.components = FinalService.components]
  /\ behind' = IF svc' # svc THEN behind \cup {ServiceKey} ELSE behind
StatusWrittenUnchecked ==
  /\ svc # Nil
  /\ svc' = [svc EXCEPT !.observedGeneration = FinalService.observedGeneration,
                       !.conditions = FinalService.conditions,
                       !.components = FinalService.components]
  /\ behind' = IF svc' # svc THEN behind \cup {ServiceKey} ELSE behind

(* The API server accepts the status.  lastUpdateTime is set in every pass, *)
(* to the second, and a failure message may differ, so a status that is     *)
(* otherwise the same may still be a new version of the object.             *)
StatusWritten ==
  /\ ~stale
  /\ svc' = [svc EXCEPT !.observedGeneration = FinalService.observedGeneration,
                       !.conditions = FinalService.conditions,
                       !.components = FinalService.components]
  /\ \E touched \in (IF err \/ DOMAIN FinalService.components # {} THEN BOOLEAN
                                                                  ELSE {FALSE}) :
       behind' = IF touched \/ svc' # svc THEN behind \cup {ServiceKey} ELSE behind

(* Mutant of UpdateStatus: the status is written and reconcileErr dropped. *)
UpdateStatusDropsErr ==
  /\ pc = "status"
  /\ \/ StatusWritten /\ UNCHANGED <<queued, faults>>
     \/ stale /\ queued' = TRUE /\ UNCHANGED <<svc, behind, faults>>
  /\ EndPass
  /\ UNCHANGED <<api, svcCache, cache, envVars>>

(* Status().Update and the return of Reconcile: any error requeues. *)
UpdateStatus ==
  /\ pc = "status"
  /\ \/ StatusWritten /\ queued' = (queued \/ err) /\ UNCHANGED faults
     \/ /\ stale /\ queued' = TRUE /\ UNCHANGED <<svc, behind, faults>>
     \/ /\ faults < MaxFaults /\ faults' = faults + 1
        /\ queued' = TRUE
        /\ StatusWritten \/ UNCHANGED <<svc, behind>>
  /\ EndPass
  /\ UNCHANGED <<api, svcCache, cache, envVars>>

Reconcile ==
  \/ IgnoreDeleted \/ FetchService \/ ReconcilePodGroup \/ ReconcileLWS
  \/ PanicInBuildLWS \/ ListOrphanLWS \/ DeleteOrphanLWS \/ NextRole \/ EndLoop
  \/ ReconcileRouter \/ ReadLWSStatus \/ UpdateStatus
-----------------------------------------------------------------------------
(* Everyone else. *)

(* A write of the service makes the informer's copy old, and the pass's. *)
ServiceChanges(new) ==
  /\ svc' = new
  /\ behind' = behind \cup {ServiceKey}
  /\ stale' = (pc # "idle")
  /\ UNCHANGED <<api, svcCache, cache, queued, pc, local, err, ri, idx, orphans,
                 running, started, unread, eppImage, crashes, flaps, faults>>

CreateService ==
  /\ svc = Nil /\ uids < MaxUid
  /\ \E spec \in Specs : ServiceChanges(NewService(uids + 1, spec))
  /\ uids' = uids + 1

(* A user changes the spec: the API server increments the generation. *)
EditSpec ==
  /\ svc # Nil /\ svc.generation < MaxGeneration
  /\ \E spec \in Specs \ {svc.spec} :
       ServiceChanges([svc EXCEPT !.spec = spec, !.generation = @ + 1])
  /\ UNCHANGED uids

(* Background deletion: the object goes, its children are left to the *)
(* garbage collector.                                                 *)
DeleteService ==
  /\ svc # Nil /\ uids <= MaxDeletes
  /\ ServiceChanges(Nil)
  /\ UNCHANGED uids

(* Mutants of Deliver: LeaderWorkerSets are not in Owns; deletions of *)
(* children are filtered out.                                          *)
DeliverNotLWS(k) ==
  /\ k \in behind
  /\ behind' = behind \ {k}
  /\ IF k = ServiceKey THEN svcCache' = svc /\ UNCHANGED cache
                       ELSE cache' = [cache EXCEPT ![k] = api[k]] /\ UNCHANGED svcCache
  /\ queued' = (queued \/ k \notin LWSKeys)
  /\ UNCHANGED <<svc, api, passVars, envVars, faults>>
DeliverNotDeletes(k) ==
  /\ k \in behind
  /\ behind' = behind \ {k}
  /\ IF k = ServiceKey THEN svcCache' = svc /\ UNCHANGED cache
                       ELSE cache' = [cache EXCEPT ![k] = api[k]] /\ UNCHANGED svcCache
  /\ queued' = (queued \/ k = ServiceKey \/ api[k] # Nil)
  /\ UNCHANGED <<svc, api, passVars, envVars, faults>>

(* An informer delivers the latest version of an object: the watch event *)
(* enqueues the service, by name.                                        *)
Deliver(k) ==
  /\ k \in behind
  /\ behind' = behind \ {k}
  /\ IF k = ServiceKey THEN svcCache' = svc /\ UNCHANGED cache
                       ELSE cache' = [cache EXCEPT ![k] = api[k]] /\ UNCHANGED svcCache
  /\ queued' = TRUE
  /\ UNCHANGED <<svc, api, passVars, envVars, faults>>

(* An actor other than the pass writes child k. *)
ChildChanges(k, new) ==
  /\ api' = [api EXCEPT ![k] = new]
  /\ behind' = behind \cup {k}
  /\ UNCHANGED <<svc, svcCache, cache, queued, passVars, eppImage, uids, crashes, faults>>

(* The LeaderWorkerSet controller creates the pods of a replica, they become *)
(* ready, and they may stop being ready.                                     *)
LWSProgresses(k) ==
  /\ api[k] # Nil
  /\ \E status \in LWSStatuses \ {api[k].status} :
       /\ api[k].status # "Ready"
       /\ ChildChanges(k, [api[k] EXCEPT !.status = status])
  /\ UNCHANGED flaps

LWSUnready(k) ==
  /\ api[k] # Nil /\ api[k].status = "Ready" /\ flaps < MaxFlaps
  /\ ChildChanges(k, [api[k] EXCEPT !.status = "Started"])
  /\ flaps' = flaps + 1

(* It replaces the pods of a LeaderWorkerSet whose template has changed. *)
LWSRollsOut(k) ==
  /\ api[k] # Nil /\ ~api[k].rolledOut
  /\ ChildChanges(k, [api[k] EXCEPT !.rolledOut = TRUE,
                                    !.status = IF @ = "None" THEN "None" ELSE "Started"])
  /\ UNCHANGED flaps

(* The garbage collector deletes an object whose controller is gone: the *)
(* owner reference names a uid that is not the service's.  An object     *)
(* without one is left alone.                                            *)
HasLiveOwner(k) == svc # Nil /\ api[k].owner = svc.uid

GarbageCollect(k) ==
  /\ api[k] # Nil /\ api[k].owner # Nil /\ ~HasLiveOwner(k)
  /\ ChildChanges(k, Nil)
  /\ UNCHANGED flaps

(* The manager dies, wherever its pass stands, and starts again, possibly   *)
(* with another EPP image: the informers list everything and every existing *)
(* object enqueues the service.                                             *)
Restart ==
  /\ crashes < MaxCrashes /\ crashes' = crashes + 1
  /\ EndPass
  /\ svcCache' = svc /\ cache' = api /\ behind' = {}
  /\ queued' = TRUE
  /\ eppImage' \in EPPImages
  /\ UNCHANGED <<svc, api, uids, flaps, faults>>

Next ==
  \/ Reconcile
  \/ CreateService \/ EditSpec \/ DeleteService \/ Restart
  \/ \E k \in Keys \cup {ServiceKey} : Deliver(k)
  \/ \E k \in LWSKeys : LWSProgresses(k) \/ LWSUnready(k) \/ LWSRollsOut(k)
  \/ \E k \in Keys : GarbageCollect(k)

Spec == Init /\ [][Next]_vars

(* The worker goroutine, every informer, the garbage collector and the   *)
(* LeaderWorkerSet controller keep running; users, failures and restarts *)
(* are never promised.                                                   *)
Fairness ==
  /\ WF_vars(Reconcile)
  /\ \A k \in Keys \cup {ServiceKey} : WF_vars(Deliver(k))
  /\ \A k \in LWSKeys : WF_vars(LWSProgresses(k)) /\ WF_vars(LWSRollsOut(k))
  /\ \A k \in Keys : WF_vars(GarbageCollect(k))

FairSpec == Spec /\ Fairness
-----------------------------------------------------------------------------
(* Properties. *)

Statuses == {"None", "Started", "Ready"}

RoleNames == UNION {{spec[k].name : k \in DOMAIN spec} : spec \in Specs}

ComponentStatuses ==
  [desiredReplicas: Int, readyReplicas: Nat, nodesPerReplica: Nat \ {0},
   totalPods: Int, readyPods: Nat, phase: {"Running", "Deploying", "Pending"}]

Objects(key) ==
  [hash: {Hash(c) : c \in Contents[key]}, content: Contents[key],
   owner: 1 .. MaxUid, status: Statuses, rolledOut: BOOLEAN]

(* Services whose component summary has the roles with these names. *)
Services(names) ==
  [uid: 1 .. MaxUid, generation: Nat \ {0}, spec: Specs, observedGeneration: Nat,
   conditions: [{"Initialized", "Active", "Failed"} -> {"Unset", "True", "False"}],
   components: [names -> ComponentStatuses]]

(* An absent object is none that exists. *)
ASSUME AbsentAssumption ==
  /\ Nil \notin Specs
  /\ \A names \in SUBSET RoleNames : Nil \notin Services(names)
  /\ \A key \in Keys : Nil \notin Objects(key)

(* A child object: built from a spec of the user, labelled with its hash. *)
IsObject(key, o) == o \in Objects(key) /\ o.hash = Hash(o.content)

IsService(s) ==
  /\ DOMAIN s.components \subseteq RoleNames
  /\ s \in Services(DOMAIN s.components)
  /\ s.observedGeneration <= s.generation

ServicesOK ==
  /\ svc # Nil => IsService(svc) /\ svc.uid = uids
  /\ svcCache # Nil => IsService(svcCache)

ChildrenOK ==
  /\ api = [k \in Keys |-> api[k]] /\ cache = [k \in Keys |-> cache[k]]
  /\ \A k \in Keys : /\ api[k] # Nil => IsObject(k, api[k])
                     /\ cache[k] # Nil => IsObject(k, cache[k])
  /\ behind \subseteq Keys \cup {ServiceKey}

Labels == {"idle", "podgroup", "roles", "cleanup", "router", "aggregate", "status"}

PassOK ==
  /\ queued \in BOOLEAN /\ stale \in BOOLEAN /\ err \in BOOLEAN
  /\ pc \in Labels
  /\ pc # "idle" => IsService(local) /\ ri \in 1 .. Len(local.spec) + 1
  /\ pc = "cleanup" => ri <= Len(local.spec)
  /\ pc = "idle" => ~stale /\ ~err /\ running = {} /\ started = {}
  /\ idx \in Nat
  /\ orphans \subseteq LWSKeys

BoundsOK ==
  /\ eppImage \in EPPImages
  /\ uids \in 0 .. MaxUid /\ faults \in 0 .. MaxFaults
  /\ crashes \in 0 .. MaxCrashes /\ flaps \in 0 .. MaxFlaps

(* Types: every child was built from a spec of the user and carries its    *)
(* hash, a pass holds a service, its loop variables are in range.          *)
TypeOK == ServicesOK /\ ChildrenOK /\ PassOK /\ BoundsOK

(* Nothing is left to do: no pass runs or is due, no event is on its way. *)
Quiescent == pc = "idle" /\ ~queued /\ behind = {}

(* The child exists with the content the builders give it. *)
Holds(k, content) == api[k] # Nil /\ api[k].content = content

PodGroupConverged(spec) ==
  NeedsGangScheduling(spec) => Holds(PodGroupKey, BuildPodGroup(spec))

LWSConverged(spec, k) ==
  /\ \A j \in ReplicaIndices(spec[k]) :
       Holds(LWSKey(spec[k].name, j), BuildLWS(spec, spec[k], j))
  /\ \A key \in LWSKeys :
       key[2] = spec[k].name /\ key[3] \notin ReplicaIndices(spec[k]) => api[key] = Nil

RouterConverged(spec, k) ==
  \A n \in DOMAIN RouterKinds :
    Holds(RouterKey(n), BuildRouterObject(RouterKinds[n], spec, spec[k], eppImage))

(* Every child the spec asks for is there with the content built from it,  *)
(* and no role has a LeaderWorkerSet beyond its replicas.                  *)
Converged(spec) ==
  /\ PodGroupConverged(spec)
  /\ \A k \in DOMAIN spec : IF IsRouter(spec[k]) THEN RouterConverged(spec, k)
                                                 ELSE LWSConverged(spec, k)

(* When nothing is left to do the children are those of the current spec:  *)
(* no edit, no conflict, no lost answer, no crash and no lagging informer  *)
(* leaves a child behind without another pass being due.                   *)
QuiescentConverged == Quiescent /\ svc # Nil => Converged(svc.spec)

(* The replicas a spec asks for, and those of a set whose LeaderWorkerSet *)
(* reports one of the statuses.                                          *)
Replicas(spec) ==
  UNION {{<<spec[k].name, j>> : j \in ReplicaIndices(spec[k])} : k \in WorkerRoles(spec)}

ReplicasWith(replicas, status) ==
  {r \in replicas : LET lws == api[LWSKey(r[1], r[2])]
                    IN  lws # Nil /\ lws.status \in status}

(* When nothing is left to do the status tells the truth: it is that of     *)
(* the current generation, it counts exactly the replicas that are ready,    *)
(* and the service is Active exactly if every component runs.  Replicas the  *)
(* last pass could not read, whose error aggregateLWSStatus drops, are taken *)
(* for missing, and nothing corrects that before the next event.             *)
QuiescentStatus ==
  Quiescent /\ svc # Nil =>
    /\ svc.observedGeneration = svc.generation
    /\ svc.components =
         Components(svc.spec, ReplicasWith(Replicas(svc.spec) \ unread, {"Ready"}),
                              ReplicasWith(Replicas(svc.spec) \ unread, {"Started", "Ready"}))
    /\ svc.conditions.Active =
         IF CheckAllComponentsReady(svc.components) THEN "True" ELSE "False"

(* A status that claims the current generation was computed from its spec, *)
(* at all times: the summary has the spec's worker roles with the replica  *)
(* counts the spec asks for, whatever edits and recreations race the       *)
(* status update.                                                          *)
StatusOfObservedGeneration ==
  svc # Nil /\ svc.observedGeneration = svc.generation =>
    \A k \in WorkerRoles(svc.spec) :
      /\ svc.spec[k].name \in DOMAIN svc.components
      /\ svc.components[svc.spec[k].name].desiredReplicas = GetReplicaCount(svc.spec[k])

(* Reconcile step 3: a PodGroup "must be created before LWS".  A gang-      *)
(* scheduled LeaderWorkerSet of the live service has its PodGroup beside it. *)
GangLWSHasPodGroup ==
  \A k \in LWSKeys :
    api[k] # Nil /\ HasLiveOwner(k) /\ api[k].content.task # Nil => api[PodGroupKey] # Nil

(* What a pass for a spec may make of each child: the content built for it, *)
(* and no object for a LeaderWorkerSet beyond the replicas of its role.     *)
WantedOf(spec, image) ==
  [key \in Keys |->
     CASE key = PodGroupKey ->
            {BuildPodGroup(s) : s \in {t \in {spec} : NeedsGangScheduling(t)}}
       [] key \in LWSKeys ->
            {IF key[3] \in ReplicaIndices(spec[k]) THEN BuildLWS(spec, spec[k], key[3]) ELSE Nil :
               k \in {m \in WorkerRoles(spec) : spec[m].name = key[2]}}
       [] OTHER ->
            {BuildRouterObject(key[1], spec, spec[k], image) :
               k \in DOMAIN spec \ WorkerRoles(spec)}]

SpecOf(s) == IF s = Nil THEN Nil ELSE s.spec

(* The controller as a level-triggered one: it is due unless nothing is left *)
(* to do.                                                                    *)
Level == INSTANCE LevelTriggered
  WITH Parts   <- Keys, Desires <- Specs, Configs <- EPPImages, Nothing <- Nil,
       Wanted  <- WantedOf,
       desired <- SpecOf(svc), view <- SpecOf(svcCache),
       seen    <- IF pc = "idle" THEN Nil ELSE local.spec,
       config  <- eppImage,
       actual  <- [k \in Keys |-> IF api[k] = Nil THEN Nil ELSE api[k].content],
       due     <- ~Quiescent

(* The controller implements the level-triggered one: it never comes to rest *)
(* on the spec it has seen while the user asks for another, at rest it       *)
(* writes nothing, and what it writes is built from one spec the user asked  *)
(* for, the one its pass began with.                                         *)
IsLevelTriggered == Level!Spec

(* Once users and failures stop, the children become those of the spec and *)
(* stay so.                                                                *)
EventuallyConverged == <>[](svc = Nil \/ Converged(svc.spec))

(* ... and the service, whose LeaderWorkerSets all become ready, is and     *)
(* stays Active at its latest generation, with every replica ready on the   *)
(* template of the current spec: the readiness of pods an update is about   *)
(* to replace, which the controller counts, does not stay in the status.    *)
(* Only a Get whose error the last pass dropped may keep it from Active.    *)
EventuallyActive ==
  <>[](svc = Nil \/
         /\ unread = {} => svc.conditions.Active = "True"
         /\ svc.observedGeneration = svc.generation
         /\ \A r \in Replicas(svc.spec) :
              LET lws == api[LWSKey(r[1], r[2])]
              IN  lws # Nil /\ lws.status = "Ready" /\ lws.rolledOut)

(* The status update re-triggers the controller (it sets lastUpdateTime and *)
(* no predicate filters its own event), but the passes this causes stop     *)
(* writing children.                                                        *)
ChildrenSettle == <>[][behind' \ behind \subseteq {ServiceKey}]_vars

(* Children of a deleted or recreated service, those a late pass creates    *)
(* for it included, do not outlive it: eventually the live service owns all *)
(* that exist.                                                              *)
ChildrenOwned == <>[](\A k \in Keys : api[k] # Nil => HasLiveOwner(k))

(* Claims of the documentation and comments. *)

(* inferenceservice_types.go: conditions "represent the latest available    *)
(* observations of the service's state".  When the last pass succeeded,     *)
(* found every component running and nothing is left to do, the service is  *)
(* Active and not reported as Failed beside it.                             *)
FailedIsLatestObservation ==
  Quiescent /\ svc # Nil /\ svc.conditions.Active = "True" => svc.conditions.Failed # "True"

(* inferenceservice_controller.go: cleanupOrphanLWS deletes LeaderWorkerSets *)
(* "that are no longer needed".  When nothing is left to do there is none    *)
(* the spec does not ask for.                                                *)
NoUnneededLWS ==
  Quiescent /\ svc # Nil => \A k \in LWSKeys : api[k] # Nil => k \in LWSKeysOf(svc.spec)
=============================================================================
