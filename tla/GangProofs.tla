----------------------------- MODULE GangProofs -----------------------------
(***************************************************************************)
(* The order of Reconcile's step 3, PodGroup before LeaderWorkerSets, is   *)
(* enough until the service is recreated.  The run podgroup_race shows     *)
(* what happens then: the garbage collector deletes the PodGroup of the    *)
(* earlier service after the pass of the new one has found it.             *)
(***************************************************************************)
EXTENDS ReconcilerProofs

(* Owners are services that were created. *)
OwnersOK ==
  /\ \A k \in Keys : /\ api[k] # Nil => api[k].owner <= uids
                     /\ cache[k] # Nil => cache[k].owner <= uids
  /\ svcCache # Nil => svcCache.uid <= uids
  /\ pc # "idle" => local.uid <= uids

There == api[PodGroupKey] # Nil

(* The cache shows no PodGroup that is gone, and whoever relies on the     *)
(* PodGroup, a LeaderWorkerSet or the pass that is about to write one, has *)
(* it.                                                                     *)
Relies ==
  \/ cache[PodGroupKey] # Nil
  \/ \E k \in LWSKeys : api[k] # Nil /\ api[k].content.task # Nil
  \/ pc \in {"roles", "cleanup"} /\ NeedsGangScheduling(local.spec)

GangOK == uids <= 1 /\ svc # Nil /\ Relies => There
-----------------------------------------------------------------------------
(* What an accepted write does to its child and to the others. *)
LEMMA WriteEffect ==
  ASSUME TypeOK, OwnersOK, NEW key \in Keys, NEW c \in Contents[key], pc # "idle", Write(key, c)
  PROVE  /\ api'[key] # Nil /\ api'[key].content = c /\ api'[key].owner <= uids
         /\ \A k \in Keys \ {key} : api'[k] = api[k]
<1>1. local.uid \in 1 .. MaxUid
  BY LocalFacts
<1>2. CASE cache[key] = Nil
  <2> DEFINE o == NewObject(c, local.uid)
  <2>1. api' = [api EXCEPT ![key] = o] /\ DOMAIN api = Keys
    BY <1>2 DEF Write, TypeOK, ChildrenOK
  <2>2. o # Nil
    BY <1>1, NewObjectIsObject, ObjectExists
  <2>3. o.content = c /\ o.owner = local.uid
    BY DEF NewObject
  <2> HIDE DEF o
  <2> QED  BY <2>1, <2>2, <2>3 DEF OwnersOK
<1>3. CASE cache[key] # Nil
  <2> DEFINE o == [cache[key] EXCEPT !.hash = Hash(c), !.content = c, !.rolledOut = FALSE]
  <2>1. api' = [api EXCEPT ![key] = o] /\ DOMAIN api = Keys
    BY <1>3 DEF Write, TypeOK, ChildrenOK
  <2>2. IsObject(key, cache[key])
    BY <1>3 DEF TypeOK, ChildrenOK
  <2>3. o # Nil
    BY <2>2, UpdateIsObject, ObjectExists
  <2>4. o.content = c /\ o.owner = cache[key].owner
    BY <2>2 DEF IsObject, Objects
  <2> HIDE DEF o
  <2> QED  BY <1>3, <2>1, <2>3, <2>4 DEF OwnersOK
<1> QED  BY <1>2, <1>3

(* A LeaderWorkerSet with a task belongs to a service that needs a PodGroup. *)
LEMMA TaskNeedsGang ==
  ASSUME NEW spec, NEW k \in WorkerRoles(spec), NEW j,
         BuildLWS(spec, spec[k], j).task # Nil
  PROVE  NeedsGangScheduling(spec)
BY DEF BuildLWS, NeedsGangSchedulingForRole, NeedsGangScheduling, WorkerRoles

(* What a step within a pass does to the children: nothing, or it writes   *)
(* one, where a LeaderWorkerSet with a task is written by a pass that has  *)
(* been past its PodGroup, or it deletes a LeaderWorkerSet.                *)
Others(key) == \A k \in Keys \ {key} : api'[k] = api[k]

PassEffect ==
  \/ api' = api
  \/ \E key \in Keys :
       /\ Others(key) /\ api'[key] # Nil /\ api'[key].owner <= uids
       /\ key \in LWSKeys /\ api'[key].content.task # Nil =>
            pc = "roles" /\ NeedsGangScheduling(local.spec)
  \/ \E key \in LWSKeys : Others(key) /\ api'[key] = Nil

(* Reconciling one child is such a step. *)
LEMMA AppliedEffect ==
  ASSUME TypeOK, OwnersOK, pc # "idle", NEW key \in Keys, NEW c \in Contents[key],
         key \in LWSKeys /\ c.task # Nil => pc = "roles" /\ NeedsGangScheduling(local.spec),
         Applied(key, c) \/ Errored(key, c)
  PROVE  PassEffect
<1>1. CASE UNCHANGED <<api, behind>>
  BY <1>1 DEF PassEffect
<1>2. CASE Write(key, c)
  <2>1. /\ api'[key] # Nil /\ api'[key].content = c /\ api'[key].owner <= uids
        /\ Others(key)
    BY <1>2, WriteEffect DEF Others
  <2> QED  BY <2>1 DEF PassEffect
<1> QED  BY <1>1, <1>2 DEF Applied, Errored

(* So is every step within a pass. *)
LEMMA PassHasEffect ==
  ASSUME TypeOK, OwnersOK, PassWrites
  PROVE  PassEffect
<1>1. pc # "idle" /\ local.spec \in Specs
  BY PassWritesChild, LocalFacts
<1>2. CASE ReconcilePodGroup
  <2>1. CASE api' = api
    BY <2>1 DEF PassEffect
  <2>2. CASE \/ Applied(PodGroupKey, BuildPodGroup(local.spec))
             \/ Errored(PodGroupKey, BuildPodGroup(local.spec))
    BY <1>1, <2>2, KeysAreDistinct, PodGroupContent, AppliedEffect
  <2> QED  BY <1>2, <2>1, <2>2 DEF ReconcilePodGroup
<1>3. CASE ReconcileLWS
  <2> DEFINE key == LWSKey(role.name, idx)
             c   == BuildLWS(local.spec, role, idx)
  <2>1. ri \in WorkerRoles(local.spec) /\ idx \in ReplicaIndices(local.spec[ri]) /\ pc = "roles"
    BY <1>1, <1>3, LocalFacts DEF ReconcileLWS, WorkerRoles, role
  <2>2. key \in Keys /\ c \in Contents[key]
    BY <1>1, <2>1, LWSKeyInKeys, KeysAreDistinct, LWSContent DEF role
  <2>3. Applied(key, c) \/ Errored(key, c)
    BY <1>3 DEF ReconcileLWS
  <2>4. c.task # Nil => NeedsGangScheduling(local.spec)
    BY <2>1, TaskNeedsGang DEF role
  <2> HIDE DEF key, c
  <2> QED  BY <1>1, <2>1, <2>2, <2>3, <2>4, AppliedEffect
<1>4. CASE ReconcileRouter
  <2> DEFINE c == BuildRouterObject(RouterKinds[idx], local.spec, role, eppImage)
  <2>1. /\ ri \in DOMAIN local.spec /\ IsRouter(local.spec[ri]) /\ idx \in DOMAIN RouterKinds
        /\ role = local.spec[ri] /\ eppImage \in EPPImages
    BY <1>1, <1>4, LocalFacts DEF ReconcileRouter, role, TypeOK, BoundsOK
  <2>2. RouterKey(idx) \in Keys \ LWSKeys /\ c \in Contents[RouterKey(idx)]
    BY <1>1, <2>1, KeysAreDistinct, RouterContent
  <2>3. Applied(RouterKey(idx), c) \/ Errored(RouterKey(idx), c)
    BY <1>4 DEF ReconcileRouter
  <2> HIDE DEF c
  <2> QED  BY <1>1, <2>2, <2>3, AppliedEffect
<1>5. CASE DeleteOrphanLWS
  <2>1. PICK k \in orphans : Deleted(k) \/ UNCHANGED <<api, behind>>
    BY <1>5 DEF DeleteOrphanLWS
  <2>2. k \in LWSKeys /\ k \in Keys
    BY KeysAreDistinct DEF TypeOK, PassOK
  <2>3. CASE api' = api
    BY <2>3 DEF PassEffect
  <2>4. CASE api' = [api EXCEPT ![k] = Nil]
    <3>1. Others(k) /\ api'[k] = Nil
      BY <2>2, <2>4 DEF Others, TypeOK, ChildrenOK
    <3> QED  BY <2>2, <3>1 DEF PassEffect
  <2> QED  BY <2>1, <2>3, <2>4 DEF Deleted
<1>6. CASE ListOrphanLWS \/ NextRole \/ EndLoop \/ ReadLWSStatus
  BY <1>6 DEF ListOrphanLWS, NextRole, EndLoop, ReadLWSStatus, PassEffect
<1> QED  BY <1>2, <1>3, <1>4, <1>5, <1>6 DEF PassWrites

(* A pass reaches its role loop past the PodGroup: it needs none, found it, *)
(* or has written it.                                                       *)
LEMMA RolesAfterPodGroup ==
  ASSUME TypeOK, OwnersOK, PassWrites, pc' \in {"roles", "cleanup"}
  PROVE  \/ pc \in {"roles", "cleanup"}
         \/ ~NeedsGangScheduling(local.spec)
         \/ cache[PodGroupKey] # Nil /\ api' = api
         \/ api'[PodGroupKey] # Nil
<1>1. CASE ReconcilePodGroup
  <2>1. pc = "podgroup" /\ local.spec \in Specs
    BY <1>1, LocalFacts DEF ReconcilePodGroup
  <2>2. CASE NeedsGangScheduling(local.spec)
    <3>1. Applied(PodGroupKey, BuildPodGroup(local.spec))
      BY <1>1, <2>2 DEF ReconcilePodGroup, Fail, Goto
    <3>2. CASE UpToDate(PodGroupKey, BuildPodGroup(local.spec)) /\ UNCHANGED <<api, behind>>
      BY <3>2 DEF UpToDate
    <3>3. CASE Write(PodGroupKey, BuildPodGroup(local.spec))
      BY <2>1, <3>3, KeysAreDistinct, PodGroupContent, WriteEffect
    <3> QED  BY <3>1, <3>2, <3>3 DEF Applied
  <2> QED  BY <2>2
<1>2. CASE ReconcileLWS \/ DeleteOrphanLWS \/ ListOrphanLWS
  BY <1>2 DEF ReconcileLWS, DeleteOrphanLWS, ListOrphanLWS
<1>3. CASE ReconcileRouter \/ NextRole \/ EndLoop \/ ReadLWSStatus
  BY <1>3 DEF ReconcileRouter, NextRole, EndLoop, ReadLWSStatus, Goto, Fail
<1> QED  BY <1>1, <1>2, <1>3 DEF PassWrites

(* The steps within a pass keep the invariant. *)
LEMMA PassKeepsGang ==
  ASSUME TypeOK, OwnersOK, GangOK, PassWrites
  PROVE  OwnersOK' /\ GangOK'
<1>1. /\ PassEffect /\ UNCHANGED <<svc, svcCache, cache, local>>
      /\ pc # "idle" /\ pc' # "idle"
  BY PassHasEffect, PassWritesChild
<1>2. uids' = uids
  BY DEF PassWrites, ReconcilePodGroup, ReconcileLWS, ReconcileRouter, DeleteOrphanLWS,
         ListOrphanLWS, NextRole, EndLoop, ReadLWSStatus, passFrame, envVars
<1>3. PodGroupKey \in Keys /\ PodGroupKey \notin LWSKeys /\ LWSKeys \subseteq Keys
  BY KeysAreDistinct
<1>4. OwnersOK'
  <2>1. \A k \in Keys : api'[k] # Nil => api'[k].owner <= uids
    BY <1>1, <1>3 DEF PassEffect, Others, OwnersOK
  <2> QED  BY <1>1, <1>2, <2>1 DEF OwnersOK
<1>5. GangOK'
  <2>1. There => There'
    BY <1>1, <1>3 DEF PassEffect, Others, There
  <2>2. SUFFICES ASSUME uids <= 1, svc # Nil, Relies', ~There PROVE There'
    BY <1>1, <1>2, <2>1 DEF GangOK
  <2>3. ~Relies
    BY <2>2 DEF GangOK
  <2>4. cache'[PodGroupKey] = Nil
    BY <1>1, <2>3 DEF Relies
  <2>5. \A k \in LWSKeys : ~(api'[k] # Nil /\ api'[k].content.task # Nil)
    BY <1>1, <1>3, <2>3 DEF PassEffect, Others, Relies
  <2>6. pc' \in {"roles", "cleanup"} /\ NeedsGangScheduling(local.spec)
    BY <1>1, <2>2, <2>4, <2>5 DEF Relies
  <2>7. api'[PodGroupKey] # Nil
    BY <1>1, <2>3, <2>4, <2>6, RolesAfterPodGroup DEF Relies
  <2> QED  BY <2>7 DEF There
<1> QED  BY <1>4, <1>5
-----------------------------------------------------------------------------
(* The beginning and the end of a pass write no child. *)
LEMMA EndsKeepGang ==
  ASSUME TypeOK, CopyOK, OwnersOK, GangOK,
         IgnoreDeleted \/ FetchService \/ PanicInBuildLWS \/ UpdateStatus
  PROVE  OwnersOK' /\ GangOK'
<1>1. UNCHANGED <<api, cache, svcCache>>
  BY PassEnds
<1>2. uids' = uids
  BY DEF IgnoreDeleted, FetchService, PanicInBuildLWS, UpdateStatus, envVars
<1>3. svc' # Nil => svc # Nil
  <2>1. svc' = svc \/ (pc = "status" /\ StatusWritten)
    BY DEF IgnoreDeleted, FetchService, PanicInBuildLWS, UpdateStatus
  <2> QED  BY <2>1, StatusWrittenFields
<1>4. pc' \notin {"roles", "cleanup"}
  BY DEF IgnoreDeleted, FetchService, PanicInBuildLWS, UpdateStatus, EndPass, Goto, passVars
<1>5. pc' # "idle" => local'.uid <= uids
  <2>1. CASE FetchService
    <3>1. svcCache # Nil /\ IsService(svcCache)
      BY <2>1 DEF FetchService, TypeOK, ServicesOK
    <3>2. local'.uid = svcCache.uid
      BY <2>1, <3>1, SetConditionKeeps DEF FetchService, SetInitCondition, ConditionTypes
    <3> QED  BY <3>1, <3>2 DEF OwnersOK
  <2>2. CASE ~FetchService
    BY <2>2, PassEnds
  <2> QED  BY <2>1, <2>2
<1>6. OwnersOK'
  BY <1>1, <1>2, <1>5 DEF OwnersOK
<1>7. There' = There /\ (Relies' => Relies)
  BY <1>1, <1>4 DEF There, Relies
<1> QED  BY <1>2, <1>3, <1>6, <1>7 DEF GangOK

(* The first creation finds nothing there; later ones are not spoken of. *)
LEMMA CreateKeepsGang ==
  ASSUME TypeOK, OwnersOK, GangOK, CreateService
  PROVE  OwnersOK' /\ GangOK'
<1>1. UNCHANGED <<api, cache, svcCache, pc, local>> /\ uids' = uids + 1 /\ uids \in Nat
  BY DEF CreateService, ServiceChanges, TypeOK, BoundsOK
<1>2. OwnersOK'
  <2>1. \A k \in Keys : /\ api[k] # Nil => api[k].owner \in Nat
                        /\ cache[k] # Nil => cache[k].owner \in Nat
    BY DEF TypeOK, ChildrenOK, IsObject, Objects
  <2>2. svcCache # Nil => svcCache.uid \in Nat
    BY DEF TypeOK, ServicesOK, IsService, Services
  <2>3. pc # "idle" => local.uid \in Nat
    BY LocalFacts
  <2> QED  BY <1>1, <2>1, <2>2, <2>3 DEF OwnersOK
<1>3. uids' <= 1 => ~Relies'
  <2>1. SUFFICES ASSUME uids = 0 PROVE ~Relies'
    BY <1>1
  <2>2. \A k \in Keys : api[k] = Nil /\ cache[k] = Nil
    BY <2>1 DEF OwnersOK, TypeOK, ChildrenOK, IsObject, Objects
  <2>3. pc = "idle"
    BY <2>1, LocalFacts DEF OwnersOK
  <2> QED  BY <1>1, <2>2, <2>3, KeysAreDistinct DEF Relies
<1> QED  BY <1>2, <1>3 DEF GangOK

(* Other writes of the service are no concern of the children. *)
LEMMA EditKeepsGang ==
  ASSUME TypeOK, OwnersOK, GangOK, EditSpec \/ DeleteService
  PROVE  OwnersOK' /\ GangOK'
<1>1. UNCHANGED <<api, cache, svcCache, pc, local, uids>> /\ svc # Nil
  BY DEF EditSpec, DeleteService, ServiceChanges
<1> QED  BY <1>1 DEF OwnersOK, GangOK, There, Relies

(* The LeaderWorkerSet controller changes neither owner nor task, and what  *)
(* it writes exists.                                                        *)
LEMMA LWSKeepsGang ==
  ASSUME TypeOK, OwnersOK, GangOK, NEW k \in LWSKeys,
         LWSProgresses(k) \/ LWSUnready(k) \/ LWSRollsOut(k)
  PROVE  OwnersOK' /\ GangOK'
<1>1. k \in Keys /\ api[k] # Nil /\ k # PodGroupKey
  BY KeysAreDistinct DEF LWSProgresses, LWSUnready, LWSRollsOut
<1>2. PICK o : ChildChanges(k, o) /\ o.content = api[k].content /\ o.owner = api[k].owner
  BY LWSChange
<1>3. /\ api'[k].content = api[k].content /\ api'[k].owner = api[k].owner
      /\ \A m \in Keys \ {k} : api'[m] = api[m]
  BY <1>1, <1>2 DEF ChildChanges, TypeOK, ChildrenOK
<1>4. UNCHANGED <<svc, svcCache, cache, pc, local, uids>>
  BY <1>2 DEF ChildChanges, passVars
<1>5. OwnersOK'
  BY <1>1, <1>3, <1>4 DEF OwnersOK
<1>6. There' = There /\ (Relies' => Relies)
  BY <1>1, <1>3, <1>4, KeysAreDistinct DEF There, Relies
<1> QED  BY <1>4, <1>5, <1>6 DEF GangOK

(* While the first service exists everything has a live owner, and nothing  *)
(* is collected.                                                            *)
LEMMA CollectKeepsGang ==
  ASSUME TypeOK, OwnersOK, GangOK, NEW k \in Keys, GarbageCollect(k)
  PROVE  OwnersOK' /\ GangOK'
<1>1. ChildChanges(k, Nil)
  BY DEF GarbageCollect
<1>2. UNCHANGED <<svc, svcCache, cache, pc, local, uids>>
  BY <1>1 DEF ChildChanges, passVars
<1>3. \A m \in Keys : api'[m] = api[m] \/ api'[m] = Nil
  BY <1>1 DEF ChildChanges, TypeOK, ChildrenOK
<1>4. OwnersOK'
  BY <1>2, <1>3 DEF OwnersOK
<1>5. ~(uids <= 1 /\ svc # Nil)
  <2>1. SUFFICES ASSUME uids <= 1, svc # Nil PROVE FALSE
    OBVIOUS
  <2>2. svc.uid = uids /\ svc.uid \in 1 .. MaxUid
    BY <2>1 DEF TypeOK, ServicesOK, IsService, Services
  <2>3. api[k] # Nil /\ api[k].owner # svc.uid
    BY <2>1 DEF GarbageCollect, HasLiveOwner
  <2>4. api[k].owner \in 1 .. MaxUid /\ api[k].owner <= uids
    BY <2>3 DEF OwnersOK, TypeOK, ChildrenOK, IsObject, Objects
  <2> QED  BY <2>1, <2>2, <2>3, <2>4, BoundsAssumption
<1> QED  BY <1>2, <1>4, <1>5 DEF GangOK

(* Informers and restarts copy the API server's state to the cache. *)
LEMMA CacheKeepsGang ==
  ASSUME TypeOK, OwnersOK, GangOK,
         Restart \/ \E k \in Keys \cup {ServiceKey} : Deliver(k)
  PROVE  OwnersOK' /\ GangOK'
<1>1. UNCHANGED <<svc, api, uids>> /\ svcCache' \in {svc, svcCache}
  BY DEF Restart, Deliver, envVars
<1>2. \A k \in Keys : cache'[k] \in {api[k], cache[k]}
  BY DEF Restart, Deliver, TypeOK, ChildrenOK
<1>3. UNCHANGED <<pc, local>> \/ pc' = "idle"
  BY DEF Restart, EndPass, Goto, Deliver, passVars
<1>4. svc # Nil => svc.uid <= uids
  BY DEF TypeOK, ServicesOK, BoundsOK
<1>5. OwnersOK'
  BY <1>1, <1>2, <1>3, <1>4 DEF OwnersOK
<1>6. There' = There /\ (Relies' => Relies \/ There)
  BY <1>1, <1>2, <1>3, KeysAreDistinct DEF There, Relies
<1> QED  BY <1>1, <1>5, <1>6 DEF GangOK
-----------------------------------------------------------------------------
(* Until the service is recreated, a gang-scheduled LeaderWorkerSet of the  *)
(* live service never exists without its PodGroup: not after a lost answer, *)
(* with old caches, edits that change what is gang scheduled, or a crash    *)
(* between the two.                                                         *)
THEOREM GangHasPodGroupUntilRecreated == Spec => [](uids <= 1 => GangLWSHasPodGroup)
<1>1. Init => OwnersOK /\ GangOK
  BY KeysAreDistinct DEF Init, OwnersOK, GangOK
<1>2. ASSUME IInv, OwnersOK, GangOK, [Next]_vars
      PROVE  OwnersOK' /\ GangOK'
  <2> USE <1>2 DEF IInv
  <2>1. CASE PassWrites
    BY <2>1, PassKeepsGang
  <2>2. CASE IgnoreDeleted \/ FetchService \/ PanicInBuildLWS \/ UpdateStatus
    BY <2>2, EndsKeepGang
  <2>3. CASE CreateService
    BY <2>3, CreateKeepsGang
  <2>4. CASE EditSpec \/ DeleteService
    BY <2>4, EditKeepsGang
  <2>5. CASE Restart \/ \E k \in Keys \cup {ServiceKey} : Deliver(k)
    BY <2>5, CacheKeepsGang
  <2>6. CASE \E k \in LWSKeys : LWSProgresses(k) \/ LWSUnready(k) \/ LWSRollsOut(k)
    BY <2>6, LWSKeepsGang
  <2>7. CASE \E k \in Keys : GarbageCollect(k)
    BY <2>7, CollectKeepsGang
  <2>8. CASE UNCHANGED vars
    BY <2>8 DEF vars, passVars, envVars, OwnersOK, GangOK, There, Relies
  <2> QED  BY <2>1, <2>2, <2>3, <2>4, <2>5, <2>6, <2>7, <2>8 DEF Next, Reconcile, PassWrites
<1>3. OwnersOK /\ GangOK => (uids <= 1 => GangLWSHasPodGroup)
  BY DEF GangOK, Relies, There, GangLWSHasPodGroup, HasLiveOwner
<1> QED  BY <1>1, <1>2, <1>3, InvariantIsInductive, PTL DEF Spec
=============================================================================
