------------------------ MODULE LevelTriggeredProofs ------------------------
(***************************************************************************)
(* The InferenceService controller implements LevelTriggered, for every    *)
(* set of specs, every hash without collisions and every bound.  Each step *)
(* of Reconciler is one step of the level-triggered controller or changes  *)
(* nothing it speaks of; that a pass may end at rest only when the desired *)
(* state is met is where the inductive invariant IInv is needed.           *)
(***************************************************************************)
EXTENDS ReconcilerProofs

(* The parts of the refinement mapping. *)
Seen == IF pc = "idle" THEN Nil ELSE local.spec

Actual == [k \in Keys |-> IF api[k] = Nil THEN Nil ELSE api[k].content]

(* The mapping keeps all variables but one part, or all of them. *)
Rest == UNCHANGED <<SpecOf(svc), SpecOf(svcCache), eppImage>>
-----------------------------------------------------------------------------
(* A service that exists is not the absent one. *)
LEMMA ServiceExists ==
  ASSUME NEW s, IsService(s)
  PROVE  s # Nil /\ SpecOf(s) = s.spec /\ s.spec \in Specs /\ s.spec # Nil
<1> DEFINE names == DOMAIN s.components
<1>1. s \in Services(names) /\ names \in SUBSET RoleNames
  BY DEF IsService
<1> HIDE DEF names
<1>2. s # Nil
  BY <1>1, AbsentAssumption
<1>3. s.spec \in Specs
  BY <1>1 DEF Services
<1> QED  BY <1>2, <1>3, AbsentAssumption DEF SpecOf

(* WantedOf for each kind of key. *)
LEMMA WantedPodGroup ==
  ASSUME NEW spec, NEW image
  PROVE  WantedOf(spec, image)[PodGroupKey]
           = {BuildPodGroup(s) : s \in {t \in {spec} : NeedsGangScheduling(t)}}
BY KeysAreDistinct DEF WantedOf

(* The LeaderWorkerSet of one replica, or its absence beyond the replicas. *)
LEMMA WantedLWS ==
  ASSUME NEW spec, NEW image, NEW key \in LWSKeys
  PROVE  WantedOf(spec, image)[key]
           = {IF key[3] \in ReplicaIndices(spec[k]) THEN BuildLWS(spec, spec[k], key[3])
                                                    ELSE Nil :
                k \in {m \in WorkerRoles(spec) : spec[m].name = key[2]}}
BY KeysAreDistinct DEF WantedOf

(* A router object. *)
LEMMA WantedRouter ==
  ASSUME NEW spec, NEW image, NEW n \in DOMAIN RouterKinds
  PROVE  WantedOf(spec, image)[RouterKey(n)]
           = {BuildRouterObject(RouterKinds[n], spec, spec[k], image) :
                k \in DOMAIN spec \ WorkerRoles(spec)}
<1> DEFINE key == RouterKey(n)
<1>1. key \in Keys /\ key \notin LWSKeys /\ key # PodGroupKey /\ key[1] = RouterKinds[n]
  BY KeysAreDistinct DEF RouterKey
<1> HIDE DEF key
<1>2. WantedOf(spec, image)[key]
        = {BuildRouterObject(key[1], spec, spec[k], image) : k \in DOMAIN spec \ WorkerRoles(spec)}
  BY <1>1 DEF WantedOf
<1> QED  BY <1>1, <1>2 DEF key

(* The key of a LeaderWorkerSet is made of its role name and its index. *)
LEMMA LWSKeyParts ==
  ASSUME NEW key \in LWSKeys
  PROVE  key = LWSKey(key[2], key[3])
BY DEF LWSKeys, LWSKeysOf, LWSKey

(* Children that are converged are what the spec wants. *)
LEMMA ConvergedIsWanted ==
  ASSUME NEW spec \in Specs, Converged(spec), NEW p \in Keys,
         WantedOf(spec, eppImage)[p] # {}
  PROVE  Actual[p] \in WantedOf(spec, eppImage)[p]
<1> USE DEF Actual
<1>1. CASE p = PodGroupKey
  <2>1. NeedsGangScheduling(spec)
    BY <1>1, WantedPodGroup
  <2>2. Actual[p] = BuildPodGroup(spec)
    BY <1>1, <2>1 DEF Converged, PodGroupConverged, Holds
  <2> QED  BY <1>1, <2>1, <2>2, WantedPodGroup
<1>2. CASE p \in LWSKeys
  <2>1. PICK k \in WorkerRoles(spec) : spec[k].name = p[2]
    BY <1>2, WantedLWS
  <2>2. LWSConverged(spec, k)
    BY <2>1 DEF Converged, WorkerRoles
  <2>3. Actual[p] = IF p[3] \in ReplicaIndices(spec[k]) THEN BuildLWS(spec, spec[k], p[3]) ELSE Nil
    <3>1. CASE p[3] \in ReplicaIndices(spec[k])
      <4>1. p = LWSKey(spec[k].name, p[3])
        BY <1>2, <2>1, LWSKeyParts
      <4>2. Holds(p, BuildLWS(spec, spec[k], p[3]))
        BY <2>2, <3>1, <4>1 DEF LWSConverged
      <4> QED  BY <3>1, <4>2 DEF Holds
    <3>2. CASE p[3] \notin ReplicaIndices(spec[k])
      BY <1>2, <2>1, <2>2, <3>2 DEF LWSConverged
    <3> QED  BY <3>1, <3>2
  <2> QED  BY <1>2, <2>1, <2>3, WantedLWS
<1>3. ASSUME NEW n \in DOMAIN RouterKinds, p = RouterKey(n)
      PROVE  Actual[p] \in WantedOf(spec, eppImage)[p]
  <2>1. PICK k \in DOMAIN spec \ WorkerRoles(spec) : TRUE
    BY <1>3, WantedRouter
  <2>2. RouterConverged(spec, k)
    BY <2>1 DEF Converged, WorkerRoles
  <2>3. Actual[p] = BuildRouterObject(RouterKinds[n], spec, spec[k], eppImage)
    BY <1>3, <2>2 DEF RouterConverged, Holds
  <2> QED  BY <1>3, <2>1, <2>3, WantedRouter
<1> QED  BY <1>1, <1>2, <1>3 DEF Keys

(* At rest the desired state is met. *)
LEMMA RestIsMet ==
  ASSUME IInv, Quiescent
  PROVE  Level!Met
<1>1. SUFFICES ASSUME SpecOf(svc) # Nil, NEW p \in Keys,
                      WantedOf(SpecOf(svc), eppImage)[p] # {}
               PROVE  Actual[p] \in WantedOf(SpecOf(svc), eppImage)[p]
  BY DEF Level!Met, Actual
<1>2. svc # Nil /\ IsService(svc) /\ eppImage \in EPPImages
  BY <1>1 DEF SpecOf, IInv, TypeOK, ServicesOK, BoundsOK
<1>3. SpecOf(svc) = svc.spec /\ svc.spec \in Specs
  BY <1>2, ServiceExists
<1>4. Converged(svc.spec)
  BY <1>2 DEF IInv, Quiescent, Done, Again, IdleDone, TypeOK, PassOK
<1> QED  BY <1>1, <1>3, <1>4, ConvergedIsWanted

(* ... also after a step. *)
LEMMA RestIsMetNext == IInv' /\ Quiescent' => Level!Met'
<1>1. IInv /\ Quiescent => Level!Met
  BY RestIsMet
<1> QED  BY <1>1, PTL
-----------------------------------------------------------------------------
(* The steps of a pass. *)

(* Replacing one child replaces one part. *)
LEMMA OnePart ==
  ASSUME ChildrenOK, NEW k \in Keys, NEW o, api' = [api EXCEPT ![k] = o]
  PROVE  Actual' = [Actual EXCEPT ![k] = IF o = Nil THEN Nil ELSE o.content]
BY DEF Actual, ChildrenOK

(* An accepted Create or Update gives a part the content just built. *)
LEMMA WritePart ==
  ASSUME TypeOK, NEW k \in Keys, NEW c \in Contents[k], local.uid \in 1 .. MaxUid, Write(k, c)
  PROVE  Actual' = [Actual EXCEPT ![k] = c]
<1>1. CASE cache[k] = Nil
  <2>1. api' = [api EXCEPT ![k] = NewObject(c, local.uid)]
    BY <1>1 DEF Write
  <2>2. NewObject(c, local.uid) # Nil /\ NewObject(c, local.uid).content = c
    BY NewObjectIsObject, ObjectExists DEF NewObject
  <2> QED  BY <2>1, <2>2, OnePart DEF TypeOK
<1>2. CASE cache[k] # Nil
  <2> DEFINE o == [cache[k] EXCEPT !.hash = Hash(c), !.content = c, !.rolledOut = FALSE]
  <2>1. api' = [api EXCEPT ![k] = o]
    BY <1>2 DEF Write
  <2>2. IsObject(k, cache[k])
    BY <1>2 DEF TypeOK, ChildrenOK
  <2>3. o # Nil
    BY <2>2, UpdateIsObject, ObjectExists
  <2>4. o.content = c
    BY <2>2 DEF IsObject, Objects
  <2> HIDE DEF o
  <2> QED  BY <2>1, <2>3, <2>4, OnePart DEF TypeOK
<1> QED  BY <1>1, <1>2

(* What a step within a pass leaves alone. *)
LEMMA WithinPass ==
  ASSUME TypeOK, PassWrites
  PROVE  /\ Rest /\ Seen = local.spec /\ Seen' = Seen /\ Seen # Nil
         /\ ~Quiescent /\ ~Quiescent'
<1>1. /\ pc # "idle" /\ pc' # "idle"
      /\ UNCHANGED <<svc, svcCache, local, eppImage>>
  BY PassWritesChild
<1>2. local.spec # Nil
  BY <1>1, LocalFacts, AbsentAssumption
<1> QED  BY <1>1, <1>2 DEF Rest, Seen, Quiescent, SpecOf

(* A step within a pass that keeps the parts is none the abstraction sees. *)
LEMMA StutterInPass ==
  ASSUME TypeOK, PassWrites, Actual' = Actual
  PROVE  UNCHANGED Level!vars
BY WithinPass DEF Level!vars, Rest, Seen, Actual

(* Reconciling one child is a Write of its part, or nothing. *)
LEMMA AppliedIsWrite ==
  ASSUME TypeOK, PassWrites, NEW k \in Keys, NEW c \in Contents[k],
         c \in WantedOf(local.spec, eppImage)[k],
         Applied(k, c) \/ Errored(k, c)
  PROVE  [Level!Next]_(Level!vars)
<1>1. CASE UNCHANGED <<api, behind>>
  <2>1. Actual' = Actual
    BY <1>1 DEF Actual
  <2> QED  BY <2>1, StutterInPass
<1>2. CASE Write(k, c)
  <2>1. local.uid \in 1 .. MaxUid
    BY PassWritesChild, LocalFacts
  <2>2. Actual' = [Actual EXCEPT ![k] = c]
    BY <1>2, <2>1, WritePart
  <2>3. Level!Write
    BY <2>2, WithinPass DEF Level!Write, Rest, Seen, Actual
  <2> QED  BY <2>3 DEF Level!Next
<1> QED  BY <1>1, <1>2 DEF Applied, Errored

(* Every step within a pass writes a part that the spec it began with wants, *)
(* takes away a surplus one, or does nothing.                                *)
LEMMA PassStep ==
  ASSUME TypeOK, PassWrites
  PROVE  [Level!Next]_(Level!vars)
<1>1. pc # "idle" /\ local.spec \in Specs /\ eppImage \in EPPImages
  BY PassWritesChild, LocalFacts DEF TypeOK, BoundsOK
<1>2. CASE ReconcilePodGroup
  <2>1. CASE NeedsGangScheduling(local.spec)
    <3>1. \/ Applied(PodGroupKey, BuildPodGroup(local.spec))
          \/ Errored(PodGroupKey, BuildPodGroup(local.spec))
      BY <1>2, <2>1 DEF ReconcilePodGroup
    <3>2. BuildPodGroup(local.spec) \in WantedOf(local.spec, eppImage)[PodGroupKey]
      BY <2>1, WantedPodGroup
    <3> QED  BY <1>1, <3>1, <3>2, KeysAreDistinct, PodGroupContent, AppliedIsWrite
  <2>2. CASE ~NeedsGangScheduling(local.spec)
    <3>1. Actual' = Actual
      BY <1>2, <2>2 DEF ReconcilePodGroup, Actual
    <3> QED  BY <3>1, StutterInPass
  <2> QED  BY <2>1, <2>2
<1>3. CASE ReconcileLWS
  <2> DEFINE key == LWSKey(role.name, idx)
             c   == BuildLWS(local.spec, role, idx)
  <2>1. ri \in WorkerRoles(local.spec) /\ idx \in ReplicaIndices(local.spec[ri])
    BY <1>1, <1>3, LocalFacts DEF ReconcileLWS, WorkerRoles, role
  <2>2. key \in LWSKeys /\ key \in Keys /\ c \in Contents[key]
    BY <1>1, <2>1, LWSKeyInKeys, KeysAreDistinct, LWSContent DEF role
  <2>3. key[2] = local.spec[ri].name /\ key[3] = idx
    BY DEF LWSKey, role
  <2>4. Applied(key, c) \/ Errored(key, c)
    BY <1>3 DEF ReconcileLWS
  <2> HIDE DEF key
  <2>5. c \in WantedOf(local.spec, eppImage)[key]
    BY <2>1, <2>2, <2>3, WantedLWS DEF role
  <2> QED  BY <2>2, <2>4, <2>5, AppliedIsWrite
<1>4. CASE ReconcileRouter
  <2> DEFINE c == BuildRouterObject(RouterKinds[idx], local.spec, role, eppImage)
  <2>1. /\ ri \in DOMAIN local.spec /\ IsRouter(local.spec[ri]) /\ idx \in DOMAIN RouterKinds
        /\ role = local.spec[ri]
    BY <1>1, <1>4, LocalFacts DEF ReconcileRouter, role
  <2>2. RouterKey(idx) \in Keys /\ c \in Contents[RouterKey(idx)]
    BY <1>1, <2>1, KeysAreDistinct, RouterContent
  <2>3. c \in WantedOf(local.spec, eppImage)[RouterKey(idx)]
    BY <2>1, WantedRouter DEF WorkerRoles
  <2>4. Applied(RouterKey(idx), c) \/ Errored(RouterKey(idx), c)
    BY <1>4 DEF ReconcileRouter
  <2> QED  BY <2>2, <2>3, <2>4, AppliedIsWrite
<1>5. CASE DeleteOrphanLWS
  <2>1. PICK k \in orphans : Deleted(k) \/ UNCHANGED <<api, behind>>
    BY <1>5 DEF DeleteOrphanLWS
  <2>2. k \in Keys
    BY KeysAreDistinct DEF TypeOK, PassOK
  <2>3. CASE UNCHANGED api
    <3>1. Actual' = Actual
      BY <2>3 DEF Actual
    <3> QED  BY <3>1, StutterInPass
  <2>4. CASE api' = [api EXCEPT ![k] = Nil]
    <3>1. Actual' = [Actual EXCEPT ![k] = Nil]
      BY <2>2, <2>4, OnePart DEF TypeOK
    <3>2. Level!Disturb
      BY <2>2, <3>1, WithinPass DEF Level!Disturb, Rest, Seen, Actual
    <3> QED  BY <3>2 DEF Level!Next
  <2> QED  BY <2>1, <2>3, <2>4 DEF Deleted
<1>6. CASE ListOrphanLWS \/ NextRole \/ EndLoop \/ ReadLWSStatus
  <2>1. Actual' = Actual
    BY <1>6 DEF ListOrphanLWS, NextRole, EndLoop, ReadLWSStatus, Actual
  <2> QED  BY <2>1, StutterInPass
<1> QED  BY <1>2, <1>3, <1>4, <1>5, <1>6 DEF PassWrites
-----------------------------------------------------------------------------
(* The beginning and the end of a pass. *)

(* FetchService begins a pass with the cached service. *)
LEMMA FetchStep ==
  ASSUME TypeOK, FetchService
  PROVE  Level!Begin
<1>1. /\ pc = "idle" /\ pc' = "podgroup" /\ queued /\ svcCache # Nil
      /\ UNCHANGED <<svc, api, svcCache, eppImage>>
  BY DEF FetchService, Goto, envVars
<1>2. IsService(svcCache)
  BY <1>1 DEF TypeOK, ServicesOK
<1>3. local'.spec = svcCache.spec
  BY <1>2, SetConditionKeeps DEF FetchService, SetInitCondition, ConditionTypes
<1>4. SpecOf(svcCache) = svcCache.spec /\ SpecOf(svcCache) # Nil
  BY <1>2, ServiceExists
<1>5. Seen = Nil /\ Seen' = SpecOf(svcCache)
  BY <1>1, <1>3, <1>4 DEF Seen
<1>6. ~Quiescent /\ ~Quiescent'
  BY <1>1 DEF Quiescent
<1>7. Actual' = Actual /\ UNCHANGED <<SpecOf(svc), SpecOf(svcCache), eppImage>>
  BY <1>1 DEF Actual, SpecOf
<1> QED  BY <1>4, <1>5, <1>6, <1>7 DEF Level!Begin, Seen, Actual

(* A pass that ends at rest leaves what the current spec asks for: after its *)
(* step the invariant holds, so Met does, of parts the step did not change.  *)
LEMMA EndStep ==
  ASSUME IInv, IInv', IgnoreDeleted \/ PanicInBuildLWS \/ UpdateStatus
  PROVE  Level!End
<1>1. pc' = "idle" /\ UNCHANGED <<api, svcCache, eppImage>>
  BY PassEnds DEF IInv
<1>2. ~Quiescent
  BY DEF IgnoreDeleted, PanicInBuildLWS, UpdateStatus, Quiescent
<1>3. SpecOf(svc') = SpecOf(svc)
  <2>1. CASE svc' = svc
    BY <2>1
  <2>2. CASE svc' # svc
    <3>1. UpdateStatus /\ StatusWritten /\ pc = "status"
      BY <2>2 DEF IgnoreDeleted, PanicInBuildLWS, UpdateStatus
    <3>2. svc # Nil /\ IsService(svc') /\ svc'.spec = svc.spec
      BY <3>1, StatusWrittenFields DEF IInv
    <3> QED  BY <3>2, ServiceExists DEF SpecOf
  <2> QED  BY <2>1, <2>2
<1>4. Actual' = Actual /\ SpecOf(svcCache') = SpecOf(svcCache) /\ Seen' = Nil
  BY <1>1 DEF Actual, Seen
<1>5. Quiescent' => Level!Met'
  BY RestIsMetNext
<1>6. Level!Met' => Level!Met
  BY <1>1, <1>3, <1>4 DEF Level!Met, Actual
<1>7. (~Quiescent)' \in BOOLEAN /\ (~(~Quiescent)' => Level!Met)
  BY <1>5, <1>6
<1> QED  BY <1>1, <1>2, <1>3, <1>4, <1>7 DEF Level!End, Seen, Actual
-----------------------------------------------------------------------------
(* Everyone else. *)

(* What every step that changes a child from outside leaves alone. *)
LEMMA ChildChangesRest ==
  ASSUME NEW k, NEW new, ChildChanges(k, new)
  PROVE  Rest /\ Seen' = Seen /\ ~Quiescent'
<1>1. UNCHANGED <<svc, svcCache, pc, local, eppImage>> /\ behind' # {}
  BY DEF ChildChanges, passVars
<1> QED  BY <1>1 DEF Rest, Seen, Quiescent, SpecOf

(* The LeaderWorkerSet controller wakes the controller and changes no part. *)
LEMMA LWSStep ==
  ASSUME TypeOK, NEW k \in LWSKeys, LWSProgresses(k) \/ LWSUnready(k) \/ LWSRollsOut(k)
  PROVE  Level!Wake
<1>1. k \in Keys /\ api[k] # Nil
  BY KeysAreDistinct DEF LWSProgresses, LWSUnready, LWSRollsOut
<1>2. PICK o : ChildChanges(k, o) /\ IsObject(k, o) /\ o.content = api[k].content
  BY LWSChange
<1>3. o # Nil
  BY <1>1, <1>2, ObjectExists
<1>4. Actual' = [Actual EXCEPT ![k] = api[k].content]
  BY <1>1, <1>2, <1>3, OnePart DEF ChildChanges, TypeOK
<1>5. Actual' = Actual
  BY <1>1, <1>4 DEF Actual
<1> QED  BY <1>2, <1>5, ChildChangesRest DEF Level!Wake, Rest, Seen, Actual

(* The garbage collector takes a part away, and the controller hears of it. *)
LEMMA CollectStep ==
  ASSUME TypeOK, NEW k \in Keys, GarbageCollect(k)
  PROVE  Level!Disturb
<1>1. ChildChanges(k, Nil)
  BY DEF GarbageCollect
<1>2. Actual' = [Actual EXCEPT ![k] = Nil]
  BY <1>1, OnePart DEF ChildChanges, TypeOK
<1> QED  BY <1>1, <1>2, ChildChangesRest DEF Level!Disturb, Rest, Seen, Actual

(* A write of the service by its users is a change of the desired state. *)
LEMMA UserStep ==
  ASSUME TypeOK, CreateService \/ EditSpec \/ DeleteService
  PROVE  Level!Ask
<1>1. /\ UNCHANGED <<api, svcCache, pc, local, eppImage>> /\ behind' = behind \cup {ServiceKey}
  BY DEF CreateService, EditSpec, DeleteService, ServiceChanges
<1>2. svc' # Nil => IsService(svc')
  BY UserTypes DEF TypeOK, ServicesOK
<1>3. SpecOf(svc') \in Specs \cup {Nil}
  <2>1. CASE svc' = Nil
    BY <2>1 DEF SpecOf
  <2>2. CASE svc' # Nil
    BY <1>2, <2>2, ServiceExists
  <2> QED  BY <2>1, <2>2
<1>4. ~Quiescent' /\ Seen' = Seen /\ Actual' = Actual /\ SpecOf(svcCache') = SpecOf(svcCache)
  BY <1>1 DEF Quiescent, Seen, Actual
<1> QED  BY <1>1, <1>3, <1>4 DEF Level!Ask, Level!Asked, Seen, Actual

(* An informer shows the controller the desired state, or wakes it. *)
LEMMA DeliverStep ==
  ASSUME NEW k \in Keys \cup {ServiceKey}, Deliver(k)
  PROVE  Level!Observe \/ Level!Wake
<1>1. UNCHANGED <<svc, api, pc, local, eppImage>> /\ queued' = TRUE
  BY DEF Deliver, passVars, envVars
<1>2. svcCache' \in {svc, svcCache}
  BY DEF Deliver
<1>3. ~Quiescent' /\ Seen' = Seen /\ Actual' = Actual /\ SpecOf(svc') = SpecOf(svc)
  BY <1>1 DEF Quiescent, Seen, Actual
<1>4. CASE svcCache' = svc
  BY <1>1, <1>3, <1>4 DEF Level!Observe, Seen, Actual
<1>5. CASE svcCache' = svcCache
  BY <1>1, <1>3, <1>5 DEF Level!Wake, Seen, Actual
<1> QED  BY <1>2, <1>4, <1>5

(* A restart forgets the pass and lists everything anew. *)
LEMMA RestartStep ==
  ASSUME Restart
  PROVE  Level!Restart
<1>1. /\ UNCHANGED <<svc, api>> /\ svcCache' = svc /\ queued' = TRUE /\ pc' = "idle"
      /\ eppImage' \in EPPImages
  BY DEF Restart, EndPass, Goto
<1>2. ~Quiescent' /\ Seen' = Nil /\ Actual' = Actual /\ SpecOf(svc') = SpecOf(svc)
  BY <1>1 DEF Quiescent, Seen, Actual
<1> QED  BY <1>1, <1>2 DEF Level!Restart, Seen, Actual
-----------------------------------------------------------------------------
(* Every step of the controller, its users and its environment is a step of *)
(* the level-triggered controller, or stutters.                             *)
LEMMA NextStep ==
  ASSUME IInv, IInv', [Next]_vars
  PROVE  [Level!Next]_(Level!vars)
<1> USE DEF IInv
<1>1. CASE PassWrites
  BY <1>1, PassStep
<1>2. CASE FetchService
  BY <1>2, FetchStep DEF Level!Next
<1>3. CASE IgnoreDeleted \/ PanicInBuildLWS \/ UpdateStatus
  BY <1>3, EndStep DEF Level!Next
<1>4. CASE CreateService \/ EditSpec \/ DeleteService
  BY <1>4, UserStep DEF Level!Next
<1>5. CASE Restart
  BY <1>5, RestartStep DEF Level!Next
<1>6. ASSUME NEW k \in Keys \cup {ServiceKey}, Deliver(k)
      PROVE  Level!Next
  BY <1>6, DeliverStep DEF Level!Next
<1>7. ASSUME NEW k \in LWSKeys, LWSProgresses(k) \/ LWSUnready(k) \/ LWSRollsOut(k)
      PROVE  Level!Next
  BY <1>7, LWSStep DEF Level!Next
<1>8. ASSUME NEW k \in Keys, GarbageCollect(k)
      PROVE  Level!Next
  BY <1>8, CollectStep DEF Level!Next
<1>9. CASE UNCHANGED vars
  <2>1. UNCHANGED <<svc, api, svcCache, behind, queued, pc, local, eppImage>>
    BY <1>9 DEF vars, passVars, envVars
  <2> QED  BY <2>1 DEF Level!vars, Quiescent
<1> QED  BY <1>1, <1>2, <1>3, <1>4, <1>5, <1>6, <1>7, <1>8, <1>9 DEF Next, Reconcile, PassWrites

(* The controller implements the level-triggered one: it comes to rest only *)
(* with the desired state met, at rest it writes nothing, and every child   *)
(* it writes is what the spec its pass began with wants, whatever the       *)
(* informers have missed, the users change and the requests lose meanwhile. *)
THEOREM ControllerIsLevelTriggered == Spec => IsLevelTriggered
<1>1. Init => Level!Init
  BY DEF Init, Level!Init, SpecOf, Quiescent
<1>2. IInv /\ IInv' /\ [Next]_vars => [Level!Next]_(Level!vars)
  BY NextStep
<1> QED  BY <1>1, <1>2, InvariantIsInductive, PTL DEF Spec, IsLevelTriggered, Level!Spec
=============================================================================
