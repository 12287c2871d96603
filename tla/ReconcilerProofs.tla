-------------------------- MODULE ReconcilerProofs --------------------------
(***************************************************************************)
(* Theorems about Reconciler, for every set of specs, every hash without   *)
(* collisions and every bound.                                             *)
(***************************************************************************)
EXTENDS Reconciler, Sums

-----------------------------------------------------------------------------
(* Keys and contents. *)

(* The router has eight objects. *)
LEMMA RouterKindsDomain == DOMAIN RouterKinds = 1 .. 8 /\ Len(RouterKinds) = 8
BY DEF RouterKinds

(* The kinds of the eight router objects are not those of the other keys. *)
LEMMA RouterKindIsOwn ==
  ASSUME NEW n \in DOMAIN RouterKinds
  PROVE  RouterKinds[n] \notin {"InferenceService", "PodGroup", "LeaderWorkerSet"}
BY RouterKindsDomain DEF RouterKinds

(* Objects of different kinds have different keys. *)
LEMMA KeysAreDistinct ==
  /\ ServiceKey \notin Keys
  /\ PodGroupKey \in Keys /\ PodGroupKey \notin LWSKeys
  /\ LWSKeys \subseteq Keys
  /\ \A n \in DOMAIN RouterKinds : /\ RouterKey(n) \in Keys \ LWSKeys
                                   /\ RouterKey(n) # PodGroupKey
<1>1. \A k \in LWSKeys : k[1] = "LeaderWorkerSet"
  BY DEF LWSKeys, LWSKeysOf, LWSKey
<1>2. \A n \in DOMAIN RouterKinds : RouterKey(n)[1] = RouterKinds[n]
  BY DEF RouterKey
<1>3. ServiceKey[1] = "InferenceService" /\ PodGroupKey[1] = "PodGroup"
  BY DEF ServiceKey, PodGroupKey
<1> QED  BY <1>1, <1>2, <1>3, RouterKindIsOwn DEF Keys

(* The LeaderWorkerSets a spec asks for have keys. *)
LEMMA LWSKeyInKeys ==
  ASSUME NEW spec \in Specs, NEW k \in WorkerRoles(spec), NEW j \in ReplicaIndices(spec[k])
  PROVE  LWSKey(spec[k].name, j) \in LWSKeys
BY DEF LWSKeys, LWSKeysOf

(* What the builders return is among the contents of the object's key. *)
LEMMA PodGroupContent ==
  ASSUME NEW spec \in Specs
  PROVE  BuildPodGroup(spec) \in Contents[PodGroupKey]
BY KeysAreDistinct DEF Contents

(* BuildLWS returns a content of the key it is built for. *)
LEMMA LWSContent ==
  ASSUME NEW spec \in Specs, NEW k \in WorkerRoles(spec), NEW j \in ReplicaIndices(spec[k])
  PROVE  BuildLWS(spec, spec[k], j) \in Contents[LWSKey(spec[k].name, j)]
<1> DEFINE key == LWSKey(spec[k].name, j)
<1>1. key \in LWSKeys /\ key \in Keys /\ key # PodGroupKey
  BY LWSKeyInKeys, KeysAreDistinct
<1>2. key[2] = spec[k].name /\ key[3] = j
  BY DEF LWSKey
<1>3. Contents[key] = UNION {{BuildLWS(s, s[r], key[3]) :
                   r \in {m \in WorkerRoles(s) : s[m].name = key[2]}} : s \in Specs}
  BY <1>1 DEF Contents
<1> HIDE DEF key
<1> QED  BY <1>2, <1>3 DEF key

(* The router builders return contents of the keys they build for. *)
LEMMA RouterContent ==
  ASSUME NEW spec \in Specs, NEW k \in DOMAIN spec, IsRouter(spec[k]),
         NEW n \in DOMAIN RouterKinds, NEW image \in EPPImages
  PROVE  BuildRouterObject(RouterKinds[n], spec, spec[k], image) \in Contents[RouterKey(n)]
<1> DEFINE key == RouterKey(n)
<1>1. key \in Keys /\ key \notin LWSKeys /\ key # PodGroupKey
  BY KeysAreDistinct
<1>2. key[1] = RouterKinds[n]
  BY DEF RouterKey
<1>3. Contents[key] = UNION {{BuildRouterObject(key[1], s, s[r], i) :
                      r \in DOMAIN s \ WorkerRoles(s), i \in EPPImages} : s \in Specs}
  BY <1>1 DEF Contents
<1>4. k \in DOMAIN spec \ WorkerRoles(spec)
  BY DEF WorkerRoles
<1> HIDE DEF key
<1> QED  BY <1>2, <1>3, <1>4 DEF key

(* The ServiceAccount has one content. *)
LEMMA ServiceAccountContent ==
  ASSUME NEW c \in Contents[RouterKey(1)]
  PROVE  c = "static"
<1>1. RouterKey(1) \in Keys /\ RouterKey(1) \notin LWSKeys /\ RouterKey(1) # PodGroupKey
  BY KeysAreDistinct, RouterKindsDomain
<1>2. RouterKey(1)[1] = "ServiceAccount"
  BY DEF RouterKey, RouterKinds
<1>3. Contents[RouterKey(1)] = UNION {{BuildRouterObject(RouterKey(1)[1], s, s[r], i) :
                      r \in DOMAIN s \ WorkerRoles(s), i \in EPPImages} : s \in Specs}
  BY <1>1 DEF Contents
<1>4. \A s, r, i : BuildRouterObject("ServiceAccount", s, r, i) = "static"
  BY DEF BuildRouterObject, BuildEPPServiceAccount
<1> QED  BY <1>2, <1>3, <1>4
-----------------------------------------------------------------------------
(* Services and objects. *)

ConditionTypes == {"Initialized", "Active", "Failed"}

(* Max of the indices with some property is one of them. *)
LEMMA MaxIsMember ==
  ASSUME NEW n \in Nat, NEW S \in SUBSET (1 .. n), S # {}
  PROVE  Max(S) \in S
<1> DEFINE T == {n - x : x \in S}
<1>1. T \subseteq Nat /\ T # {}
  <2>1. \A x \in S : n - x \in Nat
    OBVIOUS
  <2>2. PICK x \in S : TRUE
    OBVIOUS
  <2>3. n - x \in T
    OBVIOUS
  <2> QED  BY <2>1, <2>3
<1>2. PICK t \in T : \A y \in T : t <= y
  BY <1>1, LeastNumber
<1>3. PICK x \in S : t = n - x
  OBVIOUS
<1>4. \A y \in S : n - x <= n - y
  BY <1>2, <1>3
<1>5. \A y \in S : x >= y
  BY <1>4
<1> QED  BY <1>5 DEF Max

(* A spec is a sequence of roles with integer replica and node counts. *)
LEMMA SpecFacts ==
  ASSUME NEW spec \in Specs
  PROVE  /\ Len(spec) \in Nat /\ DOMAIN spec = 1 .. Len(spec)
         /\ \A k \in DOMAIN spec : /\ GetReplicaCount(spec[k]) \in Int
                                   /\ GetNodeCount(spec[k]) \in Nat \ {0}
<1> DEFINE R == [name: {spec[k].name : k \in DOMAIN spec},
                 componentType: ComponentTypes,
                 replicas: Int \cup {Nil},
                 nodeCount: (Nat \ {0}) \cup {Nil},
                 template: {spec[k].template : k \in DOMAIN spec},
                 strategy: {spec[k].strategy : k \in DOMAIN spec},
                 endpointPickerConfig: {spec[k].endpointPickerConfig : k \in DOMAIN spec},
                 httproute: {spec[k].httproute : k \in DOMAIN spec}]
<1>1. spec \in Seq(R)
  BY SpecsAssumption DEF IsSpec
<1>2. \A r \in R : r.replicas \in Int \cup {Nil} /\ r.nodeCount \in (Nat \ {0}) \cup {Nil}
  OBVIOUS
<1> HIDE DEF R
<1>3. Len(spec) \in Nat /\ DOMAIN spec = 1 .. Len(spec) /\ \A k \in DOMAIN spec : spec[k] \in R
  BY <1>1
<1>4. \A k \in DOMAIN spec : GetReplicaCount(spec[k]) \in Int
  BY <1>2, <1>3 DEF GetReplicaCount
<1>5. \A k \in DOMAIN spec : GetNodeCount(spec[k]) \in Nat \ {0}
  BY <1>2, <1>3 DEF GetNodeCount
<1> QED  BY <1>3, <1>4, <1>5

(* The summary of one role is well typed: the replicas counted as ready are *)
(* finitely many.                                                           *)
LEMMA AggregateTyped ==
  ASSUME NEW r, GetReplicaCount(r) \in Int, GetNodeCount(r) \in Nat \ {0},
         NEW ready \in SUBSET ReplicaIndices(r), NEW begun
  PROVE  AggregateLWSStatus(r, ready, begun) \in ComponentStatuses
<1>1. Cardinality(ready) \in Nat
  <2>1. IsFiniteSet(ReplicaIndices(r))
    BY FS_Interval DEF ReplicaIndices
  <2> QED  BY <2>1, FS_Subset, FS_CardinalityType
<1>2. GetReplicaCount(r) * GetNodeCount(r) \in Int /\ Cardinality(ready) * GetNodeCount(r) \in Nat
  BY <1>1
<1> QED  BY <1>1, <1>2 DEF AggregateLWSStatus, ComponentStatuses

(* Components has a well-typed entry for every worker role of the spec. *)
LEMMA ComponentsTyped ==
  ASSUME NEW spec \in Specs, NEW pairs, NEW more
  PROVE  LET c == Components(spec, pairs, more)
         IN  /\ DOMAIN c \subseteq RoleNames
             /\ c \in [DOMAIN c -> ComponentStatuses]
<1> DEFINE names  == {spec[k].name : k \in WorkerRoles(spec)}
           same(n) == {k \in WorkerRoles(spec) : spec[k].name = n}
           last(n) == spec[Max(same(n))]
           in(r, p) == {j \in ReplicaIndices(r) : <<r.name, j>> \in p}
<1>1. Components(spec, pairs, more)
        = [n \in names |-> AggregateLWSStatus(last(n), in(last(n), pairs), in(last(n), more))]
  BY DEF Components
<1>2. names \subseteq RoleNames
  BY DEF RoleNames, WorkerRoles
<1>3. ASSUME NEW n \in names
      PROVE  AggregateLWSStatus(last(n), in(last(n), pairs), in(last(n), more)) \in ComponentStatuses
  <2>1. same(n) # {} /\ same(n) \subseteq 1 .. Len(spec) /\ Len(spec) \in Nat
    BY SpecFacts DEF WorkerRoles
  <2> HIDE DEF same
  <2>2. Max(same(n)) \in same(n)
    BY <2>1, MaxIsMember
  <2>3. Max(same(n)) \in DOMAIN spec
    BY <2>1, <2>2, SpecFacts
  <2>4. GetReplicaCount(last(n)) \in Int /\ GetNodeCount(last(n)) \in Nat \ {0}
    BY <2>3, SpecFacts
  <2>5. in(last(n), pairs) \in SUBSET ReplicaIndices(last(n))
    OBVIOUS
  <2> HIDE DEF last, in
  <2> QED  BY <2>4, <2>5, AggregateTyped
<1> HIDE DEF names, same, last, in
<1> QED  BY <1>1, <1>2, <1>3

(* A service just created is well typed. *)
LEMMA NewServiceIsService ==
  ASSUME NEW uid \in 1 .. MaxUid, NEW spec \in Specs
  PROVE  IsService(NewService(uid, spec))
<1> DEFINE none == << >>
<1>1. DOMAIN none = {} /\ none \in [{} -> ComponentStatuses]
  OBVIOUS
<1> HIDE DEF none
<1>2. /\ NewService(uid, spec).components = none
      /\ NewService(uid, spec).observedGeneration <= NewService(uid, spec).generation
  BY DEF NewService, none
<1>3. NewService(uid, spec) \in Services({})
  BY <1>1 DEF NewService, Services, NoConditions, none
<1> QED  BY <1>1, <1>2, <1>3 DEF IsService

(* An edit of the spec keeps a service well typed. *)
LEMMA EditIsService ==
  ASSUME NEW s, IsService(s), NEW spec \in Specs
  PROVE  IsService([s EXCEPT !.spec = spec, !.generation = @ + 1])
<1> DEFINE n == [s EXCEPT !.spec = spec, !.generation = @ + 1]
           names == DOMAIN s.components
<1>1. /\ s \in Services(names) /\ names \subseteq RoleNames
      /\ s.generation \in Nat \ {0} /\ s.observedGeneration \in Nat
      /\ s.observedGeneration <= s.generation
  BY DEF IsService, Services
<1>2. s.generation + 1 \in Nat \ {0} /\ s.observedGeneration <= s.generation + 1
  BY <1>1
<1> HIDE DEF names
<1>3. /\ n.generation = s.generation + 1 /\ n.observedGeneration = s.observedGeneration
      /\ n.components = s.components
  BY <1>1 DEF Services
<1>4. n \in Services(names)
  BY <1>1, <1>2 DEF Services
<1> QED  BY <1>1, <1>2, <1>3, <1>4 DEF IsService, names

(* A condition setter keeps everything but the conditions and the observed *)
(* generation, which becomes the generation of the copy.                   *)
LEMMA SetConditionKeeps ==
  ASSUME NEW s, IsService(s), NEW t \in ConditionTypes, NEW v \in {"True", "False"}
  PROVE  LET n == SetCondition(s, t, v)
         IN  /\ IsService(n)
             /\ n.spec = s.spec /\ n.uid = s.uid /\ n.generation = s.generation
             /\ n.components = s.components
             /\ n.observedGeneration = s.generation
             /\ n.conditions[t] = v
<1> DEFINE c == [s.conditions EXCEPT ![t] = v]
           n == [s EXCEPT !.conditions = c, !.observedGeneration = s.generation]
           names == DOMAIN s.components
<1>1. SetCondition(s, t, v) = n
  BY DEF SetCondition
<1>2. /\ s \in Services(names) /\ names \subseteq RoleNames
      /\ s.generation \in Nat \ {0} /\ s.generation <= s.generation
  BY DEF IsService, Services
<1> HIDE DEF names
<1>3. c \in [ConditionTypes -> {"Unset", "True", "False"}] /\ c[t] = v
  BY <1>2 DEF Services, ConditionTypes
<1> HIDE DEF c
<1>4. /\ n.spec = s.spec /\ n.uid = s.uid /\ n.generation = s.generation
      /\ n.components = s.components /\ n.observedGeneration = s.generation
      /\ n.conditions = c
  BY <1>2 DEF Services
<1>5. n \in Services(names)
  BY <1>2, <1>3 DEF Services, ConditionTypes
<1>6. IsService(n)
  BY <1>2, <1>4, <1>5 DEF IsService, names
<1> QED  BY <1>1, <1>3, <1>4, <1>6

(* So does replacing the component summary. *)
LEMMA WithComponentsIsService ==
  ASSUME NEW s, IsService(s), NEW names \in SUBSET RoleNames,
         NEW c \in [names -> ComponentStatuses]
  PROVE  LET n == [s EXCEPT !.components = c]
         IN  /\ IsService(n) /\ n.components = c
             /\ n.spec = s.spec /\ n.uid = s.uid /\ n.generation = s.generation
<1> DEFINE n == [s EXCEPT !.components = c]
           old == DOMAIN s.components
<1>1. s \in Services(old) /\ s.observedGeneration <= s.generation
  BY DEF IsService
<1> HIDE DEF old
<1>2. /\ n.components = c /\ n.observedGeneration = s.observedGeneration
      /\ n.spec = s.spec /\ n.uid = s.uid /\ n.generation = s.generation
  BY <1>1 DEF Services
<1>3. n \in Services(names)
  BY <1>1 DEF Services
<1>4. DOMAIN n.components = names
  BY <1>2
<1> QED  BY <1>1, <1>2, <1>3, <1>4 DEF IsService

(* So does the status update, and it keeps all but the status. *)
LEMMA StatusFieldsIsService ==
  ASSUME NEW s, IsService(s), NEW n, IsService(n), n.generation = s.generation
  PROVE  LET r == [s EXCEPT !.observedGeneration = n.observedGeneration,
                            !.conditions = n.conditions, !.components = n.components]
         IN  /\ IsService(r)
             /\ r.spec = s.spec /\ r.uid = s.uid /\ r.generation = s.generation
             /\ r.observedGeneration = n.observedGeneration
             /\ r.conditions = n.conditions /\ r.components = n.components
<1> DEFINE r == [s EXCEPT !.observedGeneration = n.observedGeneration,
                          !.conditions = n.conditions, !.components = n.components]
           old == DOMAIN s.components
           names == DOMAIN n.components
<1>1. s \in Services(old)
  BY DEF IsService
<1>2. /\ n \in Services(names) /\ names \subseteq RoleNames
      /\ n.observedGeneration <= s.generation
  BY DEF IsService
<1> HIDE DEF old, names
<1>3. /\ r.spec = s.spec /\ r.uid = s.uid /\ r.generation = s.generation
      /\ r.observedGeneration = n.observedGeneration
      /\ r.conditions = n.conditions /\ r.components = n.components
  BY <1>1 DEF Services
<1>4. r \in Services(names)
  BY <1>1, <1>2 DEF Services
<1> QED  BY <1>2, <1>3, <1>4 DEF IsService, names

(* A created child carries the hash of its content. *)
LEMMA NewObjectIsObject ==
  ASSUME NEW key \in Keys, NEW c \in Contents[key], NEW u \in 1 .. MaxUid
  PROVE  IsObject(key, NewObject(c, u))
BY DEF IsObject, Objects, NewObject, Statuses

(* An updated child carries the hash of its new content. *)
LEMMA UpdateIsObject ==
  ASSUME NEW key \in Keys, NEW c \in Contents[key], NEW o, IsObject(key, o)
  PROVE  IsObject(key, [o EXCEPT !.hash = Hash(c), !.content = c, !.rolledOut = FALSE])
BY DEF IsObject, Objects

(* A report of the LeaderWorkerSet controller changes neither. *)
LEMMA StatusIsObject ==
  ASSUME NEW key \in Keys, NEW o, IsObject(key, o), NEW st \in Statuses
  PROVE  /\ IsObject(key, [o EXCEPT !.status = st])
         /\ IsObject(key, [o EXCEPT !.rolledOut = TRUE, !.status = st])
BY DEF IsObject, Objects

(* An object that exists is not the absent one. *)
LEMMA ObjectExists ==
  ASSUME NEW k \in Keys, NEW o, IsObject(k, o)
  PROVE  o # Nil
BY AbsentAssumption DEF IsObject

(* What Reconcile has put together when it reaches the status update. *)
LEMMA FinalServiceFields ==
  ASSUME IsService(local), local.spec \in Specs, err \in BOOLEAN
  PROVE  /\ IsService(FinalService)
         /\ FinalService.spec = local.spec /\ FinalService.uid = local.uid
         /\ FinalService.generation = local.generation
         /\ FinalService.observedGeneration = local.generation
         /\ FinalService.components = Components(local.spec, running, started)
         /\ ~err => FinalService.conditions.Active =
                      IF CheckAllComponentsReady(FinalService.components) THEN "True"
                                                                          ELSE "False"
<1> DEFINE c   == Components(local.spec, running, started)
           new == [local EXCEPT !.components = c]
<1>1. /\ IsService(new) /\ new.components = c
      /\ new.spec = local.spec /\ new.uid = local.uid /\ new.generation = local.generation
  <2>1. DOMAIN c \subseteq RoleNames /\ c \in [DOMAIN c -> ComponentStatuses]
    BY ComponentsTyped
  <2> HIDE DEF c
  <2> QED  BY <2>1, WithComponentsIsService
<1>2. FinalService = IF err THEN SetCondition(new, "Failed", "True")
                     ELSE IF CheckAllComponentsReady(c) THEN SetCondition(new, "Active", "True")
                     ELSE SetCondition(new, "Active", "False")
  BY <1>1 DEF FinalService, SetFailedCondition, SetActiveCondition, SetProcessingCondition
<1> HIDE DEF new, c
<1>3. \A t \in ConditionTypes, v \in {"True", "False"} :
        LET n == SetCondition(new, t, v)
        IN  /\ IsService(n)
            /\ n.spec = local.spec /\ n.uid = local.uid /\ n.generation = local.generation
            /\ n.observedGeneration = local.generation
            /\ n.components = c /\ n.conditions[t] = v
  BY <1>1, SetConditionKeeps
<1>4. {"Failed", "Active"} \subseteq ConditionTypes
  BY DEF ConditionTypes
<1> QED  BY <1>2, <1>3, <1>4 DEF c
-----------------------------------------------------------------------------
(* Writes keep the types of the children. *)

(* What a pass knows of its copy and its loop variables. *)
LEMMA LocalFacts ==
  ASSUME TypeOK, pc # "idle"
  PROVE  /\ IsService(local) /\ local.spec \in Specs /\ local.uid \in 1 .. MaxUid
         /\ Len(local.spec) \in Nat /\ DOMAIN local.spec = 1 .. Len(local.spec)
         /\ ri \in Nat \ {0} /\ ri <= Len(local.spec) + 1
         /\ InLoop <=> ri \in DOMAIN local.spec
<1>1. IsService(local) /\ local.spec \in Specs /\ local.uid \in 1 .. MaxUid
  BY DEF TypeOK, PassOK, IsService, Services
<1>2. Len(local.spec) \in Nat /\ DOMAIN local.spec = 1 .. Len(local.spec)
  BY <1>1, SpecFacts
<1> QED  BY <1>1, <1>2 DEF TypeOK, PassOK, InLoop

(* An accepted Create or Update keeps the children well typed. *)
LEMMA WriteTypes ==
  ASSUME ChildrenOK, NEW key \in Keys, NEW c \in Contents[key],
         local.uid \in 1 .. MaxUid, Write(key, c), UNCHANGED cache
  PROVE  ChildrenOK'
<1>1. PICK o : IsObject(key, o) /\ api' = [api EXCEPT ![key] = o]
  <2>1. CASE cache[key] = Nil
    BY <2>1, NewObjectIsObject DEF Write
  <2>2. CASE cache[key] # Nil
    BY <2>2, UpdateIsObject DEF Write, ChildrenOK
  <2> QED  BY <2>1, <2>2
<1>2. behind' = behind \cup {key}
  BY DEF Write
<1> QED  BY <1>1, <1>2 DEF ChildrenOK

(* So does every outcome of reconciling one child. *)
LEMMA AppliedTypes ==
  ASSUME ChildrenOK, BoundsOK, NEW key \in Keys, NEW c \in Contents[key],
         local.uid \in 1 .. MaxUid, Applied(key, c) \/ Errored(key, c),
         UNCHANGED <<cache, envVars>>
  PROVE  ChildrenOK' /\ BoundsOK'
<1>1. ChildrenOK'
  <2>1. CASE UNCHANGED <<api, behind>>
    BY <2>1 DEF ChildrenOK
  <2>2. CASE Write(key, c)
    BY <2>2, WriteTypes
  <2> QED  BY <2>1, <2>2 DEF Applied, Errored
<1>2. BoundsOK'
  BY BoundsAssumption DEF BoundsOK, Applied, Errored, envVars
<1> QED  BY <1>1, <1>2
-----------------------------------------------------------------------------
(* Type correctness. *)

(* The initial states are well typed. *)
LEMMA InitTypes == Init => TypeOK
<1> SUFFICES ASSUME Init PROVE TypeOK
  OBVIOUS
<1>1. ServicesOK
  BY DEF Init, ServicesOK
<1>2. ChildrenOK
  BY DEF Init, ChildrenOK
<1>3. PassOK
  BY DEF Init, PassOK, Labels
<1>4. BoundsOK
  BY BoundsAssumption DEF Init, BoundsOK
<1> QED  BY <1>1, <1>2, <1>3, <1>4 DEF TypeOK

(* The steps of a pass that only move on, or end it. *)
LEMMA ControlTypes ==
  ASSUME TypeOK,
         IgnoreDeleted \/ FetchService \/ PanicInBuildLWS \/ ListOrphanLWS \/ NextRole
           \/ EndLoop \/ ReadLWSStatus
  PROVE  TypeOK'
<1>1. CASE IgnoreDeleted
  BY <1>1 DEF IgnoreDeleted, TypeOK, ServicesOK, ChildrenOK, PassOK, BoundsOK, passVars, envVars
<1>2. CASE FetchService
  <2>1. IsService(svcCache)
    BY <1>2 DEF FetchService, TypeOK, ServicesOK
  <2>2. IsService(local')
    BY <1>2, <2>1, SetConditionKeeps DEF FetchService, SetInitCondition, ConditionTypes
  <2>3. Len(local'.spec) \in Nat
    BY <2>2, SpecFacts DEF IsService
  <2>4. ServicesOK' /\ ChildrenOK' /\ BoundsOK'
    BY <1>2 DEF FetchService, TypeOK, ServicesOK, ChildrenOK, BoundsOK, envVars
  <2>5. stale' \in BOOLEAN
    <3>1. stale' = (ServiceKey \in behind)
      BY <1>2 DEF FetchService
    <3> QED  BY <3>1
  <2>6. PassOK'
    <3>1. err' = err /\ queued' = FALSE /\ orphans' = orphans
      BY <1>2 DEF FetchService
    <3>2. pc' = "podgroup" /\ ri' = 1 /\ idx' = 0
      BY <1>2 DEF FetchService, Goto
    <3>3. queued' \in BOOLEAN /\ err' \in BOOLEAN
      BY <3>1, Zenon DEF TypeOK, PassOK
    <3> QED  BY <2>2, <2>3, <2>5, <3>1, <3>2, <3>3 DEF TypeOK, PassOK, Labels
  <2> QED  BY <2>4, <2>6 DEF TypeOK
<1>3. CASE PanicInBuildLWS
  BY <1>3 DEF PanicInBuildLWS, EndPass, Goto, TypeOK, ServicesOK, ChildrenOK, PassOK,
              BoundsOK, envVars, Labels
<1>4. CASE ListOrphanLWS \/ NextRole \/ EndLoop \/ ReadLWSStatus
  <2>1. ServicesOK' /\ ChildrenOK' /\ BoundsOK'
    <3>1. UNCHANGED <<svc, svcCache, api, cache, behind, eppImage, uids, crashes, flaps>>
      BY <1>4 DEF ListOrphanLWS, NextRole, EndLoop, ReadLWSStatus, passFrame, envVars
    <3>2. faults' = faults \/ (faults < MaxFaults /\ faults' = faults + 1)
      <4>1. CASE ListOrphanLWS
        BY <4>1 DEF ListOrphanLWS
      <4>2. CASE NextRole
        BY <4>2 DEF NextRole
      <4>3. CASE EndLoop
        BY <4>3 DEF EndLoop
      <4>4. CASE ReadLWSStatus
        BY <4>4 DEF ReadLWSStatus
      <4> QED  BY <1>4, <4>1, <4>2, <4>3, <4>4
    <3>3. faults' \in 0 .. MaxFaults
      BY <3>2, BoundsAssumption DEF TypeOK, BoundsOK
    <3> QED  BY <3>1, <3>3 DEF TypeOK, ServicesOK, ChildrenOK, BoundsOK
  <2>2. pc # "idle"
    BY <1>4 DEF ListOrphanLWS, NextRole, EndLoop, ReadLWSStatus
  <2>3. UNCHANGED <<local, stale, queued>> /\ (err' = err \/ err' = TRUE)
    BY <1>4 DEF ListOrphanLWS, NextRole, EndLoop, ReadLWSStatus, passFrame, Fail
  <2>4. orphans' \subseteq LWSKeys
    BY <1>4 DEF ListOrphanLWS, NextRole, EndLoop, ReadLWSStatus, TypeOK, PassOK
  <2>5. /\ pc' \in Labels \ {"idle"} /\ idx' \in Nat
        /\ ri' \in 1 .. Len(local.spec) + 1
        /\ pc' = "cleanup" => ri' <= Len(local.spec)
    BY <1>4, <2>2, LocalFacts
       DEF ListOrphanLWS, NextRole, EndLoop, ReadLWSStatus, Fail, TypeOK, PassOK, Goto, Labels,
           InLoop
  <2>6. PassOK'
    <3>1. queued' \in BOOLEAN /\ stale' \in BOOLEAN /\ err' \in BOOLEAN
      BY <2>3, Zenon DEF TypeOK, PassOK
    <3> QED  BY <2>2, <2>3, <2>4, <2>5, <3>1 DEF TypeOK, PassOK
  <2> QED  BY <2>1, <2>6 DEF TypeOK
<1> QED  BY <1>1, <1>2, <1>3, <1>4

(* Reconciling one child keeps the pass's types. *)
LEMMA ApplyPassTypes ==
  ASSUME TypeOK, pc # "idle",
         \/ UNCHANGED err /\ pc' \in {"roles", "router"} /\ idx' \in Nat
            /\ ri' \in 1 .. Len(local.spec) + 1
         \/ Fail,
         UNCHANGED <<local, stale, queued, orphans>>
  PROVE  PassOK'
<1>1. Len(local.spec) \in Nat
  BY LocalFacts
<1>2. queued' \in BOOLEAN /\ stale' \in BOOLEAN /\ err' \in BOOLEAN
  BY Zenon DEF TypeOK, PassOK, Fail
<1>3. /\ pc' \in Labels \ {"idle", "cleanup"} /\ idx' \in Nat
      /\ ri' \in 1 .. Len(local.spec) + 1
  BY <1>1 DEF Fail, Goto, Labels
<1>4. IsService(local)' /\ orphans' \subseteq LWSKeys /\ Len(local.spec)' = Len(local.spec)
  BY DEF TypeOK, PassOK
<1> QED  BY <1>2, <1>3, <1>4 DEF PassOK

(* The steps that reconcile one child. *)
LEMMA ApplyTypes ==
  ASSUME TypeOK, ReconcilePodGroup \/ ReconcileLWS \/ ReconcileRouter
  PROVE  TypeOK'
<1>1. pc # "idle"
  BY DEF ReconcilePodGroup, ReconcileLWS, ReconcileRouter
<1>2. ServicesOK'
  BY DEF ReconcilePodGroup, ReconcileLWS, ReconcileRouter, passFrame, envVars, TypeOK,
         ServicesOK
<1>3. ChildrenOK' /\ BoundsOK'
  <2>1. CASE ReconcilePodGroup
    <3>1. CASE UNCHANGED <<api, behind, faults>>
      BY <2>1, <3>1 DEF ReconcilePodGroup, passFrame, envVars, TypeOK, ChildrenOK, BoundsOK
    <3>2. CASE \/ Applied(PodGroupKey, BuildPodGroup(local.spec))
               \/ Errored(PodGroupKey, BuildPodGroup(local.spec))
      BY <1>1, <2>1, <3>2, LocalFacts, PodGroupContent, KeysAreDistinct, AppliedTypes
         DEF ReconcilePodGroup, passFrame, TypeOK
    <3> QED  BY <2>1, <3>1, <3>2 DEF ReconcilePodGroup
  <2>2. CASE ReconcileLWS
    <3>1. ri \in WorkerRoles(local.spec) /\ idx \in ReplicaIndices(local.spec[ri])
      BY <1>1, <2>2, LocalFacts DEF ReconcileLWS, WorkerRoles, role
    <3>2. LWSKey(role.name, idx) \in Keys
      BY <1>1, <3>1, LocalFacts, LWSKeyInKeys, KeysAreDistinct DEF role
    <3>3. BuildLWS(local.spec, role, idx) \in Contents[LWSKey(role.name, idx)]
      BY <1>1, <3>1, LocalFacts, LWSContent DEF role
    <3> QED  BY <1>1, <2>2, <3>2, <3>3, LocalFacts, AppliedTypes
             DEF ReconcileLWS, passFrame, TypeOK
  <2>3. CASE ReconcileRouter
    <3>1. RouterKey(idx) \in Keys
      BY <2>3, KeysAreDistinct DEF ReconcileRouter
    <3>2. BuildRouterObject(RouterKinds[idx], local.spec, role, eppImage)
            \in Contents[RouterKey(idx)]
      BY <1>1, <2>3, LocalFacts, RouterContent DEF ReconcileRouter, role, TypeOK, BoundsOK
    <3> QED  BY <1>1, <2>3, <3>1, <3>2, LocalFacts, AppliedTypes
             DEF ReconcileRouter, passFrame, TypeOK
  <2> QED  BY <2>1, <2>2, <2>3
<1>4. PassOK'
  <2>1. idx \in Nat /\ idx + 1 \in Nat
    BY DEF TypeOK, PassOK
  <2>2. ri \in 1 .. Len(local.spec) + 1 /\ 1 \in 1 .. Len(local.spec) + 1
    BY <1>1, LocalFacts
  <2>3. \/ UNCHANGED err /\ pc' \in {"roles", "router"} /\ idx' \in Nat
           /\ ri' \in 1 .. Len(local.spec) + 1
        \/ Fail
    BY <2>1, <2>2 DEF ReconcilePodGroup, ReconcileLWS, ReconcileRouter, Goto
  <2>4. UNCHANGED <<local, stale, queued, orphans>>
    BY DEF ReconcilePodGroup, ReconcileLWS, ReconcileRouter, passFrame
  <2> QED  BY <1>1, <2>3, <2>4, ApplyPassTypes
<1> QED  BY <1>2, <1>3, <1>4 DEF TypeOK

(* The deletion of one orphan. *)
LEMMA DeleteTypes ==
  ASSUME TypeOK, DeleteOrphanLWS
  PROVE  TypeOK'
<1>1. PICK k \in orphans :
        \/ /\ Deleted(k) /\ UNCHANGED <<err, faults, pc, ri, idx>>
           /\ orphans' = orphans \ {k}
        \/ /\ faults < MaxFaults /\ faults' = faults + 1
           /\ Deleted(k) \/ UNCHANGED <<api, behind>>
           /\ orphans' = {} /\ Fail
  BY DEF DeleteOrphanLWS
<1>2. pc = "cleanup" /\ UNCHANGED <<svc, svcCache, cache, queued, local, stale, envVars>>
  BY DEF DeleteOrphanLWS, passFrame
<1>3. k \in Keys
  BY KeysAreDistinct DEF TypeOK, PassOK
<1>4. ServicesOK'
  BY <1>2 DEF envVars, TypeOK, ServicesOK
<1>5. ChildrenOK'
  BY <1>1, <1>2, <1>3 DEF Deleted, TypeOK, ChildrenOK
<1>6. BoundsOK'
  BY <1>1, <1>2, BoundsAssumption DEF envVars, TypeOK, BoundsOK
<1>7. PassOK'
  <2>1. CASE UNCHANGED <<err, pc, ri, idx>> /\ orphans' = orphans \ {k}
    BY <1>2, <2>1 DEF TypeOK, PassOK
  <2>2. CASE orphans' = {} /\ Fail
    <3>1. err' \in BOOLEAN /\ queued' \in BOOLEAN /\ stale' \in BOOLEAN
      BY <1>2, <2>2, Zenon DEF Fail, TypeOK, PassOK
    <3>2. pc' = "aggregate" /\ ri' = 1 /\ idx' = 0
      BY <2>2 DEF Fail, Goto
    <3>3. Len(local.spec) \in Nat
      BY <1>2, LocalFacts
    <3> QED  BY <1>2, <2>2, <3>1, <3>2, <3>3 DEF TypeOK, PassOK, Labels
  <2> QED  BY <1>1, <2>1, <2>2
<1> QED  BY <1>4, <1>5, <1>6, <1>7 DEF TypeOK

(* The end of a pass. *)
LEMMA EndPassTypes ==
  ASSUME EndPass, queued' \in BOOLEAN
  PROVE  PassOK'
BY DEF EndPass, Goto, PassOK, Labels

(* A copy that is not stale is the API server's object, but for the Init  *)
(* condition the pass has added to its own.                               *)
CopyOK ==
  pc # "idle" /\ ~stale =>
    /\ svc # Nil
    /\ local.spec = svc.spec /\ local.uid = svc.uid /\ local.generation = svc.generation

(* What an accepted status update does to the service. *)
LEMMA StatusWrittenFields ==
  ASSUME TypeOK, CopyOK, pc = "status", StatusWritten
  PROVE  /\ svc # Nil /\ IsService(svc')
         /\ svc'.spec = svc.spec /\ svc'.uid = svc.uid /\ svc'.generation = svc.generation
         /\ svc'.observedGeneration = svc.generation
         /\ svc'.components = FinalService.components
         /\ svc'.conditions = FinalService.conditions
         /\ behind' \in {behind, behind \cup {ServiceKey}}
         /\ svc' # svc => ServiceKey \in behind'
<1>1. svc # Nil /\ IsService(svc) /\ local.generation = svc.generation
  BY DEF CopyOK, StatusWritten, TypeOK, ServicesOK
<1>2. /\ IsService(FinalService) /\ FinalService.generation = svc.generation
      /\ FinalService.observedGeneration = svc.generation
  <2>1. IsService(local) /\ local.spec \in Specs /\ err \in BOOLEAN
    BY LocalFacts DEF TypeOK, PassOK
  <2> QED  BY <1>1, <2>1, FinalServiceFields
<1>3. svc' = [svc EXCEPT !.observedGeneration = FinalService.observedGeneration,
                         !.conditions = FinalService.conditions,
                         !.components = FinalService.components]
  BY DEF StatusWritten
<1>4. /\ behind' \in {behind, behind \cup {ServiceKey}}
      /\ svc' # svc => ServiceKey \in behind'
  BY DEF StatusWritten
<1> QED  BY <1>1, <1>2, <1>3, <1>4, StatusFieldsIsService

(* The status update and the return. *)
LEMMA UpdateStatusTypes ==
  ASSUME TypeOK, CopyOK, UpdateStatus
  PROVE  TypeOK'
<1>1. /\ pc = "status" /\ EndPass /\ UNCHANGED <<api, svcCache, cache, envVars>>
  BY DEF UpdateStatus
<1>2. StatusWritten \/ UNCHANGED <<svc, behind>>
  BY DEF UpdateStatus
<1>3. queued' \in BOOLEAN
  <2>1. queued' = (queued \/ err) \/ queued' = TRUE
    BY DEF UpdateStatus
  <2> QED  BY <2>1, Zenon DEF TypeOK, PassOK
<1>4. PassOK'
  BY <1>1, <1>3, EndPassTypes
<1>5. BoundsOK'
  BY <1>1, BoundsAssumption DEF UpdateStatus, envVars, TypeOK, BoundsOK
<1>6. ServicesOK' /\ ChildrenOK'
  <2>1. CASE StatusWritten
    BY <1>1, <2>1, StatusWrittenFields DEF TypeOK, ServicesOK, ChildrenOK, envVars
  <2>2. CASE UNCHANGED <<svc, behind>>
    BY <1>1, <2>2 DEF TypeOK, ServicesOK, ChildrenOK, envVars
  <2> QED  BY <1>2, <2>1, <2>2
<1> QED  BY <1>4, <1>5, <1>6 DEF TypeOK

(* Everyone else. *)
LEMMA ServiceChangesTypes ==
  ASSUME TypeOK, NEW new, ServiceChanges(new), uids' \in 0 .. MaxUid,
         new # Nil => IsService(new) /\ new.uid = uids'
  PROVE  TypeOK'
<1>1. ServicesOK' /\ ChildrenOK'
  BY DEF ServiceChanges, TypeOK, ServicesOK, ChildrenOK
<1>2. BoundsOK'
  BY DEF ServiceChanges, TypeOK, BoundsOK
<1>3. stale' \in BOOLEAN
  <2>1. stale' = (pc # "idle")
    BY DEF ServiceChanges
  <2> QED  BY <2>1
<1>4. pc = "idle" => ~stale'
  BY DEF ServiceChanges
<1>5. UNCHANGED <<queued, pc, local, err, ri, idx, orphans, running, started, unread>>
  BY DEF ServiceChanges
<1>6. PassOK'
  BY <1>3, <1>4, <1>5 DEF TypeOK, PassOK
<1> QED  BY <1>1, <1>2, <1>6 DEF TypeOK

(* The user's steps. *)
LEMMA UserTypes ==
  ASSUME TypeOK, CreateService \/ EditSpec \/ DeleteService
  PROVE  TypeOK'
<1>1. CASE CreateService
  <2>1. PICK spec \in Specs : ServiceChanges(NewService(uids + 1, spec))
    BY <1>1 DEF CreateService
  <2>2. uids + 1 \in 1 .. MaxUid /\ uids' = uids + 1
    BY <1>1, BoundsAssumption DEF CreateService, TypeOK, BoundsOK
  <2>3. NewService(uids + 1, spec).uid = uids'
    BY <2>2 DEF NewService
  <2>4. uids' \in 0 .. MaxUid
    BY <2>2
  <2> QED  BY <2>1, <2>2, <2>3, <2>4, NewServiceIsService, ServiceChangesTypes
<1>2. CASE EditSpec
  <2>1. PICK spec \in Specs : ServiceChanges([svc EXCEPT !.spec = spec, !.generation = @ + 1])
    BY <1>2 DEF EditSpec
  <2>2. IsService(svc) /\ svc.uid = uids /\ uids' = uids /\ uids \in 0 .. MaxUid
    BY <1>2 DEF EditSpec, TypeOK, ServicesOK, BoundsOK
  <2>3. [svc EXCEPT !.spec = spec, !.generation = @ + 1].uid = uids'
    BY <2>2 DEF IsService
  <2> QED  BY <2>1, <2>2, <2>3, EditIsService, ServiceChangesTypes
<1>3. CASE DeleteService
  BY <1>3, ServiceChangesTypes DEF DeleteService, TypeOK, BoundsOK
<1> QED  BY <1>1, <1>2, <1>3

(* A child written by another actor. *)
LEMMA ChildChangesTypes ==
  ASSUME TypeOK, NEW k \in Keys, NEW new, ChildChanges(k, new), flaps' \in 0 .. MaxFlaps,
         new # Nil => IsObject(k, new)
  PROVE  TypeOK'
<1>1. ServicesOK'
  BY DEF ChildChanges, TypeOK, ServicesOK
<1>2. ChildrenOK'
  BY DEF ChildChanges, TypeOK, ChildrenOK
<1>3. PassOK'
  BY DEF ChildChanges, passVars, TypeOK, PassOK
<1>4. BoundsOK'
  BY DEF ChildChanges, TypeOK, BoundsOK
<1> QED  BY <1>1, <1>2, <1>3, <1>4 DEF TypeOK

(* The LeaderWorkerSet controller leaves content and owner alone. *)
LEMMA LWSChange ==
  ASSUME TypeOK, NEW k \in LWSKeys, LWSProgresses(k) \/ LWSUnready(k) \/ LWSRollsOut(k)
  PROVE  \E o : /\ ChildChanges(k, o) /\ IsObject(k, o)
                /\ o.content = api[k].content /\ o.owner = api[k].owner
<1>1. k \in Keys /\ IsObject(k, api[k])
  BY KeysAreDistinct DEF LWSProgresses, LWSUnready, LWSRollsOut, TypeOK, ChildrenOK
<1>2. PICK st \in Statuses : \/ ChildChanges(k, [api[k] EXCEPT !.status = st])
                            \/ ChildChanges(k, [api[k] EXCEPT !.rolledOut = TRUE,
                                                              !.status = st])
  BY <1>1, StatusesAssumption
     DEF IsObject, Objects, LWSProgresses, LWSUnready, LWSRollsOut, Statuses
<1> DEFINE reported == [api[k] EXCEPT !.status = st]
           rolled   == [api[k] EXCEPT !.rolledOut = TRUE, !.status = st]
<1>3. /\ reported.content = api[k].content /\ reported.owner = api[k].owner
      /\ rolled.content = api[k].content /\ rolled.owner = api[k].owner
  BY <1>1 DEF IsObject, Objects
<1>4. IsObject(k, reported) /\ IsObject(k, rolled)
  BY <1>1, StatusIsObject
<1> HIDE DEF reported, rolled
<1> QED  BY <1>2, <1>3, <1>4 DEF reported, rolled

(* Informers, the LeaderWorkerSet controller, the garbage collector, restarts. *)
LEMMA EnvironmentTypes ==
  ASSUME TypeOK,
         \/ \E k \in Keys \cup {ServiceKey} : Deliver(k)
         \/ \E k \in LWSKeys : LWSProgresses(k) \/ LWSUnready(k) \/ LWSRollsOut(k)
         \/ \E k \in Keys : GarbageCollect(k)
         \/ Restart
  PROVE  TypeOK'
<1>1. ASSUME NEW k \in Keys \cup {ServiceKey}, Deliver(k)
      PROVE  TypeOK'
  <2>1. ServicesOK'
    BY <1>1 DEF Deliver, envVars, TypeOK, ServicesOK
  <2>2. ChildrenOK'
    BY <1>1 DEF Deliver, TypeOK, ChildrenOK
  <2>3. PassOK'
    BY <1>1 DEF Deliver, passVars, TypeOK, PassOK
  <2>4. BoundsOK'
    BY <1>1 DEF Deliver, envVars, TypeOK, BoundsOK
  <2> QED  BY <2>1, <2>2, <2>3, <2>4 DEF TypeOK
<1>2. ASSUME NEW k \in LWSKeys, LWSProgresses(k) \/ LWSUnready(k) \/ LWSRollsOut(k)
      PROVE  TypeOK'
  <2>1. k \in Keys
    BY KeysAreDistinct
  <2>2. PICK o : ChildChanges(k, o) /\ IsObject(k, o)
    BY <1>2, LWSChange
  <2>3. flaps' \in 0 .. MaxFlaps
    <3>1. flaps' = flaps \/ (flaps < MaxFlaps /\ flaps' = flaps + 1)
      BY <1>2, Zenon DEF LWSProgresses, LWSUnready, LWSRollsOut
    <3> QED  BY <3>1, BoundsAssumption DEF TypeOK, BoundsOK
  <2> QED  BY <2>1, <2>2, <2>3, ChildChangesTypes
<1>3. ASSUME NEW k \in Keys, GarbageCollect(k)
      PROVE  TypeOK'
  BY <1>3, ChildChangesTypes DEF GarbageCollect, TypeOK, BoundsOK
<1>4. CASE Restart
  <2>1. ServicesOK'
    BY <1>4 DEF Restart, TypeOK, ServicesOK
  <2>2. ChildrenOK'
    BY <1>4 DEF Restart, TypeOK, ChildrenOK
  <2>3. PassOK'
    <3>1. EndPass /\ queued' = TRUE
      BY <1>4 DEF Restart
    <3> QED  BY <3>1, EndPassTypes
  <2>4. BoundsOK'
    BY <1>4, BoundsAssumption DEF Restart, TypeOK, BoundsOK
  <2> QED  BY <2>1, <2>2, <2>3, <2>4 DEF TypeOK
<1> QED  BY <1>1, <1>2, <1>3, <1>4
-----------------------------------------------------------------------------
(* The inductive invariant.  A pass for which no other is due has seen the *)
(* API server's state and changed none of it, so whatever it has gone past *)
(* is as the spec wants it.                                                *)

(* An informer that is not behind has the API server's version. *)
CacheOK ==
  /\ \A k \in Keys \ behind : cache[k] = api[k]
  /\ ServiceKey \notin behind => svcCache = svc

(* A pass with an old copy of the service is followed by another. *)
StaleOK == stale => queued \/ ServiceKey \in behind

(* Another pass is due, or an event that will cause one is on its way. *)
Again == queued \/ err \/ behind # {}

ReplicasHold(k, n) ==
  \A j \in ReplicaIndices(local.spec[k]) :
    j < n => Holds(LWSKey(local.spec[k].name, j), BuildLWS(local.spec, local.spec[k], j))

Surplus(k) ==
  {key \in LWSKeys : /\ key[2] = local.spec[k].name
                     /\ key[3] \notin ReplicaIndices(local.spec[k])
                     /\ api[key] # Nil}

RouterHolds(k, m) ==
  \A n \in DOMAIN RouterKinds :
    n < m => Holds(RouterKey(n),
                   BuildRouterObject(RouterKinds[n], local.spec, local.spec[k], eppImage))

(* The part of the children each loop has gone past is converged. *)
PodGroupDone == pc = "podgroup" \/ PodGroupConverged(local.spec)

RoleDone(k) ==
  \/ pc = "podgroup"
  \/ pc \in {"roles", "cleanup"} /\ k > ri
  \/ pc = "roles" /\ k = ri /\ ReplicasHold(k, idx)
  \/ /\ pc = "cleanup" /\ k = ri
     /\ ReplicasHold(k, GetReplicaCount(local.spec[k]))
     /\ Surplus(k) \subseteq orphans
  \/ LWSConverged(local.spec, k)

RouterDone(k) ==
  \/ pc \in {"podgroup", "roles", "cleanup"}
  \/ pc = "router" /\ k > ri
  \/ pc = "router" /\ k = ri /\ RouterHolds(k, idx)
  \/ RouterConverged(local.spec, k)

(* The replicas whose LeaderWorkerSet the pass has read. *)
ReadOf(k) ==
  {j \in ReplicaIndices(local.spec[k]) :
     \/ pc = "status"
     \/ pc = "aggregate" /\ k < ri
     \/ pc = "aggregate" /\ k = ri /\ j < idx}

ReadSoFar ==
  UNION {{<<local.spec[k].name, j>> : j \in ReadOf(k)} : k \in WorkerRoles(local.spec)}

ReadsDone ==
  /\ running = ReplicasWith(ReadSoFar \ unread, {"Ready"})
  /\ started = ReplicasWith(ReadSoFar \ unread, {"Started", "Ready"})

PassDone ==
  /\ PodGroupDone
  /\ \A k \in WorkerRoles(local.spec) : RoleDone(k)
  /\ \A k \in DOMAIN local.spec \ WorkerRoles(local.spec) : RouterDone(k)
  /\ ReadsDone

StatusTrue ==
  /\ svc.observedGeneration = svc.generation
  /\ svc.components =
       Components(svc.spec, ReplicasWith(Replicas(svc.spec) \ unread, {"Ready"}),
                            ReplicasWith(Replicas(svc.spec) \ unread, {"Started", "Ready"}))
  /\ svc.conditions.Active =
       IF CheckAllComponentsReady(svc.components) THEN "True" ELSE "False"

IdleDone == svc # Nil => Converged(svc.spec) /\ StatusTrue

Done == ~Again => IF pc = "idle" THEN IdleDone ELSE PassDone

IInv == TypeOK /\ CacheOK /\ CopyOK /\ StaleOK /\ Done
-----------------------------------------------------------------------------
(* Every step keeps the types, given what a fresh copy of the service is. *)
LEMMA NextTypes ==
  ASSUME TypeOK, CopyOK, [Next]_vars
  PROVE  TypeOK'
<1>1. CASE Reconcile
  BY <1>1, ControlTypes, ApplyTypes, DeleteTypes, UpdateStatusTypes DEF Reconcile
<1>2. CASE CreateService \/ EditSpec \/ DeleteService
  BY <1>2, UserTypes
<1>3. CASE \/ \E k \in Keys \cup {ServiceKey} : Deliver(k)
           \/ \E k \in LWSKeys : LWSProgresses(k) \/ LWSUnready(k) \/ LWSRollsOut(k)
           \/ \E k \in Keys : GarbageCollect(k)
           \/ Restart
  BY <1>3, EnvironmentTypes
<1>4. CASE UNCHANGED vars
  BY <1>4 DEF vars, passVars, envVars, TypeOK, ServicesOK, ChildrenOK, PassOK, BoundsOK
<1> QED  BY <1>1, <1>2, <1>3, <1>4 DEF Next

(* How a step of the pass changes the API server's children: not at all, or *)
(* at one key that the informers are behind of from then on.                *)
ChildWritten ==
  \/ UNCHANGED <<api, behind>>
  \/ \E k \in Keys : /\ behind' = behind \cup {k}
                     /\ \A m \in Keys \ {k} : api'[m] = api[m]

(* Reconciling one child writes at most that child. *)
LEMMA AppliedWrites ==
  ASSUME ChildrenOK, NEW key \in Keys, NEW c, Applied(key, c) \/ Errored(key, c)
  PROVE  ChildWritten
<1>1. CASE UNCHANGED <<api, behind>>
  BY <1>1 DEF ChildWritten
<1>2. CASE Write(key, c)
  <2>1. behind' = behind \cup {key}
    BY <1>2 DEF Write
  <2>2. \A m \in Keys \ {key} : api'[m] = api[m]
    BY <1>2 DEF Write, ChildrenOK
  <2> QED  BY <2>1, <2>2 DEF ChildWritten
<1> QED  BY <1>1, <1>2 DEF Applied, Errored

(* A Delete changes at most its object, and the informers learn of a change. *)
LEMMA DeletedWrites ==
  ASSUME ChildrenOK, NEW k \in Keys, Deleted(k)
  PROVE  ChildWritten /\ (behind' = {} => UNCHANGED <<api, behind>>)
<1>1. CASE api[k] = Nil
  BY <1>1 DEF Deleted, ChildWritten, ChildrenOK
<1>2. CASE api[k] # Nil
  BY <1>2 DEF Deleted, ChildWritten, ChildrenOK
<1> QED  BY <1>1, <1>2

PassWrites ==
  ReconcilePodGroup \/ ReconcileLWS \/ ReconcileRouter \/ DeleteOrphanLWS
    \/ ListOrphanLWS \/ NextRole \/ EndLoop \/ ReadLWSStatus

(* The steps within a pass. *)
LEMMA PassWritesChild ==
  ASSUME TypeOK, PassWrites
  PROVE  /\ ChildWritten /\ pc # "idle" /\ pc' # "idle"
         /\ UNCHANGED <<svc, svcCache, cache, queued, local, stale, eppImage>>
<1>1. pc # "idle" /\ UNCHANGED <<svc, svcCache, cache, queued, local, stale, eppImage>>
  BY DEF PassWrites, ReconcilePodGroup, ReconcileLWS, ReconcileRouter, DeleteOrphanLWS,
         ListOrphanLWS, NextRole, EndLoop, ReadLWSStatus, passFrame, envVars
<1>2. pc' # "idle"
  BY DEF PassWrites, ReconcilePodGroup, ReconcileLWS, ReconcileRouter, DeleteOrphanLWS,
         ListOrphanLWS, NextRole, EndLoop, ReadLWSStatus, Goto, Fail
<1>3. ChildWritten
  <2>1. CASE ReconcilePodGroup
    <3>1. CASE UNCHANGED <<api, behind>>
      BY <3>1 DEF ChildWritten
    <3>2. CASE \/ Applied(PodGroupKey, BuildPodGroup(local.spec))
               \/ Errored(PodGroupKey, BuildPodGroup(local.spec))
      BY <3>2, KeysAreDistinct, AppliedWrites DEF TypeOK
    <3> QED  BY <2>1, <3>1, <3>2 DEF ReconcilePodGroup
  <2>2. CASE ReconcileLWS
    <3>1. ri \in WorkerRoles(local.spec) /\ idx \in ReplicaIndices(local.spec[ri])
      BY <1>1, <2>2, LocalFacts DEF ReconcileLWS, WorkerRoles, role
    <3>2. LWSKey(role.name, idx) \in Keys
      BY <1>1, <3>1, LocalFacts, LWSKeyInKeys, KeysAreDistinct DEF role
    <3> QED  BY <2>2, <3>2, AppliedWrites DEF ReconcileLWS, TypeOK
  <2>3. CASE ReconcileRouter
    BY <2>3, KeysAreDistinct, AppliedWrites DEF ReconcileRouter, TypeOK
  <2>4. CASE DeleteOrphanLWS
    <3>1. PICK k \in orphans : Deleted(k) \/ UNCHANGED <<api, behind>>
      BY <2>4 DEF DeleteOrphanLWS
    <3>2. k \in Keys
      BY KeysAreDistinct DEF TypeOK, PassOK
    <3> QED  BY <3>1, <3>2, DeletedWrites DEF TypeOK, ChildWritten
  <2>5. CASE ListOrphanLWS \/ NextRole \/ EndLoop \/ ReadLWSStatus
    BY <2>5 DEF ListOrphanLWS, NextRole, EndLoop, ReadLWSStatus, ChildWritten
  <2> QED  BY <2>1, <2>2, <2>3, <2>4, <2>5 DEF PassWrites
<1> QED  BY <1>1, <1>2, <1>3

(* The steps that begin and end a pass write no children; only the status  *)
(* update writes the service, and the informer is behind of what it wrote. *)
LEMMA PassEnds ==
  ASSUME TypeOK, CopyOK, IgnoreDeleted \/ FetchService \/ PanicInBuildLWS \/ UpdateStatus
  PROVE  /\ UNCHANGED <<api, cache, svcCache, eppImage>>
         /\ behind' \in {behind, behind \cup {ServiceKey}}
         /\ svc' # svc => ServiceKey \in behind'
         /\ IgnoreDeleted \/ PanicInBuildLWS \/ UpdateStatus => pc' = "idle" /\ stale' = FALSE
<1>1. CASE IgnoreDeleted
  BY <1>1 DEF IgnoreDeleted, passVars, envVars, TypeOK, PassOK
<1>2. CASE FetchService
  BY <1>2 DEF FetchService, envVars, IgnoreDeleted, PanicInBuildLWS, UpdateStatus
<1>3. CASE PanicInBuildLWS
  BY <1>3 DEF PanicInBuildLWS, EndPass, Goto, envVars
<1>4. CASE UpdateStatus
  <2>1. /\ pc = "status" /\ UNCHANGED <<api, cache, svcCache, eppImage>>
        /\ pc' = "idle" /\ stale' = FALSE
    BY <1>4 DEF UpdateStatus, EndPass, Goto, envVars
  <2>2. StatusWritten \/ UNCHANGED <<svc, behind>>
    BY <1>4 DEF UpdateStatus
  <2> QED  BY <2>1, <2>2, StatusWrittenFields
<1> QED  BY <1>1, <1>2, <1>3, <1>4

(* Informers that are not behind stay exact: every write marks its key. *)
LEMMA NextCache ==
  ASSUME TypeOK, CacheOK, CopyOK, [Next]_vars
  PROVE  CacheOK'
<1>1. CASE PassWrites
  <2>1. ChildWritten /\ UNCHANGED <<svc, svcCache, cache>>
    BY <1>1, PassWritesChild
  <2> QED  BY <2>1, KeysAreDistinct DEF ChildWritten, CacheOK
<1>2. CASE IgnoreDeleted \/ FetchService \/ PanicInBuildLWS \/ UpdateStatus
  BY <1>2, PassEnds, KeysAreDistinct DEF CacheOK
<1>3. CASE CreateService \/ EditSpec \/ DeleteService
  <2>1. UNCHANGED <<api, cache>> /\ behind' = behind \cup {ServiceKey}
    BY <1>3 DEF CreateService, EditSpec, DeleteService, ServiceChanges
  <2> QED  BY <2>1 DEF CacheOK
<1>4. ASSUME NEW k \in Keys \cup {ServiceKey}, Deliver(k)
      PROVE  CacheOK'
  <2>1. CASE k = ServiceKey
    BY <1>4, <2>1, KeysAreDistinct DEF Deliver, CacheOK
  <2>2. CASE k # ServiceKey
    BY <1>4, <2>2 DEF Deliver, CacheOK, TypeOK, ChildrenOK
  <2> QED  BY <2>1, <2>2
<1>5. ASSUME NEW k \in Keys,
             LWSProgresses(k) \/ LWSUnready(k) \/ LWSRollsOut(k) \/ GarbageCollect(k)
      PROVE  CacheOK'
  <2>1. PICK new : ChildChanges(k, new)
    BY <1>5 DEF LWSProgresses, LWSUnready, LWSRollsOut, GarbageCollect
  <2> QED  BY <2>1, KeysAreDistinct DEF ChildChanges, CacheOK, TypeOK, ChildrenOK
<1>6. CASE Restart
  BY <1>6 DEF Restart, CacheOK
<1>7. CASE UNCHANGED vars
  BY <1>7 DEF vars, CacheOK
<1> QED  BY <1>1, <1>2, <1>3, <1>4, <1>5, <1>6, <1>7, KeysAreDistinct
         DEF Next, Reconcile, PassWrites

(* A copy that is not stale stays the API server's version. *)
LEMMA NextCopy ==
  ASSUME TypeOK, CacheOK, CopyOK, [Next]_vars
  PROVE  CopyOK'
<1>1. CASE PassWrites
  BY <1>1, PassWritesChild DEF CopyOK
<1>2. CASE FetchService
  <2>1. /\ svcCache # Nil /\ stale' = (ServiceKey \in behind) /\ svc' = svc
        /\ local' = IF svcCache.conditions = NoConditions THEN SetInitCondition(svcCache)
                                                          ELSE svcCache
    BY <1>2 DEF FetchService
  <2>2. IsService(svcCache)
    BY <2>1 DEF TypeOK, ServicesOK
  <2>3. /\ local'.spec = svcCache.spec /\ local'.uid = svcCache.uid
        /\ local'.generation = svcCache.generation
    BY <2>1, <2>2, SetConditionKeeps DEF SetInitCondition, ConditionTypes
  <2>4. ~stale' => svcCache = svc
    BY <2>1 DEF CacheOK
  <2> QED  BY <2>1, <2>3, <2>4 DEF CopyOK
<1>3. CASE IgnoreDeleted \/ PanicInBuildLWS \/ UpdateStatus
  BY <1>3, PassEnds DEF CopyOK
<1>4. CASE CreateService \/ EditSpec \/ DeleteService
  <2>1. stale' = (pc # "idle") /\ pc' = pc
    BY <1>4 DEF CreateService, EditSpec, DeleteService, ServiceChanges
  <2> QED  BY <2>1 DEF CopyOK
<1>5. CASE \/ \E k \in Keys \cup {ServiceKey} : Deliver(k)
           \/ \E k \in LWSKeys : LWSProgresses(k) \/ LWSUnready(k) \/ LWSRollsOut(k)
           \/ \E k \in Keys : GarbageCollect(k)
           \/ UNCHANGED vars
  BY <1>5 DEF Deliver, LWSProgresses, LWSUnready, LWSRollsOut, GarbageCollect, ChildChanges, vars,
              passVars, CopyOK
<1>6. CASE Restart
  BY <1>6 DEF Restart, EndPass, Goto, CopyOK
<1> QED  BY <1>1, <1>2, <1>3, <1>4, <1>5, <1>6 DEF Next, Reconcile, PassWrites

(* A pass with a stale copy stays followed by another. *)
LEMMA NextStale ==
  ASSUME TypeOK, CopyOK, StaleOK, [Next]_vars
  PROVE  StaleOK'
<1>1. CASE PassWrites
  <2>1. ChildWritten /\ UNCHANGED <<queued, stale>>
    BY <1>1, PassWritesChild
  <2> QED  BY <2>1 DEF ChildWritten, StaleOK
<1>2. CASE FetchService
  BY <1>2 DEF FetchService, StaleOK
<1>3. CASE IgnoreDeleted \/ PanicInBuildLWS \/ UpdateStatus
  BY <1>3, PassEnds DEF StaleOK
<1>4. CASE CreateService \/ EditSpec \/ DeleteService
  BY <1>4 DEF CreateService, EditSpec, DeleteService, ServiceChanges, StaleOK
<1>5. CASE \/ \E k \in Keys \cup {ServiceKey} : Deliver(k)
           \/ \E k \in LWSKeys : LWSProgresses(k) \/ LWSUnready(k) \/ LWSRollsOut(k)
           \/ \E k \in Keys : GarbageCollect(k)
           \/ UNCHANGED vars
  BY <1>5 DEF Deliver, LWSProgresses, LWSUnready, LWSRollsOut, GarbageCollect, ChildChanges, vars,
              passVars, StaleOK
<1>6. CASE Restart
  BY <1>6 DEF Restart, StaleOK
<1> QED  BY <1>1, <1>2, <1>3, <1>4, <1>5, <1>6 DEF Next, Reconcile, PassWrites

(* Types are correct in every reachable state, whatever the specs and bounds. *)
THEOREM TypesAreCorrect == Spec => []TypeOK
<1> DEFINE Inv == TypeOK /\ CacheOK /\ CopyOK
<1>1. Init => Inv
  BY InitTypes DEF Init, CacheOK, CopyOK
<1>2. Inv /\ [Next]_vars => Inv'
  BY NextTypes, NextCache, NextCopy
<1>3. Inv => TypeOK
  OBVIOUS
<1> QED  BY <1>1, <1>2, <1>3, PTL DEF Spec
-----------------------------------------------------------------------------
(* Convergence. *)

(* A child reconciled without an error and without a write already has the *)
(* content: the informers are up to date, the labels are equal, and equal  *)
(* labels mean equal contents.                                             *)
LEMMA AppliedHolds ==
  ASSUME TypeOK, CacheOK, NEW key \in Keys, NEW c \in Contents[key], Applied(key, c),
         behind' = {}
  PROVE  /\ UNCHANGED <<api, behind>> /\ behind = {}
         /\ Holds(key, c)
<1>1. UpToDate(key, c) /\ UNCHANGED <<api, behind>>
  BY DEF Applied, Write
<1>2. behind = {} /\ cache[key] = api[key]
  BY <1>1 DEF CacheOK
<1>3. api[key] # Nil /\ IsObject(key, api[key])
  BY <1>1, <1>2 DEF UpToDate, TypeOK, ChildrenOK
<1>4. api[key].content \in Contents[key] /\ api[key].hash = Hash(api[key].content)
  BY <1>3 DEF IsObject, Objects
<1>5. CASE key = RouterKey(1)
  BY <1>1, <1>2, <1>3, <1>4, <1>5, ServiceAccountContent DEF Holds
<1>6. CASE api[key].hash = Hash(c)
  BY <1>1, <1>2, <1>3, <1>4, <1>6, HashAssumption DEF Holds
<1> QED  BY <1>1, <1>2, <1>3, <1>5, <1>6 DEF UpToDate

(* What every step within a pass has in common when no other pass is due   *)
(* after it: none was due before, and it has written nothing.              *)
LEMMA QuietStep ==
  ASSUME TypeOK, PassWrites, ~Again'
  PROVE  ~Again /\ UNCHANGED <<api, behind>> /\ ~Fail
<1>1. ~queued' /\ ~err' /\ behind' = {}
  BY DEF Again
<1>2. ~queued
  BY <1>1, PassWritesChild
<1>3. ChildWritten /\ UNCHANGED <<api, behind>> /\ behind = {}
  BY <1>1, PassWritesChild DEF ChildWritten
<1>4. ~Fail
  BY <1>1 DEF Fail
<1>5. ~err
  BY <1>1, <1>4 DEF PassWrites, ReconcilePodGroup, ReconcileLWS, ReconcileRouter,
     DeleteOrphanLWS, ListOrphanLWS, NextRole, EndLoop, ReadLWSStatus
<1> QED  BY <1>2, <1>3, <1>4, <1>5 DEF Again

(* Operators that depend on the children, the pass's copy and the image. *)
Kept == UNCHANGED <<api, local, eppImage>>

(* They keep their values in a step that keeps those three. *)
LEMMA KeptHolds ==
  ASSUME Kept
  PROVE  /\ \A k, c : Holds(k, c)' <=> Holds(k, c)
         /\ PodGroupConverged(local.spec)' <=> PodGroupConverged(local.spec)
         /\ \A k : LWSConverged(local.spec, k)' <=> LWSConverged(local.spec, k)
         /\ \A k : RouterConverged(local.spec, k)' <=> RouterConverged(local.spec, k)
         /\ \A k, n : ReplicasHold(k, n)' <=> ReplicasHold(k, n)
         /\ \A k, n : RouterHolds(k, n)' <=> RouterHolds(k, n)
         /\ \A k : Surplus(k)' = Surplus(k)
         /\ \A r, s : ReplicasWith(r, s)' = ReplicasWith(r, s)
BY DEF Kept, Holds, PodGroupConverged, LWSConverged, RouterConverged, ReplicasHold,
       RouterHolds, Surplus, ReplicasWith

(* The invariant, applied to a step within a pass that writes nothing. *)
LEMMA QuietPass ==
  ASSUME IInv, PassWrites, ~Again'
  PROVE  /\ PassDone /\ Kept /\ ~Fail /\ behind' = {}
         /\ \A k \in Keys : cache[k] = api[k]
<1>1. ~Again /\ UNCHANGED <<api, behind>> /\ ~Fail
  BY QuietStep DEF IInv
<1>2. behind = {}
  BY <1>1 DEF Again
<1>3. pc # "idle" /\ Kept
  BY <1>1, PassWritesChild DEF IInv, Kept
<1> QED  BY <1>1, <1>2, <1>3 DEF IInv, Done, CacheOK

(* The PodGroup is done once the pass is past it. *)
LEMMA PodGroupKept ==
  ASSUME IInv, PassWrites, ~Again'
  PROVE  PodGroupDone'
<1>1. PodGroupDone /\ Kept /\ ~Fail /\ behind' = {}
  BY QuietPass DEF PassDone
<1>2. CASE pc = "podgroup"
  <2>1. ReconcilePodGroup
    BY <1>2 DEF PassWrites, ReconcileLWS, ReconcileRouter, DeleteOrphanLWS, ListOrphanLWS,
                NextRole, EndLoop, ReadLWSStatus
  <2>2. local.spec \in Specs
    BY <1>2, LocalFacts DEF IInv
  <2>3. CASE NeedsGangScheduling(local.spec)
    <3>1. Applied(PodGroupKey, BuildPodGroup(local.spec))
      BY <1>1, <2>1, <2>3 DEF ReconcilePodGroup
    <3>2. Holds(PodGroupKey, BuildPodGroup(local.spec))
      BY <1>1, <2>2, <3>1, PodGroupContent, KeysAreDistinct, AppliedHolds DEF IInv
    <3> QED  BY <1>1, <3>2, KeptHolds DEF PodGroupDone, PodGroupConverged
  <2>4. CASE ~NeedsGangScheduling(local.spec)
    BY <1>1, <2>4, KeptHolds DEF PodGroupDone, PodGroupConverged
  <2> QED  BY <2>3, <2>4
<1>3. CASE pc # "podgroup"
  BY <1>1, <1>3, KeptHolds DEF PodGroupDone
<1> QED  BY <1>2, <1>3

(* A role's LeaderWorkerSets: the loop over the replicas, the cleanup. *)
LEMMA RolesKept ==
  ASSUME IInv, PassWrites, ~Again', NEW k \in WorkerRoles(local.spec)
  PROVE  RoleDone(k)'
<1>1. /\ RoleDone(k) /\ Kept /\ ~Fail /\ behind' = {} /\ TypeOK /\ CacheOK
      /\ \A key \in Keys : cache[key] = api[key]
  BY QuietPass DEF PassDone, IInv
<1>2. /\ pc # "idle" /\ local.spec \in Specs /\ k \in 1 .. Len(local.spec)
      /\ Len(local.spec) \in Nat /\ ri \in Nat \ {0} /\ idx \in Nat
      /\ GetReplicaCount(local.spec[k]) \in Int
      /\ ~IsRouter(local.spec[k])
  BY <1>1, PassWritesChild, LocalFacts, SpecFacts DEF WorkerRoles, TypeOK, PassOK
<1>3. /\ LWSConverged(local.spec, k)' <=> LWSConverged(local.spec, k)
      /\ \A n : ReplicasHold(k, n)' <=> ReplicasHold(k, n)
      /\ Surplus(k)' = Surplus(k)
      /\ local' = local
  BY <1>1, KeptHolds DEF Kept
<1>4. CASE ReconcilePodGroup
  <2>1. pc' = "roles" /\ ri' = 1 /\ idx' = 0
    BY <1>1, <1>4 DEF ReconcilePodGroup, Goto
  <2>2. ReplicasHold(k, 0)
    BY <1>2 DEF ReplicasHold, ReplicaIndices
  <2> QED  BY <1>2, <1>3, <2>1, <2>2 DEF RoleDone
<1>5. CASE ReconcileLWS
  <2>1. /\ pc = "roles" /\ pc' = "roles" /\ ri' = ri /\ idx' = idx + 1
        /\ ri \in WorkerRoles(local.spec) /\ idx \in ReplicaIndices(local.spec[ri])
    BY <1>1, <1>2, <1>5, LocalFacts DEF ReconcileLWS, Goto, WorkerRoles, role
  <2>2. CASE k = ri /\ ReplicasHold(k, idx)
    <3>1. LWSKey(role.name, idx) \in Keys
      BY <1>2, <2>1, LWSKeyInKeys, KeysAreDistinct DEF role
    <3>2. BuildLWS(local.spec, role, idx) \in Contents[LWSKey(role.name, idx)]
      BY <1>2, <2>1, LWSContent DEF role
    <3>3. Holds(LWSKey(role.name, idx), BuildLWS(local.spec, role, idx))
      BY <1>1, <1>5, <3>1, <3>2, AppliedHolds DEF ReconcileLWS
    <3>4. \A j \in ReplicaIndices(local.spec[k]) : j < idx + 1 => j < idx \/ j = idx
      BY <1>2 DEF ReplicaIndices
    <3>5. ReplicasHold(k, idx + 1)
      BY <2>2, <3>3, <3>4 DEF ReplicasHold, role
    <3> QED  BY <1>3, <2>1, <2>2, <3>5 DEF RoleDone
  <2> QED  BY <1>1, <1>3, <2>1, <2>2 DEF RoleDone
<1>6. CASE ListOrphanLWS
  <2>1. /\ pc = "roles" /\ pc' = "cleanup" /\ ri' = ri /\ idx' = idx
    BY <1>1, <1>6 DEF ListOrphanLWS, Goto
  <2>2. CASE k = ri /\ ReplicasHold(k, idx)
    <3>1. idx \notin ReplicaIndices(local.spec[k])
      BY <1>6, <2>2 DEF ListOrphanLWS, role
    <3>2. idx >= GetReplicaCount(local.spec[k])
      BY <1>2, <3>1 DEF ReplicaIndices
    <3>3. ReplicasHold(k, GetReplicaCount(local.spec[k]))
      BY <1>2, <2>2, <3>2 DEF ReplicasHold, ReplicaIndices
    <3>4. Surplus(k) \subseteq orphans'
      BY <1>1, <1>6, <2>2, KeysAreDistinct DEF ListOrphanLWS, Surplus, role
    <3> QED  BY <1>3, <2>1, <2>2, <3>3, <3>4 DEF RoleDone
  <2> QED  BY <1>1, <1>3, <2>1, <2>2 DEF RoleDone
<1>7. CASE DeleteOrphanLWS
  <2>1. PICK d \in orphans : Deleted(d) /\ UNCHANGED <<pc, ri, idx>> /\ orphans' = orphans \ {d}
    BY <1>1, <1>7 DEF DeleteOrphanLWS
  <2>2. d \in Keys
    BY <1>1, KeysAreDistinct DEF TypeOK, PassOK
  <2>3. d \notin Surplus(k)
    BY <1>1, <2>1, <2>2 DEF Deleted, Kept, Surplus, TypeOK, ChildrenOK
  <2>4. Surplus(k) \subseteq orphans => Surplus(k) \subseteq orphans'
    BY <2>1, <2>3
  <2> QED  BY <1>1, <1>3, <2>1, <2>4 DEF RoleDone
<1>8. CASE NextRole
  <2>1. CASE pc = "cleanup" /\ k = ri
    <3>1. orphans = {} /\ pc' = "roles" /\ ri' = ri + 1
      BY <1>8, <2>1 DEF NextRole, Goto
    <3>2. \/ LWSConverged(local.spec, k)
          \/ ReplicasHold(k, GetReplicaCount(local.spec[k])) /\ Surplus(k) = {}
      BY <1>1, <1>2, <2>1, <3>1 DEF RoleDone
    <3>3. LWSConverged(local.spec, k)
      BY <1>2, <3>2 DEF LWSConverged, ReplicasHold, Surplus, ReplicaIndices
    <3> QED  BY <1>3, <3>3 DEF RoleDone
  <2>2. CASE pc = "roles" /\ k = ri
    BY <1>2, <1>8, <2>2 DEF NextRole, role
  <2>3. CASE pc \in {"roles", "cleanup"} /\ k # ri
    <3>1. pc' = "roles" /\ ri' = ri + 1 /\ idx' = 0
      BY <1>8, <2>3 DEF NextRole, Goto
    <3>2. k > ri => k > ri + 1 \/ k = ri + 1
      BY <1>2
    <3>3. ReplicasHold(k, 0)
      BY <1>2 DEF ReplicasHold, ReplicaIndices
    <3> QED  BY <1>1, <1>3, <2>3, <3>1, <3>2, <3>3 DEF RoleDone
  <2>4. CASE pc \notin {"roles", "cleanup"}
    BY <1>1, <1>3, <1>8, <2>4 DEF NextRole, RoleDone
  <2> QED  BY <2>1, <2>2, <2>3, <2>4
<1>9. CASE EndLoop
  <2>1. pc # "podgroup" /\ pc # "cleanup" /\ ri > Len(local.spec)
    BY <1>2, <1>9 DEF EndLoop, InLoop
  <2>2. LWSConverged(local.spec, k)
    BY <1>1, <1>2, <2>1 DEF RoleDone
  <2> QED  BY <1>3, <2>2 DEF RoleDone
<1>10. CASE ReconcileRouter \/ ReadLWSStatus
  <2>1. pc \in {"router", "aggregate"}
    BY <1>10 DEF ReconcileRouter, ReadLWSStatus
  <2> QED  BY <1>1, <1>3, <2>1 DEF RoleDone
<1> QED  BY <1>4, <1>5, <1>6, <1>7, <1>8, <1>9, <1>10 DEF PassWrites

(* The eight objects of a router role. *)
LEMMA RoutersKept ==
  ASSUME IInv, PassWrites, ~Again', NEW k \in DOMAIN local.spec \ WorkerRoles(local.spec)
  PROVE  RouterDone(k)'
<1>1. RouterDone(k) /\ Kept /\ ~Fail /\ behind' = {} /\ TypeOK /\ CacheOK
  BY QuietPass DEF PassDone, IInv
<1>2. /\ pc # "idle" /\ local.spec \in Specs /\ k \in 1 .. Len(local.spec)
      /\ Len(local.spec) \in Nat /\ ri \in Nat \ {0} /\ idx \in Nat
      /\ IsRouter(local.spec[k])
  BY <1>1, PassWritesChild, LocalFacts DEF WorkerRoles, TypeOK, PassOK
<1>3. /\ RouterConverged(local.spec, k)' <=> RouterConverged(local.spec, k)
      /\ \A n : RouterHolds(k, n)' <=> RouterHolds(k, n)
      /\ local' = local
  BY <1>1, KeptHolds DEF Kept
<1>4. RouterHolds(k, 1)
  BY RouterKindsDomain DEF RouterHolds
<1>5. CASE ReconcilePodGroup \/ ReconcileLWS \/ ListOrphanLWS \/ DeleteOrphanLWS
  <2>1. pc' \in {"podgroup", "roles", "cleanup"}
    BY <1>1, <1>5
       DEF ReconcilePodGroup, ReconcileLWS, ListOrphanLWS, DeleteOrphanLWS, Goto
  <2> QED  BY <2>1 DEF RouterDone
<1>6. CASE ReconcileRouter
  <2>1. /\ pc = "router" /\ pc' = "router" /\ ri' = ri /\ idx' = idx + 1
        /\ idx \in DOMAIN RouterKinds
    BY <1>1, <1>6 DEF ReconcileRouter, Goto
  <2>2. CASE k = ri /\ RouterHolds(k, idx)
    <3>1. eppImage \in EPPImages
      BY <1>1 DEF TypeOK, BoundsOK
    <3>2. BuildRouterObject(RouterKinds[idx], local.spec, role, eppImage)
            \in Contents[RouterKey(idx)]
      BY <1>2, <2>1, <2>2, <3>1, RouterContent, LocalFacts DEF role, IInv
    <3>3. Holds(RouterKey(idx), BuildRouterObject(RouterKinds[idx], local.spec, role, eppImage))
      BY <1>1, <1>6, <2>1, <3>2, KeysAreDistinct, AppliedHolds DEF ReconcileRouter
    <3>4. \A n \in DOMAIN RouterKinds : n < idx + 1 => n < idx \/ n = idx
      BY <1>2, RouterKindsDomain
    <3>5. RouterHolds(k, idx + 1)
      BY <2>2, <3>3, <3>4 DEF RouterHolds, role
    <3> QED  BY <1>3, <2>1, <2>2, <3>5 DEF RouterDone
  <2> QED  BY <1>1, <1>3, <2>1, <2>2 DEF RouterDone
<1>7. CASE NextRole
  <2>1. CASE pc = "router" /\ k = ri
    <3>1. idx > Len(RouterKinds)
      BY <1>2, <1>7, <2>1 DEF NextRole, role
    <3>2. \A n \in DOMAIN RouterKinds : n < idx
      BY <1>2, <3>1, RouterKindsDomain
    <3>3. RouterConverged(local.spec, k)
      BY <1>1, <1>2, <2>1, <3>2 DEF RouterDone, RouterHolds, RouterConverged
    <3> QED  BY <1>3, <3>3 DEF RouterDone
  <2>2. CASE pc = "router" /\ k # ri
    <3>1. pc' = "router" /\ ri' = ri + 1 /\ idx' = 1
      BY <1>7, <2>2 DEF NextRole, Goto
    <3>2. k > ri => k > ri + 1 \/ k = ri + 1
      BY <1>2
    <3> QED  BY <1>1, <1>3, <1>4, <2>2, <3>1, <3>2 DEF RouterDone
  <2>3. CASE pc # "router"
    BY <1>1, <1>3, <1>7, <2>3 DEF NextRole, Goto, RouterDone
  <2> QED  BY <2>1, <2>2, <2>3
<1>8. CASE EndLoop
  <2>1. CASE pc = "roles"
    <3>1. pc' = "router" /\ ri' = 1 /\ idx' = 1
      BY <1>8, <2>1 DEF EndLoop, Goto
    <3> QED  BY <1>2, <1>3, <1>4, <3>1 DEF RouterDone
  <2>2. CASE pc # "roles"
    <3>1. pc \in {"router", "aggregate"} /\ ri > Len(local.spec)
      BY <1>2, <1>8, <2>2 DEF EndLoop, InLoop
    <3>2. RouterConverged(local.spec, k)
      BY <1>1, <1>2, <3>1 DEF RouterDone
    <3> QED  BY <1>3, <3>2 DEF RouterDone
  <2> QED  BY <2>1, <2>2
<1>9. CASE ReadLWSStatus
  BY <1>1, <1>3, <1>9 DEF ReadLWSStatus, RouterDone
<1> QED  BY <1>5, <1>6, <1>7, <1>8, <1>9 DEF PassWrites

(* What the status loop has read is what the LeaderWorkerSets report. *)
LEMMA ReadsKept ==
  ASSUME IInv, PassWrites, ~Again'
  PROVE  ReadsDone'
<1> DEFINE W == WorkerRoles(local.spec)
<1>1. /\ ReadsDone /\ Kept /\ ~Fail /\ TypeOK
      /\ \A k \in Keys : cache[k] = api[k]
  BY QuietPass DEF PassDone, IInv
<1>2. /\ pc # "idle" /\ local.spec \in Specs
      /\ Len(local.spec) \in Nat /\ ri \in Nat \ {0} /\ idx \in Nat
      /\ \A k \in W : /\ k \in 1 .. Len(local.spec) /\ ~IsRouter(local.spec[k])
                      /\ ReplicaIndices(local.spec[k]) \subseteq Nat
  <2>1. /\ pc # "idle" /\ local.spec \in Specs
        /\ Len(local.spec) \in Nat /\ ri \in Nat \ {0} /\ idx \in Nat
        /\ DOMAIN local.spec = 1 .. Len(local.spec)
    BY <1>1, PassWritesChild, LocalFacts DEF TypeOK, PassOK
  <2>2. \A k \in W : k \in 1 .. Len(local.spec) /\ ~IsRouter(local.spec[k])
    BY <2>1 DEF WorkerRoles
  <2>3. \A k \in W : ReplicaIndices(local.spec[k]) \subseteq Nat
    BY <2>1, <2>2, SpecFacts DEF ReplicaIndices
  <2> QED  BY <2>1, <2>2, <2>3
<1>3. local' = local /\ \A r, s : ReplicasWith(r, s)' = ReplicasWith(r, s)
  BY <1>1, KeptHolds DEF Kept
<1>4. ASSUME \A k \in W : ReadOf(k)' = ReadOf(k), UNCHANGED <<running, started, unread>>
      PROVE  ReadsDone'
  <2>1. ReadSoFar' = ReadSoFar
    BY <1>3, <1>4 DEF ReadSoFar
  <2>2. /\ ReplicasWith(ReadSoFar \ unread, {"Ready"})' = ReplicasWith(ReadSoFar \ unread, {"Ready"})
        /\ ReplicasWith(ReadSoFar \ unread, {"Started", "Ready"})'
             = ReplicasWith(ReadSoFar \ unread, {"Started", "Ready"})
    BY <1>1, <1>4, <2>1 DEF ReplicasWith, Kept
  <2> QED  BY <1>1, <1>4, <2>2 DEF ReadsDone
<1>5. CASE ReconcilePodGroup \/ ReconcileLWS \/ ListOrphanLWS \/ DeleteOrphanLWS \/ ReconcileRouter
  <2>1. pc \notin {"aggregate", "status"} /\ pc' \notin {"aggregate", "status"}
    BY <1>1, <1>5 DEF ReconcilePodGroup, ReconcileLWS, ListOrphanLWS, DeleteOrphanLWS,
                      ReconcileRouter, Goto
  <2>2. UNCHANGED <<running, started, unread>>
    BY <1>5 DEF ReconcilePodGroup, ReconcileLWS, ListOrphanLWS, DeleteOrphanLWS, ReconcileRouter
  <2>3. \A k \in W : ReadOf(k)' = ReadOf(k)
    BY <1>3, <2>1 DEF ReadOf
  <2> QED  BY <1>4, <2>2, <2>3
<1>6. CASE NextRole
  <2>1. UNCHANGED <<running, started, unread>>
    BY <1>6 DEF NextRole
  <2>2. CASE pc = "aggregate"
    <3>1. pc' = "aggregate" /\ ri' = ri + 1 /\ idx' = 0
      BY <1>6, <2>2 DEF NextRole, Goto
    <3>2. ri \in W => idx \notin ReplicaIndices(local.spec[ri])
      BY <1>2, <1>6, <2>2 DEF NextRole, role
    <3>3. ri \in W => \A j \in ReplicaIndices(local.spec[ri]) : j < idx
      BY <1>2, <3>2, SpecFacts DEF ReplicaIndices, WorkerRoles
    <3>4. ASSUME NEW k \in W, NEW j \in ReplicaIndices(local.spec[k])
          PROVE  (k < ri \/ (k = ri /\ j < idx)) <=> (k < ri + 1 \/ (k = ri + 1 /\ j < 0))
      <4>1. k \in Nat /\ ri \in Nat /\ j \in Nat /\ (k = ri => j < idx)
        BY <1>2, <3>3, <3>4
      <4> QED  BY <4>1
    <3>5. \A k \in W : ReadOf(k)' = ReadOf(k)
      BY <1>3, <2>2, <3>1, <3>4 DEF ReadOf
    <3> QED  BY <1>4, <2>1, <3>5
  <2>3. CASE pc # "aggregate"
    <3>1. pc # "status" /\ pc' \notin {"aggregate", "status"}
      BY <1>6, <2>3 DEF NextRole, Goto
    <3>2. \A k \in W : ReadOf(k)' = ReadOf(k)
      BY <1>3, <2>3, <3>1 DEF ReadOf
    <3> QED  BY <1>4, <2>1, <3>2
  <2> QED  BY <2>2, <2>3
<1>7. CASE EndLoop
  <2>1. UNCHANGED <<running, started, unread>> /\ ri > Len(local.spec)
    BY <1>2, <1>7 DEF EndLoop, InLoop
  <2>2. CASE pc = "aggregate"
    <3>1. pc' = "status"
      BY <1>7, <2>2 DEF EndLoop, Goto
    <3>2. \A k \in W : k < ri
      BY <1>2, <2>1
    <3>3. \A k \in W : ReadOf(k)' = ReadOf(k)
      BY <1>3, <2>2, <3>1, <3>2 DEF ReadOf
    <3> QED  BY <1>4, <2>1, <3>3
  <2>3. CASE pc # "aggregate"
    <3>1. pc \in {"roles", "router"} /\ pc' # "status" /\ (pc' = "aggregate" => ri' = 1 /\ idx' = 0)
      BY <1>7, <2>3 DEF EndLoop, Goto
    <3>2. \A k \in W : \A j \in ReplicaIndices(local.spec[k]) : ~(k < 1) /\ ~(j < 0)
      BY <1>2
    <3>3. \A k \in W : ReadOf(k)' = ReadOf(k)
      BY <1>3, <2>3, <3>1, <3>2 DEF ReadOf
    <3> QED  BY <1>4, <2>1, <3>3
  <2> QED  BY <2>2, <2>3
<1>8. CASE ReadLWSStatus
  <2> DEFINE me  == <<role.name, idx>>
             lws == api[LWSKey(role.name, idx)]
  <2>1. /\ pc = "aggregate" /\ pc' = "aggregate" /\ ri' = ri /\ idx' = idx + 1
        /\ ri \in W /\ idx \in ReplicaIndices(local.spec[ri])
    BY <1>1, <1>2, <1>8, LocalFacts DEF ReadLWSStatus, Goto, WorkerRoles, role
  <2>2. LWSKey(role.name, idx) \in Keys
    BY <1>2, <2>1, LWSKeyInKeys, KeysAreDistinct DEF role
  <2>3. lws # Nil => lws.status \in Statuses
    BY <1>1, <2>2 DEF TypeOK, ChildrenOK, IsObject, Objects
  <2>4. \/ /\ running' = IF lws # Nil /\ lws.status = "Ready" THEN running \cup {me}
                                                             ELSE running \ {me}
           /\ started' = IF lws # Nil /\ lws.status # "None" THEN started \cup {me}
                                                            ELSE started \ {me}
           /\ unread' = unread \ {me}
        \/ /\ running' = running \ {me} /\ started' = started \ {me}
           /\ unread' = unread \cup {me}
    BY <1>1, <1>8, <2>2 DEF ReadLWSStatus
  <2>5. ReadSoFar' = ReadSoFar \cup {me}
    <3>1. \A k \in W \ {ri} : ReadOf(k)' = ReadOf(k)
      BY <1>3, <2>1 DEF ReadOf
    <3>2. ReadOf(ri)' = ReadOf(ri) \cup {idx}
      <4>1. ReadOf(ri) = {j \in ReplicaIndices(local.spec[ri]) : j < idx}
        BY <1>2, <2>1 DEF ReadOf
      <4>2. ReadOf(ri)' = {j \in ReplicaIndices(local.spec[ri]) : j < idx + 1}
        BY <1>2, <1>3, <2>1 DEF ReadOf
      <4>3. \A j \in ReplicaIndices(local.spec[ri]) : j < idx + 1 <=> j < idx \/ j = idx
        BY <1>2, <2>1
      <4> QED  BY <2>1, <4>1, <4>2, <4>3
    <3> QED  BY <1>3, <2>1, <3>1, <3>2 DEF ReadSoFar, role
  <2> DEFINE R(status) == ReplicasWith(ReadSoFar \ unread, status)
  <2>6. CASE unread' = unread \ {me}
    <3>1. R({"Ready"})' = IF lws # Nil /\ lws.status = "Ready" THEN R({"Ready"}) \cup {me}
                                                               ELSE R({"Ready"}) \ {me}
      BY <1>1, <2>5, <2>6 DEF ReplicasWith, Kept
    <3>2. R({"Started", "Ready"})' =
            IF lws # Nil /\ lws.status # "None" THEN R({"Started", "Ready"}) \cup {me}
                                                ELSE R({"Started", "Ready"}) \ {me}
      BY <1>1, <2>3, <2>5, <2>6 DEF ReplicasWith, Kept, Statuses
    <3> QED  BY <1>1, <2>4, <2>6, <3>1, <3>2 DEF ReadsDone
  <2>7. CASE unread' = unread \cup {me}
    <3>1. \A status : R(status)' = R(status) \ {me}
      BY <1>1, <2>5, <2>7 DEF ReplicasWith, Kept
    <3> QED  BY <1>1, <2>4, <2>7, <3>1 DEF ReadsDone
  <2> QED  BY <2>4, <2>6, <2>7
<1> QED  BY <1>5, <1>6, <1>7, <1>8 DEF PassWrites

(* A pass begins: nothing is past, nothing read. *)
LEMMA FetchDone ==
  ASSUME IInv, FetchService
  PROVE  Done'
<1>1. /\ pc' = "podgroup" /\ running' = {} /\ started' = {}
  BY DEF FetchService, Goto, IInv, TypeOK, PassOK
<1>2. ReadSoFar' = {}
  BY <1>1 DEF ReadSoFar, ReadOf
<1>3. ReadsDone'
  BY <1>1, <1>2 DEF ReadsDone, ReplicasWith
<1> QED  BY <1>1, <1>3 DEF Done, PassDone, PodGroupDone, RoleDone, RouterDone

(* A pass ends: it has gone past every child and read every replica, and *)
(* the status it leaves is made of what it has read.                     *)
LEMMA StatusDone ==
  ASSUME IInv, UpdateStatus
  PROVE  Done'
<1>1. SUFFICES ASSUME ~Again' PROVE IdleDone'
  BY DEF Done, UpdateStatus, EndPass, Goto
<1>2. ~queued' /\ behind' = {}
  BY <1>1 DEF Again
<1>3. StatusWritten /\ queued' = (queued \/ err)
  <2>1. ~stale \/ queued \/ ServiceKey \in behind
    BY DEF IInv, StaleOK
  <2> QED  BY <1>2, <2>1 DEF UpdateStatus
<1>4. pc = "status" /\ ~queued /\ ~err /\ UNCHANGED <<api, eppImage>>
  BY <1>2, <1>3 DEF UpdateStatus, envVars
<1>5. /\ svc # Nil /\ svc'.spec = svc.spec /\ svc'.generation = svc.generation
      /\ svc'.observedGeneration = svc.generation
      /\ svc'.components = FinalService.components
      /\ svc'.conditions = FinalService.conditions
      /\ behind \subseteq behind'
  BY <1>3, <1>4, StatusWrittenFields DEF IInv
<1>6. PassDone
  BY <1>2, <1>4, <1>5 DEF IInv, Done, Again
<1>7. local.spec = svc.spec /\ IsService(local) /\ err \in BOOLEAN /\ local.spec \in Specs
  BY <1>3, <1>4 DEF IInv, CopyOK, StatusWritten, TypeOK, PassOK, IsService, Services
<1>8. Converged(local.spec)
  <2>1. PodGroupConverged(local.spec)
    BY <1>4, <1>6 DEF PassDone, PodGroupDone
  <2>2. \A k \in WorkerRoles(local.spec) : LWSConverged(local.spec, k)
    BY <1>4, <1>6 DEF PassDone, RoleDone
  <2>3. \A k \in DOMAIN local.spec \ WorkerRoles(local.spec) : RouterConverged(local.spec, k)
    BY <1>4, <1>6 DEF PassDone, RouterDone
  <2> QED  BY <2>1, <2>2, <2>3 DEF Converged, WorkerRoles
<1>9. Converged(svc.spec)'
  BY <1>4, <1>5, <1>7, <1>8 DEF Converged, PodGroupConverged, LWSConverged, RouterConverged, Holds
<1>10. /\ running = ReplicasWith(Replicas(svc.spec) \ unread, {"Ready"})'
       /\ started = ReplicasWith(Replicas(svc.spec) \ unread, {"Started", "Ready"})'
       /\ unread' = unread
  <2>1. ReadSoFar = Replicas(local.spec)
    BY <1>4 DEF ReadSoFar, ReadOf, Replicas
  <2>2. unread' = unread
    BY DEF UpdateStatus, EndPass
  <2> QED  BY <1>4, <1>5, <1>6, <1>7, <2>1, <2>2 DEF PassDone, ReadsDone, ReplicasWith
<1>11. StatusTrue'
  <2>1. /\ FinalService.components = Components(local.spec, running, started)
        /\ FinalService.conditions.Active =
             IF CheckAllComponentsReady(FinalService.components) THEN "True" ELSE "False"
    BY <1>4, <1>7, FinalServiceFields
  <2> QED  BY <1>5, <1>7, <1>10, <2>1 DEF StatusTrue
<1> QED  BY <1>9, <1>11 DEF IdleDone

(* Everyone else's steps make another pass due. *)
LEMMA OthersCauseAPass ==
  ASSUME \/ CreateService \/ EditSpec \/ DeleteService \/ Restart \/ PanicInBuildLWS
         \/ \E k \in Keys \cup {ServiceKey} : Deliver(k)
         \/ \E k \in LWSKeys : LWSProgresses(k) \/ LWSUnready(k) \/ LWSRollsOut(k)
         \/ \E k \in Keys : GarbageCollect(k)
  PROVE  Again'
<1>1. queued' = TRUE \/ \E k : behind' = behind \cup {k}
  BY DEF CreateService, EditSpec, DeleteService, ServiceChanges, Restart, PanicInBuildLWS,
         Deliver, LWSProgresses, LWSUnready, LWSRollsOut, GarbageCollect, ChildChanges
<1> QED  BY <1>1 DEF Again

(* Every step keeps the main conjunct of the invariant. *)
LEMMA NextDone ==
  ASSUME IInv, [Next]_vars
  PROVE  Done'
<1>1. CASE PassWrites
  <2>1. pc' # "idle"
    BY <1>1, PassWritesChild DEF IInv
  <2>2. local' = local
    BY <1>1, PassWritesChild DEF IInv
  <2>3. ~Again' => PassDone'
    BY <1>1, <2>2, PodGroupKept, RolesKept, RoutersKept, ReadsKept DEF PassDone
  <2> QED  BY <2>1, <2>3 DEF Done
<1>2. CASE FetchService
  BY <1>2, FetchDone
<1>3. CASE UpdateStatus
  BY <1>3, StatusDone
<1>4. CASE IgnoreDeleted
  <2>1. pc' = "idle" /\ behind' = behind /\ svcCache = Nil /\ svc' = svc
    BY <1>4 DEF IgnoreDeleted, passVars
  <2>2. behind = {} => svc = Nil
    BY <2>1 DEF IInv, CacheOK
  <2> QED  BY <2>1, <2>2 DEF Done, IdleDone, Again
<1>5. CASE \/ CreateService \/ EditSpec \/ DeleteService \/ Restart \/ PanicInBuildLWS
           \/ \E k \in Keys \cup {ServiceKey} : Deliver(k)
           \/ \E k \in LWSKeys : LWSProgresses(k) \/ LWSUnready(k) \/ LWSRollsOut(k)
           \/ \E k \in Keys : GarbageCollect(k)
  BY <1>5, OthersCauseAPass DEF Done
<1>6. CASE UNCHANGED vars
  <2>1. /\ UNCHANGED <<svc, api, behind, queued, err, pc, ri, idx, orphans, local, running,
                        started, unread, eppImage>>
        /\ Kept
    BY <1>6 DEF vars, passVars, envVars, Kept
  <2>2. IdleDone => IdleDone'
    BY <2>1 DEF IdleDone, StatusTrue, Converged, PodGroupConverged, LWSConverged,
                RouterConverged, Holds, ReplicasWith
  <2>3. PodGroupDone => PodGroupDone'
    BY <2>1, KeptHolds DEF PodGroupDone
  <2>4. \A k : RoleDone(k) => RoleDone(k)'
    BY <2>1, KeptHolds DEF RoleDone
  <2>5. \A k : RouterDone(k) => RouterDone(k)'
    BY <2>1, KeptHolds DEF RouterDone
  <2>6. ReadsDone => ReadsDone'
    BY <2>1 DEF ReadsDone, ReadSoFar, ReadOf, ReplicasWith
  <2>7. PassDone => PassDone'
    BY <2>1, <2>3, <2>4, <2>5, <2>6 DEF PassDone
  <2>8. Again' <=> Again
    BY <2>1 DEF Again
  <2> QED  BY <2>1, <2>2, <2>7, <2>8 DEF IInv, Done
<1> QED  BY <1>1, <1>2, <1>3, <1>4, <1>5, <1>6 DEF Next, Reconcile, PassWrites

(* The inductive invariant holds in every reachable state: a pass of      *)
(* Reconcile that no other follows has converged what it has gone past.   *)
THEOREM InvariantIsInductive == Spec => []IInv
<1>1. Init => IInv
  <2>1. Init => TypeOK
    BY InitTypes
  <2>2. Init => CacheOK /\ CopyOK /\ StaleOK /\ Done
    BY DEF Init, CacheOK, CopyOK, StaleOK, Done, IdleDone
  <2> QED  BY <2>1, <2>2 DEF IInv
<1>2. IInv /\ [Next]_vars => IInv'
  BY NextTypes, NextCache, NextCopy, NextStale, NextDone DEF IInv
<1> QED  BY <1>1, <1>2, PTL DEF Spec

(* When no pass runs or is due and no watch event is on its way, every     *)
(* child is what the builders make of the current spec: edits, conflicts,  *)
(* lost answers, crashes and old caches never leave Reconcile with work    *)
(* undone and nobody to wake it, for every spec and every bound.           *)
THEOREM QuiescenceIsConvergence == Spec => []QuiescentConverged
<1>1. IInv => QuiescentConverged
  BY DEF IInv, QuiescentConverged, Quiescent, Done, Again, IdleDone, TypeOK, PassOK
<1> QED  BY <1>1, InvariantIsInductive, PTL

(* ... and the status written by the last Status().Update is true of the   *)
(* children as they are.                                                   *)
THEOREM QuiescentStatusIsTrue == Spec => []QuiescentStatus
<1>1. IInv => QuiescentStatus
  BY DEF IInv, QuiescentStatus, Quiescent, Done, Again, IdleDone, TypeOK, PassOK, StatusTrue
<1> QED  BY <1>1, InvariantIsInductive, PTL
-----------------------------------------------------------------------------
(* The status and its generation.  Components is keyed by role name, so of *)
(* two roles with one name only the later has an entry: the property needs *)
(* distinct names, which the CRD does not enforce.                         *)

DistinctNames(spec) == \A k, m \in WorkerRoles(spec) : spec[k].name = spec[m].name => k = m

(* The summary has an entry with the right count for every worker role. *)
LEMMA ComponentsOfSpec ==
  ASSUME NEW spec \in Specs, DistinctNames(spec), NEW pairs, NEW more,
         NEW k \in WorkerRoles(spec)
  PROVE  LET c == Components(spec, pairs, more)
         IN  /\ spec[k].name \in DOMAIN c
             /\ c[spec[k].name].desiredReplicas = GetReplicaCount(spec[k])
<1> DEFINE n == spec[k].name
           same == {m \in WorkerRoles(spec) : spec[m].name = n}
<1>1. same = {k}
  BY DEF DistinctNames
<1>2. k \in Int
  BY SpecFacts DEF WorkerRoles
<1>3. Max(same) = k
  BY <1>1, <1>2 DEF Max
<1>4. n \in {spec[m].name : m \in WorkerRoles(spec)}
  OBVIOUS
<1> HIDE DEF n, same
<1> QED  BY <1>3, <1>4 DEF Components, AggregateLWSStatus, n, same

(* Every step keeps the status tied to its generation. *)
LEMMA NextStatusGeneration ==
  ASSUME \A spec \in Specs : DistinctNames(spec),
         TypeOK, CopyOK, StatusOfObservedGeneration, [Next]_vars
  PROVE  StatusOfObservedGeneration'
<1>1. CASE svc' = svc
  BY <1>1 DEF StatusOfObservedGeneration
<1>2. CASE CreateService
  <2>1. PICK spec \in Specs : svc' = NewService(uids + 1, spec)
    BY <1>2 DEF CreateService, ServiceChanges
  <2>2. svc'.observedGeneration = 0 /\ svc'.generation = 1
    BY <2>1 DEF NewService
  <2> QED  BY <2>2 DEF StatusOfObservedGeneration
<1>3. CASE EditSpec
  <2>1. PICK spec \in Specs : svc' = [svc EXCEPT !.spec = spec, !.generation = @ + 1]
    BY <1>3 DEF EditSpec, ServiceChanges
  <2>2. IsService(svc)
    BY <1>3 DEF EditSpec, TypeOK, ServicesOK
  <2>3. /\ svc'.generation = svc.generation + 1
        /\ svc'.observedGeneration = svc.observedGeneration
    BY <2>1, <2>2 DEF IsService
  <2>4. svc'.observedGeneration # svc'.generation
    BY <2>2, <2>3 DEF IsService, Services
  <2> QED  BY <2>4 DEF StatusOfObservedGeneration
<1>4. CASE DeleteService
  BY <1>4 DEF DeleteService, ServiceChanges, StatusOfObservedGeneration
<1>5. CASE UpdateStatus /\ StatusWritten
  <2>1. pc = "status" /\ ~stale
    BY <1>5 DEF UpdateStatus, StatusWritten
  <2>2. svc'.spec = svc.spec /\ svc'.components = FinalService.components
    BY <1>5, <2>1, StatusWrittenFields
  <2>3. IsService(local) /\ local.spec = svc.spec /\ local.spec \in Specs /\ err \in BOOLEAN
    BY <2>1, LocalFacts DEF CopyOK, TypeOK, PassOK
  <2>4. svc'.components = Components(svc'.spec, running, started)
    BY <2>2, <2>3, FinalServiceFields
  <2> QED  BY <2>2, <2>3, <2>4, ComponentsOfSpec DEF StatusOfObservedGeneration
<1>6. \/ svc' = svc \/ CreateService \/ EditSpec \/ DeleteService
      \/ UpdateStatus /\ StatusWritten
  <2>1. CASE PassWrites
    BY <2>1, PassWritesChild
  <2>2. CASE IgnoreDeleted \/ FetchService \/ PanicInBuildLWS
    BY <2>2 DEF IgnoreDeleted, FetchService, PanicInBuildLWS
  <2>3. CASE UpdateStatus
    BY <2>3 DEF UpdateStatus
  <2>4. CASE \/ \E k \in Keys \cup {ServiceKey} : Deliver(k)
             \/ \E k \in LWSKeys : LWSProgresses(k) \/ LWSUnready(k) \/ LWSRollsOut(k)
             \/ \E k \in Keys : GarbageCollect(k)
             \/ Restart \/ UNCHANGED vars
    BY <2>4 DEF Deliver, LWSProgresses, LWSUnready, LWSRollsOut, GarbageCollect,
         ChildChanges, Restart, vars
  <2> QED  BY <2>1, <2>2, <2>3, <2>4 DEF Next, Reconcile, PassWrites
<1> QED  BY <1>1, <1>2, <1>3, <1>4, <1>5, <1>6

(* A status that claims the current generation was computed from its spec: *)
(* no interleaving of edits, deletions, recreations, lost answers and      *)
(* crashes with Status().Update attaches a summary to another spec.        *)
THEOREM StatusIsOfItsGeneration ==
  ASSUME \A spec \in Specs : DistinctNames(spec)
  PROVE  Spec => []StatusOfObservedGeneration
<1> DEFINE Inv == TypeOK /\ CacheOK /\ CopyOK /\ StatusOfObservedGeneration
<1>1. Init => Inv
  BY InitTypes DEF Init, CacheOK, CopyOK, StatusOfObservedGeneration
<1>2. Inv /\ [Next]_vars => Inv'
  BY NextTypes, NextCache, NextCopy, NextStatusGeneration
<1>3. Inv => StatusOfObservedGeneration
  OBVIOUS
<1> QED  BY <1>1, <1>2, <1>3, PTL DEF Spec
=============================================================================
