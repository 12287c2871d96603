--------------------------- MODULE ManifestProofs ---------------------------
(***************************************************************************)
(* What the builders agree on, for every manifest with distinct role       *)
(* names, whatever the number of roles, replicas and nodes.                *)
(***************************************************************************)
EXTENDS Manifest, Sums

(* The service-level and the role-level gang decision agree for every list  *)
(* of roles: NeedsGangScheduling against NeedsGangSchedulingForRole.        *)
LEMMA GangDecisionsAlwaysAgree == GangDecisionsAgree
<1>1. CASE IsPDDisaggregated(roles)
  BY <1>1 DEF GangDecisionsAgree, NeedsGangScheduling, NeedsGangSchedulingForRole,
              WorkerRoles, IsPDDisaggregated, IsRouter
<1>2. CASE ~IsPDDisaggregated(roles)
  BY <1>2 DEF GangDecisionsAgree, NeedsGangScheduling, NeedsGangSchedulingForRole,
              WorkerRoles
<1> QED  BY <1>1, <1>2

(* Reconcile builds a PodGroup for a manifest exactly if it would annotate *)
(* the pods of some role with one.                                         *)
THEOREM GangDecisionsAgreeInEveryManifest == Spec => []GangDecisionsAgree
BY GangDecisionsAlwaysAgree, PTL
-----------------------------------------------------------------------------
(* The roles of a manifest: named in the order of Names, with counts the *)
(* CRD admits.                                                           *)
RoleRecords ==
  [name: {Names[k] : k \in DOMAIN Names},
   componentType: {"router", "worker", "prefiller", "decoder"},
   replicas: ReplicaCounts \cup {Nil}, nodeCount: NodeCounts \cup {Nil},
   template: Templates \cup {Nil}, strategy: Strategies \cup {Nil},
   endpointPickerConfig: {Nil}, httproute: {Nil}]

RolesOK ==
  /\ roles \in Seq(RoleRecords) /\ Len(roles) <= Len(Names)
  /\ \A k \in DOMAIN roles : roles[k].name = Names[k]

(* Appending a role with the next name keeps the manifest well formed. *)
LEMMA AppendKeepsRoles ==
  ASSUME RolesOK, Len(roles) < Len(Names), NEW r \in RoleRecords,
         r.name = Names[Len(roles) + 1], roles' = Append(roles, r)
  PROVE  RolesOK'
<1>1. roles \in Seq(RoleRecords)
  BY DEF RolesOK
<1>2. roles' \in Seq(RoleRecords) /\ Len(roles') = Len(roles) + 1
  BY <1>1
<1>3. Len(roles') <= Len(Names)
  BY <1>1, <1>2, NamesAssumption
<1>4. \A k \in DOMAIN roles' : roles'[k].name = Names[k]
  BY <1>1, <1>2 DEF RolesOK
<1> QED  BY <1>2, <1>3, <1>4 DEF RolesOK

(* The fields of a well-formed manifest. *)
LEMMA RoleFields ==
  ASSUME RolesOK
  PROVE  /\ Len(roles) \in Nat /\ DOMAIN roles = 1 .. Len(roles)
         /\ \A k \in DOMAIN roles : /\ k \in DOMAIN Names /\ roles[k].name = Names[k]
                                    /\ roles[k].replicas \in ReplicaCounts \cup {Nil}
<1>1. roles \in Seq(RoleRecords)
  BY DEF RolesOK
<1>2. \A r \in RoleRecords : r.replicas \in ReplicaCounts \cup {Nil}
  BY DEF RoleRecords
<1>3. \A k \in DOMAIN roles : roles[k] \in RoleRecords
  BY <1>1
<1>4. Len(roles) \in Nat /\ DOMAIN roles = 1 .. Len(roles)
  BY <1>1
<1> QED  BY <1>2, <1>3, <1>4, NamesAssumption DEF RolesOK

(* Every manifest is well formed: AddWorker and AddRouter keep it so. *)
LEMMA RolesAreOK == Spec => []RolesOK
<1>1. Init => RolesOK
  BY NamesAssumption DEF Init, RolesOK
<1>2. RolesOK /\ [Next]_roles => RolesOK'
  <2> SUFFICES ASSUME RolesOK, [Next]_roles PROVE RolesOK'
    OBVIOUS
  <2>1. CASE AddWorker \/ AddRouter
    <3>1. Len(roles) + 1 \in DOMAIN Names
      BY <2>1, NamesAssumption, RoleFields DEF AddWorker, AddRouter
    <3>2. PICK r \in RoleRecords : r.name = Names[Len(roles) + 1] /\ roles' = Append(roles, r)
      BY <2>1, <3>1 DEF AddWorker, AddRouter, RoleRecords
    <3> QED  BY <2>1, <3>2, AppendKeepsRoles DEF AddWorker, AddRouter
  <2>2. CASE UNCHANGED roles
    BY <2>2 DEF RolesOK
  <2> QED  BY <2>1, <2>2 DEF Next
<1> QED  BY <1>1, <1>2, PTL DEF Spec
-----------------------------------------------------------------------------
(* Of distinct names, one role writes a task. *)
LEMMA OneWriter ==
  ASSUME RolesOK, NEW k \in GangRoles(roles), NEW i \in ReplicaIndices(roles[k])
  PROVE  LET t == GenerateTaskName(roles[k].name, i)
         IN  t \in TaskNames(roles) /\ MinTaskMember(roles)[t] = GetNodeCount(roles[k])
<1> DEFINE t == GenerateTaskName(roles[k].name, i)
<1>1. t \in TaskNames(roles)
  BY DEF TaskNames
<1>2. \A m \in GangRoles(roles) : roles[m].name = roles[k].name => m = k
  BY NamesAssumption, RoleFields DEF GangRoles
<1>3. TaskWriters(roles, t) = {k}
  BY <1>2 DEF TaskWriters, GenerateTaskName
<1>4. k \in Int
  BY RoleFields DEF GangRoles
<1>5. Max(TaskWriters(roles, t)) = k
  BY <1>3, <1>4 DEF Max
<1> HIDE DEF t
<1> QED  BY <1>1, <1>5 DEF MinTaskMember, t

(* Which LeaderWorkerSets are in the gang. *)
LEMMA GangTask ==
  ASSUME RolesOK, NEW k \in WorkerRoles(roles), NEW i \in ReplicaIndices(roles[k])
  PROVE  LET lws == BuildLWS(roles, roles[k], i)
         IN  /\ k \in GangRoles(roles) <=> lws.task # Nil
             /\ lws.task # Nil => lws.task = GenerateTaskName(roles[k].name, i)
             /\ lws.size = GetNodeCount(roles[k])
<1>1. GenerateTaskName(roles[k].name, i) # Nil
  <2>1. k \in DOMAIN roles /\ k \in DOMAIN Names /\ roles[k].name = Names[k]
    BY RoleFields DEF WorkerRoles
  <2>2. PICK r \in (ReplicaCounts \ {Nil}) \cup {1} : i \in 0 .. r - 1
    BY <2>1, RoleFields DEF ReplicaIndices, GetReplicaCount
  <2> QED  BY <2>1, <2>2, TaskAssumption
<1>2. k \in GangRoles(roles) <=> NeedsGangSchedulingForRole(roles, roles[k])
  BY DEF GangRoles, WorkerRoles
<1> QED  BY <1>1, <1>2 DEF BuildLWS

(* For every manifest with distinct names the PodGroup BuildPodGroup makes *)
(* has exactly the tasks BuildLWS annotates its pods with, each of the     *)
(* size of its LeaderWorkerSet.                                            *)
THEOREM TasksMatchInEveryManifest == Spec => []TasksMatchLWS
<1>1. RolesOK => TasksMatchLWS
  <2> SUFFICES ASSUME RolesOK PROVE TasksMatchLWS
    OBVIOUS
  <2> DEFINE tasks == BuildPodGroup(roles).minTaskMember
  <2>1. tasks = MinTaskMember(roles) /\ DOMAIN tasks = TaskNames(roles)
    BY DEF BuildPodGroup, MinTaskMember
  <2>2. GangRoles(roles) \subseteq WorkerRoles(roles)
    BY DEF GangRoles, WorkerRoles
  <2>3. ASSUME NEW lws \in GangLWS
        PROVE  lws.task \in TaskNames(roles) /\ tasks[lws.task] = lws.size
    <3>1. PICK k \in WorkerRoles(roles) : \E i \in ReplicaIndices(roles[k]) :
            lws = BuildLWS(roles, roles[k], i)
      BY DEF GangLWS, LeaderWorkerSets
    <3>2. PICK i \in ReplicaIndices(roles[k]) : lws = BuildLWS(roles, roles[k], i)
      BY <3>1
    <3>3. lws.task # Nil
      BY DEF GangLWS
    <3> QED  BY <2>1, <3>2, <3>3, GangTask, OneWriter
  <2>4. ASSUME NEW t \in TaskNames(roles)
        PROVE  \E lws \in GangLWS : lws.task = t
    <3>1. PICK k \in GangRoles(roles) : \E i \in ReplicaIndices(roles[k]) :
            t = GenerateTaskName(roles[k].name, i)
      BY DEF TaskNames
    <3>2. PICK i \in ReplicaIndices(roles[k]) : t = GenerateTaskName(roles[k].name, i)
      BY <3>1
    <3>3. BuildLWS(roles, roles[k], i) \in LeaderWorkerSets
      BY <2>2, <3>2 DEF LeaderWorkerSets
    <3> QED  BY <2>2, <3>2, <3>3, GangTask DEF GangLWS
  <2>5. DOMAIN tasks = {lws.task : lws \in GangLWS}
    BY <2>1, <2>3, <2>4
  <2> QED  BY <2>3, <2>5 DEF TasksMatchLWS
<1> QED  BY <1>1, RolesAreOK, PTL
-----------------------------------------------------------------------------
(* For every manifest the selector buildPoolSelector makes for the         *)
(* InferencePool matches every leader pod, and both sides of a             *)
(* disaggregated service when GenerateEPPConfig splits them.               *)
THEOREM PoolSelectsInEveryManifest == Spec => []PoolSelectsEveryLeader
<1>1. RolesOK => PoolSelectsEveryLeader
  <2> SUFFICES ASSUME RolesOK PROVE PoolSelectsEveryLeader
    OBVIOUS
  <2> DEFINE type == BuildPoolSelector(roles).componentType
  <2>1. IsFiniteSet(WorkerRoles(roles))
    <3>1. WorkerRoles(roles) \subseteq 1 .. Len(roles)
      BY RoleFields DEF WorkerRoles
    <3>2. IsFiniteSet(1 .. Len(roles))
      <4>1. 1 \in Int /\ Len(roles) \in Int
        BY RoleFields
      <4> QED  BY <4>1, FS_Interval
    <3> QED  BY <3>1, <3>2, FS_Subset
  <2>2. ASSUME NEW k \in WorkerRoles(roles)
        PROVE  type \in {Nil, roles[k].componentType}
    <3>1. CASE Cardinality(WorkerRoles(roles)) = 1
      <4>1. WorkerRoles(roles) = {k}
        BY <2>1, <3>1, FS_Singleton
      <4> QED  BY <4>1 DEF BuildPoolSelector
    <3>2. CASE Cardinality(WorkerRoles(roles)) # 1
      BY <3>2 DEF BuildPoolSelector
    <3> QED  BY <3>1, <3>2
  <2>3. \A lws \in LeaderWorkerSets : type \in {Nil, lws.componentType}
    BY <2>2 DEF LeaderWorkerSets, BuildLWS
  <2>4. ASSUME NEW k \in DOMAIN roles,
               GenerateEPPConfig(roles, roles[k]) = <<"strategy", "pd-disaggregation">>
        PROVE  IsPDDisaggregated(roles)
    BY <2>4, Zenon DEF GenerateEPPConfig
  <2>5. IsPDDisaggregated(roles) =>
          \A t \in {"prefiller", "decoder"} :
            \E m \in WorkerRoles(roles) : roles[m].componentType = t
    BY DEF IsPDDisaggregated, WorkerRoles, IsRouter
  <2> HIDE DEF type
  <2> QED  BY <2>2, <2>3, <2>4, <2>5 DEF PoolSelectsEveryLeader, type
<1> QED  BY <1>1, RolesAreOK, PTL
-----------------------------------------------------------------------------
(* The LeaderWorkerSets of role k, and how many pods each has. *)
ReplicasOf(k) == {BuildLWS(roles, roles[k], i) : i \in ReplicaIndices(roles[k])}

(* A gang role has one LeaderWorkerSet for each replica, all in the gang,  *)
(* with tasks of its own.                                                  *)
LEMMA ReplicasInGang ==
  ASSUME RolesOK, NEW k \in GangRoles(roles)
  PROVE  /\ k \in WorkerRoles(roles) /\ k \in DOMAIN roles
         /\ GetNodeCount(roles[k]) \in Int
         /\ IsFiniteSet(ReplicasOf(k))
         /\ Cardinality(ReplicasOf(k)) = Cardinality(ReplicaIndices(roles[k]))
         /\ \A lws \in ReplicasOf(k) : /\ lws \in GangLWS /\ lws.size = GetNodeCount(roles[k])
                                       /\ lws.task[1] = roles[k].name
<1>1. k \in WorkerRoles(roles) /\ k \in DOMAIN roles
  BY DEF GangRoles, WorkerRoles
<1>2. roles[k] \in RoleRecords
  BY <1>1 DEF RolesOK
<1>3. roles[k].replicas \in Int \cup {Nil} /\ roles[k].nodeCount \in Int \cup {Nil}
  BY <1>2, CountsAssumption DEF RoleRecords
<1>4. GetNodeCount(roles[k]) \in Int /\ GetReplicaCount(roles[k]) \in Int
  BY <1>3 DEF GetNodeCount, GetReplicaCount
<1> DEFINE I == ReplicaIndices(roles[k])
           b(i) == BuildLWS(roles, roles[k], i)
<1>5. \A i \in I : /\ b(i).task = GenerateTaskName(roles[k].name, i) /\ b(i).task # Nil
                   /\ b(i).size = GetNodeCount(roles[k])
  BY <1>1, GangTask
<1>6. \A i \in I : b(i).task = <<roles[k].name, i>>
  BY <1>5 DEF GenerateTaskName
<1>7. IsFiniteSet(I)
  BY <1>4, FS_Interval DEF ReplicaIndices
<1> DEFINE f == [i \in I |-> b(i)]
<1>8. f \in Bijection(I, ReplicasOf(k))
  <2>1. f \in [I -> ReplicasOf(k)]
    BY DEF ReplicasOf
  <2>2. \A i, j \in I : f[i] = f[j] => i = j
    <3> HIDE DEF I, b
    <3>1. \A i, j \in I : b(i) = b(j) => i = j
      BY <1>6
    <3> QED  BY <3>1
  <2>3. \A lws \in ReplicasOf(k) : \E i \in I : f[i] = lws
    BY DEF ReplicasOf
  <2> QED  BY <2>1, <2>2, <2>3 DEF Bijection, Injection, Surjection, IsInjective
<1>9. IsFiniteSet(ReplicasOf(k)) /\ Cardinality(ReplicasOf(k)) = Cardinality(I)
  <2> HIDE DEF f, I
  <2> QED  BY <1>7, <1>8, FS_Bijection DEF ExistsBijection
<1>10. ASSUME NEW lws \in ReplicasOf(k)
       PROVE  lws \in GangLWS /\ lws.size = GetNodeCount(roles[k]) /\ lws.task[1] = roles[k].name
  <2>1. PICK i \in I : lws = b(i)
    BY DEF ReplicasOf
  <2>2. lws \in LeaderWorkerSets
    BY <1>1, <2>1 DEF LeaderWorkerSets
  <2>3. lws.task = <<roles[k].name, i>> /\ lws.task # Nil /\ lws.size = GetNodeCount(roles[k])
    BY <1>5, <1>6, <2>1
  <2> QED  BY <2>2, <2>3 DEF GangLWS
<1> QED  BY <1>1, <1>4, <1>9, <1>10

(* The gang consists of them. *)
LEMMA GangIsReplicas ==
  ASSUME RolesOK
  PROVE  GangLWS = UNION {ReplicasOf(k) : k \in GangRoles(roles)}
<1>1. ASSUME NEW lws \in GangLWS
      PROVE  \E k \in GangRoles(roles) : lws \in ReplicasOf(k)
  <2>1. PICK k \in WorkerRoles(roles) : \E i \in ReplicaIndices(roles[k]) :
          lws = BuildLWS(roles, roles[k], i)
    BY DEF GangLWS, LeaderWorkerSets
  <2>2. PICK i \in ReplicaIndices(roles[k]) : lws = BuildLWS(roles, roles[k], i)
    BY <2>1
  <2>3. k \in GangRoles(roles)
    BY <2>2, GangTask DEF GangLWS
  <2> QED  BY <2>2, <2>3 DEF ReplicasOf
<1>2. \A k \in GangRoles(roles) : \A lws \in ReplicasOf(k) : lws \in GangLWS
  BY ReplicasInGang
<1> QED  BY <1>1, <1>2

(* For every manifest with distinct names minMember, which BuildPodGroup   *)
(* counts up replica by replica, is the number of pods of all              *)
(* LeaderWorkerSets annotated for the gang.                                *)
THEOREM MinMemberInEveryManifest == Spec => []MinMemberIsGangSize
<1>1. RolesOK => MinMemberIsGangSize
  <2> SUFFICES ASSUME RolesOK PROVE MinMemberIsGangSize
    OBVIOUS
  <2> DEFINE K == GangRoles(roles)
             f == [k \in K |-> ReplicasOf(k)]
             w == [lws \in GangLWS |-> lws.size]
             v == [k \in K |-> Cardinality(ReplicaIndices(roles[k])) * GetNodeCount(roles[k])]
  <2>1. BuildPodGroup(roles).minMember = SumFunctionOnSet(v, K)
    BY DEF BuildPodGroup, MinMember, SumFunction
  <2>2. SumFunction(w) = SumFunctionOnSet(w, GangLWS)
    BY DEF SumFunction
  <2>3. IsFiniteSet(K)
    <3>1. IsFiniteSet(DOMAIN roles)
      BY RoleFields, FS_Interval
    <3>2. K \subseteq DOMAIN roles
      BY DEF GangRoles
    <3> QED  BY <3>1, <3>2, FS_Subset
  <2>4. ASSUME NEW k \in K
        PROVE  /\ IsFiniteSet(f[k]) /\ \A x \in f[k] : w[x] \in Int
               /\ v[k] = SumFunctionOnSet(w, f[k])
    <3>1. f[k] = ReplicasOf(k)
      OBVIOUS
    <3>2. /\ GetNodeCount(roles[k]) \in Int /\ IsFiniteSet(ReplicasOf(k))
          /\ Cardinality(ReplicasOf(k)) = Cardinality(ReplicaIndices(roles[k]))
          /\ \A lws \in ReplicasOf(k) : lws \in GangLWS /\ lws.size = GetNodeCount(roles[k])
      BY ReplicasInGang
    <3>3. \A lws \in ReplicasOf(k) : w[lws] = GetNodeCount(roles[k])
      BY <3>2
    <3>4. v[k] = Cardinality(ReplicasOf(k)) * GetNodeCount(roles[k])
      BY <3>2
    <3> HIDE DEF w, v, f
    <3>5. SumFunctionOnSet(w, ReplicasOf(k)) = Cardinality(ReplicasOf(k)) * GetNodeCount(roles[k])
      BY <3>2, <3>3, SumConstant
    <3> QED  BY <3>1, <3>2, <3>3, <3>4, <3>5
  <2>5. ASSUME NEW j \in K, NEW k \in K, j # k
        PROVE  f[j] \cap f[k] = {}
    <3>1. roles[j].name # roles[k].name
      BY <2>5, RoleFields, NamesAssumption DEF GangRoles
    <3>2. /\ \A lws \in ReplicasOf(j) : lws.task[1] = roles[j].name
          /\ \A lws \in ReplicasOf(k) : lws.task[1] = roles[k].name
      BY ReplicasInGang
    <3> QED  BY <3>1, <3>2
  <2>6. UNION {f[k] : k \in K} = GangLWS
    BY GangIsReplicas
  <2> HIDE DEF K, f, w, v
  <2>7. SumFunctionOnSet(w, UNION {f[k] : k \in K}) = SumFunctionOnSet(v, K)
    BY <2>3, <2>4, <2>5, SumOfSums
  <2> QED  BY <2>1, <2>2, <2>6, <2>7 DEF MinMemberIsGangSize, w
<1> QED  BY <1>1, RolesAreOK, PTL
=============================================================================
