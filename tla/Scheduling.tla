----------------------------- MODULE Scheduling -----------------------------
(***************************************************************************)
(* pkg/scheduling/podgroup.go: which services and roles are gang           *)
(* scheduled, and the Volcano PodGroup built for a service.                *)
(***************************************************************************)
EXTENDS Roles, FiniteSetsExt, Functions

IsPDDisaggregated(roles) ==
  /\ \E k \in DOMAIN roles : roles[k].componentType = "prefiller"
  /\ \E k \in DOMAIN roles : roles[k].componentType = "decoder"

(* Mutant of NeedsGangScheduling: only disaggregated services get a PodGroup. *)
NeedsGangSchedulingPD(roles) == IsPDDisaggregated(roles)

NeedsGangScheduling(roles) ==
  \/ IsPDDisaggregated(roles)
  \/ \E k \in DOMAIN roles : ~IsRouter(roles[k]) /\ IsMultiNode(roles[k])

NeedsGangSchedulingForRole(roles, role) ==
  IF IsPDDisaggregated(roles)
    THEN role.componentType \in {"prefiller", "decoder"}
    ELSE IsMultiNode(role)

(* The task of one replica, {roleName}-{replicaIndex}.  The text determines *)
(* both parts, as the index is what follows the last dash.                  *)
GenerateTaskName(roleName, i) == <<roleName, i>>

(* The roles BuildPodGroup does not skip. *)
GangRoles(roles) ==
  {k \in DOMAIN roles : /\ ~IsRouter(roles[k])
                        /\ NeedsGangSchedulingForRole(roles, roles[k])}

(* The roles whose replica loop writes task t, and the tasks written. *)
TaskWriters(roles, t) ==
  {k \in GangRoles(roles) :
     \E i \in ReplicaIndices(roles[k]) : t = GenerateTaskName(roles[k].name, i)}

TaskNames(roles) ==
  UNION {{GenerateTaskName(roles[k].name, i) : i \in ReplicaIndices(roles[k])} :
           k \in GangRoles(roles)}

(* Mutant of MinTaskMember: a task has the pods of all replicas of its role. *)
MinTaskMemberOfRole(roles) ==
  [t \in TaskNames(roles) |->
     LET role == roles[Max(TaskWriters(roles, t))]
     IN  GetReplicaCount(role) * GetNodeCount(role)]

(* minTaskMember is a Go map: of two roles with one name the later wins, *)
(* while minMember counts the replicas of both.                          *)
MinTaskMember(roles) ==
  [t \in TaskNames(roles) |-> GetNodeCount(roles[Max(TaskWriters(roles, t))])]

(* Mutant of MinMember: the replica count is multiplied, not looped over. *)
MinMemberProduct(roles) ==
  SumFunction([k \in GangRoles(roles) |-> GetReplicaCount(roles[k]) * GetNodeCount(roles[k])])

MinMember(roles) ==
  SumFunction([k \in GangRoles(roles) |->
                 Cardinality(ReplicaIndices(roles[k])) * GetNodeCount(roles[k])])

(* quantity.Value(): thousandths rounded up to a whole unit. *)
QuantityValue(milli) == (milli + 999) \div 1000

(* What addRoleResources adds, in thousandths: the rounded limit of every *)
(* container times totalPods (negative when replicas is).                 *)
RoleResources(role, totalPods) ==
  SumFunction([c \in DOMAIN Containers(role) |->
                 QuantityValue(Containers(role)[c]) * totalPods * 1000])

MinResources(roles) ==
  SumFunction([k \in GangRoles(roles) |->
                 RoleResources(roles[k], GetReplicaCount(roles[k]) * GetNodeCount(roles[k]))])

BuildPodGroup(roles) ==
  [minMember     |-> MinMember(roles),
   minTaskMember |-> MinTaskMember(roles),
   minResources  |-> MinResources(roles)]
=============================================================================
