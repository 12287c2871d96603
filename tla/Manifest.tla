------------------------------ MODULE Manifest ------------------------------
(***************************************************************************)
(* Every manifest a user can write, one role at a time, and what must hold *)
(* between the objects the builders derive from it: the PodGroup, the      *)
(* LeaderWorkerSets it gangs together, the InferencePool and the endpoint  *)
(* picker configuration.  Role names are distinct.                         *)
(***************************************************************************)
EXTENDS Router

CONSTANTS
  Names,          \* role names, in the order they are used
  ReplicaCounts,  \* values of replicas (and Nil)
  NodeCounts,     \* values of multinode.nodeCount (and Nil)
  Templates,      \* pod templates (and Nil)
  Strategies      \* routing strategies (and Nil)

ASSUME NamesAssumption ==
  /\ Len(Names) \in Nat /\ DOMAIN Names = 1 .. Len(Names)
  /\ \A j, k \in DOMAIN Names : Names[j] = Names[k] => j = k

ASSUME CountsAssumption == ReplicaCounts \cup NodeCounts \subseteq Int \cup {Nil}

(* An annotation that is set is not the unset one. *)
ASSUME TaskAssumption ==
  \A k \in DOMAIN Names, replicas \in (ReplicaCounts \ {Nil}) \cup {1} :
    \A i \in 0 .. replicas - 1 : GenerateTaskName(Names[k], i) # Nil

VARIABLE roles

Init == roles = << >>

AddWorker ==
  /\ Len(roles) < Len(Names)
  /\ \E type \in {"worker", "prefiller", "decoder"}, replicas \in ReplicaCounts,
        nodes \in NodeCounts, template \in Templates :
       roles' = Append(roles,
         [name |-> Names[Len(roles) + 1], componentType |-> type, replicas |-> replicas,
          nodeCount |-> nodes, template |-> template,
          strategy |-> Nil, endpointPickerConfig |-> Nil, httproute |-> Nil])

AddRouter ==
  /\ Len(roles) < Len(Names)
  /\ \E strategy \in Strategies :
       roles' = Append(roles,
         [name |-> Names[Len(roles) + 1], componentType |-> "router", replicas |-> Nil,
          nodeCount |-> Nil, template |-> Nil,
          strategy |-> strategy, endpointPickerConfig |-> Nil, httproute |-> Nil])

Next == AddWorker \/ AddRouter

Spec == Init /\ [][Next]_roles
-----------------------------------------------------------------------------
(* The LeaderWorkerSets of the manifest, and those in the gang. *)
LeaderWorkerSets ==
  UNION {{BuildLWS(roles, roles[k], i) : i \in ReplicaIndices(roles[k])} :
           k \in WorkerRoles(roles)}

GangLWS == {lws \in LeaderWorkerSets : lws.task # Nil}

(* Reconcile creates a PodGroup by NeedsGangScheduling and annotates pods   *)
(* by NeedsGangSchedulingForRole.  The two agree: a PodGroup is built       *)
(* exactly if some worker role is gang scheduled, so no pod waits for a     *)
(* PodGroup that is never created.  (A gang scheduled role may still have   *)
(* no pods: with replicas <= 0 its PodGroup has no members.)                *)
GangDecisionsAgree ==
  NeedsGangScheduling(roles)
    <=> \E k \in WorkerRoles(roles) : NeedsGangSchedulingForRole(roles, roles[k])

(* The PodGroup's minTaskMember has exactly the task-spec annotations of   *)
(* the gang's pods as keys, and asks of each task the pods its             *)
(* LeaderWorkerSet has: a task with fewer could never be scheduled.        *)
TasksMatchLWS ==
  LET tasks == BuildPodGroup(roles).minTaskMember
  IN  /\ DOMAIN tasks = {lws.task : lws \in GangLWS}
      /\ \A lws \in GangLWS : tasks[lws.task] = lws.size

(* minMember is the number of pods of the gang; one more and Volcano would *)
(* never admit it.                                                         *)
MinMemberIsGangSize ==
  BuildPodGroup(roles).minMember = SumFunction([lws \in GangLWS |-> lws.size])

(* The pool's selector matches the labels of every leader pod, so every     *)
(* replica of every worker role can be routed to; and when the endpoint     *)
(* picker splits prefill from decode, the pool has roles of both types.     *)
PoolSelectsEveryLeader ==
  LET selector == BuildPoolSelector(roles)
      Selects(type) == selector.componentType \in {Nil, type}
  IN  /\ \A lws \in LeaderWorkerSets : Selects(lws.componentType)
      /\ \A k \in DOMAIN roles \ WorkerRoles(roles) :
           GenerateEPPConfig(roles, roles[k]) = <<"strategy", "pd-disaggregation">> =>
             \A type \in {"prefiller", "decoder"} :
               Selects(type) /\ \E m \in WorkerRoles(roles) : roles[m].componentType = type

(* podgroup.go: gang scheduling is needed for multi-node deployments.  All  *)
(* pods of a multi-node replica belong to the gang.                         *)
MultiNodeIsGangScheduled ==
  \A lws \in LeaderWorkerSets : lws.size >= 2 => lws.task # Nil
=============================================================================
