------------------------------- MODULE Status -------------------------------
(***************************************************************************)
(* The status of an InferenceService: the conditions of                    *)
(* pkg/controller/condition.go and the component summary that              *)
(* updateComponentStatusInMemory derives from the LeaderWorkerSets it has  *)
(* read.  A service is a record with the fields uid, generation, spec (its *)
(* roles) and the status fields observedGeneration, conditions and         *)
(* components.  Times and messages are left out; where they decide whether *)
(* a status write changes the object, the module Reconciler says so.       *)
(***************************************************************************)
EXTENDS Router

(* No condition of a type is "Unset". *)
NoConditions == [Initialized |-> "Unset", Active |-> "Unset", Failed |-> "Unset"]

NewService(uid, spec) ==
  [uid |-> uid, generation |-> 1, spec |-> spec, observedGeneration |-> 0,
   conditions |-> NoConditions, components |-> << >>]

SetCondition(svc, type, value) ==
  [svc EXCEPT !.conditions = [@ EXCEPT ![type] = value],
              !.observedGeneration = svc.generation]

SetInitCondition(svc)       == SetCondition(svc, "Initialized", "True")
SetProcessingCondition(svc) == SetCondition(svc, "Active", "False")
SetFailedCondition(svc)     == SetCondition(svc, "Failed", "True")
SetActiveCondition(svc)     == SetCondition(svc, "Active", "True")

(* aggregateLWSStatus and the fields its caller adds, for one role: running *)
(* and started are the indices of the replicas whose LeaderWorkerSet        *)
(* reported a ready replica, and any replica.                               *)
AggregateLWSStatus(role, running, started) ==
  LET ready   == Cardinality(running)
      desired == GetReplicaCount(role)
      nodes   == GetNodeCount(role)
  IN  [desiredReplicas |-> desired,
       readyReplicas   |-> ready,
       nodesPerReplica |-> nodes,
       totalPods       |-> desired * nodes,
       readyPods       |-> ready * nodes,
       phase           |-> CASE ready >= desired -> "Running"
                             [] ready < desired /\ (running # {} \/ started # {}) ->
                                  "Deploying"
                             [] OTHER -> "Pending"]

(* The component map for a spec, given the <<role name, index>> pairs read  *)
(* as running and started.  It is a Go map keyed by role name: of two roles *)
(* with one name the later wins.                                            *)
Components(spec, running, started) ==
  LET IndicesOf(role, pairs) == {j \in ReplicaIndices(role) : <<role.name, j>> \in pairs}
  IN  [n \in {spec[k].name : k \in WorkerRoles(spec)} |->
         LET role == spec[Max({k \in WorkerRoles(spec) : spec[k].name = n})]
         IN  AggregateLWSStatus(role, IndicesOf(role, running), IndicesOf(role, started))]

CheckAllComponentsReady(components) ==
  /\ DOMAIN components # {}
  /\ \A n \in DOMAIN components : components[n].phase = "Running"
=============================================================================
