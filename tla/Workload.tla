------------------------------ MODULE Workload ------------------------------
(***************************************************************************)
(* pkg/workload/lws.go in the per-replica mode the controller uses (one    *)
(* LeaderWorkerSet with replicas = 1 for every replica of a role).         *)
(***************************************************************************)
EXTENDS Scheduling

(* buildPodSpec: the user's pod spec, or an empty one without a template, *)
(* with the Volcano scheduler for a gang-scheduled role.  entry is the    *)
(* command of the first container.                                        *)
BuildPodSpec(role, gang) ==
  [image     |-> IF role.template = Nil THEN Nil ELSE role.template.image,
   limits    |-> Containers(role),
   scheduler |-> IF gang THEN "volcano" ELSE "default",
   entry     |-> "user"]

(* The leader starts the Ray head, then the user's command; the worker's *)
(* command is replaced.                                                  *)
WrapLeaderContainer(pod) == [pod EXCEPT !.entry = "rayHead"]

WrapWorkerContainer(pod) == [pod EXCEPT !.entry = "rayWorker"]

(* Containers[0] of a multi-node pod spec without containers: an index   *)
(* out of range, hence a panic.                                          *)
BuildLWSPanics(role) == IsMultiNode(role) /\ Containers(role) = << >>

(* The spec of the LeaderWorkerSet for replica i of a role.  componentType, *)
(* roleName and replicaIndex are labels of both pod templates (and of the   *)
(* object), task the volcano.sh/task-spec annotation.                       *)
BuildLWS(roles, role, i) ==
  LET gang == NeedsGangSchedulingForRole(roles, role)
      pod  == BuildPodSpec(role, gang)
  IN  [size          |-> GetNodeCount(role),
       componentType |-> role.componentType,
       roleName      |-> role.name,
       replicaIndex  |-> i,
       task          |-> IF gang THEN GenerateTaskName(role.name, i) ELSE Nil,
       leader        |-> IF IsMultiNode(role) THEN WrapLeaderContainer(pod) ELSE Nil,
       worker        |-> IF IsMultiNode(role) THEN WrapWorkerContainer(pod) ELSE pod]
=============================================================================
