---------------------------- MODULE MCReconciler ----------------------------
(***************************************************************************)
(* Instances of Reconciler for TLC.                                        *)
(***************************************************************************)
EXTENDS Reconciler

(* A hash without collisions. *)
HashDef(content) == content

Template(image) == [image |-> image, limits |-> <<1000>>]

Worker(name, type, replicas, nodes, template) ==
  [name |-> name, componentType |-> type, replicas |-> replicas, nodeCount |-> nodes,
   template |-> template, strategy |-> Nil, endpointPickerConfig |-> Nil, httproute |-> Nil]

RouterRole(strategy, route) ==
  [name |-> "router", componentType |-> "router", replicas |-> Nil, nodeCount |-> Nil,
   template |-> Nil, strategy |-> strategy, endpointPickerConfig |-> Nil,
   httproute |-> route]

(* Monolithic serving: two multi-node replicas, scaled down to one, and to *)
(* one single-node replica with another image.                             *)
MonolithicSpecs ==
  {<<Worker("w", "worker", 2, 2, Template("v1"))>>,
   <<Worker("w", "worker", 1, 2, Template("v1"))>>,
   <<Worker("w", "worker", Nil, Nil, Template("v2"))>>}

(* Roles without a usable template: the multi-node one makes BuildLWS panic, *)
(* the LeaderWorkerSet of the other is refused.                              *)
BrokenSpecs ==
  {<<Worker("w", "worker", 1, 2, Nil)>>,
   <<Worker("w", "worker", 1, Nil, [image |-> "v1", limits |-> << >>])>>}

(* Services that work and services an edit breaks or repairs. *)
WorkloadSpecs == MonolithicSpecs \cup BrokenSpecs

(* One worker with one single-node replica, which gets another image or is *)
(* scaled to zero.                                                          *)
LifecycleSpecs ==
  {<<Worker("w", "worker", 1, Nil, Template("v1"))>>,
   <<Worker("w", "worker", 1, Nil, Template("v2"))>>,
   <<Worker("w", "worker", 0, Nil, Template("v1"))>>}

(* A service and its successor of the same name: one leaves a surplus replica *)
(* to the other, which leaves a PodGroup.                                     *)
RecreateSpecs ==
  {<<Worker("w", "worker", 2, Nil, Template("v1"))>>,
   <<Worker("w", "worker", 1, 2, Template("v1"))>>}

(* A router whose strategy and route change together with the component type *)
(* of the only worker role, which the pool selector names; the role is       *)
(* scaled to zero.                                                           *)
RouterSpecs ==
  {<<RouterRole("pd-disaggregation", "r1"), Worker("w", "decoder", 0, Nil, Template("v1"))>>,
   <<Worker("w", "worker", 0, Nil, Template("v1")), RouterRole("queue-size", "r2")>>}

(* A role is renamed. *)
RenameSpecs ==
  {<<Worker(name, "worker", 1, Nil, Template("v1"))>> : name \in {"w", "x"}}

(* A role goes from two nodes to one. *)
NodeSpecs ==
  {<<Worker("w", "worker", 1, nodes, Template("v1"))>> : nodes \in {1, 2}}
=============================================================================
