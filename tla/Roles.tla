------------------------------- MODULE Roles -------------------------------
(***************************************************************************)
(* The specification of an InferenceService: a non-empty sequence of roles *)
(* (api/core/v1alpha1/inferenceservice_types.go).  One service is          *)
(* modelled, so the service name and the namespace, which every generated  *)
(* object name and label carries, are left out throughout.                 *)
(*                                                                         *)
(* A role is a record with the fields                                      *)
(*   name           the role's name                                        *)
(*   componentType  "router", "prefiller", "decoder" or "worker"           *)
(*   replicas       an int32, or Nil for the nil pointer; the CRD sets no  *)
(*                  minimum, so zero and negative values are admitted      *)
(*   nodeCount      multinode.nodeCount (at least 1), or Nil without a     *)
(*                  multinode block                                        *)
(*   template       Nil (absent, or not parsable as a PodTemplateSpec) or  *)
(*                  a record: image stands for everything the user writes  *)
(*                  in the pod spec, limits has one entry per container,   *)
(*                  its resource limit in thousandths (0: no limit set)    *)
(*   strategy, endpointPickerConfig, httproute   the router's fields; Nil  *)
(*                  is the unset value of each                             *)
(* The fields gateway and spec.schedulingStrategy are read by no code.     *)
(***************************************************************************)
EXTENDS Integers, Sequences

CONSTANT Nil        \* a nil pointer, an unset field, an absent object

ASSUME NilAssumption == Nil \notin Int

IsRouter(role) == role.componentType = "router"

(* Multi-node means two nodes or more; nodeCount 1 is a single-node role. *)
IsMultiNode(role) == role.nodeCount # Nil /\ role.nodeCount >= 2

GetNodeCount(role) ==
  IF role.nodeCount # Nil /\ role.nodeCount >= 1 THEN role.nodeCount ELSE 1

GetReplicaCount(role) == IF role.replicas # Nil THEN role.replicas ELSE 1

(* The replica indices of the loops  for i := 0; i < replicas; i++ . *)
ReplicaIndices(role) == 0 .. GetReplicaCount(role) - 1

(* The containers of the role's pod spec, each by its resource limit. *)
Containers(role) == IF role.template = Nil THEN << >> ELSE role.template.limits
=============================================================================
