------------------------------- MODULE Router -------------------------------
(***************************************************************************)
(* pkg/router: the objects that put a gateway route and an endpoint picker *)
(* (EPP) in front of the leader pods of a service.                         *)
(***************************************************************************)
EXTENDS Workload

(* GenerateEPPConfig: the user's EndpointPickerConfig if there is one, else *)
(* the plugin set of the strategy.  An unset strategy means prefix-cache,   *)
(* as does pd-disaggregation without both a prefiller and a decoder.        *)
GenerateEPPConfig(roles, role) ==
  CASE role.endpointPickerConfig # Nil -> <<"custom", role.endpointPickerConfig>>
    [] role.endpointPickerConfig = Nil /\
       role.strategy \in {"kv-cache-utilization", "queue-size", "lora-affinity"} ->
         <<"strategy", role.strategy>>
    [] role.endpointPickerConfig = Nil /\ role.strategy = "pd-disaggregation" /\
       IsPDDisaggregated(roles) -> <<"strategy", "pd-disaggregation">>
    [] OTHER -> <<"strategy", "prefix-cache">>

(* The roles Reconcile collects in workerRoles. *)
WorkerRoles(roles) == {k \in DOMAIN roles : ~IsRouter(roles[k])}

(* Mutant of BuildPoolSelector: it asks for the type of the first worker role. *)
BuildPoolSelectorFirst(roles) ==
  [componentType |-> IF WorkerRoles(roles) # {}
                       THEN roles[Min(WorkerRoles(roles))].componentType
                       ELSE Nil,
   workerIndex   |-> 0]

(* buildPoolSelector: the labels a pod must carry besides the service name. *)
(* The component type is required only when there is exactly one worker     *)
(* role; worker-index 0 keeps the leader pod of each replica.               *)
BuildPoolSelector(roles) ==
  [componentType |-> IF Cardinality(WorkerRoles(roles)) = 1
                       THEN roles[CHOOSE k \in WorkerRoles(roles) : TRUE].componentType
                       ELSE Nil,
   workerIndex   |-> 0]

(* The objects of reconcileRouter in the order it reconciles them. *)
RouterKinds ==
  <<"ServiceAccount", "Role", "RoleBinding", "ConfigMap",
    "Deployment", "Service", "InferencePool", "HTTPRoute">>

(* What each builder puts in the part of the object the spec hash covers.  *)
(* Four of them depend on the service name alone.                          *)
BuildEPPServiceAccount == "static"
BuildEPPRole           == "static"
BuildEPPRoleBinding    == "static"
BuildEPPService        == "static"

BuildEPPConfigMap(roles, role) == GenerateEPPConfig(roles, role)

(* The image of the running manager's environment is all that varies. *)
BuildEPPDeployment(eppImage) == eppImage

BuildInferencePool(roles) == BuildPoolSelector(roles)

(* The rules of the user's HTTPRoute are replaced by the pool backend. *)
BuildHTTPRoute(role) == [route |-> role.httproute, backend |-> "pool"]

BuildRouterObject(kind, roles, role, eppImage) ==
  CASE kind = "ServiceAccount" -> BuildEPPServiceAccount
    [] kind = "Role"           -> BuildEPPRole
    [] kind = "RoleBinding"    -> BuildEPPRoleBinding
    [] kind = "ConfigMap"      -> BuildEPPConfigMap(roles, role)
    [] kind = "Deployment"     -> BuildEPPDeployment(eppImage)
    [] kind = "Service"        -> BuildEPPService
    [] kind = "InferencePool"  -> BuildInferencePool(roles)
    [] kind = "HTTPRoute"      -> BuildHTTPRoute(role)
=============================================================================
