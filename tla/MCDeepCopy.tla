----------------------------- MODULE MCDeepCopy -----------------------------
(***************************************************************************)
(* Instance of DeepCopy for TLC: one object of each kind, and a list of    *)
(* each, with all optional fields, none of them, or all but one.           *)
(***************************************************************************)
EXTENDS DeepCopy

(* An optional reference field: nil unless its place is present. *)
At(present, place) == IF place \in present THEN <<Cache, place>> ELSE Nil

Plain == <<[type |-> "Plain", val |-> "v"]>>
Meta(present) == [type |-> "ObjectMeta", labels |-> At(present, "labels")]
Raw(present, place) == <<[type |-> "RawExtension", val |-> "v", raw |-> At(present, place)]>>

RoleOf(present) ==
  [type |-> "Role", val |-> "v",
   httpRoute |-> At(present, "httpRoute"), gateway |-> At(present, "gateway"),
   replicas |-> At(present, "replicas"), multinode |-> At(present, "multinode"),
   template |-> At(present, "template")]

InferenceServiceOf(present) ==
  [type |-> "InferenceService", val |-> "v", objectMeta |-> Meta(present),
   spec |-> [type |-> "InferenceServiceSpec", roles |-> At(present, "roles"),
             schedulingStrategy |-> At(present, "schedulingStrategy")],
   status |-> [type |-> "InferenceServiceStatus", conditions |-> At(present, "conditions"),
               components |-> At(present, "components")]]

ModelOf(type, present) ==
  [type |-> type, val |-> "v", objectMeta |-> Meta(present),
   spec |-> [type |-> "ModelSpec", lora |-> At(present, "lora"),
             prefetch |-> At(present, "prefetch"),
             source |-> [type |-> "ModelSource", credentialsRef |-> At(present, "credentialsRef")]],
   status |-> [type |-> "ModelStatus", prefetch |-> At(present, "prefetchStatus"),
               conditions |-> At(present, "conditions")]]

ModelLoaderOf(present) ==
  [type |-> "ModelLoader", val |-> "v", objectMeta |-> Meta(present),
   spec |-> [type |-> "ModelLoaderSpec", foo |-> At(present, "foo")],
   status |-> [type |-> "ModelLoaderStatus", conditions |-> At(present, "conditions")]]

(* The optional places of each kind. *)
Optional ==
  [InferenceService |-> {"labels", "roles", "schedulingStrategy", "conditions", "components",
                         "httpRoute", "gateway", "replicas", "multinode", "template",
                         "raw", "lastUpdateTime"},
   Model |-> {"labels", "lora", "prefetch", "credentialsRef", "prefetchStatus",
              "conditions", "nodeSelector"},
   ClusterModel |-> {"labels", "lora", "prefetch", "credentialsRef", "prefetchStatus",
                     "conditions", "nodeSelector"},
   ModelLoader |-> {"labels", "foo", "conditions"}]

PlacesDef == UNION {Optional[kind] : kind \in DOMAIN Optional} \cup {"object", "list", "remaining"}

Struct(kind, present) ==
  CASE kind = "InferenceService" -> InferenceServiceOf(present)
    [] kind = "ModelLoader"      -> ModelLoaderOf(present)
    [] OTHER                     -> ModelOf(kind, present)

(* What each place holds: two roles, the second without optional fields. *)
CellAt(kind, present, place) ==
  CASE place = "object"     -> <<Struct(kind, present)>>
    [] place = "list"       -> <<[type |-> "List", val |-> "v", items |-> <<Cache, "object">>,
                                  listMeta |-> [type |-> "ListMeta",
                                                remainingItemCount |-> At(present, "remaining")]]>>
    [] place = "roles"      -> <<RoleOf(present), RoleOf({})>>
    [] place = "template"   -> Raw(present, "raw")
    [] place \in {"httpRoute", "gateway"} -> Raw({}, Nil)
    [] place = "components" -> [w |-> [type |-> "ComponentStatus", val |-> "v",
                                       lastUpdateTime |-> At(present, "lastUpdateTime")]]
    [] place = "prefetch"   -> <<[type |-> "PrefetchSpec", val |-> "v",
                                  nodeSelector |-> At(present, "nodeSelector")]>>
    [] OTHER                -> Plain

Object(kind, present, top) ==
  LET places == present \cup {"object", top}
  IN  [root |-> <<Cache, top>>,
       heap |-> [a \in {<<Cache, p>> : p \in places} |-> CellAt(kind, present, a[2])]]

(* All of them, none, or all but one. *)
Choices(places) == {places, {}} \cup {places \ {p} : p \in places}

ObjectsDef ==
  UNION {{Object(kind, present, "object") : present \in Choices(Optional[kind])}
           \cup {Object(kind, present, "list") :
                   present \in Choices(Optional[kind] \cup {"remaining"})} :
           kind \in DOMAIN Optional}
=============================================================================
