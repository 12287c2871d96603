----------------------------- MODULE MCManifest -----------------------------
(***************************************************************************)
(* Manifests of up to three roles: replicas unset, negative (the CRD       *)
(* admits it), one or two; single-node, nodeCount 1, two nodes.            *)
(***************************************************************************)
EXTENDS Manifest

NamesDef         == <<"a", "b", "c">>
ReplicaCountsDef == {Nil, -1, 2}
NodeCountsDef    == {Nil, 1, 2}
TemplatesDef     == {[image |-> "v", limits |-> <<1000, 2000>>]}
StrategiesDef    == {Nil, "queue-size", "pd-disaggregation"}
=============================================================================
