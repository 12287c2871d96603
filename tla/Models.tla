------------------------------- MODULE Models -------------------------------
(***************************************************************************)
(* Models and ClusterModels in the API server                              *)
(* (api/core/v1alpha1/model_types.go).  No controller of the repository    *)
(* acts on them: what they promise rests on the validation rules of their  *)
(* types, which the API server evaluates on every create and update,       *)
(* whichever client method brings it.  A rule that mentions oldSelf is     *)
(* evaluated on updates only, and only if the field it stands at is in     *)
(* the old and in the new object.                                          *)
(*                                                                         *)
(* One namespace is modelled.  Patterns and lengths of strings are reduced *)
(* to one value that has the wrong form.                                   *)
(***************************************************************************)
EXTENDS Integers, Sequences, FiniteSets

CONSTANTS
  Names,          \* names of objects
  URIs,           \* values for source.uri
  Credentials,    \* names of Secrets
  NodeSelectors, NodeNames,
  Counts,         \* values of the counters in a status
  Malformed,      \* a string that no pattern admits
  MaxCreates,     \* bound: objects created
  Nil             \* an absent field, an absent object

Kinds == {"Model", "ClusterModel"}

ASSUME ConstantsAssumption == Nil \notin URIs /\ MaxCreates \in Nat

LoRAs == [kind: Kinds \cup {Malformed}, name: Names \cup {Malformed}]

Prefetches == [nodeSelector: NodeSelectors \cup {Nil}, nodeName: NodeNames \cup {Nil}]

(* What clients may send as a spec, valid or not. *)
ModelSpecs ==
  [uri: URIs, credentialsRef: Credentials \cup {Nil}, lora: LoRAs \cup {Nil},
   prefetch: Prefetches \cup {Nil}]

PrefetchStatuses == [desiredNodes: Counts, readyNodes: Counts, failedNodes: Counts]

VARIABLES
  store,      \* the object at each <<kind, name>>, or Nil
  artifacts   \* what each object created so far, by uid, was created as

vars == <<store, artifacts>>

Keys == Kinds \X Names

(* An object names an artifact: where it is and what it adapts. *)
Artifact(spec) == [uri |-> spec.uri, lora |-> spec.lora]

Init == store = [k \in Keys |-> Nil] /\ artifacts = << >>
-----------------------------------------------------------------------------
(* Validation. *)

ValidSource(spec) == spec.uri # Malformed /\ spec.credentialsRef # Malformed

(* uri is required, so its transition rule always applies to an update. *)
SameURI(old, new) == new.uri = old.uri

ValidLoRA(spec) ==
  spec.lora # Nil => spec.lora.kind \in Kinds /\ spec.lora.name # Malformed

ValidPrefetch(spec) ==
  spec.prefetch # Nil => /\ spec.prefetch.nodeSelector = Nil \/ spec.prefetch.nodeName = Nil
                         /\ spec.prefetch.nodeName # Malformed

(* Mutant of SameLoRA: the rule at the field without the one at the spec. *)
SameLoRAIfBoth(old, new) == old.lora # Nil /\ new.lora # Nil => new.lora = old.lora

(* "lora is immutable", where both have it, and "lora cannot be added or *)
(* removed".                                                             *)
SameLoRA(old, new) ==
  /\ old.lora # Nil /\ new.lora # Nil => new.lora = old.lora
  /\ (new.lora # Nil) = (old.lora # Nil)

(* "cluster-scoped LoRA artifacts must reference a ClusterModel" *)
ValidForScope(kind, spec) ==
  kind = "ClusterModel" /\ spec.lora # Nil => spec.lora.kind = "ClusterModel"

Valid(kind, spec) ==
  ValidSource(spec) /\ ValidLoRA(spec) /\ ValidPrefetch(spec) /\ ValidForScope(kind, spec)

ValidStatus(prefetch) ==
  /\ prefetch.desiredNodes >= 0 /\ prefetch.readyNodes >= 0 /\ prefetch.failedNodes >= 0
-----------------------------------------------------------------------------
(* Requests the API server admits. *)

Create(k) ==
  /\ store[k] = Nil /\ Len(artifacts) < MaxCreates
  /\ \E spec \in ModelSpecs :
       /\ Valid(k[1], spec)
       /\ artifacts' = Append(artifacts, Artifact(spec))
       /\ store' = [store EXCEPT ![k] = [uid |-> Len(artifacts'), spec |-> spec,
                                         prefetchStatus |-> Nil]]

(* Update, Patch or Apply: the status sent along is ignored. *)
Update(k) ==
  /\ store[k] # Nil
  /\ \E spec \in ModelSpecs \ {store[k].spec} :
       /\ Valid(k[1], spec) /\ SameURI(store[k].spec, spec) /\ SameLoRA(store[k].spec, spec)
       /\ store' = [store EXCEPT ![k].spec = spec]
  /\ UNCHANGED artifacts

(* UpdateStatus: the spec sent along is ignored. *)
UpdateStatus(k) ==
  /\ store[k] # Nil
  /\ \E prefetch \in PrefetchStatuses :
       ValidStatus(prefetch) /\ store' = [store EXCEPT ![k].prefetchStatus = prefetch]
  /\ UNCHANGED artifacts

Delete(k) ==
  /\ store[k] # Nil
  /\ store' = [store EXCEPT ![k] = Nil]
  /\ UNCHANGED artifacts

Next == \E k \in Keys : Create(k) \/ Update(k) \/ UpdateStatus(k) \/ Delete(k)

Spec == Init /\ [][Next]_vars
-----------------------------------------------------------------------------
(* Properties. *)

(* "Immutable model artifacts" (docs/design/model.md): an object stands for *)
(* the artifact it was created as for as long as it exists, through every   *)
(* sequence of updates; what was downloaded for it stays valid.             *)
ArtifactIsFixed ==
  \A k \in Keys : store[k] # Nil => Artifact(store[k].spec) = artifacts[store[k].uid]
=============================================================================
