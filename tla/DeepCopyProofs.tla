--------------------------- MODULE DeepCopyProofs ---------------------------
(***************************************************************************)
(* Proofs about DeepCopy, for every set of readers and every set of        *)
(* objects: a copy is equal to what was copied, and no write through one   *)
(* object shows in another.                                                *)
(***************************************************************************)
EXTENDS DeepCopy, TLAPS

(* The heap stays well formed; what a party has is its own, and all of it *)
(* is within reach.                                                       *)
IInv ==
  /\ IsHeap(heap)
  /\ root \in [Parties -> DOMAIN heap \cup {Nil}]
  /\ \A p \in Parties :
       root[p] # Nil => /\ root[p][1] = p
                        /\ Follow(heap, Reach(heap, root[p])) = Reach(heap, root[p])
  /\ last \in Parties
-----------------------------------------------------------------------------
(* Addresses of copies. *)

(* A copy's address is the reader's, at the same place, and never nil. *)
LEMMA NewFacts ==
  ASSUME NEW r \in Parties, NEW a \in Parties \X Places
  PROVE  /\ New(r, a) = <<r, a[2]>> /\ New(r, a) \in Parties \X Places
         /\ New(r, a)[1] = r /\ New(r, a)[2] = a[2]
         /\ New(r, a) # Nil /\ a # Nil
BY ObjectsAssumption DEF New

(* Two cells of one owner have different copies. *)
LEMMA NewInjective ==
  ASSUME NEW r \in Parties, NEW a \in Parties \X Places, NEW b \in Parties \X Places,
         a[1] = b[1], New(r, a) = New(r, b)
  PROVE  a = b
BY NewFacts

(* The addresses copied for S. *)
Image(r, S) == {New(r, a) : a \in S}
-----------------------------------------------------------------------------
(* One struct. *)

(* c is s with its references moved to r. *)
Moved(r, s, c) ==
  /\ c.type = s.type /\ DOMAIN c = DOMAIN s
  /\ \A f \in RefFields[s.type] : c[f] = New(r, s[f])

(* The references a struct of the type holds are addresses. *)
LEMMA DirectMoved ==
  ASSUME NEW r \in Parties, NEW s, NEW c, Moved(r, s, c), Direct(s) \subseteq Parties \X Places
  PROVE  Direct(c) = Image(r, Direct(s))
<1>1. ASSUME NEW f \in RefFields[s.type], s[f] # Nil
      PROVE  c[f] # Nil /\ c[f] = New(r, s[f]) /\ s[f] \in Direct(s)
  BY <1>1, NewFacts DEF Moved, Direct
<1>2. ASSUME NEW f \in RefFields[s.type], s[f] = Nil
      PROVE  c[f] = Nil
  BY <1>2 DEF Moved, New
<1>3. c.type = s.type
  BY DEF Moved
<1> QED BY <1>1, <1>2, <1>3 DEF Direct, Image

(* The types without embedded structs that a cell holds. *)
LEMMA FlatTypes ==
  /\ RefFields["Role"] = {"httpRoute", "gateway", "replicas", "multinode", "template"}
  /\ RefFields["ComponentStatus"] = {"lastUpdateTime"}
  /\ RefFields["RawExtension"] = {"raw"}
  /\ RefFields["PrefetchSpec"] = {"nodeSelector"}
  /\ RefFields["Plain"] = {}
  /\ \A t \in {"Role", "ComponentStatus", "RawExtension", "PrefetchSpec", "Plain"} :
       Embedded[t] = {}
BY DEF RefFields, Embedded

LEMMA NestedTypes ==
  /\ RefFields["InferenceService"] = {} /\ RefFields["Model"] = {}
  /\ RefFields["ClusterModel"] = {} /\ RefFields["ModelLoader"] = {}
  /\ RefFields["ObjectMeta"] = {"labels"}
  /\ RefFields["InferenceServiceSpec"] = {"roles", "schedulingStrategy"}
  /\ RefFields["InferenceServiceStatus"] = {"conditions", "components"}
  /\ RefFields["ModelSpec"] = {"lora", "prefetch"}
  /\ RefFields["ModelSource"] = {"credentialsRef"}
  /\ RefFields["ModelStatus"] = {"prefetch", "conditions"}
  /\ RefFields["ModelLoaderSpec"] = {"foo"}
  /\ RefFields["ModelLoaderStatus"] = {"conditions"}
  /\ \A t \in {"InferenceService", "Model", "ClusterModel", "ModelLoader"} :
       Embedded[t] = {"objectMeta", "spec", "status"}
  /\ Embedded["ModelSpec"] = {"source"}
  /\ RefFields["List"] = {"items"} /\ Embedded["List"] = {"listMeta"}
  /\ RefFields["ListMeta"] = {"remainingItemCount"} /\ Embedded["ListMeta"] = {}
  /\ \A t \in {"ObjectMeta", "InferenceServiceSpec", "InferenceServiceStatus", "ModelSource",
               "ModelStatus", "ModelLoaderSpec", "ModelLoaderStatus"} : Embedded[t] = {}
BY DEF RefFields, Embedded

(* Flat structs are moved whole by the DeepCopyInto of their type. *)
LEMMA FlatCopied ==
  ASSUME NEW r \in Parties, NEW s, NEW t, IsOf(t, s), "val" \in DOMAIN s,
         t \in {"Role", "ComponentStatus", "RawExtension", "PrefetchSpec", "Plain"}
  PROVE  /\ Moved(r, s, DeepCopyInto(r, s))
         /\ DeepCopyInto(r, s).val = s.val
         /\ IsOf(t, DeepCopyInto(r, s))
<1> DEFINE c == DeepCopyInto(r, s)
<1> SUFFICES Moved(r, s, c) /\ c.val = s.val
  BY DEF Moved, IsOf
<1>0. s.type = t /\ RefFields[t] \subseteq DOMAIN s /\ "type" \in DOMAIN s
  BY DEF IsOf
<1>1. CASE t = "Role"
  <2>1. c = RoleDeepCopyInto(r, s)
    BY <1>0, <1>1 DEF DeepCopyInto
  <2> QED BY <2>1, <1>0, <1>1, FlatTypes DEF RoleDeepCopyInto, Moved
<1>2. CASE t = "ComponentStatus"
  <2>1. c = ComponentStatusDeepCopyInto(r, s)
    BY <1>0, <1>2 DEF DeepCopyInto
  <2> QED BY <2>1, <1>0, <1>2, FlatTypes DEF ComponentStatusDeepCopyInto, Moved
<1>3. CASE t = "RawExtension"
  <2>1. c = RawExtensionDeepCopyInto(r, s)
    BY <1>0, <1>3 DEF DeepCopyInto
  <2> QED BY <2>1, <1>0, <1>3, FlatTypes DEF RawExtensionDeepCopyInto, Moved
<1>4. CASE t = "PrefetchSpec"
  <2>1. c = PrefetchSpecDeepCopyInto(r, s)
    BY <1>0, <1>4 DEF DeepCopyInto
  <2> QED BY <2>1, <1>0, <1>4, FlatTypes DEF PrefetchSpecDeepCopyInto, Moved
<1>5. CASE t = "Plain"
  <2>1. c = s
    BY <1>0, <1>5 DEF DeepCopyInto, PlainDeepCopyInto
  <2> QED BY <2>1, <1>0, <1>5, FlatTypes DEF Moved
<1> QED BY <1>1, <1>2, <1>3, <1>4, <1>5

(* A list and its metadata are. *)
LEMMA ListCopied ==
  ASSUME NEW r \in Parties, NEW s
  PROVE  /\ IsOf("ListMeta", s) => Moved(r, s, ListMetaDeepCopyInto(r, s))
         /\ IsOf("List", s) =>
              /\ Moved(r, s, ListDeepCopyInto(r, s))
              /\ ListDeepCopyInto(r, s).listMeta = ListMetaDeepCopyInto(r, s.listMeta)
              /\ "val" \in DOMAIN s => ListDeepCopyInto(r, s).val = s.val
<1>1. IsOf("ListMeta", s) => Moved(r, s, ListMetaDeepCopyInto(r, s))
  BY NestedTypes DEF IsOf, Moved, ListMetaDeepCopyInto
<1>2. IsOf("List", s) =>
        /\ Moved(r, s, ListDeepCopyInto(r, s))
        /\ ListDeepCopyInto(r, s).listMeta = ListMetaDeepCopyInto(r, s.listMeta)
        /\ "val" \in DOMAIN s => ListDeepCopyInto(r, s).val = s.val
  BY NestedTypes DEF IsOf, Moved, ListDeepCopyInto
<1> QED BY <1>1, <1>2

(* So are the structs embedded in an InferenceService. *)
LEMMA InferenceServicePartsCopied ==
  ASSUME NEW r \in Parties, NEW s
  PROVE  /\ IsOf("ObjectMeta", s) => Moved(r, s, ObjectMetaDeepCopyInto(r, s))
         /\ IsOf("InferenceServiceSpec", s) => Moved(r, s, InferenceServiceSpecDeepCopyInto(r, s))
         /\ IsOf("InferenceServiceStatus", s) => Moved(r, s, InferenceServiceStatusDeepCopyInto(r, s))
<1>1. IsOf("ObjectMeta", s) => Moved(r, s, ObjectMetaDeepCopyInto(r, s))
  BY NestedTypes DEF IsOf, Moved, ObjectMetaDeepCopyInto
<1>2. IsOf("InferenceServiceSpec", s) => Moved(r, s, InferenceServiceSpecDeepCopyInto(r, s))
  BY NestedTypes DEF IsOf, Moved, InferenceServiceSpecDeepCopyInto
<1>3. IsOf("InferenceServiceStatus", s) => Moved(r, s, InferenceServiceStatusDeepCopyInto(r, s))
  BY NestedTypes DEF IsOf, Moved, InferenceServiceStatusDeepCopyInto
<1> QED BY <1>1, <1>2, <1>3

(* And in a Model, a ClusterModel and a ModelLoader. *)
LEMMA ModelPartsCopied ==
  ASSUME NEW r \in Parties, NEW s
  PROVE  /\ IsOf("ModelSpec", s) => Moved(r, s, ModelSpecDeepCopyInto(r, s))
         /\ IsOf("ModelSpec", s) => ModelSpecDeepCopyInto(r, s).source = ModelSourceDeepCopyInto(r, s.source)
         /\ IsOf("ModelSource", s) => Moved(r, s, ModelSourceDeepCopyInto(r, s))
         /\ IsOf("ModelStatus", s) => Moved(r, s, ModelStatusDeepCopyInto(r, s))
         /\ IsOf("ModelLoaderSpec", s) => Moved(r, s, ModelLoaderSpecDeepCopyInto(r, s))
         /\ IsOf("ModelLoaderStatus", s) => Moved(r, s, ModelLoaderStatusDeepCopyInto(r, s))
<1>1. IsOf("ModelSpec", s) =>
        /\ Moved(r, s, ModelSpecDeepCopyInto(r, s))
        /\ ModelSpecDeepCopyInto(r, s).source = ModelSourceDeepCopyInto(r, s.source)
  BY NestedTypes DEF IsOf, Moved, ModelSpecDeepCopyInto
<1>2. IsOf("ModelSource", s) => Moved(r, s, ModelSourceDeepCopyInto(r, s))
  BY NestedTypes DEF IsOf, Moved, ModelSourceDeepCopyInto
<1>3. IsOf("ModelStatus", s) => Moved(r, s, ModelStatusDeepCopyInto(r, s))
  BY NestedTypes DEF IsOf, Moved, ModelStatusDeepCopyInto
<1>4. IsOf("ModelLoaderSpec", s) => Moved(r, s, ModelLoaderSpecDeepCopyInto(r, s))
  BY NestedTypes DEF IsOf, Moved, ModelLoaderSpecDeepCopyInto
<1>5. IsOf("ModelLoaderStatus", s) => Moved(r, s, ModelLoaderStatusDeepCopyInto(r, s))
  BY NestedTypes DEF IsOf, Moved, ModelLoaderStatusDeepCopyInto
<1> QED BY <1>1, <1>2, <1>3, <1>4, <1>5

(* A moved struct is of the type of the original. *)
LEMMA MovedIsOf ==
  ASSUME NEW r, NEW s, NEW c, NEW t, IsOf(t, s), Moved(r, s, c)
  PROVE  IsOf(t, c)
BY DEF IsOf, Moved

(* The five kinds a cell's struct is of. *)
FlatType == {"Role", "ComponentStatus", "RawExtension", "PrefetchSpec", "Plain"}

IsList(s) == IsOf("List", s) /\ IsOf("ListMeta", s.listMeta)

IsService(s) ==
  /\ IsOf("InferenceService", s) /\ IsOf("ObjectMeta", s.objectMeta)
  /\ IsOf("InferenceServiceSpec", s.spec) /\ IsOf("InferenceServiceStatus", s.status)

IsModel(t, s) ==
  /\ IsOf(t, s) /\ IsOf("ObjectMeta", s.objectMeta) /\ IsOf("ModelSpec", s.spec)
  /\ IsOf("ModelSource", s.spec.source) /\ IsOf("ModelStatus", s.status)

IsLoader(s) ==
  /\ IsOf("ModelLoader", s) /\ IsOf("ObjectMeta", s.objectMeta)
  /\ IsOf("ModelLoaderSpec", s.spec) /\ IsOf("ModelLoaderStatus", s.status)

LEMMA StructKinds ==
  ASSUME NEW s
  PROVE  IsStruct(s) <=> /\ "val" \in DOMAIN s
                         /\ \/ \E t \in FlatType : IsOf(t, s)
                            \/ IsList(s)
                            \/ IsService(s)
                            \/ \E t \in {"Model", "ClusterModel"} : IsModel(t, s)
                            \/ IsLoader(s)
BY DEF IsStruct, FlatType, IsList, IsService, IsModel, IsLoader

(* The addresses in a struct of each kind. *)
LEMMA AddressesOf ==
  ASSUME NEW s
  PROVE  /\ \A t \in FlatType : IsOf(t, s) => Addresses(s) = Direct(s)
         /\ IsList(s) => Addresses(s) = Direct(s) \cup Direct(s.listMeta)
         /\ IsService(s) \/ IsLoader(s) =>
              Addresses(s) = Direct(s.objectMeta) \cup Direct(s.spec) \cup Direct(s.status)
         /\ \A t \in {"Model", "ClusterModel"} : IsModel(t, s) =>
              Addresses(s) = Direct(s.objectMeta) \cup Direct(s.spec) \cup Direct(s.status)
                               \cup Direct(s.spec.source)
<1>1. ASSUME NEW t \in FlatType, IsOf(t, s)
      PROVE  Addresses(s) = Direct(s)
  <2>1. Embedded[s.type] = {}
    BY <1>1, FlatTypes DEF FlatType, IsOf
  <2> QED BY <2>1 DEF Addresses
<1>2. ASSUME Embedded[s.type] = {"objectMeta", "spec", "status"}, RefFields[s.type] = {}
      PROVE  Addresses(s) =
               UNION {Direct(s[g]) \cup UNION {Direct(s[g][f]) : f \in Embedded[s[g].type]} :
                        g \in {"objectMeta", "spec", "status"}}
  <2>1. Direct(s) = {}
    BY <1>2 DEF Direct
  <2> QED BY <1>2, <2>1 DEF Addresses
<1>3. ASSUME IsService(s) \/ IsLoader(s)
      PROVE  Addresses(s) = Direct(s.objectMeta) \cup Direct(s.spec) \cup Direct(s.status)
  <2>1. /\ Embedded[s.objectMeta.type] = {} /\ Embedded[s.spec.type] = {}
        /\ Embedded[s.status.type] = {}
        /\ Embedded[s.type] = {"objectMeta", "spec", "status"} /\ RefFields[s.type] = {}
    BY <1>3, NestedTypes DEF IsService, IsLoader, IsOf
  <2> QED BY <1>2, <2>1
<1>4. ASSUME NEW t \in {"Model", "ClusterModel"}, IsModel(t, s)
      PROVE  Addresses(s) = Direct(s.objectMeta) \cup Direct(s.spec) \cup Direct(s.status)
                               \cup Direct(s.spec.source)
  <2>1. /\ Embedded[s.objectMeta.type] = {} /\ Embedded[s.spec.type] = {"source"}
        /\ Embedded[s.status.type] = {}
        /\ Embedded[s.type] = {"objectMeta", "spec", "status"} /\ RefFields[s.type] = {}
    BY <1>4, NestedTypes DEF IsModel, IsOf
  <2> QED BY <1>2, <2>1
<1>5. ASSUME IsList(s)
      PROVE  Addresses(s) = Direct(s) \cup Direct(s.listMeta)
  <2>1. Embedded[s.type] = {"listMeta"} /\ Embedded[s.listMeta.type] = {}
    BY <1>5, NestedTypes DEF IsList, IsOf
  <2>2. Addresses(s) = Direct(s) \cup Direct(s.listMeta)
                         \cup UNION {Direct(s.listMeta[f]) : f \in Embedded[s.listMeta.type]}
    BY <2>1 DEF Addresses
  <2> QED BY <2>1, <2>2
<1> QED BY <1>1, <1>3, <1>4, <1>5

(* DeepCopyInto keeps the struct's type and values and moves every *)
(* reference in it.                                                *)
LEMMA StructCopied ==
  ASSUME NEW r \in Parties, NEW s, IsStruct(s), Addresses(s) \subseteq Parties \X Places
  PROVE  LET c == DeepCopyInto(r, s)
         IN  /\ IsStruct(c) /\ c.type = s.type /\ c.val = s.val
             /\ Addresses(c) = Image(r, Addresses(s))
<1> DEFINE c == DeepCopyInto(r, s)
<1> SUFFICES /\ IsStruct(c) /\ c.type = s.type /\ c.val = s.val
             /\ Addresses(c) = Image(r, Addresses(s))
  OBVIOUS
<1>v. "val" \in DOMAIN s
  BY DEF IsStruct
<1>1. ASSUME NEW t \in FlatType, IsOf(t, s)
      PROVE  /\ IsStruct(c) /\ c.type = s.type /\ c.val = s.val
             /\ Addresses(c) = Image(r, Addresses(s))
  <2>1. Moved(r, s, c) /\ c.val = s.val /\ IsOf(t, c)
    BY <1>v, <1>1, FlatCopied DEF FlatType
  <2>2. Addresses(s) = Direct(s) /\ Addresses(c) = Direct(c)
    BY <1>1, <2>1, AddressesOf
  <2>3. Direct(c) = Image(r, Direct(s))
    BY <2>1, <2>2, DirectMoved
  <2>4. "val" \in DOMAIN c /\ c.type = s.type
    BY <2>1, <1>v DEF Moved
  <2> HIDE DEF c
  <2> QED BY <2>1, <2>2, <2>3, <2>4, StructKinds, <1>1
<1>2. ASSUME IsService(s)
      PROVE  /\ IsStruct(c) /\ c.type = s.type /\ c.val = s.val
             /\ Addresses(c) = Image(r, Addresses(s))
  <2>0. s.type = "InferenceService" /\ {"type", "objectMeta", "spec", "status"} \subseteq DOMAIN s
    BY <1>2, NestedTypes DEF IsService, IsOf
  <2>1. c = InferenceServiceDeepCopyInto(r, s)
    BY <2>0 DEF DeepCopyInto
  <2>2. /\ c.type = s.type /\ c.val = s.val /\ DOMAIN c = DOMAIN s
        /\ c.objectMeta = ObjectMetaDeepCopyInto(r, s.objectMeta)
        /\ c.spec = InferenceServiceSpecDeepCopyInto(r, s.spec)
        /\ c.status = InferenceServiceStatusDeepCopyInto(r, s.status)
    BY <2>0, <2>1, <1>v DEF InferenceServiceDeepCopyInto
  <2> HIDE DEF c
  <2>3. /\ Moved(r, s.objectMeta, c.objectMeta) /\ Moved(r, s.spec, c.spec)
        /\ Moved(r, s.status, c.status)
    BY <1>2, <2>2, InferenceServicePartsCopied DEF IsService
  <2>4. IsService(c)
    BY <1>2, <2>2, <2>3, MovedIsOf DEF IsService, IsOf
  <2>5. /\ Addresses(s) = Direct(s.objectMeta) \cup Direct(s.spec) \cup Direct(s.status)
        /\ Addresses(c) = Direct(c.objectMeta) \cup Direct(c.spec) \cup Direct(c.status)
    BY <1>2, <2>4, AddressesOf
  <2>6. /\ Direct(c.objectMeta) = Image(r, Direct(s.objectMeta))
        /\ Direct(c.spec) = Image(r, Direct(s.spec))
        /\ Direct(c.status) = Image(r, Direct(s.status))
    BY <2>3, <2>5, DirectMoved
  <2>7. IsStruct(c)
    BY <2>2, <2>4, <1>v, StructKinds
  <2>8. Addresses(c) = Image(r, Addresses(s))
    BY <2>5, <2>6 DEF Image
  <2> QED BY <2>2, <2>7, <2>8
<1>3. ASSUME NEW t \in {"Model", "ClusterModel"}, IsModel(t, s)
      PROVE  /\ IsStruct(c) /\ c.type = s.type /\ c.val = s.val
             /\ Addresses(c) = Image(r, Addresses(s))
  <2>0. /\ s.type = t /\ {"type", "objectMeta", "spec", "status"} \subseteq DOMAIN s
    BY <1>3, NestedTypes DEF IsModel, IsOf
  <2>1. c = ModelDeepCopyInto(r, s) \/ c = ClusterModelDeepCopyInto(r, s)
    BY <2>0 DEF DeepCopyInto
  <2>2. /\ c.type = s.type /\ c.val = s.val /\ DOMAIN c = DOMAIN s
        /\ c.objectMeta = ObjectMetaDeepCopyInto(r, s.objectMeta)
        /\ c.spec = ModelSpecDeepCopyInto(r, s.spec)
        /\ c.status = ModelStatusDeepCopyInto(r, s.status)
    BY <2>0, <2>1, <1>v DEF ModelDeepCopyInto, ClusterModelDeepCopyInto
  <2> HIDE DEF c
  <2>3. /\ Moved(r, s.objectMeta, c.objectMeta) /\ Moved(r, s.spec, c.spec)
        /\ Moved(r, s.status, c.status) /\ Moved(r, s.spec.source, c.spec.source)
    BY <1>3, <2>2, InferenceServicePartsCopied, ModelPartsCopied DEF IsModel
  <2>4. IsModel(t, c)
    BY <1>3, <2>2, <2>3, MovedIsOf DEF IsModel, IsOf
  <2>5. /\ Addresses(s) = Direct(s.objectMeta) \cup Direct(s.spec) \cup Direct(s.status)
                            \cup Direct(s.spec.source)
        /\ Addresses(c) = Direct(c.objectMeta) \cup Direct(c.spec) \cup Direct(c.status)
                            \cup Direct(c.spec.source)
    BY <1>3, <2>4, AddressesOf
  <2>6. /\ Direct(c.objectMeta) = Image(r, Direct(s.objectMeta))
        /\ Direct(c.spec) = Image(r, Direct(s.spec))
        /\ Direct(c.status) = Image(r, Direct(s.status))
        /\ Direct(c.spec.source) = Image(r, Direct(s.spec.source))
    BY <2>3, <2>5, DirectMoved
  <2>7. IsStruct(c)
    BY <2>2, <2>4, <1>v, StructKinds
  <2>8. Addresses(c) = Image(r, Addresses(s))
    BY <2>5, <2>6 DEF Image
  <2> QED BY <2>2, <2>7, <2>8
<1>4. ASSUME IsLoader(s)
      PROVE  /\ IsStruct(c) /\ c.type = s.type /\ c.val = s.val
             /\ Addresses(c) = Image(r, Addresses(s))
  <2>0. s.type = "ModelLoader" /\ {"type", "objectMeta", "spec", "status"} \subseteq DOMAIN s
    BY <1>4, NestedTypes DEF IsLoader, IsOf
  <2>1. c = ModelLoaderDeepCopyInto(r, s)
    BY <2>0 DEF DeepCopyInto
  <2>2. /\ c.type = s.type /\ c.val = s.val /\ DOMAIN c = DOMAIN s
        /\ c.objectMeta = ObjectMetaDeepCopyInto(r, s.objectMeta)
        /\ c.spec = ModelLoaderSpecDeepCopyInto(r, s.spec)
        /\ c.status = ModelLoaderStatusDeepCopyInto(r, s.status)
    BY <2>0, <2>1, <1>v DEF ModelLoaderDeepCopyInto
  <2> HIDE DEF c
  <2>3. /\ Moved(r, s.objectMeta, c.objectMeta) /\ Moved(r, s.spec, c.spec)
        /\ Moved(r, s.status, c.status)
    BY <1>4, <2>2, InferenceServicePartsCopied, ModelPartsCopied DEF IsLoader
  <2>4. IsLoader(c)
    BY <1>4, <2>2, <2>3, MovedIsOf DEF IsLoader, IsOf
  <2>5. /\ Addresses(s) = Direct(s.objectMeta) \cup Direct(s.spec) \cup Direct(s.status)
        /\ Addresses(c) = Direct(c.objectMeta) \cup Direct(c.spec) \cup Direct(c.status)
    BY <1>4, <2>4, AddressesOf
  <2>6. /\ Direct(c.objectMeta) = Image(r, Direct(s.objectMeta))
        /\ Direct(c.spec) = Image(r, Direct(s.spec))
        /\ Direct(c.status) = Image(r, Direct(s.status))
    BY <2>3, <2>5, DirectMoved
  <2>7. IsStruct(c)
    BY <2>2, <2>4, <1>v, StructKinds
  <2>8. Addresses(c) = Image(r, Addresses(s))
    BY <2>5, <2>6 DEF Image
  <2> QED BY <2>2, <2>7, <2>8
<1>5. ASSUME IsList(s)
      PROVE  /\ IsStruct(c) /\ c.type = s.type /\ c.val = s.val
             /\ Addresses(c) = Image(r, Addresses(s))
  <2>1. c = ListDeepCopyInto(r, s)
    BY <1>5 DEF DeepCopyInto, IsList, IsOf
  <2> HIDE DEF c
  <2>2. /\ Moved(r, s, c) /\ c.val = s.val
        /\ Moved(r, s.listMeta, c.listMeta)
    BY <1>v, <1>5, <2>1, ListCopied DEF IsList
  <2>3. IsList(c)
    BY <1>5, <2>2, MovedIsOf DEF IsList
  <2>4. /\ Addresses(s) = Direct(s) \cup Direct(s.listMeta)
        /\ Addresses(c) = Direct(c) \cup Direct(c.listMeta)
    BY <1>5, <2>3, AddressesOf
  <2>5. /\ Direct(c) = Image(r, Direct(s))
        /\ Direct(c.listMeta) = Image(r, Direct(s.listMeta))
    BY <2>2, <2>4, DirectMoved
  <2>6. IsStruct(c) /\ c.type = s.type
    BY <2>2, <2>3, <1>v, StructKinds DEF Moved
  <2>7. Addresses(c) = Image(r, Addresses(s))
    BY <2>4, <2>5 DEF Image
  <2> QED BY <2>2, <2>6, <2>7
<1> QED BY <1>1, <1>2, <1>3, <1>4, <1>5, StructKinds
-----------------------------------------------------------------------------
(* Reachability. *)

(* Cells of h that are p's. *)
Own(h, p, S) == \A a \in S : a \in DOMAIN h /\ a[1] = p

(* Following references stays within the owner's cells. *)
LEMMA FollowOwned ==
  ASSUME NEW h, IsHeap(h), NEW p, NEW S, Own(h, p, S)
  PROVE  Own(h, p, Follow(h, S)) /\ S \subseteq Follow(h, S)
BY DEF Own, Follow, CellAddresses, IsHeap

(* The sets on the way to Reach. *)
LEMMA ReachSteps ==
  ASSUME NEW h, IsHeap(h), NEW a \in DOMAIN h
  PROVE  /\ Own(h, a[1], Reach(h, a))
         /\ a \in Reach(h, a)
         /\ Follow(h, {a}) \subseteq Reach(h, a)
         /\ Follow(h, Follow(h, {a})) \subseteq Reach(h, a)
         /\ Follow(h, Follow(h, Follow(h, {a}))) \subseteq Reach(h, a)
<1> DEFINE A == Follow(h, {a})
           B == Follow(h, A)
           C == Follow(h, B)
           D == Follow(h, C)
<1>0. Own(h, a[1], {a})
  BY DEF Own
<1>1. Own(h, a[1], A) /\ {a} \subseteq A
  BY <1>0, FollowOwned
<1> HIDE DEF A
<1>2. Own(h, a[1], B) /\ A \subseteq B
  BY <1>1, FollowOwned
<1> HIDE DEF B
<1>3. Own(h, a[1], C) /\ B \subseteq C
  BY <1>2, FollowOwned
<1> HIDE DEF C
<1>4. Own(h, a[1], D) /\ C \subseteq D
  BY <1>3, FollowOwned
<1> HIDE DEF D
<1>5. Reach(h, a) = D
  BY DEF Reach, A, B, C, D
<1> QED BY <1>1, <1>2, <1>3, <1>4, <1>5 DEF A, B, C

LEMMA ReachOwned ==
  ASSUME NEW h, IsHeap(h), NEW a \in DOMAIN h
  PROVE  Own(h, a[1], Reach(h, a)) /\ a \in Reach(h, a)
BY ReachSteps

(* What is reached depends on the references of the owner's cells only. *)
LEMMA FollowSame ==
  ASSUME NEW h, NEW g, NEW S, \A b \in S : CellAddresses(g, b) = CellAddresses(h, b)
  PROVE  Follow(g, S) = Follow(h, S)
BY DEF Follow

LEMMA ReachSame ==
  ASSUME NEW h, NEW g, IsHeap(h), NEW a \in DOMAIN h,
         \A b \in DOMAIN h : b[1] = a[1] => CellAddresses(g, b) = CellAddresses(h, b)
  PROVE  /\ Reach(g, a) = Reach(h, a)
         /\ Follow(g, Reach(g, a)) = Follow(h, Reach(h, a))
<1> DEFINE A == Follow(h, {a})
           B == Follow(h, A)
           C == Follow(h, B)
           D == Follow(h, C)
<1>0. ASSUME NEW S, Own(h, a[1], S)
      PROVE  Follow(g, S) = Follow(h, S)
  BY <1>0, FollowSame DEF Own
<1>1. /\ Own(h, a[1], {a}) /\ Own(h, a[1], A) /\ Own(h, a[1], B)
      /\ Own(h, a[1], C) /\ Own(h, a[1], D)
  <2> HIDE DEF A, B, C, D
  <2>1. D = Reach(h, a)
    BY DEF Reach, A, B, C, D
  <2>2. A \subseteq D /\ B \subseteq D /\ C \subseteq D /\ a \in D /\ Own(h, a[1], D)
    BY <2>1, ReachSteps DEF A, B, C
  <2> QED BY <2>2 DEF Own
<1>2. Follow(g, {a}) = A /\ Follow(g, A) = B /\ Follow(g, B) = C /\ Follow(g, C) = D
  BY <1>0, <1>1
<1>3. Reach(g, a) = D /\ Reach(h, a) = D
  BY <1>2 DEF Reach
<1> QED BY <1>0, <1>1, <1>3

(* Where every cell has been copied, following commutes with copying. *)
LEMMA FollowImage ==
  ASSUME NEW h, NEW g, NEW r, NEW S,
         \A b \in S : CellAddresses(g, New(r, b)) = Image(r, CellAddresses(h, b))
  PROVE  Follow(g, Image(r, S)) = Image(r, Follow(h, S))
BY DEF Follow, Image

LEMMA ReachImage ==
  ASSUME NEW h, NEW g, NEW r, IsHeap(h), NEW a \in DOMAIN h,
         \A b \in Reach(h, a) : CellAddresses(g, New(r, b)) = Image(r, CellAddresses(h, b)),
         Follow(h, Reach(h, a)) = Reach(h, a)
  PROVE  /\ Reach(g, New(r, a)) = Image(r, Reach(h, a))
         /\ Follow(g, Reach(g, New(r, a))) = Reach(g, New(r, a))
<1> DEFINE A == Follow(h, {a})
           B == Follow(h, A)
           C == Follow(h, B)
           D == Follow(h, C)
<1>0. ASSUME NEW S, S \subseteq Reach(h, a)
      PROVE  Follow(g, Image(r, S)) = Image(r, Follow(h, S))
  BY <1>0, FollowImage
<1>1. D = Reach(h, a)
  BY DEF Reach
<1>2. {a} \subseteq D /\ A \subseteq D /\ B \subseteq D /\ C \subseteq D
  BY <1>1, ReachSteps
<1> HIDE DEF A, B, C, D
<1>3. Image(r, {a}) = {New(r, a)}
  BY DEF Image
<1>4. /\ Follow(g, {New(r, a)}) = Image(r, A) /\ Follow(g, Image(r, A)) = Image(r, B)
      /\ Follow(g, Image(r, B)) = Image(r, C) /\ Follow(g, Image(r, C)) = Image(r, D)
      /\ Follow(g, Image(r, D)) = Image(r, D)
  BY <1>0, <1>1, <1>2, <1>3 DEF A, B, C, D
<1>5. Reach(g, New(r, a)) = Image(r, D)
  BY <1>4 DEF Reach
<1> QED BY <1>1, <1>4, <1>5

(* The view is the same from the same cells, but for owners. *)
LEMMA ViewSame ==
  ASSUME NEW h, NEW g, NEW a, Reach(g, a) = Reach(h, a),
         \A b \in Reach(h, a) : g[b] = h[b]
  PROVE  ViewFrom(g, a) = ViewFrom(h, a)
BY DEF ViewFrom

LEMMA ViewImage ==
  ASSUME NEW h, NEW g, NEW r, NEW a, Reach(g, New(r, a)) = Image(r, Reach(h, a)),
         \A b \in Reach(h, a) :
           /\ New(r, b)[2] = b[2] /\ DOMAIN g[New(r, b)] = DOMAIN h[b]
           /\ \A x \in DOMAIN h[b] : /\ g[New(r, b)][x].type = h[b][x].type
                                     /\ g[New(r, b)][x].val = h[b][x].val
  PROVE  ViewFrom(g, New(r, a)) = ViewFrom(h, a)
<1> DEFINE V(f, b) == {<<b[2], x, f[b][x].type, f[b][x].val>> : x \in DOMAIN f[b]}
<1>1. ASSUME NEW b \in Reach(h, a)
      PROVE  V(g, New(r, b)) = V(h, b)
  <2>1. /\ New(r, b)[2] = b[2] /\ DOMAIN g[New(r, b)] = DOMAIN h[b]
        /\ \A x \in DOMAIN h[b] : /\ g[New(r, b)][x].type = h[b][x].type
                                  /\ g[New(r, b)][x].val = h[b][x].val
    OBVIOUS
  <2> QED BY <2>1
<1> HIDE DEF V
<1>2. UNION {V(g, c) : c \in Image(r, Reach(h, a))} = UNION {V(h, b) : b \in Reach(h, a)}
  BY <1>1 DEF Image
<1>3. /\ ViewFrom(g, New(r, a)) = UNION {V(g, c) : c \in Reach(g, New(r, a))}
      /\ ViewFrom(h, a) = UNION {V(h, b) : b \in Reach(h, a)}
  BY DEF ViewFrom, V
<1> QED BY <1>2, <1>3
-----------------------------------------------------------------------------
(* The steps. *)

(* What DeepCopyObject leaves in memory: the copy of every cell of the     *)
(* object, and every cell of the others as it was.                         *)
LEMMA CopyLeaves ==
  ASSUME IInv, NEW r \in Readers, NEW p \in Parties, DeepCopyObject(r, p)
  PROVE  LET R == Reach(heap, root[p])
         IN  /\ root[p] \in DOMAIN heap /\ root[p][1] = p /\ p # r
             /\ DOMAIN heap' = DOMAIN heap \cup Image(r, R)
             /\ \A a \in DOMAIN heap : a \notin Image(r, R) => heap'[a] = heap[a]
             /\ \A b \in R : heap'[New(r, b)] =
                               [x \in DOMAIN heap[b] |-> DeepCopyInto(r, heap[b][x])]
<1> DEFINE R == Reach(heap, root[p])
           copies == Copies(r, R)
<1>1. root[p] \in DOMAIN heap /\ root[p][1] = p /\ p # r
  BY DEF DeepCopyObject, IInv
<1>2. IsHeap(heap) /\ DOMAIN heap \subseteq Parties \X Places /\ r \in Parties
  BY DEF IInv, IsHeap, Parties
<1>3. \A b \in R : b \in Parties \X Places /\ b[1] = p
  BY <1>1, <1>2, ReachOwned DEF Own
<1>4. DOMAIN copies = Image(r, R)
  BY DEF Copies, Image
<1>5. ASSUME NEW b \in R
      PROVE  copies[New(r, b)] = [x \in DOMAIN heap[b] |-> DeepCopyInto(r, heap[b][x])]
  <2> DEFINE d == CHOOSE c \in R : New(r, c) = New(r, b)
  <2>1. d \in R /\ New(r, d) = New(r, b)
    OBVIOUS
  <2>2. d = b
    <3> HIDE DEF d, R
    <3> QED BY <2>1, <1>2, <1>3, NewInjective
  <2>3. New(r, b) \in {New(r, c) : c \in R}
    OBVIOUS
  <2>4. copies[New(r, b)] = [x \in DOMAIN heap[d] |-> DeepCopyInto(r, heap[d][x])]
    BY <2>3 DEF Copies
  <2> QED BY <2>2, <2>4
<1>6. heap' = [a \in DOMAIN heap \cup DOMAIN copies |->
                 IF a \in DOMAIN copies THEN copies[a] ELSE heap[a]]
  BY DEF DeepCopyObject
<1> HIDE DEF copies, R
<1>7. \A b \in R : New(r, b) \in Image(r, R)
  BY DEF Image
<1>8. /\ DOMAIN heap' = DOMAIN heap \cup Image(r, R)
      /\ \A a \in DOMAIN heap : a \notin Image(r, R) => heap'[a] = heap[a]
      /\ \A b \in R : heap'[New(r, b)] = copies[New(r, b)]
  BY <1>4, <1>6, <1>7
<1> QED BY <1>1, <1>5, <1>8 DEF R

(* After it, the reader has its own well-formed copy, which shows what the *)
(* original shows; the other parties' cells are as they were.              *)
LEMMA CopyMakes ==
  ASSUME IInv, NEW r \in Readers, NEW p \in Parties, DeepCopyObject(r, p)
  PROVE  /\ IsHeap(heap')
         /\ \A a \in DOMAIN heap : a \in DOMAIN heap' /\ (a[1] # r => heap'[a] = heap[a])
         /\ New(r, root[p]) \in DOMAIN heap' /\ New(r, root[p])[1] = r
         /\ Follow(heap', Reach(heap', New(r, root[p]))) = Reach(heap', New(r, root[p]))
         /\ ViewFrom(heap', New(r, root[p])) = ViewFrom(heap, root[p])
<1> DEFINE R == Reach(heap, root[p])
           g == heap'
<1>1. /\ root[p] \in DOMAIN heap /\ root[p][1] = p /\ p # r
      /\ DOMAIN g = DOMAIN heap \cup Image(r, R)
      /\ \A a \in DOMAIN heap : a \notin Image(r, R) => g[a] = heap[a]
      /\ \A b \in R : g[New(r, b)] = [x \in DOMAIN heap[b] |-> DeepCopyInto(r, heap[b][x])]
  BY CopyLeaves
<1>2. IsHeap(heap) /\ DOMAIN heap \subseteq Parties \X Places /\ r \in Parties
  BY DEF IInv, IsHeap, Parties
<1>3. /\ \A b \in R : b \in DOMAIN heap /\ b \in Parties \X Places /\ b[1] = p
      /\ root[p] \in R /\ Follow(heap, R) = R
  <2>1. root[p] # Nil
    BY DEF DeepCopyObject
  <2>2. Follow(heap, R) = R
    BY <2>1 DEF IInv
  <2>3. (\A b \in R : b \in DOMAIN heap /\ b[1] = p) /\ root[p] \in R
    BY <1>1, <1>2, ReachOwned DEF Own
  <2> QED BY <2>2, <2>3, <1>2
<1> HIDE DEF R, g
<1>4. \A b \in R : /\ New(r, b) \in Parties \X Places /\ New(r, b)[1] = r /\ New(r, b)[2] = b[2]
                   /\ New(r, b) \in Image(r, R)
  BY <1>2, <1>3, NewFacts DEF Image
<1>5. \A b \in R : CellAddresses(heap, b) \subseteq R
  BY <1>3 DEF Follow
<1>6. ASSUME NEW b \in R, NEW x \in DOMAIN heap[b]
      PROVE  /\ IsStruct(g[New(r, b)][x])
             /\ g[New(r, b)][x].type = heap[b][x].type
             /\ g[New(r, b)][x].val = heap[b][x].val
             /\ Addresses(g[New(r, b)][x]) = Image(r, Addresses(heap[b][x]))
             /\ Addresses(heap[b][x]) \subseteq R
  <2>1. IsStruct(heap[b][x])
    BY <1>2, <1>3 DEF IsHeap
  <2>2. Addresses(heap[b][x]) \subseteq R
    BY <1>5 DEF CellAddresses
  <2>3. Addresses(heap[b][x]) \subseteq Parties \X Places
    BY <2>2, <1>3
  <2>4. g[New(r, b)][x] = DeepCopyInto(r, heap[b][x])
    BY <1>1
  <2> QED BY <1>2, <2>1, <2>2, <2>3, <2>4, StructCopied
<1>7. \A b \in R : DOMAIN g[New(r, b)] = DOMAIN heap[b]
  BY <1>1
<1>8. ASSUME NEW b \in R
      PROVE  CellAddresses(g, New(r, b)) = Image(r, CellAddresses(heap, b))
  <2>1. CellAddresses(g, New(r, b)) = UNION {Addresses(g[New(r, b)][x]) : x \in DOMAIN heap[b]}
    BY <1>7 DEF CellAddresses
  <2>2. \A x \in DOMAIN heap[b] : Addresses(g[New(r, b)][x]) = Image(r, Addresses(heap[b][x]))
    BY <1>6
  <2>3. ASSUME NEW d
        PROVE  d \in CellAddresses(g, New(r, b)) <=>
                 \E x \in DOMAIN heap[b] : d \in Image(r, Addresses(heap[b][x]))
    BY <2>1, <2>2
  <2>4. ASSUME NEW d
        PROVE  d \in Image(r, CellAddresses(heap, b)) <=>
                 \E x \in DOMAIN heap[b] : d \in Image(r, Addresses(heap[b][x]))
    BY DEF Image, CellAddresses
  <2> QED BY <2>3, <2>4
<1>9. /\ Reach(g, New(r, root[p])) = Image(r, R)
      /\ Follow(g, Reach(g, New(r, root[p]))) = Reach(g, New(r, root[p]))
  BY <1>1, <1>2, <1>3, <1>8, ReachImage DEF R
<1>10. ViewFrom(g, New(r, root[p])) = ViewFrom(heap, root[p])
  BY <1>4, <1>6, <1>7, <1>9, ViewImage DEF R
<1>11. \A a \in DOMAIN heap : a \in DOMAIN g /\ (a[1] # r => g[a] = heap[a])
  BY <1>1, <1>4 DEF Image
<1>12. IsHeap(g)
  <2>1. DOMAIN g \subseteq Parties \X Places
    BY <1>1, <1>2, <1>4 DEF Image
  <2>2. ASSUME NEW a \in DOMAIN g, NEW x \in DOMAIN g[a]
        PROVE  IsStruct(g[a][x]) /\ \A d \in Addresses(g[a][x]) : d \in DOMAIN g /\ d[1] = a[1]
    <3>1. CASE a \in Image(r, R)
      <4>1. PICK b \in R : a = New(r, b)
        BY <3>1 DEF Image
      <4>2. x \in DOMAIN heap[b]
        BY <2>2, <4>1, <1>7
      <4>3. /\ IsStruct(g[a][x])
            /\ Addresses(g[a][x]) = Image(r, Addresses(heap[b][x]))
            /\ Addresses(heap[b][x]) \subseteq R
        BY <4>1, <4>2, <1>6
      <4>4. a[1] = r
        BY <4>1, <1>4
      <4>5. \A d \in Addresses(g[a][x]) : d \in Image(r, R) /\ d[1] = r
        BY <4>3, <1>4 DEF Image
      <4> QED BY <4>3, <4>4, <4>5, <1>1
    <3>2. CASE a \notin Image(r, R)
      <4>1. a \in DOMAIN heap /\ g[a] = heap[a]
        BY <3>2, <1>1
      <4>2. IsStruct(heap[a][x]) /\ \A d \in Addresses(heap[a][x]) : d \in DOMAIN heap /\ d[1] = a[1]
        BY <4>1, <1>2 DEF IsHeap
      <4> QED BY <4>1, <4>2, <1>11
    <3> QED BY <3>1, <3>2
  <2> QED BY <2>1, <2>2 DEF IsHeap
<1>13. New(r, root[p]) \in DOMAIN g /\ New(r, root[p])[1] = r
  BY <1>1, <1>3, <1>4
<1> QED BY <1>9, <1>10, <1>11, <1>12, <1>13 DEF g

(* A change keeps every reference, and every cell that is not the writer's. *)
LEMMA ChangeLeaves ==
  ASSUME IInv, NEW r \in Readers, root[r] # Nil, NEW a \in Reach(heap, root[r]), Change(r, a)
  PROVE  /\ IsHeap(heap') /\ DOMAIN heap' = DOMAIN heap
         /\ \A b \in DOMAIN heap : /\ CellAddresses(heap', b) = CellAddresses(heap, b)
                                   /\ b[1] # r => heap'[b] = heap[b]
<1>1. a \in DOMAIN heap /\ a[1] = r /\ IsHeap(heap)
  <2>1. root[r] \in DOMAIN heap /\ root[r][1] = r /\ IsHeap(heap)
    BY DEF IInv, Parties
  <2> QED BY <2>1, ReachOwned DEF Own
<1>2. PICK x \in DOMAIN heap[a] : heap' = [heap EXCEPT ![a][x].val = r]
  BY DEF Change
<1> DEFINE s == heap[a][x]
           c == [s EXCEPT !.val = r]
<1>3. /\ DOMAIN heap' = DOMAIN heap /\ DOMAIN heap'[a] = DOMAIN heap[a]
      /\ heap'[a][x] = c /\ \A y \in DOMAIN heap[a] : y # x => heap'[a][y] = heap[a][y]
      /\ \A b \in DOMAIN heap : b # a => heap'[b] = heap[b]
  BY <1>1, <1>2
<1>4. IsStruct(s)
  BY <1>1 DEF IsHeap
<1>5. DOMAIN c = DOMAIN s /\ \A f \in DOMAIN s : f # "val" => c[f] = s[f]
  OBVIOUS
<1> HIDE DEF c, s
<1>6. IsStruct(c) /\ Addresses(c) = Addresses(s)
  <2>1. ASSUME NEW t, IsOf(t, s), "val" \notin RefFields[t] \cup Embedded[t]
        PROVE  /\ IsOf(t, c) /\ Direct(c) = Direct(s)
               /\ \A f \in Embedded[t] : c[f] = s[f]
    <3>1. s.type = t /\ {"type"} \cup RefFields[t] \cup Embedded[t] \subseteq DOMAIN s
      BY <2>1 DEF IsOf
    <3>2. c.type = t /\ \A f \in RefFields[t] \cup Embedded[t] : c[f] = s[f]
      BY <1>5, <2>1, <3>1
    <3> QED BY <1>5, <3>1, <3>2 DEF IsOf, Direct
  <2>v. "val" \in DOMAIN s /\ "val" \in DOMAIN c
    BY <1>4, <1>5 DEF IsStruct
  <2>2. ASSUME NEW t \in FlatType, IsOf(t, s)
        PROVE  IsStruct(c) /\ Addresses(c) = Addresses(s)
    <3>1. "val" \notin RefFields[t] \cup Embedded[t]
      BY FlatTypes DEF FlatType
    <3>2. IsOf(t, c) /\ Direct(c) = Direct(s)
      BY <2>1, <2>2, <3>1
    <3> QED BY <2>2, <2>v, <3>2, StructKinds, AddressesOf
  <2>3. ASSUME NEW t \in {"InferenceService", "Model", "ClusterModel", "ModelLoader"}, IsOf(t, s)
        PROVE  IsOf(t, c) /\ c.objectMeta = s.objectMeta /\ c.spec = s.spec /\ c.status = s.status
    <3>1. RefFields[t] = {} /\ Embedded[t] = {"objectMeta", "spec", "status"}
      BY NestedTypes
    <3> QED BY <2>1, <2>3, <3>1
  <2>4. ASSUME IsService(s)
        PROVE  IsStruct(c) /\ Addresses(c) = Addresses(s)
    <3>1. IsService(c) /\ c.objectMeta = s.objectMeta /\ c.spec = s.spec /\ c.status = s.status
      BY <2>3, <2>4 DEF IsService
    <3> QED BY <2>4, <2>v, <3>1, StructKinds, AddressesOf
  <2>5. ASSUME NEW t \in {"Model", "ClusterModel"}, IsModel(t, s)
        PROVE  IsStruct(c) /\ Addresses(c) = Addresses(s)
    <3>1. IsModel(t, c) /\ c.objectMeta = s.objectMeta /\ c.spec = s.spec /\ c.status = s.status
      BY <2>3, <2>5 DEF IsModel
    <3> QED BY <2>5, <2>v, <3>1, StructKinds, AddressesOf
  <2>6. ASSUME IsLoader(s)
        PROVE  IsStruct(c) /\ Addresses(c) = Addresses(s)
    <3>1. IsLoader(c) /\ c.objectMeta = s.objectMeta /\ c.spec = s.spec /\ c.status = s.status
      BY <2>3, <2>6 DEF IsLoader
    <3> QED BY <2>6, <2>v, <3>1, StructKinds, AddressesOf
  <2>7. ASSUME IsList(s)
        PROVE  IsStruct(c) /\ Addresses(c) = Addresses(s)
    <3>1. "val" \notin RefFields["List"] \cup Embedded["List"] /\ Embedded["List"] = {"listMeta"}
      BY NestedTypes
    <3>2. IsOf("List", c) /\ Direct(c) = Direct(s) /\ c.listMeta = s.listMeta
      BY <2>1, <2>7, <3>1 DEF IsList
    <3>3. IsList(c)
      BY <2>7, <3>2 DEF IsList
    <3> QED BY <2>7, <2>v, <3>2, <3>3, StructKinds, AddressesOf
  <2> QED BY <1>4, <2>2, <2>4, <2>5, <2>6, <2>7, StructKinds
<1>7. \A b \in DOMAIN heap : /\ DOMAIN heap'[b] = DOMAIN heap[b]
                             /\ \A y \in DOMAIN heap[b] :
                                  /\ Addresses(heap'[b][y]) = Addresses(heap[b][y])
                                  /\ IsStruct(heap[b][y]) => IsStruct(heap'[b][y])
  BY <1>3, <1>6 DEF s
<1>8. \A b \in DOMAIN heap : CellAddresses(heap', b) = CellAddresses(heap, b)
  BY <1>7 DEF CellAddresses
<1>9. IsHeap(heap')
  BY <1>1, <1>3, <1>7 DEF IsHeap
<1> QED BY <1>1, <1>3, <1>8, <1>9
-----------------------------------------------------------------------------
(* The inductive invariant. *)

LEMMA InitEstablishes == Init => IInv
BY ObjectsAssumption DEF Init, IInv, Parties

(* What a step keeps for the parties that do not take it: their objects and *)
(* all they see of them.                                                    *)
LEMMA StepKeepsOthers ==
  ASSUME IInv, Next
  PROVE  \A p \in Parties \ {last'} :
           /\ root'[p] = root[p]
           /\ root[p] # Nil =>
                /\ Reach(heap', root[p]) = Reach(heap, root[p])
                /\ Follow(heap', Reach(heap', root[p])) = Follow(heap, Reach(heap, root[p]))
                /\ ViewFrom(heap', root[p]) = ViewFrom(heap, root[p])
<1>1. PICK r \in Readers : \/ \E p \in Parties : DeepCopyObject(r, p)
                           \/ root[r] # Nil /\ \E a \in Reach(heap, root[r]) : Change(r, a)
  BY DEF Next
<1>2. last' = r /\ \A p \in Parties \ {r} : root'[p] = root[p]
  BY <1>1 DEF DeepCopyObject, Change, IInv
<1>3. \A a \in DOMAIN heap : a[1] # r => heap'[a] = heap[a]
  BY <1>1, CopyMakes, ChangeLeaves
<1>4. SUFFICES ASSUME NEW p \in Parties \ {r}, root[p] # Nil
               PROVE  /\ Reach(heap', root[p]) = Reach(heap, root[p])
                      /\ Follow(heap', Reach(heap', root[p])) = Follow(heap, Reach(heap, root[p]))
                      /\ ViewFrom(heap', root[p]) = ViewFrom(heap, root[p])
  BY <1>2
<1>5. IsHeap(heap) /\ root[p] \in DOMAIN heap /\ root[p][1] = p
  BY <1>4 DEF IInv
<1>6. \A b \in DOMAIN heap : b[1] = root[p][1] => CellAddresses(heap', b) = CellAddresses(heap, b)
  BY <1>3, <1>5, <1>4 DEF CellAddresses
<1>7. /\ Reach(heap', root[p]) = Reach(heap, root[p])
      /\ Follow(heap', Reach(heap', root[p])) = Follow(heap, Reach(heap, root[p]))
  BY <1>5, <1>6, ReachSame
<1>8. \A b \in Reach(heap, root[p]) : heap'[b] = heap[b]
  <2>1. \A b \in Reach(heap, root[p]) : b \in DOMAIN heap /\ b[1] = p
    BY <1>5, ReachOwned DEF Own
  <2> QED BY <2>1, <1>3, <1>4
<1> QED BY <1>7, <1>8, ViewSame

LEMMA InvariantIsInductive == IInv /\ [Next]_vars => IInv'
<1> SUFFICES ASSUME IInv, [Next]_vars
             PROVE  IInv'
  OBVIOUS
<1>1. CASE UNCHANGED vars
  BY <1>1 DEF vars, IInv
<1>2. CASE Next
  <2>1. PICK r \in Readers : \/ \E p \in Parties : DeepCopyObject(r, p)
                             \/ root[r] # Nil /\ \E a \in Reach(heap, root[r]) : Change(r, a)
    BY <1>2 DEF Next
  <2>2. last' = r /\ r \in Parties
    BY <2>1 DEF DeepCopyObject, Change, Parties
  <2>3. IsHeap(heap') /\ DOMAIN heap \subseteq DOMAIN heap'
    BY <2>1, CopyMakes, ChangeLeaves
  <2>4. \A p \in Parties \ {r} :
          /\ root'[p] = root[p]
          /\ root[p] # Nil =>
               Follow(heap', Reach(heap', root[p])) = Reach(heap', root[p])
    BY <1>2, <2>2, StepKeepsOthers DEF IInv
  <2>5. /\ root' \in [Parties -> DOMAIN heap' \cup {Nil}]
        /\ root'[r] # Nil =>
             /\ root'[r][1] = r
             /\ Follow(heap', Reach(heap', root'[r])) = Reach(heap', root'[r])
    <3>0. root \in [Parties -> DOMAIN heap \cup {Nil}]
      BY DEF IInv
    <3>1. ASSUME NEW p \in Parties, DeepCopyObject(r, p)
          PROVE  <2>5!1 /\ <2>5!2
      <4>1. root' = [root EXCEPT ![r] = New(r, root[p])]
        BY <3>1 DEF DeepCopyObject
      <4>2. /\ New(r, root[p]) \in DOMAIN heap' /\ New(r, root[p])[1] = r
            /\ Follow(heap', Reach(heap', New(r, root[p]))) = Reach(heap', New(r, root[p]))
        BY <3>1, CopyMakes
      <4> QED BY <2>2, <2>3, <3>0, <4>1, <4>2
    <3>2. ASSUME root[r] # Nil, NEW a \in Reach(heap, root[r]), Change(r, a)
          PROVE  <2>5!1 /\ <2>5!2
      <4>1. root' = root /\ DOMAIN heap' = DOMAIN heap
        BY <3>2, ChangeLeaves DEF Change
      <4>2. \A b \in DOMAIN heap : CellAddresses(heap', b) = CellAddresses(heap, b)
        BY <3>2, ChangeLeaves
      <4>3. /\ IsHeap(heap) /\ root[r] \in DOMAIN heap /\ root[r][1] = r
            /\ Follow(heap, Reach(heap, root[r])) = Reach(heap, root[r])
        BY <3>2, <2>2 DEF IInv
      <4>4. Follow(heap', Reach(heap', root[r])) = Reach(heap', root[r])
        BY <4>2, <4>3, ReachSame
      <4> QED BY <3>0, <4>1, <4>3, <4>4
    <3> QED BY <2>1, <3>1, <3>2
  <2>6. \A p \in Parties : root'[p] # Nil =>
          /\ root'[p][1] = p
          /\ Follow(heap', Reach(heap', root'[p])) = Reach(heap', root'[p])
    BY <2>2, <2>4, <2>5 DEF IInv
  <2> QED BY <2>2, <2>3, <2>5, <2>6 DEF IInv
<1> QED BY <1>1, <1>2

LEMMA InvariantHolds == Spec => []IInv
BY InitEstablishes, InvariantIsInductive, PTL DEF Spec
-----------------------------------------------------------------------------
(* Whatever the objects of the API look like and however copies are taken  *)
(* and written, no step shows in an object of a party that did not take    *)
(* it: the generated DeepCopy methods leave no memory shared.              *)
THEOREM NoObjectChangesUnderAnother == Spec => OthersUntouched
<1>1. IInv /\ [Next]_vars => [\A p \in Parties \ {last'} : View(p)' = View(p)]_vars
  <2> SUFFICES ASSUME IInv, Next, NEW p \in Parties \ {last'}
               PROVE  View(p)' = View(p)
    OBVIOUS
  <2> QED BY StepKeepsOthers DEF View
<1> QED BY <1>1, InvariantHolds, PTL DEF Spec, OthersUntouched

(* A copy, or a copy of a copy, shows what the cache's object shows until  *)
(* somebody writes: the DeepCopy methods lose no field and no element.     *)
THEOREM CopiesShowTheOriginal == Spec => []CopiesAreEqual
<1> DEFINE CInv == writes \in Nat /\ root[Cache] # Nil /\ CopiesAreEqual
<1>1. Init => CInv
  <2> SUFFICES ASSUME Init
               PROVE  CInv
    OBVIOUS
  <2>1. root = [p \in Parties |-> IF p = Cache THEN root[Cache] ELSE Nil] /\ Cache \in Parties
    BY DEF Init, Parties
  <2>2. root[Cache] # Nil
    BY ObjectsAssumption DEF Init, Parties, IsHeap
  <2> QED BY <2>1, <2>2 DEF Init, CopiesAreEqual
<1>2. CInv /\ IInv /\ [Next]_vars => CInv'
  <2> SUFFICES ASSUME CInv, IInv, [Next]_vars
               PROVE  CInv'
    OBVIOUS
  <2>1. CASE UNCHANGED vars
    BY <2>1 DEF vars, CopiesAreEqual, View
  <2>2. CASE Next
    <3>1. PICK r \in Readers : \/ \E p \in Parties : DeepCopyObject(r, p)
                               \/ root[r] # Nil /\ \E a \in Reach(heap, root[r]) : Change(r, a)
      BY <2>2 DEF Next
    <3>2. last' = r /\ Cache \in Parties \ {r}
      BY <3>1, ObjectsAssumption DEF DeepCopyObject, Change, Parties
    <3>3. \A p \in Parties \ {r} :
            root'[p] = root[p] /\ (root[p] # Nil => ViewFrom(heap', root[p]) = ViewFrom(heap, root[p]))
      BY <2>2, <3>2, StepKeepsOthers
    <3>4. ASSUME NEW p \in Parties, DeepCopyObject(r, p)
          PROVE  CInv'
      <4>1. /\ root'[r] = New(r, root[p]) /\ root[p] # Nil /\ writes' = writes
        BY <3>4 DEF DeepCopyObject, IInv, Parties
      <4>2. ViewFrom(heap', root'[r]) = ViewFrom(heap, root[p])
        BY <3>4, <4>1, CopyMakes
      <4>3. ASSUME writes = 0
            PROVE  \A q \in Parties : root'[q] # Nil => ViewFrom(heap', root'[q]) = ViewFrom(heap', root'[Cache])
        <5>1. \A q \in Parties : root[q] # Nil => ViewFrom(heap, root[q]) = ViewFrom(heap, root[Cache])
          BY <4>3, <3>2 DEF CopiesAreEqual, View
        <5> QED BY <5>1, <3>2, <3>3, <4>1, <4>2
      <4> QED BY <3>2, <3>3, <4>1, <4>3 DEF CopiesAreEqual, View
    <3>5. ASSUME NEW a, Change(r, a)
          PROVE  CInv'
      BY <3>2, <3>3, <3>5 DEF Change, CopiesAreEqual
    <3> QED BY <3>1, <3>4, <3>5
  <2> QED BY <2>1, <2>2
<1>3. CInv => CopiesAreEqual
  OBVIOUS
<1> QED BY <1>1, <1>2, <1>3, InvariantHolds, PTL DEF Spec
=============================================================================
