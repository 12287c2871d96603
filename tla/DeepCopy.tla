------------------------------ MODULE DeepCopy ------------------------------
(***************************************************************************)
(* The generated DeepCopy methods of the API types                         *)
(* (api/core/v1alpha1/zz_generated.deepcopy.go), on which sharing one      *)
(* cache between controllers rests: a reader is given a copy of the cached *)
(* object and changes it in place, as Reconcile changes conditions and     *)
(* components of the service it has read.                                  *)
(*                                                                         *)
(* Memory is a heap of cells.  A cell is what a pointer, slice or map      *)
(* refers to: a function from index or key to structs (from 1, for a       *)
(* pointer).  A struct has a type, the fields that refer to other cells by *)
(* address, embedded structs, and one val for all its other fields.  An    *)
(* address is <<owner, place>>: who allocated it and what it is in the     *)
(* object, so that a copy's places are those of the original.              *)
(***************************************************************************)
EXTENDS Integers, Sequences, FiniteSets

CONSTANTS
  Readers,    \* those who copy an object and change the copy
  Places,     \* what a cell can be in an object
  Objects,    \* what may be in the cache: records with fields heap and root
  MaxWrites,  \* bound: changes made through copies
  Nil

(* Fields of the types that are pointers, slices or maps, and fields that   *)
(* are structs with such fields.  ObjectMeta, ListMeta and RawExtension are  *)
(* library types, reduced to one reference each.                             *)
RefFields ==
  [InferenceService |-> {}, Model |-> {}, ClusterModel |-> {}, ModelLoader |-> {},
   List |-> {"items"}, ObjectMeta |-> {"labels"}, ListMeta |-> {"remainingItemCount"},
   InferenceServiceSpec |-> {"roles", "schedulingStrategy"},
   InferenceServiceStatus |-> {"conditions", "components"},
   Role |-> {"httpRoute", "gateway", "replicas", "multinode", "template"},
   ComponentStatus |-> {"lastUpdateTime"}, RawExtension |-> {"raw"},
   ModelSpec |-> {"lora", "prefetch"}, ModelSource |-> {"credentialsRef"},
   PrefetchSpec |-> {"nodeSelector"}, ModelStatus |-> {"prefetch", "conditions"},
   ModelLoaderSpec |-> {"foo"}, ModelLoaderStatus |-> {"conditions"},
   Plain |-> {}]

Embedded ==
  [t \in DOMAIN RefFields |->
     CASE t \in {"InferenceService", "Model", "ClusterModel", "ModelLoader"} ->
            {"objectMeta", "spec", "status"}
       [] t = "ModelSpec" -> {"source"}
       [] t = "List" -> {"listMeta"}
       [] OTHER -> {}]

Cache == "cache"
Parties == Readers \cup {Cache}

VARIABLES
  heap,    \* the cells in memory
  root,    \* where the cache and each reader have their object
  writes,  \* changes so far
  last     \* who took the last step

vars == <<heap, root, writes, last>>

Init ==
  /\ \E o \in Objects : /\ heap = o.heap
                        /\ root = [p \in Parties |-> IF p = Cache THEN o.root ELSE Nil]
  /\ writes = 0 /\ last = Cache
-----------------------------------------------------------------------------
(* The addresses in a struct and its embedded structs, and in a cell of *)
(* heap h.                                                              *)
Direct(s) == {s[f] : f \in RefFields[s.type]} \ {Nil}

Addresses(s) ==
  LET inner == {s[f] : f \in Embedded[s.type]}
  IN  Direct(s) \cup UNION {Direct(e) \cup UNION {Direct(e[f]) : f \in Embedded[e.type]} : e \in inner}

CellAddresses(h, a) == UNION {Addresses(h[a][x]) : x \in DOMAIN h[a]}

(* What can be reached from an address in four steps, which is everything: *)
(* lists have the deepest objects, list, items, roles, template, raw bytes. *)
Follow(h, S) == S \cup UNION {CellAddresses(h, a) : a \in S}

Reach(h, a) == Follow(h, Follow(h, Follow(h, Follow(h, {a}))))

(* A struct has the fields of its type, and in a cell it has a type with a *)
(* DeepCopyInto of its own, or one without references.                     *)
IsOf(type, s) ==
  s.type = type /\ {"type"} \cup RefFields[type] \cup Embedded[type] \subseteq DOMAIN s

IsStruct(s) ==
  /\ "val" \in DOMAIN s
  /\ \/ \E t \in {"Role", "ComponentStatus", "RawExtension", "PrefetchSpec", "Plain"} : IsOf(t, s)
     \/ IsOf("List", s) /\ IsOf("ListMeta", s.listMeta)
     \/ /\ IsOf("InferenceService", s) /\ IsOf("ObjectMeta", s.objectMeta)
        /\ IsOf("InferenceServiceSpec", s.spec) /\ IsOf("InferenceServiceStatus", s.status)
     \/ /\ \E t \in {"Model", "ClusterModel"} : IsOf(t, s)
        /\ IsOf("ObjectMeta", s.objectMeta) /\ IsOf("ModelSpec", s.spec)
        /\ IsOf("ModelSource", s.spec.source) /\ IsOf("ModelStatus", s.status)
     \/ /\ IsOf("ModelLoader", s) /\ IsOf("ObjectMeta", s.objectMeta)
        /\ IsOf("ModelLoaderSpec", s.spec) /\ IsOf("ModelLoaderStatus", s.status)

(* A well-formed heap: every reference is to a cell of the same owner. *)
IsHeap(h) ==
  /\ DOMAIN h \subseteq Parties \X Places
  /\ \A a \in DOMAIN h : \A x \in DOMAIN h[a] :
       /\ IsStruct(h[a][x])
       /\ \A b \in Addresses(h[a][x]) : b \in DOMAIN h /\ b[1] = a[1]

(* The objects of the cache are its own and no deeper than a list is. *)
ASSUME ObjectsAssumption ==
  /\ Cache \notin Readers
  /\ Nil \notin Parties \X Places
  /\ \A o \in Objects :
       /\ IsHeap(o.heap) /\ o.root \in DOMAIN o.heap /\ o.root[1] = Cache
       /\ Follow(o.heap, Reach(o.heap, o.root)) = Reach(o.heap, o.root)
-----------------------------------------------------------------------------
(* DeepCopyInto of each type.  *out = *in copies every field, addresses     *)
(* included; then each reference that is not nil is replaced by one to new  *)
(* memory, which reader r's copy has at the same place.                     *)
New(r, a) == IF a = Nil THEN Nil ELSE <<r, a[2]>>

ObjectMetaDeepCopyInto(r, in) == [in EXCEPT !.labels = New(r, @)]
ListMetaDeepCopyInto(r, in) == [in EXCEPT !.remainingItemCount = New(r, @)]
RawExtensionDeepCopyInto(r, in) == [in EXCEPT !.raw = New(r, @)]

(* Types without references: Multinode, SchedulingStrategy, SecretReference, *)
(* ModelReference, LoRAArtifactSpec, PrefetchStatus.                         *)
PlainDeepCopyInto(r, in) == in

RoleDeepCopyInto(r, in) ==
  [in EXCEPT !.httpRoute = New(r, @), !.gateway = New(r, @), !.replicas = New(r, @),
             !.multinode = New(r, @), !.template = New(r, @)]

InferenceServiceSpecDeepCopyInto(r, in) ==
  [in EXCEPT !.roles = New(r, @), !.schedulingStrategy = New(r, @)]

ComponentStatusDeepCopyInto(r, in) == [in EXCEPT !.lastUpdateTime = New(r, @)]

(* Mutants of InferenceServiceStatusDeepCopyInto: the map is shared; it is left *)
(* to be made on the first write.                                               *)
InferenceServiceStatusShared(r, in) == [in EXCEPT !.conditions = New(r, @)]
InferenceServiceStatusLazy(r, in) == [in EXCEPT !.conditions = New(r, @), !.components = Nil]

InferenceServiceStatusDeepCopyInto(r, in) ==
  [in EXCEPT !.conditions = New(r, @), !.components = New(r, @)]

InferenceServiceDeepCopyInto(r, in) ==
  [in EXCEPT !.objectMeta = ObjectMetaDeepCopyInto(r, @),
             !.spec = InferenceServiceSpecDeepCopyInto(r, @),
             !.status = InferenceServiceStatusDeepCopyInto(r, @)]

ModelSourceDeepCopyInto(r, in) == [in EXCEPT !.credentialsRef = New(r, @)]

PrefetchSpecDeepCopyInto(r, in) == [in EXCEPT !.nodeSelector = New(r, @)]

ModelSpecDeepCopyInto(r, in) ==
  [in EXCEPT !.source = ModelSourceDeepCopyInto(r, @),
             !.lora = New(r, @), !.prefetch = New(r, @)]

ModelStatusDeepCopyInto(r, in) ==
  [in EXCEPT !.prefetch = New(r, @), !.conditions = New(r, @)]

ModelDeepCopyInto(r, in) ==
  [in EXCEPT !.objectMeta = ObjectMetaDeepCopyInto(r, @),
             !.spec = ModelSpecDeepCopyInto(r, @), !.status = ModelStatusDeepCopyInto(r, @)]

ClusterModelDeepCopyInto(r, in) ==
  [in EXCEPT !.objectMeta = ObjectMetaDeepCopyInto(r, @),
             !.spec = ModelSpecDeepCopyInto(r, @), !.status = ModelStatusDeepCopyInto(r, @)]

ModelLoaderSpecDeepCopyInto(r, in) == [in EXCEPT !.foo = New(r, @)]

ModelLoaderStatusDeepCopyInto(r, in) == [in EXCEPT !.conditions = New(r, @)]

ModelLoaderDeepCopyInto(r, in) ==
  [in EXCEPT !.objectMeta = ObjectMetaDeepCopyInto(r, @),
             !.spec = ModelLoaderSpecDeepCopyInto(r, @),
             !.status = ModelLoaderStatusDeepCopyInto(r, @)]

(* InferenceServiceList, ModelList, ClusterModelList and ModelLoaderList. *)
ListDeepCopyInto(r, in) ==
  [in EXCEPT !.listMeta = ListMetaDeepCopyInto(r, @), !.items = New(r, @)]

(* The structs a cell may hold are copied by the method of their type. *)
DeepCopyInto(r, in) ==
  CASE in.type = "InferenceService" -> InferenceServiceDeepCopyInto(r, in)
    [] in.type = "Role"             -> RoleDeepCopyInto(r, in)
    [] in.type = "ComponentStatus"  -> ComponentStatusDeepCopyInto(r, in)
    [] in.type = "RawExtension"     -> RawExtensionDeepCopyInto(r, in)
    [] in.type = "Model"            -> ModelDeepCopyInto(r, in)
    [] in.type = "ClusterModel"     -> ClusterModelDeepCopyInto(r, in)
    [] in.type = "PrefetchSpec"     -> PrefetchSpecDeepCopyInto(r, in)
    [] in.type = "ModelLoader"      -> ModelLoaderDeepCopyInto(r, in)
    [] in.type = "List"             -> ListDeepCopyInto(r, in)
    [] OTHER                        -> PlainDeepCopyInto(r, in)

(* The copies of the cells: make and the loop over indices or keys, new for *)
(* a pointer.                                                               *)
Copies(r, cells) ==
  [a \in {New(r, b) : b \in cells} |->
     LET b == CHOOSE c \in cells : New(r, c) = a
     IN  [x \in DOMAIN heap[b] |-> DeepCopyInto(r, heap[b][x])]]

(* Reader r copies the object of the cache, or one another reader has *)
(* changed already.                                                   *)
DeepCopyObject(r, p) ==
  /\ root[r] = Nil /\ root[p] # Nil
  /\ LET copies == Copies(r, Reach(heap, root[p]))
     IN  heap' = [a \in DOMAIN heap \cup DOMAIN copies |->
                    IF a \in DOMAIN copies THEN copies[a] ELSE heap[a]]
  /\ root' = [root EXCEPT ![r] = New(r, root[p])]
  /\ last' = r /\ UNCHANGED writes

(* It changes a field, an element or an entry somewhere in its copy. *)
Change(r, a) ==
  /\ writes < MaxWrites /\ writes' = writes + 1
  /\ \E x \in DOMAIN heap[a] : heap' = [heap EXCEPT ![a][x].val = r]
  /\ last' = r /\ UNCHANGED root

Next ==
  \E r \in Readers : \/ \E p \in Parties : DeepCopyObject(r, p)
                     \/ root[r] # Nil /\ \E a \in Reach(heap, root[r]) : Change(r, a)

Spec == Init /\ [][Next]_vars
-----------------------------------------------------------------------------
(* Properties. *)

(* What a party sees of its object: every struct with its place and values. *)
ViewFrom(h, top) ==
  UNION {{<<a[2], x, h[a][x].type, h[a][x].val>> : x \in DOMAIN h[a]} : a \in Reach(h, top)}

View(p) == IF root[p] = Nil THEN {} ELSE ViewFrom(heap, root[p])

(* Nobody's object changes under another's hands: what Reconcile does to    *)
(* the service it has read never reaches the informer's cache, another      *)
(* controller's copy, or a copy taken earlier.                              *)
OthersUntouched == [][\A p \in Parties \ {last'} : View(p)' = View(p)]_vars

(* A copy shows what the object copied showed: as long as nobody writes,   *)
(* all see the same, every list, map and optional field included.          *)
CopiesAreEqual ==
  writes = 0 => \A p \in Parties : root[p] # Nil => View(p) = View(Cache)
=============================================================================
