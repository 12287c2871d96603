---------------------------- MODULE ModelsProofs ----------------------------
(***************************************************************************)
(* Theorems about Models, for every set of names, sources and references   *)
(* and every number of objects.                                            *)
(***************************************************************************)
EXTENDS Models, TLAPS

(* Every object in the store was admitted by the rules of its kind, and has *)
(* the uid of a creation.                                                   *)
ObjectOK(k) ==
  /\ store[k].spec \in ModelSpecs /\ Valid(k[1], store[k].spec)
  /\ store[k].uid \in 1 .. Len(artifacts)
  /\ Artifact(store[k].spec) = artifacts[store[k].uid]

IInv ==
  /\ store = [k \in Keys |-> store[k]]
  /\ artifacts \in Seq({Artifact(spec) : spec \in ModelSpecs})
  /\ \A k \in Keys : /\ store[k] # Nil => ObjectOK(k)
                     /\ store[k] # Nil =>
                          store[k] = [uid |-> store[k].uid, spec |-> store[k].spec,
                                      prefetchStatus |-> store[k].prefetchStatus]

(* The two rules on lora together keep it, whether it is set or not. *)
LEMMA SameLoRAIsSame ==
  ASSUME NEW old, NEW new, SameLoRA(old, new)
  PROVE  new.lora = old.lora
BY DEF SameLoRA

(* What an update of one field leaves of an object. *)
LEMMA RecordUpdate ==
  ASSUME NEW o, o = [uid |-> o.uid, spec |-> o.spec, prefetchStatus |-> o.prefetchStatus], NEW v
  PROVE  LET new   == [o EXCEPT !.spec = v]
             other == [o EXCEPT !.prefetchStatus = v]
         IN  /\ new = [uid |-> new.uid, spec |-> new.spec, prefetchStatus |-> new.prefetchStatus]
             /\ new.uid = o.uid /\ new.spec = v
             /\ other = [uid |-> other.uid, spec |-> other.spec,
                         prefetchStatus |-> other.prefetchStatus]
             /\ other.uid = o.uid /\ other.spec = o.spec
<1> DEFINE u == o.uid
           p == o.spec
           q == o.prefetchStatus
<1>1. o = [uid |-> u, spec |-> p, prefetchStatus |-> q]
  OBVIOUS
<1> HIDE DEF u, p, q
<1>2. [o EXCEPT !.spec = v] = [uid |-> u, spec |-> v, prefetchStatus |-> q]
  BY <1>1
<1>3. [o EXCEPT !.prefetchStatus = v] = [uid |-> u, spec |-> p, prefetchStatus |-> v]
  BY <1>1
<1> QED  BY <1>1, <1>2, <1>3

(* A creation keeps what earlier ones recorded. *)
LEMMA CreateKeeps ==
  ASSUME IInv, NEW k \in Keys, Create(k)
  PROVE  IInv'
<1>1. PICK spec \in ModelSpecs :
        /\ Valid(k[1], spec)
        /\ artifacts' = Append(artifacts, Artifact(spec))
        /\ store' = [store EXCEPT ![k] = [uid |-> Len(artifacts'), spec |-> spec,
                                          prefetchStatus |-> Nil]]
  BY DEF Create
<1> DEFINE A == {Artifact(s) : s \in ModelSpecs}
           n == Len(artifacts)
<1>2. artifacts \in Seq(A) /\ Artifact(spec) \in A
  BY DEF IInv
<1> HIDE DEF A
<1>3. /\ artifacts' \in Seq(A) /\ Len(artifacts') = n + 1 /\ n \in Nat
      /\ artifacts'[n + 1] = Artifact(spec)
      /\ \A i \in 1 .. n : artifacts'[i] = artifacts[i]
  BY <1>1, <1>2
<1>4. /\ store' = [j \in Keys |-> store'[j]]
      /\ store'[k] = [uid |-> n + 1, spec |-> spec, prefetchStatus |-> Nil]
      /\ \A j \in Keys \ {k} : store'[j] = store[j]
  BY <1>1, <1>3 DEF IInv
<1>5. ObjectOK(k)'
  BY <1>1, <1>3, <1>4 DEF ObjectOK
<1>6. \A j \in Keys \ {k} : store'[j] # Nil => ObjectOK(j)'
  <2>1. SUFFICES ASSUME NEW j \in Keys \ {k}, store[j] # Nil PROVE ObjectOK(j)'
    BY <1>4
  <2>2. ObjectOK(j)
    BY <2>1 DEF IInv
  <2> QED  BY <1>3, <1>4, <2>2 DEF ObjectOK
<1>7. \A j \in Keys : store'[j] # Nil =>
        store'[j] = [uid |-> store'[j].uid, spec |-> store'[j].spec,
                     prefetchStatus |-> store'[j].prefetchStatus]
  BY <1>4 DEF IInv
<1> QED  BY <1>3, <1>4, <1>5, <1>6, <1>7 DEF IInv, A

(* An update that is admitted keeps the artifact; a status update and a *)
(* deletion do not touch it.                                            *)
LEMMA ChangeKeeps ==
  ASSUME IInv, NEW k \in Keys, Update(k) \/ UpdateStatus(k) \/ Delete(k)
  PROVE  IInv'
<1>1. artifacts' = artifacts /\ store[k] # Nil
  BY DEF Update, UpdateStatus, Delete
<1>2. ObjectOK(k)
  BY <1>1 DEF IInv
<1>3. store[k] = [uid |-> store[k].uid, spec |-> store[k].spec,
                  prefetchStatus |-> store[k].prefetchStatus]
  BY <1>1 DEF IInv
<1>4. PICK o : store' = [store EXCEPT ![k] = o]
               /\ \/ o = Nil
                  \/ /\ o = [uid |-> o.uid, spec |-> o.spec, prefetchStatus |-> o.prefetchStatus]
                     /\ o.uid = store[k].uid
                     /\ o.spec \in ModelSpecs /\ Valid(k[1], o.spec)
                     /\ Artifact(o.spec) = Artifact(store[k].spec)
  <2>1. CASE Update(k)
    <3>1. PICK spec \in ModelSpecs :
            /\ Valid(k[1], spec) /\ SameURI(store[k].spec, spec) /\ SameLoRA(store[k].spec, spec)
            /\ store' = [store EXCEPT ![k].spec = spec]
      BY <2>1 DEF Update
    <3>2. Artifact(spec) = Artifact(store[k].spec)
      BY <3>1, SameLoRAIsSame DEF SameURI, Artifact
    <3> DEFINE o == [store[k] EXCEPT !.spec = spec]
    <3>3. store' = [store EXCEPT ![k] = o]
      BY <3>1
    <3>4. /\ o = [uid |-> o.uid, spec |-> o.spec, prefetchStatus |-> o.prefetchStatus]
          /\ o.uid = store[k].uid /\ o.spec = spec
      BY <1>3, RecordUpdate
    <3> HIDE DEF o
    <3> QED  BY <3>1, <3>2, <3>3, <3>4
  <2>2. CASE UpdateStatus(k)
    <3>1. PICK prefetch : store' = [store EXCEPT ![k].prefetchStatus = prefetch]
      BY <2>2 DEF UpdateStatus
    <3> DEFINE o == [store[k] EXCEPT !.prefetchStatus = prefetch]
    <3>2. store' = [store EXCEPT ![k] = o]
      BY <3>1
    <3>3. /\ o = [uid |-> o.uid, spec |-> o.spec, prefetchStatus |-> o.prefetchStatus]
          /\ o.uid = store[k].uid /\ o.spec = store[k].spec
      BY <1>3, RecordUpdate
    <3> HIDE DEF o
    <3> QED  BY <1>2, <3>2, <3>3 DEF ObjectOK
  <2>3. CASE Delete(k)
    BY <2>3 DEF Delete
  <2> QED  BY <2>1, <2>2, <2>3
<1>5. /\ store' = [j \in Keys |-> store'[j]] /\ store'[k] = o
      /\ \A j \in Keys \ {k} : store'[j] = store[j]
  BY <1>4 DEF IInv
<1>6. ASSUME NEW j \in Keys, store'[j] # Nil
      PROVE  /\ ObjectOK(j)'
             /\ store'[j] = [uid |-> store'[j].uid, spec |-> store'[j].spec,
                             prefetchStatus |-> store'[j].prefetchStatus]
  <2>1. CASE j = k
    BY <1>1, <1>2, <1>4, <1>5, <1>6, <2>1 DEF ObjectOK
  <2>2. CASE j # k
    BY <1>1, <1>5, <1>6, <2>2 DEF ObjectOK, IInv
  <2> QED  BY <2>1, <2>2
<1> QED  BY <1>1, <1>5, <1>6 DEF IInv

(* The invariant holds in every reachable state. *)
LEMMA InvariantIsInductive == Spec => []IInv
<1>1. Init => IInv
  BY DEF Init, IInv
<1>2. IInv /\ [Next]_vars => IInv'
  <2>1. ASSUME IInv, Next PROVE IInv'
    BY <2>1, CreateKeeps, ChangeKeeps DEF Next
  <2>2. ASSUME IInv, UNCHANGED vars PROVE IInv'
    BY <2>2 DEF vars, IInv, ObjectOK
  <2> QED  BY <2>1, <2>2
<1> QED  BY <1>1, <1>2, PTL DEF Spec

(* The validation rules make an object stand for the artifact it was       *)
(* created as, through every sequence of admitted updates, deletions and   *)
(* creations under the same name.                                          *)
THEOREM ArtifactNeverChanges == Spec => []ArtifactIsFixed
<1>1. IInv => ArtifactIsFixed
  BY DEF IInv, ObjectOK, ArtifactIsFixed
<1> QED  BY <1>1, InvariantIsInductive, PTL
=============================================================================
