----------------------- MODULE InformerFactoryProofs -----------------------
(***************************************************************************)
(* Proofs about the informer factory, for every set of callers, finite set *)
(* of resources and options.                                               *)
(***************************************************************************)
EXTENDS InformerFactory, FiniteSetTheorems, TLAPS

(* The invariant.  Calls, handed out informers and goroutines are about the *)
(* informers of the map; ...                                                *)
Ops == {"none", "sync", "shutdown", "done"}

CallsOK ==
  /\ call \in [Callers -> [op : Ops, todo : SUBSET Requested, ok : BOOLEAN]]
  /\ held \in [Callers -> SUBSET Requested]
  /\ asked \in [Callers -> SUBSET Requested]

GoroutinesOK ==
  /\ goroutines \subseteq Requested \X Callers
  /\ \A g \in goroutines : g[1].type \in startedInformers

(* ... the wait group counts the goroutines; ... *)
Counted == IsFiniteSet(goroutines) /\ wg = Cardinality(goroutines)

(* ... after a Shutdown has returned there are none, nor will Start make any; ... *)
ReturnOK ==
  /\ returned => shuttingDown /\ goroutines = {}
  /\ \A c \in Callers : call[c].op = "shutdown" => shuttingDown

(* ... what a caller had asked for when it called Start is started, and while *)
(* it waits it is synced or still to be polled.                               *)
AskedOK ==
  ~shuttingDown =>
    \A c \in Callers :
      /\ asked[c] \subseteq StartedInformers
      /\ call[c].op = "sync" /\ call[c].ok => asked[c] \subseteq synced \cup call[c].todo

IInv == TypeOK /\ CallsOK /\ GoroutinesOK /\ Counted /\ RunOnce /\ ReturnOK /\ AskedOK
-----------------------------------------------------------------------------
(* A new informer has the type it was asked for (NewInformerFunc of each type). *)
LEMMA NewInformerType ==
  ASSUME NEW t \in KnownResources
  PROVE  NewInformer(t).type = t
BY DEF KnownResources, NewInformer, NewFunc, NewClusterModelInformer,
       NewInferenceServiceInformer, NewModelInformer

(* InformerFor adds at most one informer to the map and keeps the others. *)
LEMMA InformersKept ==
  ASSUME IInv, NEW c \in Callers, NEW t \in Types, InformerFor(c, t)
  PROVE  /\ DOMAIN informers' = DOMAIN informers \cup {t}
         /\ \A u \in DOMAIN informers : informers'[u] = informers[u]
         /\ informers'[t].type = t
         /\ made' \in [Types -> Nat]
<1>1. CASE t \in DOMAIN informers
  BY <1>1 DEF InformerFor, IInv, TypeOK
<1>2. CASE t \notin DOMAIN informers
  <2>1. informers' = WithInformer(t) /\ made' = [made EXCEPT ![t] = @ + 1]
    BY <1>2 DEF InformerFor
  <2>2. NewInformer(t).type = t
    BY NewInformerType DEF Types
  <2> HIDE DEF NewInformer
  <2>3. DOMAIN informers' = DOMAIN informers \cup {t} /\ informers'[t] = NewInformer(t)
        /\ \A u \in DOMAIN informers : informers'[u] = informers[u]
    BY <1>2, <2>1 DEF WithInformer
  <2> QED
    BY <2>1, <2>2, <2>3 DEF IInv, TypeOK
<1> QED
  BY <1>1, <1>2

(* Hence every informer stays in the map. *)
LEMMA RequestedGrows ==
  ASSUME IInv, NEW c \in Callers, NEW t \in Types, InformerFor(c, t)
  PROVE  /\ Requested \subseteq Requested' /\ informers'[t] \in Requested'
         /\ StartedInformers' = StartedInformers
<1>1. startedInformers' = startedInformers /\ startedInformers \subseteq DOMAIN informers
  BY DEF InformerFor, requestFrame, IInv, TypeOK
<1>2. /\ DOMAIN informers' = DOMAIN informers \cup {t}
      /\ \A u \in DOMAIN informers : informers'[u] = informers[u]
  BY InformersKept
<1>3. Requested \subseteq Requested' /\ informers'[t] \in Requested'
  BY <1>2 DEF Requested
<1>4. DOMAIN informers' \cap startedInformers' = DOMAIN informers \cap startedInformers
  BY <1>1, <1>2
<1>5. StartedInformers' = StartedInformers
  BY <1>1, <1>2, <1>4 DEF StartedInformers
<1> QED
  BY <1>3, <1>5

(* The goroutines a call of Start adds: one of its own for each informer   *)
(* not started yet, so that the wait group grows by their number.          *)
LEMMA StartAdds ==
  ASSUME IInv, NEW c \in Callers
  PROVE  /\ goroutines \cap Goroutines(NotStarted, c) = {}
         /\ IsFiniteSet(goroutines \cup Goroutines(NotStarted, c))
         /\ Cardinality(goroutines \cup Goroutines(NotStarted, c))
              = wg + Cardinality(NotStarted)
<1> DEFINE new == Goroutines(NotStarted, c)
<1>1. IsFiniteSet(NotStarted)
  <2>1. IsFiniteSet(Types)
    BY ResourcesAssumption, FS_Subset DEF Types
  <2>2. NotStarted \subseteq Types
    BY DEF NotStarted, IInv, TypeOK
  <2> QED
    BY <2>1, <2>2, FS_Subset
<1>2. \A t \in NotStarted : informers[t].type = t /\ t \notin startedInformers
  BY DEF NotStarted, IInv, TypeOK
<1>3. goroutines \cap new = {}
  <2> SUFFICES ASSUME NEW t \in NotStarted, <<informers[t], c>> \in goroutines
               PROVE  FALSE
    BY DEF Goroutines
  <2>1. <<informers[t], c>>[1].type \in startedInformers
    BY DEF IInv, GoroutinesOK
  <2> QED
    BY <2>1, <1>2
<1>4. IsFiniteSet(new) /\ Cardinality(new) = Cardinality(NotStarted)
  <2> DEFINE f == [t \in NotStarted |-> <<informers[t], c>>]
  <2>1. f \in Bijection(NotStarted, new)
    <3>1. f \in [NotStarted -> new]
      BY DEF Goroutines
    <3>2. \A t, u \in NotStarted : f[t] = f[u] => t = u
      BY <1>2
    <3>3. \A g \in new : \E t \in NotStarted : f[t] = g
      BY DEF Goroutines
    <3> QED
      BY <3>1, <3>2, <3>3 DEF Bijection, Injection, Surjection, IsInjective
  <2> HIDE DEF f
  <2> QED
    BY <1>1, <2>1, FS_Bijection DEF ExistsBijection
<1>5. IsFiniteSet(goroutines) /\ wg = Cardinality(goroutines)
  BY DEF IInv, Counted
<1> HIDE DEF new
<1>6. Cardinality(goroutines \cup new)
        = Cardinality(goroutines) + Cardinality(new) - Cardinality(goroutines \cap new)
  BY <1>4, <1>5, FS_Union
<1>7. IsFiniteSet(goroutines \cup new)
  BY <1>4, <1>5, FS_Union
<1>8. Cardinality(goroutines \cap new) = 0 /\ wg \in Nat /\ Cardinality(NotStarted) \in Nat
  BY <1>1, <1>3, <1>5, FS_EmptySet, FS_CardinalityType
<1> QED
  BY <1>3, <1>4, <1>5, <1>6, <1>7, <1>8 DEF new
-----------------------------------------------------------------------------
(* Each step keeps the invariant. *)
LEMMA InitIInv == Init => IInv
<1> SUFFICES ASSUME Init PROVE IInv
  OBVIOUS
<1>1. Requested = {} /\ StartedInformers = {}
  BY DEF Init, Requested, StartedInformers
<1>2. TypeOK
  BY <1>1 DEF Init, TypeOK, NoCall, Calling
<1>3. CallsOK
  BY <1>1 DEF Init, CallsOK, NoCall, Calling, Ops
<1>4. Counted
  BY FS_EmptySet DEF Init, Counted
<1>5. GoroutinesOK /\ RunOnce /\ ReturnOK
  BY DEF Init, GoroutinesOK, RunOnce, ReturnOK, NoCall, Calling
<1>6. AskedOK
  BY <1>1 DEF Init, AskedOK, NoCall, Calling
<1> QED
  BY <1>2, <1>3, <1>4, <1>5, <1>6 DEF IInv

(* InformerFor: the map grows. *)
LEMMA InformerForKeeps ==
  ASSUME IInv, NEW c \in Callers, NEW t \in Types, InformerFor(c, t)
  PROVE  IInv'
<1> USE InformersKept, RequestedGrows
<1>1. UNCHANGED <<startedInformers, wg, shuttingDown, goroutines, synced, closed, call, asked, returned>>
  BY DEF InformerFor, requestFrame
<1>2. held' = [held EXCEPT ![c] = @ \cup {informers'[t]}]
  BY DEF InformerFor
<1>3. TypeOK'
  <2>1. DOMAIN informers' \subseteq Types /\ \A u \in DOMAIN informers' : informers'[u].type = u
    <3>1. /\ DOMAIN informers' = DOMAIN informers \cup {t} /\ informers'[t].type = t
          /\ \A u \in DOMAIN informers : informers'[u] = informers[u]
      BY InformersKept
    <3>2. DOMAIN informers \subseteq Types /\ \A u \in DOMAIN informers : informers[u].type = u
      BY DEF IInv, TypeOK
    <3> QED
      BY <3>1, <3>2
  <2>2. \A g \in goroutines' : g[1] \in Requested' /\ g[2] \in Callers
    BY <1>1 DEF IInv, TypeOK
  <2> QED
    BY <1>1, <2>1, <2>2 DEF IInv, TypeOK
<1>4. CallsOK'
  <2>1. call' \in [Callers -> [op : Ops, todo : SUBSET Requested', ok : BOOLEAN]]
    BY <1>1 DEF IInv, CallsOK
  <2>2. held' \in [Callers -> SUBSET Requested'] /\ asked' \in [Callers -> SUBSET Requested']
    BY <1>1, <1>2 DEF IInv, CallsOK
  <2> QED
    BY <2>1, <2>2 DEF CallsOK
<1>5. GoroutinesOK'
  BY <1>1 DEF IInv, GoroutinesOK
<1>6. Counted' /\ RunOnce' /\ ReturnOK'
  BY <1>1 DEF IInv, Counted, RunOnce, ReturnOK
<1>7. AskedOK'
  BY <1>1 DEF IInv, AskedOK
<1> QED
  BY <1>3, <1>4, <1>5, <1>6, <1>7 DEF IInv

(* Start: what it adds is marked, counted and new. *)
LEMMA StartKeeps ==
  ASSUME IInv, NEW c \in Callers, Start(c)
  PROVE  IInv'
<1>1. /\ UNCHANGED <<informers, shuttingDown, synced, closed, call, held, made, returned>>
      /\ asked' = [asked EXCEPT ![c] = held[c]] /\ call[c] = NoCall
  BY DEF Start, startFrame
<1>2. Requested' = Requested
  BY <1>1 DEF Requested
<1>3. CallsOK'
  BY <1>1, <1>2 DEF IInv, CallsOK
<1>4. CASE shuttingDown
  <2>1. UNCHANGED <<wg, goroutines, startedInformers>>
    BY <1>4 DEF Start
  <2>2. TypeOK'
    BY <1>1, <1>2, <2>1 DEF IInv, TypeOK
  <2>3. GoroutinesOK' /\ Counted' /\ RunOnce' /\ ReturnOK' /\ AskedOK'
    BY <1>1, <1>2, <1>4, <2>1 DEF IInv, GoroutinesOK, Counted, RunOnce, ReturnOK, AskedOK
  <2> QED
    BY <1>3, <2>2, <2>3 DEF IInv
<1>5. CASE ~shuttingDown
  <2>1. /\ wg' = wg + Cardinality(NotStarted)
        /\ goroutines' = goroutines \cup Goroutines(NotStarted, c)
        /\ startedInformers' = startedInformers \cup NotStarted
    BY <1>5 DEF Start
  <2>2. startedInformers' = DOMAIN informers
    BY <2>1 DEF NotStarted, IInv, TypeOK
  <2>3. \A g \in Goroutines(NotStarted, c) :
           g \in Requested \X Callers /\ g[1].type \in NotStarted /\ g[2] = c
    BY DEF Goroutines, NotStarted, Requested, IInv, TypeOK
  <2>4. GoroutinesOK'
    BY <1>2, <2>1, <2>3 DEF IInv, GoroutinesOK
  <2>5. Counted'
    BY <2>1, StartAdds DEF Counted
  <2>6. RunOnce'
    <3> SUFFICES ASSUME NEW g \in goroutines', NEW h \in goroutines', g[1] = h[1]
                 PROVE  g = h
      BY DEF RunOnce
    <3>1. g \in goroutines /\ h \in goroutines => g = h
      BY DEF IInv, RunOnce
    <3>2. \A x \in goroutines : x[1].type \in startedInformers
      BY DEF IInv, GoroutinesOK
    <3>3. (g \in goroutines <=> h \in goroutines)
      BY <2>1, <2>3, <3>2 DEF NotStarted
    <3>4. g \notin goroutines /\ h \notin goroutines => g[2] = h[2]
      BY <2>1, <2>3
    <3>5. g = <<g[1], g[2]>> /\ h = <<h[1], h[2]>>
      BY <2>4 DEF GoroutinesOK
    <3> QED
      BY <3>1, <3>3, <3>4, <3>5
  <2>7. TypeOK'
    <3>1. wg' \in Nat
      BY <2>5, FS_CardinalityType DEF Counted
    <3>2. \A g \in goroutines' : g[1] \in Requested' /\ g[2] \in Callers
      BY <2>4 DEF GoroutinesOK
    <3> QED
      BY <1>1, <1>2, <2>2, <3>1, <3>2 DEF IInv, TypeOK
  <2>8. ReturnOK'
    BY <1>1, <1>5 DEF IInv, ReturnOK
  <2>9. AskedOK'
    <3>1. StartedInformers' = Requested
      BY <1>1, <2>2 DEF StartedInformers, Requested
    <3>2. \A d \in Callers : asked'[d] \subseteq StartedInformers'
      BY <1>2, <1>3, <3>1 DEF CallsOK
    <3>3. call[c].op # "sync"
      BY <1>1 DEF NoCall, Calling
    <3>4. \A d \in Callers : d # c => asked'[d] = asked[d]
      BY <1>1 DEF IInv, CallsOK
    <3> QED
      BY <1>1, <1>5, <3>2, <3>3, <3>4 DEF IInv, AskedOK
  <2> QED
    BY <1>3, <2>4, <2>5, <2>6, <2>7, <2>8, <2>9 DEF IInv
<1> QED
  BY <1>4, <1>5

(* Steps that leave the map, the marks and the goroutines alone: the       *)
(* caller's own data decides.                                              *)
LEMMA CallStepKeeps ==
  ASSUME IInv,
         UNCHANGED <<informers, startedInformers, wg, made, goroutines, synced, closed>>,
         shuttingDown' \in BOOLEAN, returned' \in BOOLEAN, shuttingDown => shuttingDown',
         CallsOK', ReturnOK', AskedOK'
  PROVE  IInv'
<1>1. Requested' = Requested
  BY DEF Requested
<1>2. TypeOK'
  BY <1>1 DEF IInv, TypeOK, CallsOK, Ops
<1>3. GoroutinesOK' /\ Counted' /\ RunOnce'
  BY <1>1 DEF IInv, GoroutinesOK, Counted, RunOnce
<1> QED
  BY <1>2, <1>3 DEF IInv

(* Shutdown: from now on nothing is promised about what was asked for. *)
LEMMA ShutdownKeeps ==
  ASSUME IInv, NEW c \in Callers, Shutdown(c)
  PROVE  IInv'
<1>1. /\ UNCHANGED <<informers, startedInformers, wg, made, goroutines, synced, closed, returned>>
      /\ shuttingDown' = TRUE /\ call' = [call EXCEPT ![c] = Calling("shutdown", {})]
      /\ held' = [held EXCEPT ![c] = {}] /\ asked' = [asked EXCEPT ![c] = {}]
  BY DEF Shutdown, callFrame
<1>2. Requested' = Requested
  BY <1>1 DEF Requested
<1>3. CallsOK'
  BY <1>1, <1>2 DEF IInv, CallsOK, Calling, Ops
<1>4. ReturnOK' /\ AskedOK'
  BY <1>1 DEF IInv, ReturnOK, AskedOK
<1>5. returned' \in BOOLEAN
  BY <1>1 DEF IInv, TypeOK
<1> QED
  BY <1>1, <1>3, <1>4, <1>5, CallStepKeeps

(* wg.Wait returns: the counter is zero, so no goroutine is left. *)
LEMMA ShutdownReturnsKeeps ==
  ASSUME IInv, NEW c \in Callers, ShutdownReturns(c)
  PROVE  IInv'
<1>1. /\ UNCHANGED <<informers, startedInformers, wg, made, goroutines, synced, closed,
                     shuttingDown, held, asked>>
      /\ call' = [call EXCEPT ![c] = Calling("done", {})] /\ returned' = TRUE
      /\ call[c].op = "shutdown" /\ wg = 0
  BY DEF ShutdownReturns, callFrame
<1>2. Requested' = Requested /\ StartedInformers' = StartedInformers
  BY <1>1 DEF Requested, StartedInformers
<1>3. CallsOK'
  BY <1>1, <1>2 DEF IInv, CallsOK, Calling, Ops
<1>4. goroutines = {}
  BY <1>1, FS_EmptySet DEF IInv, Counted
<1>5. shuttingDown
  BY <1>1 DEF IInv, ReturnOK
<1>6. ReturnOK' /\ AskedOK'
  BY <1>1, <1>4, <1>5 DEF ReturnOK, AskedOK
<1> QED
  BY <1>1, <1>3, <1>5, <1>6, CallStepKeeps

(* WaitForCacheSync polls what is started, which holds what was asked for. *)
LEMMA WaitForCacheSyncKeeps ==
  ASSUME IInv, NEW c \in Callers, WaitForCacheSync(c)
  PROVE  IInv'
<1>1. /\ UNCHANGED <<informers, startedInformers, wg, made, goroutines, synced, closed,
                     shuttingDown, returned, held, asked>>
      /\ call' = [call EXCEPT ![c] = Calling("sync", StartedInformers)]
  BY DEF WaitForCacheSync, callFrame
<1>2. Requested' = Requested /\ StartedInformers' = StartedInformers
  BY <1>1 DEF Requested, StartedInformers
<1>3. StartedInformers \subseteq Requested
  BY DEF StartedInformers, Requested
<1>4. CallsOK'
  BY <1>1, <1>2, <1>3 DEF IInv, CallsOK, Calling, Ops
<1>5. AskedOK'
  <2>1. call'[c].todo = StartedInformers /\ \A d \in Callers : d # c => call'[d] = call[d]
    BY <1>1 DEF IInv, CallsOK, Calling
  <2> QED
    BY <1>1, <1>2, <2>1 DEF IInv, AskedOK
<1>6. ReturnOK' /\ shuttingDown' \in BOOLEAN /\ returned' \in BOOLEAN
  <2>1. \A d \in Callers : call'[d] = call[d] \/ call'[d].op = "sync"
    BY <1>1 DEF IInv, CallsOK, Calling
  <2> QED
    BY <1>1, <2>1 DEF IInv, ReturnOK, TypeOK
<1> QED
  BY <1>1, <1>4, <1>5, <1>6, CallStepKeeps

(* An informer leaves the list when it is synced, or spoils the result. *)
LEMMA SyncDoneKeeps ==
  ASSUME IInv, NEW c \in Callers, SyncDone(c)
  PROVE  IInv'
<1>1. UNCHANGED <<informers, startedInformers, wg, made, goroutines, synced, closed,
                  shuttingDown, returned, held, asked>>
  BY DEF SyncDone, callFrame
<1>2. Requested' = Requested /\ StartedInformers' = StartedInformers
  BY <1>1 DEF Requested, StartedInformers
<1>3. PICK i \in call[c].todo :
        \/ i \in synced /\ call' = [call EXCEPT ![c].todo = @ \ {i}]
        \/ call' = [call EXCEPT ![c].todo = @ \ {i}, ![c].ok = FALSE]
  BY DEF SyncDone
<1>4. /\ \A d \in Callers : d # c => call'[d] = call[d]
      /\ call'[c].todo = call[c].todo \ {i} /\ call'[c].op = call[c].op
      /\ call'[c].ok => i \in synced /\ call[c].ok
      /\ call' \in [Callers -> [op : Ops, todo : SUBSET Requested, ok : BOOLEAN]]
  BY <1>3 DEF IInv, CallsOK
<1>5. CallsOK'
  BY <1>1, <1>2, <1>4 DEF IInv, CallsOK
<1>6. AskedOK'
  BY <1>1, <1>2, <1>4 DEF IInv, AskedOK
<1>7. ReturnOK' /\ shuttingDown' \in BOOLEAN /\ returned' \in BOOLEAN
  BY <1>1, <1>4 DEF IInv, ReturnOK, TypeOK
<1> QED
  BY <1>1, <1>5, <1>6, <1>7, CallStepKeeps

(* WaitForCacheSync hands out its results. *)
LEMMA WaitForCacheSyncReturnsKeeps ==
  ASSUME IInv, NEW c \in Callers, WaitForCacheSyncReturns(c)
  PROVE  IInv'
<1>1. /\ UNCHANGED <<informers, startedInformers, wg, made, goroutines, synced, closed,
                     shuttingDown, returned, held, asked>>
      /\ call' = [call EXCEPT ![c] = NoCall]
  BY DEF WaitForCacheSyncReturns, callFrame
<1>2. Requested' = Requested /\ StartedInformers' = StartedInformers
  BY <1>1 DEF Requested, StartedInformers
<1>3. CallsOK' /\ \A d \in Callers : call'[d] = call[d] \/ call'[d].op = "none"
  BY <1>1, <1>2 DEF IInv, CallsOK, NoCall, Calling, Ops
<1>4. AskedOK'
  BY <1>1, <1>2, <1>3 DEF IInv, AskedOK
<1>5. ReturnOK' /\ shuttingDown' \in BOOLEAN /\ returned' \in BOOLEAN
  BY <1>1, <1>3 DEF IInv, ReturnOK, TypeOK
<1> QED
  BY <1>1, <1>3, <1>4, <1>5, CallStepKeeps

(* A running informer becomes synced. *)
LEMMA SyncKeeps ==
  ASSUME IInv, NEW i, Sync(i)
  PROVE  IInv'
<1>1. /\ synced' = synced \cup {i}
      /\ UNCHANGED <<informers, startedInformers, wg, shuttingDown, made, goroutines, closed,
                     call, held, asked, returned>>
  BY DEF Sync, factoryVars, callerVars
<1>2. Requested' = Requested /\ StartedInformers' = StartedInformers
  BY <1>1 DEF Requested, StartedInformers
<1>3. i \in Requested
  BY DEF Sync, IInv, TypeOK
<1>4. TypeOK'
  BY <1>1, <1>2, <1>3 DEF IInv, TypeOK
<1>5. CallsOK' /\ GoroutinesOK' /\ Counted' /\ RunOnce' /\ ReturnOK'
  BY <1>1, <1>2 DEF IInv, CallsOK, GoroutinesOK, Counted, RunOnce, ReturnOK
<1>6. AskedOK'
  BY <1>1, <1>2 DEF IInv, AskedOK
<1> QED
  BY <1>4, <1>5, <1>6 DEF IInv

(* A goroutine ends and is no longer counted. *)
LEMMA GoroutineEndsKeeps ==
  ASSUME IInv, NEW g \in goroutines, GoroutineEnds(g)
  PROVE  IInv'
<1>1. /\ goroutines' = goroutines \ {g} /\ wg' = wg - 1
      /\ UNCHANGED <<informers, startedInformers, shuttingDown, made, synced, closed,
                     call, held, asked, returned>>
  BY DEF GoroutineEnds, callerVars
<1>2. Requested' = Requested /\ StartedInformers' = StartedInformers
  BY <1>1 DEF Requested, StartedInformers
<1>3. Counted'
  BY <1>1, FS_RemoveElement DEF IInv, Counted
<1>4. wg' \in Nat
  BY <1>3, FS_CardinalityType DEF Counted
<1>5. TypeOK'
  BY <1>1, <1>2, <1>4 DEF IInv, TypeOK
<1>6. CallsOK' /\ GoroutinesOK' /\ RunOnce' /\ ReturnOK'
  BY <1>1, <1>2 DEF IInv, CallsOK, GoroutinesOK, RunOnce, ReturnOK
<1>7. AskedOK'
  BY <1>1, <1>2 DEF IInv, AskedOK
<1> QED
  BY <1>3, <1>5, <1>6, <1>7 DEF IInv

(* A stop channel is closed, or nothing happens. *)
LEMMA CloseKeeps ==
  ASSUME IInv,
         closed' \subseteq Callers,
         UNCHANGED <<factoryVars, goroutines, synced, callerVars>>
  PROVE  IInv'
<1>1. UNCHANGED <<informers, startedInformers, wg, shuttingDown, made, goroutines, synced,
                  call, held, asked, returned>>
  BY DEF factoryVars, callerVars
<1>2. Requested' = Requested /\ StartedInformers' = StartedInformers
  BY <1>1 DEF Requested, StartedInformers
<1>3. TypeOK'
  BY <1>1, <1>2 DEF IInv, TypeOK
<1>4. CallsOK' /\ GoroutinesOK' /\ Counted' /\ RunOnce' /\ ReturnOK' /\ AskedOK'
  BY <1>1, <1>2 DEF IInv, CallsOK, GoroutinesOK, Counted, RunOnce, ReturnOK, AskedOK
<1> QED
  BY <1>3, <1>4 DEF IInv

(* An option is applied: nobody has the factory yet. *)
LEMMA ConstructionKeeps ==
  ASSUME IInv, NewSharedInformerFactoryWithOptions
  PROVE  IInv'
<1>1. UNCHANGED <<informers, startedInformers, wg, shuttingDown, made, goroutines, synced, closed,
                  call, held, asked, returned>>
  BY DEF NewSharedInformerFactoryWithOptions, callerVars
<1>2. Requested' = Requested /\ StartedInformers' = StartedInformers
  BY <1>1 DEF Requested, StartedInformers
<1>3. TypeOK'
  BY <1>1, <1>2 DEF IInv, TypeOK
<1>4. CallsOK' /\ GoroutinesOK' /\ Counted' /\ RunOnce' /\ ReturnOK' /\ AskedOK'
  BY <1>1, <1>2 DEF IInv, CallsOK, GoroutinesOK, Counted, RunOnce, ReturnOK, AskedOK
<1> QED
  BY <1>3, <1>4 DEF IInv

LEMMA StepKeeps == IInv /\ [Next]_vars => IInv'
<1> SUFFICES ASSUME IInv, [Next]_vars PROVE IInv'
  OBVIOUS
<1>0. closed \subseteq Callers
  BY DEF IInv, TypeOK
<1>1. CASE UNCHANGED vars
  BY <1>0, <1>1, CloseKeeps DEF vars
<1>2. ASSUME NEW c \in Callers, NEW resource \in Resources, ForResource(c, resource)
      PROVE  IInv'
  <2>1. CASE resource \in KnownResources /\ InformerFor(c, resource)
    BY <2>1, InformerForKeeps DEF Types
  <2>2. CASE UNCHANGED vars
    BY <2>2, <1>1
  <2> QED
    BY <1>2, <2>1, <2>2 DEF ForResource
<1>3. ASSUME NEW c \in Callers,
             \/ Start(c) \/ WaitForCacheSync(c) \/ SyncDone(c) \/ WaitForCacheSyncReturns(c)
             \/ Shutdown(c) \/ ShutdownReturns(c)
      PROVE  IInv'
  BY <1>3, StartKeeps, WaitForCacheSyncKeeps, SyncDoneKeeps, WaitForCacheSyncReturnsKeeps,
     ShutdownKeeps, ShutdownReturnsKeeps
<1>4. ASSUME NEW c \in Callers, Close(c) PROVE IInv'
  BY <1>0, <1>4, CloseKeeps DEF Close
<1>5. ASSUME NEW i \in Requested, Sync(i) PROVE IInv'
  BY <1>5, SyncKeeps
<1>6. ASSUME NEW g \in goroutines, GoroutineEnds(g) PROVE IInv'
  BY <1>6, GoroutineEndsKeeps
<1>7. CASE NewSharedInformerFactoryWithOptions
  BY <1>7, ConstructionKeeps
<1> QED
  BY <1>1, <1>2, <1>3, <1>4, <1>5, <1>6, <1>7 DEF Next

LEMMA Invariance == Spec => []IInv
BY InitIInv, StepKeeps, PTL DEF Spec
-----------------------------------------------------------------------------
(* The wait group's counter is never negative, which would be a panic of   *)
(* sync.WaitGroup, and the other types hold.                               *)
THEOREM TypesAreCorrect == Spec => []TypeOK
<1>1. IInv => TypeOK
  BY DEF IInv
<1> QED
  BY <1>1, Invariance, PTL

(* No informer is run by two goroutines, however many callers call Start   *)
(* and however often.                                                      *)
THEOREM InformersRunOnce == Spec => []RunOnce
<1>1. IInv => RunOnce
  BY DEF IInv
<1> QED
  BY <1>1, Invariance, PTL

(* Once a Shutdown has returned nothing runs, whatever is called later. *)
THEOREM ShutdownIsFinal == Spec => []NothingRunsAfterShutdown
<1>1. IInv => NothingRunsAfterShutdown
  BY DEF IInv, ReturnOK, NothingRunsAfterShutdown
<1> QED
  BY <1>1, Invariance, PTL

(* What WaitForCacheSync reports of the informers a caller asked for and   *)
(* started is true of the informers it was handed.                         *)
THEOREM SyncReportsAreTrue == Spec => []SyncedAsReported
<1>1. IInv => SyncedAsReported
  BY DEF IInv, AskedOK, SyncedAsReported
<1> QED
  BY <1>1, Invariance, PTL
-----------------------------------------------------------------------------
(* Options.  Of the first k options of a list, the last of a kind: *)
Of(list, k, kind) == {n \in 1 .. k : list[n].opt = kind}

LastOf(list, k, kind) == IF Of(list, k, kind) = {} THEN Nil ELSE list[Max(Of(list, k, kind))].value

(* ... and the last that gives type t a resync period. *)
Periods(list, k, t) == {n \in 1 .. k : list[n].opt = "customResync" /\ t \in DOMAIN list[n].value}

LastPeriod(list, k, t) == IF Periods(list, k, t) = {} THEN Nil ELSE list[Max(Periods(list, k, t))].value[t]

(* What the loop keeps: the configuration is what the last option of each  *)
(* kind among those applied says.  Nobody has an informer before the end.  *)
ConfigOK ==
  /\ options \in OptionLists /\ applied \in 0 .. Len(options)
  /\ DOMAIN config = {"namespace", "tweak", "transform", "customResync"}
  /\ config.namespace = LastOf(options, applied, "namespace")
  /\ config.tweak = LastOf(options, applied, "tweak")
  /\ config.transform = LastOf(options, applied, "transform")
  /\ \A t \in KnownResources : ResyncPeriod(t) = LastPeriod(options, applied, t)

ConfiguredInv == ConfigOK /\ InformersAsConfigured /\ (Requested # {} => Constructed)

(* The largest number of a set that a new largest joins. *)
LEMMA MaxIsLast ==
  ASSUME NEW k \in Nat, NEW S, S \subseteq 1 .. k + 1, k + 1 \in S
  PROVE  Max(S) = k + 1
<1>1. \A x \in S : x \in Nat /\ k + 1 >= x
  OBVIOUS
<1>2. Max(S) \in S /\ \A y \in S : Max(S) >= y
  <2>1. \E x \in S : \A y \in S : x >= y
    BY <1>1
  <2> QED BY <2>1 DEF Max
<1>3. Max(S) \in Nat /\ Max(S) >= k + 1 /\ k + 1 >= Max(S)
  BY <1>1, <1>2
<1> QED BY <1>3

(* One more option of the kind is the last one; of another it changes nothing. *)
LEMMA NextOption ==
  ASSUME NEW list, NEW k \in Nat, NEW kind
  PROVE  LastOf(list, k + 1, kind) = IF list[k + 1].opt = kind THEN list[k + 1].value
                               ELSE LastOf(list, k, kind)
<1>1. CASE list[k + 1].opt = kind
  <2>1. Of(list, k + 1, kind) \subseteq 1 .. k + 1 /\ k + 1 \in Of(list, k + 1, kind)
    BY <1>1 DEF Of
  <2>2. Max(Of(list, k + 1, kind)) = k + 1
    BY <2>1, MaxIsLast
  <2> QED BY <1>1, <2>1, <2>2 DEF LastOf
<1>2. CASE list[k + 1].opt # kind
  <2>1. Of(list, k + 1, kind) = Of(list, k, kind)
    BY <1>2 DEF Of
  <2> QED BY <1>2, <2>1 DEF LastOf
<1> QED BY <1>1, <1>2

LEMMA NextPeriod ==
  ASSUME NEW list, NEW k \in Nat, NEW t
  PROVE  LastPeriod(list, k + 1, t) =
           IF list[k + 1].opt = "customResync" /\ t \in DOMAIN list[k + 1].value
           THEN list[k + 1].value[t] ELSE LastPeriod(list, k, t)
<1> DEFINE gives == list[k + 1].opt = "customResync" /\ t \in DOMAIN list[k + 1].value
<1>1. CASE gives
  <2>1. Periods(list, k + 1, t) \subseteq 1 .. k + 1 /\ k + 1 \in Periods(list, k + 1, t)
    BY <1>1 DEF Periods
  <2>2. Max(Periods(list, k + 1, t)) = k + 1
    BY <2>1, MaxIsLast
  <2> QED BY <1>1, <2>1, <2>2 DEF LastPeriod
<1>2. CASE ~gives
  <2>1. Periods(list, k + 1, t) = Periods(list, k, t)
    BY <1>2 DEF Periods
  <2> QED BY <1>2, <2>1 DEF LastPeriod
<1> QED BY <1>1, <1>2

(* A round of the loop. *)
LEMMA RoundConfigures ==
  ASSUME ConfigOK, NewSharedInformerFactoryWithOptions
  PROVE  ConfigOK'
<1> DEFINE o == options[applied + 1]
<1>1. applied \in Nat /\ Len(options) \in Nat /\ applied < Len(options) /\ o.opt \in OptionKinds
  BY OptionsAssumption DEF ConfigOK, NewSharedInformerFactoryWithOptions
<1>2. config' = ApplyOption(config, o) /\ applied' = applied + 1 /\ options' = options
  BY DEF NewSharedInformerFactoryWithOptions
<1>3. \A kind : LastOf(options', applied', kind) = IF o.opt = kind THEN o.value ELSE LastOf(options, applied, kind)
  BY <1>1, <1>2, NextOption
<1>4. \A t : LastPeriod(options', applied', t) = IF o.opt = "customResync" /\ t \in DOMAIN o.value
                                       THEN o.value[t] ELSE LastPeriod(options, applied, t)
  BY <1>1, <1>2, NextPeriod
<1> HIDE DEF o
<1>5. CASE o.opt = "namespace"
  <2>1. config' = [config EXCEPT !.namespace = o.value]
    BY <1>2, <1>5 DEF ApplyOption, WithNamespace
  <2> QED BY <1>1, <1>2, <1>3, <1>4, <1>5, <2>1 DEF ConfigOK, ResyncPeriod
<1>6. CASE o.opt = "tweak"
  <2>1. config' = [config EXCEPT !.tweak = o.value]
    BY <1>2, <1>6 DEF ApplyOption, WithTweakListOptions
  <2> QED BY <1>1, <1>2, <1>3, <1>4, <1>6, <2>1 DEF ConfigOK, ResyncPeriod
<1>7. CASE o.opt = "transform"
  <2>1. config' = [config EXCEPT !.transform = o.value]
    BY <1>2, <1>7 DEF ApplyOption, WithTransform
  <2> QED BY <1>1, <1>2, <1>3, <1>4, <1>7, <2>1 DEF ConfigOK, ResyncPeriod
<1>8. CASE o.opt = "customResync"
  <2>1. config' = WithCustomResyncConfig(config, o.value)
    BY <1>2, <1>8 DEF ApplyOption
  <2> QED BY <1>1, <1>2, <1>3, <1>4, <1>8, <2>1 DEF ConfigOK, ResyncPeriod, WithCustomResyncConfig
<1> QED BY <1>1, <1>5, <1>6, <1>7, <1>8 DEF OptionKinds

(* After the last round the configuration is what all the options say. *)
LEMMA ConstructedAsConfigured ==
  ASSUME ConfigOK, Constructed
  PROVE  /\ config.namespace = LastOption("namespace", Nil)
         /\ config.tweak = LastOption("tweak", Nil)
         /\ config.transform = LastOption("transform", Nil)
         /\ \A t \in KnownResources : ResyncPeriod(t) = LastResync(t)
<1>1. DOMAIN options = 1 .. applied
  BY OptionsAssumption DEF ConfigOK, Constructed
<1>2. \A kind : LastOption(kind, Nil) = LastOf(options, applied, kind)
  BY <1>1 DEF LastOption, LastOf, Of
<1>3. \A t : LastResync(t) = LastPeriod(options, applied, t)
  BY <1>1 DEF LastResync, LastPeriod, Periods
<1> QED BY <1>2, <1>3 DEF ConfigOK

(* InformerFor makes an informer of its type by that configuration. *)
LEMMA NewInformerConfigured ==
  ASSUME ConfigOK, Constructed, NEW t \in KnownResources
  PROVE  /\ NewInformer(t).namespace = IF NewInformer(t).type = "clustermodels" THEN Nil
                                       ELSE LastOption("namespace", Nil)
         /\ NewInformer(t).tweak = LastOption("tweak", Nil)
         /\ NewInformer(t).transform = LastOption("transform", Nil)
         /\ NewInformer(t).resync = LastResync(NewInformer(t).type)
<1>1. NewInformer(t).type = t
  BY NewInformerType
<1>2. /\ NewInformer(t).namespace = IF t = "clustermodels" THEN Nil ELSE config.namespace
      /\ NewInformer(t).tweak = config.tweak
      /\ NewInformer(t).transform = config.transform
      /\ NewInformer(t).resync = ResyncPeriod(t)
  BY DEF KnownResources, NewInformer, NewFunc, NewClusterModelInformer,
         NewInferenceServiceInformer, NewModelInformer
<1> QED BY <1>1, <1>2, ConstructedAsConfigured

(* Whatever options the factory was built with and whoever asked for an    *)
(* informer first, the informer has the filters, the transform and the     *)
(* resync period that the last option of each kind asks for.               *)
THEOREM OptionsReachEveryInformer == Spec => []InformersAsConfigured
<1>1. Init => ConfiguredInv
  <2> SUFFICES ASSUME Init
               PROVE  ConfiguredInv
    OBVIOUS
  <2>1. options \in OptionLists /\ applied = 0 /\ config = Defaults /\ Requested = {}
    BY DEF Init, Requested
  <2>2. (\A kind : Of(options, 0, kind) = {}) /\ (\A t : Periods(options, 0, t) = {})
    BY DEF Of, Periods
  <2>3. (\A kind : LastOf(options, 0, kind) = Nil) /\ (\A t : LastPeriod(options, 0, t) = Nil)
    BY <2>2 DEF LastOf, LastPeriod
  <2>4. ConfigOK
    BY <2>1, <2>3, OptionsAssumption DEF ConfigOK, Defaults, ResyncPeriod
  <2> QED BY <2>1, <2>4 DEF ConfiguredInv, InformersAsConfigured
<1>2. ConfiguredInv /\ IInv /\ [Next]_vars => ConfiguredInv'
  <2> SUFFICES ASSUME ConfiguredInv, IInv, [Next]_vars
               PROVE  ConfiguredInv'
    OBVIOUS
  <2>1. CASE UNCHANGED <<options, applied, config, informers>>
    <3>1. ConfigOK'
      BY <2>1 DEF ConfiguredInv, ConfigOK, ResyncPeriod
    <3>2. Requested' = Requested /\ Constructed' = Constructed
      BY <2>1 DEF Requested, Constructed
    <3>3. InformersAsConfigured'
      <4>1. /\ \A kind, d : LastOption(kind, d)' = LastOption(kind, d)
            /\ \A u : LastResync(u)' = LastResync(u)
        BY <2>1 DEF LastOption, LastResync
      <4> QED BY <3>2, <4>1 DEF ConfiguredInv, InformersAsConfigured
    <3> QED BY <3>1, <3>2, <3>3 DEF ConfiguredInv
  <2>2. CASE NewSharedInformerFactoryWithOptions
    <3>1. ConfigOK'
      BY <2>2, RoundConfigures DEF ConfiguredInv
    <3>2. Len(options) \in Nat /\ applied < Len(options)
      BY <2>2, OptionsAssumption DEF NewSharedInformerFactoryWithOptions, ConfiguredInv, ConfigOK
    <3>3. Requested = {}
      BY <3>2 DEF ConfiguredInv, Constructed, ConfigOK
    <3>4. Requested' = {}
      BY <2>2, <3>3 DEF Requested, NewSharedInformerFactoryWithOptions
    <3> QED BY <3>1, <3>4 DEF ConfiguredInv, InformersAsConfigured
  <2>3. ASSUME NEW c \in Callers, NEW t \in Types, InformerFor(c, t), Constructed,
               t \notin DOMAIN informers
        PROVE  ConfiguredInv'
    <3>1. UNCHANGED <<options, applied, config>> /\ informers' = WithInformer(t)
      BY <2>3 DEF InformerFor, requestFrame
    <3>2. ConfigOK' /\ Constructed'
      BY <2>3, <3>1 DEF ConfiguredInv, ConfigOK, ResyncPeriod,
                        Constructed
    <3>3. \A i \in Requested' : i \in Requested \/ i = NewInformer(t)
      <4> HIDE DEF NewInformer
      <4> QED BY <3>1 DEF Requested, WithInformer
    <3>4. \A kind, d : LastOption(kind, d)' = LastOption(kind, d)
      BY <3>1 DEF LastOption
    <3>5. \A u : LastResync(u)' = LastResync(u)
      BY <3>1 DEF LastResync
    <3>6. /\ NewInformer(t).namespace = IF NewInformer(t).type = "clustermodels" THEN Nil
                                        ELSE LastOption("namespace", Nil)
          /\ NewInformer(t).tweak = LastOption("tweak", Nil)
          /\ NewInformer(t).transform = LastOption("transform", Nil)
          /\ NewInformer(t).resync = LastResync(NewInformer(t).type)
      BY <2>3, NewInformerConfigured DEF ConfiguredInv, Types
    <3> HIDE DEF NewInformer, LastOption, LastResync
    <3>7. InformersAsConfigured'
      BY <3>3, <3>4, <3>5, <3>6 DEF ConfiguredInv, InformersAsConfigured
    <3> QED BY <3>2, <3>7 DEF ConfiguredInv
  <2>4. ASSUME NEW c \in Callers, NEW resource \in Resources, ForResource(c, resource), Constructed
        PROVE  ConfiguredInv'
    <3>1. CASE resource \in KnownResources /\ InformerFor(c, resource)
      <4>1. CASE resource \notin DOMAIN informers
        BY <2>3, <2>4, <3>1, <4>1 DEF Types
      <4>2. CASE resource \in DOMAIN informers
        BY <2>1, <3>1, <4>2 DEF InformerFor, requestFrame
      <4> QED BY <4>1, <4>2
    <3>2. CASE UNCHANGED vars
      BY <2>1, <3>2 DEF vars, factoryVars
    <3> QED BY <2>4, <3>1, <3>2 DEF ForResource
  <2>5. ASSUME NEW c \in Callers,
               \/ Start(c) \/ WaitForCacheSync(c) \/ SyncDone(c) \/ WaitForCacheSyncReturns(c)
               \/ Shutdown(c) \/ ShutdownReturns(c) \/ Close(c)
        PROVE  ConfiguredInv'
    BY <2>1, <2>5 DEF Start, startFrame, WaitForCacheSync, SyncDone, WaitForCacheSyncReturns,
                      Shutdown, ShutdownReturns, callFrame, Close, factoryVars
  <2>6. ASSUME NEW i, Sync(i) \/ GoroutineEnds(i)
        PROVE  ConfiguredInv'
    BY <2>1, <2>6 DEF Sync, GoroutineEnds, factoryVars
  <2>7. CASE UNCHANGED vars
    BY <2>1, <2>7 DEF vars, factoryVars
  <2> QED BY <2>2, <2>4, <2>5, <2>6, <2>7 DEF Next
<1>3. ConfiguredInv => InformersAsConfigured
  BY DEF ConfiguredInv
<1> QED BY <1>1, <1>2, <1>3, Invariance, PTL DEF Spec
=============================================================================
