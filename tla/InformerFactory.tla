-------------------------- MODULE InformerFactory --------------------------
(***************************************************************************)
(* The shared informer factory of the generated client                     *)
(* (client-go/informers/externalversions), used by several goroutines of   *)
(* one program.                                                            *)
(*                                                                         *)
(* Every method that touches the factory's maps holds its lock from        *)
(* beginning to end, so a method is one step up to where it blocks:        *)
(* Shutdown in wg.Wait, WaitForCacheSync in the polling of each informer   *)
(* it found started.  The informers are library code: Run lists and        *)
(* watches until its stop channel is closed.                               *)
(*                                                                         *)
(* A caller does what the interface's comment shows, with the Done channel *)
(* of a context of its own: it asks for informers, calls Start, then       *)
(* WaitForCacheSync, and unless some result is false it reads from the     *)
(* informers it asked for; it may ask for others and call Start again.     *)
(* Shutdown is the last thing it does.                                     *)
(***************************************************************************)
EXTENDS Integers, FiniteSets, SequencesExt

CONSTANTS
  Callers,      \* goroutines that use the factory, each with a stop channel
  Resources,    \* plural resource names they ask for, known or not
  OptionLists,  \* the options the factory may be built with
  Nil           \* nil, all namespaces, the default resync period

(* The resources ForResource knows, and the Go type of each. *)
KnownResources == {"clustermodels", "inferenceservices", "models"}

ASSUME ResourcesAssumption == IsFiniteSet(Resources)

OptionKinds == {"namespace", "tweak", "transform", "customResync"}

ASSUME OptionsAssumption ==
  \A list \in OptionLists :
    /\ Len(list) \in Nat /\ DOMAIN list = 1 .. Len(list)
    /\ \A n \in 1 .. Len(list) : list[n].opt \in OptionKinds

Types == Resources \cap KnownResources

VARIABLES
  options,           \* what the factory was built with, in order
  applied,           \* how many of them have been applied
  config,            \* what they made of it
  informers,         \* the map from the types asked for to their informers
  startedInformers,  \* types marked as started
  wg,                \* the wait group's counter
  shuttingDown,
  goroutines,        \* <<informer, owner of its stop channel>> of the goroutines in Run
  synced,            \* informers whose HasSynced is true
  closed,            \* callers whose stop channel is closed
  call,              \* the blocking method each caller is in
  held,              \* informers each caller was handed
  asked,             \* those it held when it last called Start
  made,              \* how many informers of each type have been created
  returned           \* some Shutdown has returned

factoryVars == <<options, applied, config, informers, startedInformers, wg, shuttingDown, made>>
callerVars  == <<call, held, asked, returned>>
vars == <<factoryVars, goroutines, synced, closed, callerVars>>
-----------------------------------------------------------------------------
(* Construction: options are applied in order to the defaults, before      *)
(* anybody has the factory.                                                *)

Defaults ==
  [namespace |-> Nil, tweak |-> Nil, transform |-> Nil, customResync |-> [t \in {} |-> Nil]]

WithNamespace(factory, namespace) == [factory EXCEPT !.namespace = namespace]

WithTweakListOptions(factory, tweak) == [factory EXCEPT !.tweak = tweak]

WithTransform(factory, transform) == [factory EXCEPT !.transform = transform]

(* Mutant of WithCustomResyncConfig: the map is replaced. *)
WithCustomResyncConfigOnly(factory, periods) == [factory EXCEPT !.customResync = periods]

WithCustomResyncConfig(factory, periods) ==
  [factory EXCEPT !.customResync =
     [t \in DOMAIN periods \cup DOMAIN @ |-> IF t \in DOMAIN periods THEN periods[t] ELSE @[t]]]

ApplyOption(factory, option) ==
  CASE option.opt = "namespace"    -> WithNamespace(factory, option.value)
    [] option.opt = "tweak"        -> WithTweakListOptions(factory, option.value)
    [] option.opt = "transform"    -> WithTransform(factory, option.value)
    [] option.opt = "customResync" -> WithCustomResyncConfig(factory, option.value)

(* A round of the loop over the options. *)
NewSharedInformerFactoryWithOptions ==
  /\ applied < Len(options)
  /\ config' = ApplyOption(config, options[applied + 1]) /\ applied' = applied + 1
  /\ UNCHANGED <<options, informers, startedInformers, wg, shuttingDown, made, goroutines,
                 synced, closed, callerVars>>

Constructed == applied = Len(options)

(* A caller's blocking call: the informers WaitForCacheSync has still to poll *)
(* and whether every result so far is true.                                   *)
Calling(op, todo) == [op |-> op, todo |-> todo, ok |-> TRUE]

NoCall == Calling("none", {})

Init ==
  /\ options \in OptionLists
  /\ applied = 0 /\ config = Defaults
  /\ informers = [t \in {} |-> Nil] /\ startedInformers = {} /\ made = [t \in Types |-> 0]
  /\ wg = 0 /\ shuttingDown = FALSE /\ returned = FALSE
  /\ goroutines = {} /\ synced = {} /\ closed = {}
  /\ call = [c \in Callers |-> NoCall]
  /\ held = [c \in Callers |-> {}] /\ asked = held
-----------------------------------------------------------------------------
(* Requests for informers. *)

(* defaultInformer of each type, with the filters of the factory its typed  *)
(* accessor carries; a ClusterModel has no namespace.                       *)
NewClusterModelInformer(resync) ==
  [type |-> "clustermodels", id |-> made["clustermodels"], namespace |-> Nil,
   tweak |-> config.tweak, resync |-> resync, transform |-> Nil]

NewInferenceServiceInformer(resync) ==
  [type |-> "inferenceservices", id |-> made["inferenceservices"], namespace |-> config.namespace,
   tweak |-> config.tweak, resync |-> resync, transform |-> Nil]

NewModelInformer(resync) ==
  [type |-> "models", id |-> made["models"], namespace |-> config.namespace,
   tweak |-> config.tweak, resync |-> resync, transform |-> Nil]

NewFunc(t, resync) ==
  CASE t = "clustermodels"     -> NewClusterModelInformer(resync)
    [] t = "inferenceservices" -> NewInferenceServiceInformer(resync)
    [] t = "models"            -> NewModelInformer(resync)

ResyncPeriod(t) == IF t \in DOMAIN config.customResync THEN config.customResync[t] ELSE Nil

NewInformer(t) == [NewFunc(t, ResyncPeriod(t)) EXCEPT !.transform = config.transform]

WithInformer(t) ==
  [u \in DOMAIN informers \cup {t} |-> IF u = t THEN NewInformer(t) ELSE informers[u]]

requestFrame ==
  UNCHANGED <<options, applied, config, startedInformers, wg, shuttingDown, goroutines, synced,
              closed, call, asked, returned>>

(* Mutant of InformerFor: every request makes an informer. *)
InformerForUnshared(c, t) ==
  /\ call[c] = NoCall
  /\ informers' = WithInformer(t) /\ made' = [made EXCEPT ![t] = @ + 1]
  /\ held' = [held EXCEPT ![c] = @ \cup {informers'[t]}]
  /\ requestFrame

InformerFor(c, t) ==
  /\ call[c] = NoCall
  /\ \/ t \in DOMAIN informers /\ UNCHANGED <<informers, made>>
     \/ /\ t \notin DOMAIN informers
        /\ informers' = WithInformer(t) /\ made' = [made EXCEPT ![t] = @ + 1]
  /\ held' = [held EXCEPT ![c] = @ \cup {informers'[t]}]
  /\ requestFrame

(* Of an unknown resource the caller gets an error and no informer. *)
ForResource(c, resource) ==
  \/ resource \in KnownResources /\ InformerFor(c, resource)
  \/ resource \notin KnownResources /\ call[c] = NoCall /\ UNCHANGED vars
-----------------------------------------------------------------------------
(* Start, Shutdown and WaitForCacheSync. *)

NotStarted == DOMAIN informers \ startedInformers

Goroutines(types, stopCh) == {<<informers[t], stopCh>> : t \in types}

startFrame ==
  UNCHANGED <<options, applied, config, informers, shuttingDown, synced, closed, call, held,
              made, returned>>

(* Mutants of Start: it does not look at shuttingDown; does not mark what it *)
(* starts; adds to the wait group what is started already; adds nothing.     *)
StartAlways(c) ==
  /\ call[c] = NoCall
  /\ wg' = wg + Cardinality(NotStarted)
  /\ goroutines' = goroutines \cup Goroutines(NotStarted, c)
  /\ startedInformers' = startedInformers \cup NotStarted
  /\ asked' = [asked EXCEPT ![c] = held[c]]
  /\ startFrame
StartUnmarked(c) ==
  /\ call[c] = NoCall /\ ~shuttingDown
  /\ wg' = wg + Cardinality(NotStarted)
  /\ goroutines' = goroutines \cup Goroutines(NotStarted, c)
  /\ asked' = [asked EXCEPT ![c] = held[c]]
  /\ startFrame /\ UNCHANGED startedInformers
StartAddsAll(c) ==
  /\ call[c] = NoCall /\ ~shuttingDown /\ NotStarted # {}
  /\ wg' = wg + Cardinality(DOMAIN informers)
  /\ goroutines' = goroutines \cup Goroutines(NotStarted, c)
  /\ startedInformers' = startedInformers \cup NotStarted
  /\ asked' = [asked EXCEPT ![c] = held[c]]
  /\ startFrame
StartAddsNothing(c) ==
  /\ call[c] = NoCall /\ ~shuttingDown
  /\ goroutines' = goroutines \cup Goroutines(NotStarted, c)
  /\ startedInformers' = startedInformers \cup NotStarted
  /\ asked' = [asked EXCEPT ![c] = held[c]]
  /\ startFrame /\ UNCHANGED wg

Start(c) ==
  /\ call[c] = NoCall
  /\ \/ shuttingDown /\ UNCHANGED <<wg, goroutines, startedInformers>>
     \/ /\ ~shuttingDown
        /\ wg' = wg + Cardinality(NotStarted)
        /\ goroutines' = goroutines \cup Goroutines(NotStarted, c)
        /\ startedInformers' = startedInformers \cup NotStarted
  /\ asked' = [asked EXCEPT ![c] = held[c]]
  /\ startFrame

callFrame ==
  UNCHANGED <<options, applied, config, informers, startedInformers, wg, made, goroutines, synced,
              closed>>

Shutdown(c) ==
  /\ call[c] = NoCall
  /\ shuttingDown' = TRUE
  /\ call' = [call EXCEPT ![c] = Calling("shutdown", {})]
  /\ held' = [held EXCEPT ![c] = {}] /\ asked' = [asked EXCEPT ![c] = {}]
  /\ UNCHANGED returned /\ callFrame

(* wg.Wait returns. *)
ShutdownReturns(c) ==
  /\ call[c].op = "shutdown" /\ wg = 0
  /\ call' = [call EXCEPT ![c] = Calling("done", {})] /\ returned' = TRUE
  /\ UNCHANGED <<shuttingDown, held, asked>> /\ callFrame

(* Mutant of StartedInformers: the mark is not looked at. *)
AllInformers == {informers[t] : t \in DOMAIN informers}

(* The informers WaitForCacheSync waits for, copied under the lock. *)
StartedInformers == {informers[t] : t \in DOMAIN informers \cap startedInformers}

WaitForCacheSync(c) ==
  /\ call[c] = NoCall
  /\ call' = [call EXCEPT ![c] = Calling("sync", StartedInformers)]
  /\ UNCHANGED <<shuttingDown, returned, held, asked>> /\ callFrame

(* cache.WaitForCacheSync for one informer; when it is synced and the    *)
(* channel closed at once either answer may come.                        *)
SyncDone(c) ==
  /\ call[c].op = "sync"
  /\ \E i \in call[c].todo :
       \/ /\ i \in synced
          /\ call' = [call EXCEPT ![c].todo = @ \ {i}]
       \/ /\ c \in closed
          /\ call' = [call EXCEPT ![c].todo = @ \ {i}, ![c].ok = FALSE]
  /\ UNCHANGED <<shuttingDown, returned, held, asked>> /\ callFrame

(* The caller gets the results. *)
WaitForCacheSyncReturns(c) ==
  /\ call[c].op = "sync" /\ call[c].todo = {}
  /\ call' = [call EXCEPT ![c] = NoCall]
  /\ UNCHANGED <<shuttingDown, returned, held, asked>> /\ callFrame
-----------------------------------------------------------------------------
(* Informers and the owners of stop channels. *)

(* A running informer has listed everything. *)
Sync(i) ==
  /\ \E c \in Callers : <<i, c>> \in goroutines
  /\ synced' = synced \cup {i}
  /\ UNCHANGED <<factoryVars, goroutines, closed, callerVars>>

(* Run returns when its channel is closed; the deferred wg.Done follows. *)
GoroutineEnds(g) ==
  /\ g \in goroutines /\ g[2] \in closed
  /\ goroutines' = goroutines \ {g} /\ wg' = wg - 1
  /\ UNCHANGED <<options, applied, config, informers, startedInformers, shuttingDown, made, synced,
                 closed, callerVars>>

Close(c) ==
  /\ c \notin closed
  /\ closed' = closed \cup {c}
  /\ UNCHANGED <<factoryVars, goroutines, synced, callerVars>>

Requested == {informers[t] : t \in DOMAIN informers}

Next ==
  \/ NewSharedInformerFactoryWithOptions
  \/ \E c \in Callers : Close(c)
  \/ /\ Constructed
     /\ \/ \E c \in Callers :
             \/ \E resource \in Resources : ForResource(c, resource)
             \/ Start(c) \/ WaitForCacheSync(c) \/ SyncDone(c) \/ WaitForCacheSyncReturns(c)
             \/ Shutdown(c) \/ ShutdownReturns(c)
        \/ \E i \in Requested : Sync(i)
        \/ \E g \in goroutines : GoroutineEnds(g)

Spec == Init /\ [][Next]_vars

(* Blocked callers and informers are scheduled and the API server answers; *)
(* nobody is obliged to call a method or to close a channel.               *)
Fairness ==
  /\ \A c \in Callers :
       WF_vars(ShutdownReturns(c)) /\ WF_vars(SyncDone(c)) /\ WF_vars(WaitForCacheSyncReturns(c))
  /\ WF_vars(\E i \in Requested : i \notin synced /\ Sync(i))
  /\ WF_vars(\E g \in goroutines : GoroutineEnds(g))

FairSpec == Spec /\ Fairness
-----------------------------------------------------------------------------
(* Properties. *)

(* Types.  The wait group's counter is never negative, which would panic. *)
TypeOK ==
  /\ wg \in Nat /\ made \in [Types -> Nat]
  /\ shuttingDown \in BOOLEAN /\ returned \in BOOLEAN
  /\ startedInformers \subseteq DOMAIN informers /\ closed \subseteq Callers
  /\ DOMAIN informers \subseteq Types /\ \A t \in DOMAIN informers : informers[t].type = t
  /\ \A g \in goroutines : g[1] \in Requested /\ g[2] \in Callers
  /\ synced \subseteq Requested
  /\ \A c \in Callers : call[c].op \in {"none", "sync", "shutdown", "done"}

(* An informer is run by one goroutine, however often and with whatever    *)
(* channels Start is called ("this allows Start() to be called multiple    *)
(* times safely").                                                         *)
RunOnce == \A g, h \in goroutines : g[1] = h[1] => g = h

(* Once a Shutdown has returned no informer runs, and none ever will: no   *)
(* Start, before, during or after, adds a goroutine it did not wait for.   *)
NothingRunsAfterShutdown == returned => goroutines = {}

(* A caller that asked for informers, started the factory and then sees no *)
(* false in what WaitForCacheSync returns finds the caches of all of them, *)
(* the very informers it was handed, synced, whoever else uses the         *)
(* factory.  Only a factory that is shutting down breaks this: its Start   *)
(* does nothing and the result is an empty map.                            *)
SyncedAsReported ==
  \A c \in Callers :
    call[c].op = "sync" /\ call[c].todo = {} /\ call[c].ok /\ ~shuttingDown
      => asked[c] \subseteq synced

(* The options, read declaratively: the last one of a kind counts, custom  *)
(* resync periods by type.                                                 *)
LastOption(kind, default) ==
  LET is == {n \in DOMAIN options : options[n].opt = kind}
  IN  IF is = {} THEN default ELSE options[Max(is)].value

LastResync(t) ==
  LET is == {n \in DOMAIN options : options[n].opt = "customResync" /\ t \in DOMAIN options[n].value}
  IN  IF is = {} THEN Nil ELSE options[Max(is)].value[t]

(* "Listers obtained via this SharedInformerFactory will be subject to the *)
(* same filters as specified here": whoever asked first, an informer has   *)
(* the filters, transform and resync period the options ask for its type,  *)
(* only a cluster-scoped one no namespace.                                 *)
InformersAsConfigured ==
  \A i \in Requested :
    /\ i.namespace = IF i.type = "clustermodels" THEN Nil ELSE LastOption("namespace", Nil)
    /\ i.tweak = LastOption("tweak", Nil)
    /\ i.transform = LastOption("transform", Nil)
    /\ i.resync = LastResync(i.type)

(* "Shutdown blocks until all goroutines have terminated.  For that to      *)
(* happen, the close channel(s) that they were started with must be closed" *)
(* - and that is enough, for every concurrent call.                         *)
ShutdownTerminates ==
  \A c \in Callers :
    call[c].op = "shutdown" /\ (\A g \in goroutines : g[2] \in closed) ~> call[c].op = "done"

(* WaitForCacheSync returns, unless it waits for an informer whose         *)
(* goroutine ended before it was synced, which no Start revives.           *)
WaitForCacheSyncTerminates ==
  \A c \in Callers :
    call[c].op = "sync" ~>
      \/ call[c].op = "none"
      \/ \E i \in call[c].todo : /\ i.type \in startedInformers /\ i \notin synced
                                 /\ \A g \in goroutines : g[1] # i
=============================================================================
