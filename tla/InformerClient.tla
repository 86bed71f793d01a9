--------------------------- MODULE InformerClient ---------------------------
(***************************************************************************)
(* The typed clients of pkg/kube/kclient over the shared informers of      *)
(* pkg/kube/informerfactory, with the discovery namespace filter of        *)
(* pkg/kube/namespace between an informer and the handlers.                *)
(*                                                                         *)
(* Two informers, one for Namespaces and one for objects that live in a    *)
(* namespace (one per namespace is enough), watch without any order        *)
(* between them.  A client-go informer appends every change of its cache   *)
(* to one queue per registered handler; a goroutine per handler drains it. *)
(* The filter's own handler keeps discoveryNamespaces; it and the mesh     *)
(* watcher call the clients' filter handlers from goroutines of their own. *)
(*                                                                         *)
(* A handler here is one that reads the client again when it is called, as *)
(* every queue-based controller of the program does.                       *)
(*                                                                         *)
(* The second half of the module is the client of a resource whose CRD may *)
(* be missing, a machine of its own with its own variables.                *)
(***************************************************************************)
EXTENDS Naturals, Sequences, FiniteSets

CONSTANTS Ns,          \* namespace names
          Setups,      \* [changes, meshes, relists, ends]: the budgets of one scenario
          nil

VARIABLES setup, informers, started, listed, shuttingDown, cache, queue, unsynced, status,
          view, crashed, ready, discoveryNamespaces, discoverySelectors, handlers, notifying

factoryVars == <<informers, started, shuttingDown>>
filterVars == <<ready, discoveryNamespaces, discoverySelectors, handlers>>
vars == <<setup, factoryVars, listed, cache, queue, unsynced, status, view, crashed,
          filterVars, notifying>>

Kind == {"namespaces", "objects"}

(* The filter's unfiltered client of Namespaces, a filtered client of      *)
(* Namespaces (the namespace controller's) and a filtered one of objects.  *)
Filtered == {"namespaceClient", "objectClient"}
Client == Filtered \cup {"filter"}
KindOf(c) == IF c = "objectClient" THEN "objects" ELSE "namespaces"

Goroutine == {"mesh", "filter"}
Absent == 0
Value == {1, 2}        \* contents of an object; of a Namespace, its labels

On(c) == status[c] = "registered"

---------------------------------------------------------------------------
(* informerfactory *)

InformerFor(k) == informers' = informers \cup {k}

startOne(k) ==
  started' = IF shuttingDown THEN started ELSE started \cup (informers \cap {k})

Shutdown ==
  /\ "shutdown" \in setup.ends
  /\ ~shuttingDown
  /\ shuttingDown' = TRUE
  /\ UNCHANGED <<setup, informers, started, listed, cache, queue, unsynced, status, view,
                 crashed, filterVars, notifying>>

---------------------------------------------------------------------------
(* The filter *)

isSelectedLocked(labels) ==
  discoverySelectors = {} \/ \E s \in discoverySelectors : labels \in s

DiscoveredOnly(n) == n \in discoveryNamespaces

(* Filter: everything while there are no discovery selectors.              *)
Filter(n) == discoverySelectors = {} \/ n \in discoveryNamespaces

(* List and Get of a filtered client.                                      *)
Get(c, n) == IF c = "filter" \/ Filter(n) THEN cache[KindOf(c)][n] ELSE Absent

(* selectorsChanged recomputes the set from the Namespaces in the cache.   *)
selectorsChanged(selectors) ==
  /\ discoverySelectors' = selectors
  /\ discoveryNamespaces' =
       {n \in Ns : /\ cache["namespaces"][n] /= Absent
                   /\ selectors = {} \/ \E s \in selectors : cache["namespaces"][n] \in s}

(* notifyHandlers clones the handlers and calls them one after the other.  *)
notifyHandlers(g, added, removed) ==
  notifying' = [notifying EXCEPT ![g] =
                  [clients |-> handlers, added |-> added, removed |-> removed, items |-> nil]]

(* The mesh handler passes no selectors: MeshConfig has none.              *)
MeshChanged ==
  /\ setup.meshes > 0
  /\ ready
  /\ notifying["mesh"] = nil
  /\ setup' = [setup EXCEPT !.meshes = @ - 1]
  /\ selectorsChanged({})
  /\ notifyHandlers("mesh", discoveryNamespaces' \ discoveryNamespaces,
                            discoveryNamespaces \ discoveryNamespaces')
  /\ UNCHANGED <<factoryVars, listed, cache, queue, unsynced, status, view, crashed,
                 ready, handlers>>

---------------------------------------------------------------------------
(* kclient *)

(* A handler's call: it reads the client for the object it is told of.     *)
Called(v, c, n) == [v EXCEPT ![c][n] = Get(c, n)]

(* The handler applyDynamicFilter adds, as goroutine g runs it for the     *)
(* first client left: it takes handlerMu and lists the namespaces' objects *)
(* without the filter; for a client of Namespaces only the added ones.     *)
ListUnfiltered(g) ==
  LET t == notifying[g]
      c == Head(t.clients)
      names == t.added \cup (IF KindOf(c) = "namespaces" THEN {} ELSE t.removed)
  IN /\ notifying[g] /= nil
     /\ t.items = nil
     /\ t.clients /= <<>>
     /\ notifying' = [notifying EXCEPT
          ![g].items = {n \in names : cache[KindOf(c)][n] /= Absent}]
     /\ UNCHANGED <<setup, factoryVars, listed, cache, queue, unsynced, status, view,
                    crashed, filterVars>>

Busy(g) == notifying[g] /= nil /\ notifying[g].items /= nil

(* OnAdd or OnDelete of every handler of the client, for one item.         *)
applyDynamicFilter(g, n) ==
  LET c == Head(notifying[g].clients)
  IN /\ Busy(g)
     /\ n \in notifying[g].items
     /\ notifying' = [notifying EXCEPT ![g].items = @ \ {n}]
     /\ view' = IF On(c) THEN Called(view, c, n) ELSE view
     /\ UNCHANGED <<setup, factoryVars, listed, cache, queue, unsynced, status, crashed,
                    filterVars>>

(* The client's handler returns and releases handlerMu.                    *)
Notified(g) ==
  /\ notifying[g] /= nil
  /\ \/ /\ notifying[g].items = {}
        /\ notifying' = [notifying EXCEPT ![g].items = nil, ![g].clients = Tail(@)]
     \/ /\ notifying[g].clients = <<>>
        /\ notifying' = [notifying EXCEPT ![g] = nil]
  /\ UNCHANGED <<setup, factoryVars, listed, cache, queue, unsynced, status, view,
                 crashed, filterVars>>

(* handlerMu is held for reading while the filter's handler runs.          *)
handlerMuFree(c) == \A g \in Goroutine : Busy(g) => Head(notifying[g].clients) /= c

(* NewFiltered: the informer, shared by key, and the filter's handler.     *)
NewFiltered(c) ==
  /\ ready
  /\ status[c] = "none"
  /\ InformerFor(KindOf(c))
  /\ handlers' = Append(handlers, c)
  /\ status' = [status EXCEPT ![c] = "client"]
  /\ UNCHANGED <<setup, started, shuttingDown, listed, cache, queue, unsynced, view,
                 crashed, ready, discoveryNamespaces, discoverySelectors, notifying>>

(* The informer replays what its cache holds to a handler that joins.      *)
Replay(k) ==
  LET held == {n \in Ns : cache[k][n] /= Absent}
  IN {s \in [1..Cardinality(held) -> [op : {"add"}, n : held, tombstone : {FALSE}]] :
        \A i, j \in DOMAIN s : s[i] = s[j] => i = j}

AddEventHandler(c) ==
  /\ status[c] = "client"
  /\ handlerMuFree(c)
  /\ status' = [status EXCEPT ![c] = "registered"]
  /\ \E replay \in Replay(KindOf(c)) :
       /\ queue' = [queue EXCEPT ![c] = replay]
       /\ unsynced' = [unsynced EXCEPT ![c] = Len(replay)]
  /\ UNCHANGED <<setup, factoryVars, listed, cache, view, crashed, filterVars, notifying>>

Start(c) ==
  /\ status[c] \in {"client", "registered"}
  /\ KindOf(c) \notin started
  /\ startOne(KindOf(c))
  /\ UNCHANGED <<setup, informers, shuttingDown, listed, cache, queue, unsynced, status,
                 view, crashed, filterVars, notifying>>

ShutdownHandlers(c) ==
  /\ "handlers" \in setup.ends
  /\ On(c) /\ c \in Filtered
  /\ handlerMuFree(c)
  /\ status' = [status EXCEPT ![c] = "shut"]
  /\ queue' = [queue EXCEPT ![c] = <<>>]
  /\ unsynced' = [unsynced EXCEPT ![c] = 0]
  /\ UNCHANGED <<setup, factoryVars, listed, cache, view, crashed, filterVars, notifying>>

HasSynced(c) == KindOf(c) \in listed /\ (On(c) => unsynced[c] = 0)

(* NewDiscoveryNamespacesFilter goes on once its Namespaces have synced.   *)
NewDiscoveryNamespacesFilter ==
  /\ ~ready
  /\ HasSynced("filter")
  /\ ready' = TRUE
  /\ selectorsChanged({})
  /\ UNCHANGED <<setup, factoryVars, listed, cache, queue, unsynced, status, view, crashed,
                 handlers, notifying>>

---------------------------------------------------------------------------
(* The informers' goroutines *)

Tell(k, event) ==
  [c \in Client |-> IF On(c) /\ KindOf(c) = k THEN Append(queue[c], event) ELSE queue[c]]

(* The first list fills the cache; its items count against HasSynced.      *)
InitialList(k) ==
  \E content \in [Ns -> {Absent, 1}] :
    LET held == {n \in Ns : content[n] /= Absent}
    IN /\ k \in started \ listed
       /\ listed' = listed \cup {k}
       /\ cache' = [cache EXCEPT ![k] = content]
       /\ \E order \in {s \in [1..Cardinality(held) -> held] :
                          \A i, j \in DOMAIN s : s[i] = s[j] => i = j} :
            queue' = [c \in Client |->
                        IF On(c) /\ KindOf(c) = k
                        THEN [i \in DOMAIN order |->
                                [op |-> "add", n |-> order[i], tombstone |-> FALSE]]
                        ELSE queue[c]]
       /\ unsynced' = [c \in Client |->
                         IF On(c) /\ KindOf(c) = k THEN Cardinality(held) ELSE unsynced[c]]
       /\ UNCHANGED <<setup, factoryVars, status, view, crashed, filterVars, notifying>>

(* A watch event, or with tombstone a deletion found by listing again      *)
(* after the watch was lost.                                               *)
Change(k, n, value, tombstone) ==
  LET old == cache[k][n]
      op == CASE old = Absent -> "add" [] value = Absent -> "delete" [] OTHER -> "update"
  IN /\ setup.changes > 0
     /\ k \in listed
     /\ old /= value
     /\ tombstone => op = "delete" /\ setup.relists > 0
     /\ setup' = [setup EXCEPT !.changes = @ - 1, !.relists = IF tombstone THEN @ - 1 ELSE @]
     /\ cache' = [cache EXCEPT ![k][n] = value]
     /\ queue' = Tell(k, [op |-> op, n |-> n, tombstone |-> tombstone])
     /\ UNCHANGED <<factoryVars, listed, unsynced, status, view, crashed, filterVars,
                    notifying>>

Next1(c) ==
  /\ queue' = [queue EXCEPT ![c] = Tail(@)]
  /\ unsynced' = [unsynced EXCEPT ![c] = IF @ = 0 THEN 0 ELSE @ - 1]

(* The FilteringResourceEventHandler of AddEventHandler.  FilterFunc casts *)
(* what it is given to the object type, which a tombstone is not.          *)
FilterFunc(c) ==
  LET e == Head(queue[c])
  IN /\ c \in Filtered
     /\ ~crashed
     /\ queue[c] /= <<>>
     /\ Next1(c)
     /\ crashed' = e.tombstone
     /\ view' = IF ~e.tombstone /\ Filter(e.n) THEN Called(view, c, e.n) ELSE view
     /\ UNCHANGED <<setup, factoryVars, listed, cache, status, filterVars, notifying>>

(* The filter's own handlers of Namespaces; the labels an event carries    *)
(* matter only when there are selectors.                                   *)
namespaceCreatedLocked(n) ==
  /\ discoveryNamespaces' = IF isSelectedLocked(cache["namespaces"][n])
                            THEN discoveryNamespaces \cup {n} ELSE discoveryNamespaces
  /\ IF n \in discoveryNamespaces' /\ discoverySelectors /= {}
     THEN notifyHandlers("filter", {n}, {}) ELSE UNCHANGED notifying

namespaceUpdatedLocked(n) ==
  LET selected == isSelectedLocked(cache["namespaces"][n])
  IN /\ discoveryNamespaces' = IF selected THEN discoveryNamespaces \cup {n}
                               ELSE discoveryNamespaces \ {n}
     /\ IF selected = (n \in discoveryNamespaces) THEN UNCHANGED notifying
        ELSE notifyHandlers("filter", IF selected THEN {n} ELSE {},
                                      IF selected THEN {} ELSE {n})

namespaceDeletedLocked(n) ==
  /\ discoveryNamespaces' = discoveryNamespaces \ {n}
  /\ UNCHANGED notifying

NamespaceEvent ==
  LET e == Head(queue["filter"])
  IN /\ ~crashed
     /\ queue["filter"] /= <<>>
     /\ notifying["filter"] = nil
     /\ Next1("filter")
     /\ \/ e.op = "add" /\ namespaceCreatedLocked(e.n)
        \/ e.op = "update" /\ namespaceUpdatedLocked(e.n)
        \/ e.op = "delete" /\ namespaceDeletedLocked(e.n)
     /\ UNCHANGED <<setup, factoryVars, listed, cache, status, view, crashed, ready,
                    discoverySelectors, handlers>>

---------------------------------------------------------------------------
Init ==
  /\ setup \in Setups
  /\ informers = {"namespaces"}
  /\ started = {"namespaces"}
  /\ shuttingDown = FALSE
  /\ listed = {}
  /\ cache = [k \in Kind |-> [n \in Ns |-> Absent]]
  /\ queue = [c \in Client |-> <<>>]
  /\ unsynced = [c \in Client |-> 0]
  /\ status = [c \in Client |-> IF c = "filter" THEN "registered" ELSE "none"]
  /\ view = [c \in Client |-> [n \in Ns |-> Absent]]
  /\ crashed = FALSE
  /\ ready = FALSE
  /\ discoveryNamespaces = {}
  /\ discoverySelectors = {}
  /\ handlers = <<>>
  /\ notifying = [g \in Goroutine |-> nil]

Next ==
  \/ NewDiscoveryNamespacesFilter \/ MeshChanged \/ NamespaceEvent \/ Shutdown
  \/ \E c \in Filtered : \/ NewFiltered(c) \/ AddEventHandler(c) \/ Start(c)
                         \/ ShutdownHandlers(c) \/ FilterFunc(c)
  \/ \E g \in Goroutine : \/ ListUnfiltered(g) \/ Notified(g)
                          \/ \E n \in Ns : applyDynamicFilter(g, n)
  \/ \E k \in Kind : \/ InitialList(k)
                     \/ \E n \in Ns, v \in {Absent} \cup Value, b \in BOOLEAN :
                          Change(k, n, v, b)

Spec == Init /\ [][Next]_vars

---------------------------------------------------------------------------
(* Types of the variables.                                                 *)
TypeOK ==
  /\ informers \subseteq Kind /\ started \subseteq informers /\ listed \subseteq started
  /\ \A c \in Client : /\ view[c] \in [Ns -> {Absent} \cup Value]
                       /\ unsynced[c] \in 0..Len(queue[c])
  /\ discoveryNamespaces \subseteq Ns

Quiet == /\ \A c \in Client : queue[c] = <<>>
         /\ \A g \in Goroutine : notifying[g] = nil

(* Once nothing is pending, a handler registered through a filtered client *)
(* has read every object as the client now shows it, in whatever order the *)
(* object, its Namespace, the mesh changes and the registration came       *)
(* (informerClient.AddEventHandler, applyDynamicFilter and the filter).    *)
ChangesNoticed ==
  Quiet => \A c \in Filtered : On(c) => \A n \in Ns : view[c][n] = Get(c, n)

(* A deletion the informer learns of by listing again is handled like any  *)
(* other: "When an object is deleted, obj could be a                       *)
(* DeletionFinalStateUnknown marker item." (discoveryNamespacesFilter).    *)
TombstonesHandled == ~crashed

-----------------------------------------------------------------------------
(* A client for a resource whose CRD may not exist yet                     *)
(* (pkg/kube/kclient): the CRD watcher runs the callbacks of a CRD once it *)
(* is seen, through its reconciler queue, and the callback swaps the       *)
(* delayed client for an informer.  One CRD, one client.                   *)

CONSTANTS
  Handler,       \* event handlers added to the client
  Crd, SyncSignal, NoKey

VARIABLES
  exists,        \* "never", "initially" or "later": when the CRD exists in the API
  store,         \* the CRD is in the watcher's informer
  informer,      \* that informer: "new", "listed" (store filled), "synced" (handlers too)
  callbacks,     \* the client's callback waits in the watcher
  client,        \* "none", "delayed" or "direct"
  inf,           \* the delayed client's informer is loaded
  setting,       \* the callback is at: "none", "swapped"
  pending,       \* handlers kept until the informer is loaded
  registered,    \* handlers registered with the informer
  adding,        \* handlers whose AddEventHandler found no informer and waits for the lock
  lost,          \* history: handlers kept after the informer was loaded
  runs,          \* goroutines the factory started for the informer
  delayedReady, dirty, processing, requeues, backoff, worker, running, shutDown, synced

Q == INSTANCE ControllerQueue WITH Key <- {Crd}, maxAttempts <- 0, ready <- delayedReady
queueVars == <<delayedReady, dirty, processing, requeues, backoff, worker, running, shutDown, synced>>
clientVars == <<callbacks, client, inf, setting, pending, registered, adding, lost, runs>>
crdVars == <<exists, store, informer>>
delayedVars == <<crdVars, clientVars, queueVars>>

DelayedInit ==
  /\ exists \in {"never", "initially"} /\ store = FALSE /\ informer = "new"
  /\ callbacks = FALSE /\ client = "none" /\ inf = FALSE /\ setting = "none"
  /\ pending = {} /\ registered = {} /\ adding = {} /\ lost = {} /\ runs = 0
  /\ Q!Init

-----------------------------------------------------------------------------
(* The CRD watcher *)

InformerLists ==
  /\ informer = "new" /\ informer' = "listed" /\ store' = (exists = "initially")
  /\ UNCHANGED <<exists, clientVars, queueVars>>

\* The handler has been given the listed objects.
HandlerSyncs ==
  /\ informer = "listed" /\ informer' = "synced"
  /\ IF store THEN Q!Add(Crd) ELSE UNCHANGED queueVars
  /\ UNCHANGED <<exists, store, clientVars>>

CrdCreated ==
  /\ exists = "never" /\ informer = "synced"
  /\ exists' = "later" /\ store' = TRUE /\ Q!Add(Crd)
  /\ UNCHANGED <<informer, clientVars>>

\* Mutant: the queue does not wait for the informer.
RunAtOnce == Q!Run /\ UNCHANGED <<crdVars, clientVars>>
Run == informer = "synced" /\ Q!Run /\ UNCHANGED <<crdVars, clientVars>>

DelayedGet == Q!Get /\ UNCHANGED <<crdVars, clientVars>>
Synced == Q!ProcessSignal /\ UNCHANGED <<crdVars, clientVars>>

\* Reconcile takes the callbacks out and runs them; the callback's set stores
\* the informer first ...
Reconcile ==
  /\ worker = Crd /\ setting = "none"
  /\ IF callbacks THEN /\ callbacks' = FALSE /\ inf' = TRUE /\ setting' = "swapped"
                       /\ UNCHANGED queueVars
     ELSE Q!Process(TRUE) /\ UNCHANGED <<callbacks, inf, setting>>
  /\ UNCHANGED <<crdVars, client, pending, registered, adding, lost, runs>>

delayedStartOne == IF runs = 0 THEN 1 ELSE runs

\* ... and then, under the lock, registers the handlers kept so far; the
\* informer is started, once, however often it is asked for.
SetHandlers ==
  /\ setting = "swapped" /\ setting' = "none"
  /\ registered' = registered \cup pending /\ pending' = {}
  /\ runs' = delayedStartOne /\ Q!Process(TRUE)
  /\ UNCHANGED <<crdVars, callbacks, client, inf, adding, lost>>

-----------------------------------------------------------------------------
(* The delayed client *)

Known == informer = "synced" /\ store

\* newDelayedInformer asks KnownOrCallback, which holds the watcher's mutex.
NewDelayedInformer ==
  /\ client = "none"
  /\ IF Known THEN client' = "direct" /\ inf' = TRUE /\ UNCHANGED callbacks
     ELSE client' = "delayed" /\ callbacks' = TRUE /\ UNCHANGED inf
  /\ UNCHANGED <<crdVars, setting, pending, registered, adding, lost, runs, queueVars>>

\* AddEventHandler: loads the informer, and if there is none takes the lock.
DelayedAddEventHandler(h) ==
  /\ client # "none" /\ h \notin registered \cup pending \cup adding
  /\ IF inf THEN registered' = registered \cup {h} /\ UNCHANGED adding
     ELSE adding' = adding \cup {h} /\ UNCHANGED registered
  /\ UNCHANGED <<crdVars, callbacks, client, inf, setting, pending, lost, runs, queueVars>>

KeepHandler(h) ==
  /\ h \in adding /\ adding' = adding \ {h}
  /\ pending' = pending \cup {h}
  /\ lost' = IF inf /\ setting = "none" THEN lost \cup {h} ELSE lost
  /\ UNCHANGED <<crdVars, callbacks, client, inf, setting, registered, runs, queueVars>>

\* Start of the client or of the factory.
DelayedStart ==
  /\ inf /\ runs = 0 /\ runs' = delayedStartOne
  /\ UNCHANGED <<crdVars, callbacks, client, inf, setting, pending, registered, adding, lost, queueVars>>

\* The client's HasSynced as far as the CRD is concerned.
DelayedHasSynced == client = "delayed" /\ IF inf THEN TRUE ELSE synced

DelayedNext ==
  \/ InformerLists \/ HandlerSyncs \/ CrdCreated \/ Run \/ DelayedGet \/ Synced \/ Reconcile \/ SetHandlers
  \/ NewDelayedInformer \/ DelayedStart
  \/ \E h \in Handler : DelayedAddEventHandler(h) \/ KeepHandler(h)

DelayedSpec == DelayedInit /\ [][DelayedNext]_delayedVars

-----------------------------------------------------------------------------
\* "at startup, we only return HasSynced=true if we are sure the CRD is not
\* ready": a client that says it is synced without an informer has no CRD that
\* existed when the watcher started; and a synced client with an informer has
\* all its handlers in it, but for those that crossed its loading.
SyncedMeansNoCrd ==
  DelayedHasSynced =>
    /\ ~inf => exists # "initially"
    /\ inf /\ setting = "none" => pending \subseteq lost
=============================================================================
