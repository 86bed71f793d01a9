------------------------------ MODULE MCInfra -------------------------------
(*****************************************************************************)
(* The xDS cache and the libraries the control plane is built on, each on a  *)
(* small instance of its own: krt collections, the informer clients and the  *)
(* file watchers.  A behaviour picks one of them and only its variables      *)
(* move.                                                                     *)
(*****************************************************************************)
EXTENDS XdsCache, KrtHandlers, TLC

CONSTANTS
  i1, i2, a, b, g1, g2, h1, h2, n1, cl1, cl2, cl3, v, Crd, SyncSignal, NoKey

VARIABLES
  part,  \* the component this behaviour is about; the others are not there
  objects, inputs, deps, changes, inEvents, depEvents, depSynced, collectionPhase, queue,
  collectionSynced, current, collectionDependencies, objectDependencies,
  indexedDependencies, extractors, mappings, outputs, index, replica, status, val, members,
  gone, membership, registered, pending, unsynced, worker, deleting, cache, joinReplica,
  raced, budget, setup, informers, started, listed, shuttingDown, view, crashed, ready,
  discoveryNamespaces, discoverySelectors, handlers, notifying, exists, delayedClientStore,
  informer, callbacks, client, inf, setting, adding, lost, runs, delayedReady, dirty,
  processing, requeues, backoff, running, shutDown, delayedClientSynced, nested, content,
  notified, workers, filesCount, watched, hash, live, loop, caller, consumer, filesSeen,
  missed, removes, folder, watching, event, trigger, chan, state, builder, collection, early

allVars == <<part, store, token, configIndex, evictQueue, clock, version, builds, object, synced,
             phase, initial, startedSynced, waiting, notifications, count, hasSynced,
             pendingSync, closes, seen, objects, inputs, deps, changes, inEvents, depEvents,
             depSynced, collectionPhase, queue, collectionSynced, current,
             collectionDependencies, objectDependencies, indexedDependencies, extractors,
             mappings, outputs, index, replica, status, val, members, gone, membership,
             registered, pending, unsynced, worker, deleting, cache, joinReplica, raced,
             budget, setup, informers, started, listed, shuttingDown, view, crashed, ready,
             discoveryNamespaces, discoverySelectors, handlers, notifying, exists,
             delayedClientStore, informer, callbacks, client, inf, setting, adding, lost,
             runs, delayedReady, dirty, processing, requeues, backoff, running, shutDown,
             delayedClientSynced, nested, content, notified, workers, filesCount, watched,
             hash, live, loop, caller, consumer, filesSeen, missed, removes, folder,
             watching, event, trigger, chan, state, builder, collection, early>>


\* The cache does not tell keys or configurations apart, and no other
\* component uses them.
Symmetry == Permutations(Key) \cup Permutations(Config)

K(x) == [fetch |-> "key", at |-> x, strict |-> FALSE]
X(x) == [fetch |-> "index", at |-> x, strict |-> FALSE]
L(x) == [fetch |-> "list", at |-> x, strict |-> FALSE]
Strict == [fetch |-> "key", at |-> a, strict |-> TRUE]
Nothing == [fetch |-> "none", at |-> nil, strict |-> FALSE]
Dep(group, bad) == [group |-> group, bad |-> bad]
Deps == {Dep(g1, FALSE), Dep(g2, FALSE), Dep(g1, TRUE)}
CollectionStart(objects1, objects2, input1, input2, dep, inputChanges, depChanges) ==
  [changes |-> [input |-> inputChanges, dep |-> depChanges], objects |-> (i1 :> objects1 @@ i2 :> objects2),
   inputs |-> (i1 :> input1 @@ i2 :> input2), deps |-> (a :> dep @@ b :> nil)]
CollectionStarts ==
  {CollectionStart({K(a), X(g1)}, {X(g1), Nothing}, K(a), X(g1), Dep(g1, FALSE), 1, 2),
   CollectionStart({K(a), X(g1)}, {X(g1), X(g2), Nothing}, X(g1), X(g2), Dep(g1, FALSE), 2, 1),
   CollectionStart({K(a), X(g1)}, {X(g1), Nothing}, X(g1), Nothing, Dep(g1, FALSE), 1, 0),
   CollectionStart({L(g1), L(g2)}, {Nothing, L(g1)}, L(g1), Nothing, Dep(g1, FALSE), 1, 2),
   CollectionStart({Strict}, {Nothing}, Strict, nil, Dep(g1, TRUE), 2, 1)}
Informer(edits, meshes, ends) == [changes |-> edits, meshes |-> meshes, relists |-> 0, ends |-> ends]
InformerSetups ==
  {Informer(3, 0, {}), Informer(2, 1, {}), Informer(1, 2, {}), Informer(1, 1, {"shutdown", "handlers"})}

Collection == INSTANCE KrtCollection WITH InputKey <- {i1, i2}, DepKey <- {a, b}, Group <-
  {g1, g2}, Starts <- CollectionStarts, DepObjects <- Deps, phase <- collectionPhase, synced
  <- collectionSynced, Coll <- {cl1, cl2, cl3}, Static <- {cl1, cl2}, Value <- {v},
  MaxChanges <- 2, MaxMembership <- 2
Informers == INSTANCE InformerClient WITH Ns <- {n1}, Setups <- InformerSetups, Handler <-
  {h1, h2}, store <- delayedClientStore, synced <- delayedClientSynced
Files == INSTANCE FileWatcher WITH File <- {"f", "g"}, MaxWrites <- 2, MaxRemoves <- 1,
  count <- filesCount, seen <- filesSeen, MaxEdits <- 3, Broken <- {2}

-----------------------------------------------------------------------------
(* XdsCache *)

cacheRest == <<object, synced, phase, initial, startedSynced, waiting, notifications, count,
             hasSynced, pendingSync, closes, seen, objects, inputs, deps, changes, inEvents,
             depEvents, depSynced, collectionPhase, queue, collectionSynced, current,
             collectionDependencies, objectDependencies, indexedDependencies, extractors,
             mappings, outputs, index, replica, status, val, members, gone, membership,
             registered, pending, unsynced, worker, deleting, cache, joinReplica, raced,
             budget, setup, informers, started, listed, shuttingDown, view, crashed, ready,
             discoveryNamespaces, discoverySelectors, handlers, notifying, exists,
             delayedClientStore, informer, callbacks, client, inf, setting, adding, lost,
             runs, delayedReady, dirty, processing, requeues, backoff, running, shutDown,
             delayedClientSynced, nested, content, notified, workers, filesCount, watched,
             hash, live, loop, caller, consumer, filesSeen, missed, removes, folder,
             watching, event, trigger, chan, state, builder, collection, early>>
CacheInit ==
  /\ part = "cache" /\ LruInit
  /\ HandlersInit /\ objects = 0 /\ inputs = 0 /\ deps = 0 /\ changes = 0 /\ inEvents = 0
  /\ depEvents = 0 /\ depSynced = 0 /\ collectionPhase = 0 /\ queue = 0
  /\ collectionSynced = 0 /\ current = 0 /\ collectionDependencies = 0
  /\ objectDependencies = 0 /\ indexedDependencies = 0 /\ extractors = 0 /\ mappings = 0
  /\ outputs = 0 /\ index = 0 /\ replica = 0 /\ status = 0 /\ val = 0 /\ members = 0
  /\ gone = 0 /\ membership = 0 /\ registered = 0 /\ pending = 0 /\ unsynced = 0
  /\ worker = 0 /\ deleting = 0 /\ cache = 0 /\ joinReplica = 0 /\ raced = 0 /\ budget = 0
  /\ setup = 0 /\ informers = 0 /\ started = 0 /\ listed = 0 /\ shuttingDown = 0
  /\ view = 0 /\ crashed = 0 /\ ready = 0 /\ discoveryNamespaces = 0
  /\ discoverySelectors = 0 /\ handlers = 0 /\ notifying = 0 /\ exists = 0
  /\ delayedClientStore = 0 /\ informer = 0 /\ callbacks = 0 /\ client = 0 /\ inf = 0
  /\ setting = 0 /\ adding = 0 /\ lost = 0 /\ runs = 0 /\ delayedReady = 0 /\ dirty = 0
  /\ processing = 0 /\ requeues = 0 /\ backoff = 0 /\ running = 0 /\ shutDown = 0
  /\ delayedClientSynced = 0 /\ nested = 0 /\ content = 0 /\ notified = 0 /\ workers = 0
  /\ filesCount = 0 /\ watched = 0 /\ hash = 0 /\ live = 0 /\ loop = 0 /\ caller = 0
  /\ consumer = 0 /\ filesSeen = 0 /\ missed = 0 /\ removes = 0 /\ folder = 0
  /\ watching = 0 /\ event = 0 /\ trigger = 0 /\ chan = 0 /\ state = 0 /\ builder = 0
  /\ collection = 0 /\ early = 0
InCache == part = "cache"
OnlyCache == UNCHANGED <<part, cacheRest>>
CacheStartPush == InCache /\ StartPush /\ OnlyCache
CacheBuildResource == InCache /\ (\E k \in Key, start \in 0..clock, on \in SUBSET Config : BuildResource(k, start, on)) /\ OnlyCache
CacheAdd == InCache /\ (\E job \in builds : Add(job)) /\ OnlyCache
CacheClear == InCache /\ (\E cs \in SUBSET Config : Clear(cs)) /\ OnlyCache
CacheClearAll == InCache /\ ClearAll /\ OnlyCache
CacheFlush == InCache /\ Flush /\ OnlyCache
CacheNext ==
  \/ CacheStartPush \/ CacheBuildResource \/ CacheAdd \/ CacheClear \/ CacheClearAll
  \/ CacheFlush

-----------------------------------------------------------------------------
(* KrtHandlers *)

listenersRest == <<store, token, configIndex, evictQueue, clock, version, builds, objects,
                 inputs, deps, changes, inEvents, depEvents, depSynced, collectionPhase,
                 queue, collectionSynced, current, collectionDependencies,
                 objectDependencies, indexedDependencies, extractors, mappings, outputs,
                 index, replica, status, val, members, gone, membership, registered,
                 pending, unsynced, worker, deleting, cache, joinReplica, raced, budget,
                 setup, informers, started, listed, shuttingDown, view, crashed, ready,
                 discoveryNamespaces, discoverySelectors, handlers, notifying, exists,
                 delayedClientStore, informer, callbacks, client, inf, setting, adding,
                 lost, runs, delayedReady, dirty, processing, requeues, backoff, running,
                 shutDown, delayedClientSynced, nested, content, notified, workers,
                 filesCount, watched, hash, live, loop, caller, consumer, filesSeen, missed,
                 removes, folder, watching, event, trigger, chan, state, builder,
                 collection, early>>
ListenersInit ==
  /\ part = "listeners" /\ HandlersInit
  /\ LruInit /\ objects = 0 /\ inputs = 0 /\ deps = 0 /\ changes = 0 /\ inEvents = 0
  /\ depEvents = 0 /\ depSynced = 0 /\ collectionPhase = 0 /\ queue = 0
  /\ collectionSynced = 0 /\ current = 0 /\ collectionDependencies = 0
  /\ objectDependencies = 0 /\ indexedDependencies = 0 /\ extractors = 0 /\ mappings = 0
  /\ outputs = 0 /\ index = 0 /\ replica = 0 /\ status = 0 /\ val = 0 /\ members = 0
  /\ gone = 0 /\ membership = 0 /\ registered = 0 /\ pending = 0 /\ unsynced = 0
  /\ worker = 0 /\ deleting = 0 /\ cache = 0 /\ joinReplica = 0 /\ raced = 0 /\ budget = 0
  /\ setup = 0 /\ informers = 0 /\ started = 0 /\ listed = 0 /\ shuttingDown = 0
  /\ view = 0 /\ crashed = 0 /\ ready = 0 /\ discoveryNamespaces = 0
  /\ discoverySelectors = 0 /\ handlers = 0 /\ notifying = 0 /\ exists = 0
  /\ delayedClientStore = 0 /\ informer = 0 /\ callbacks = 0 /\ client = 0 /\ inf = 0
  /\ setting = 0 /\ adding = 0 /\ lost = 0 /\ runs = 0 /\ delayedReady = 0 /\ dirty = 0
  /\ processing = 0 /\ requeues = 0 /\ backoff = 0 /\ running = 0 /\ shutDown = 0
  /\ delayedClientSynced = 0 /\ nested = 0 /\ content = 0 /\ notified = 0 /\ workers = 0
  /\ filesCount = 0 /\ watched = 0 /\ hash = 0 /\ live = 0 /\ loop = 0 /\ caller = 0
  /\ consumer = 0 /\ filesSeen = 0 /\ missed = 0 /\ removes = 0 /\ folder = 0
  /\ watching = 0 /\ event = 0 /\ trigger = 0 /\ chan = 0 /\ state = 0 /\ builder = 0
  /\ collection = 0 /\ early = 0
InListeners == part = "listeners"
OnlyListeners == UNCHANGED <<part, listenersRest>>
ListenersDistribute == InListeners /\ Distribute /\ OnlyListeners
ListenersCollectionSyncs == InListeners /\ CollectionSyncs /\ OnlyListeners
ListenersInsert == InListeners /\ (\E h \in Handler : Insert(h)) /\ OnlyListeners
ListenersCountInitial == InListeners /\ (\E h \in Handler : CountInitial(h)) /\ OnlyListeners
ListenersSendInitial == InListeners /\ (\E h \in Handler : SendInitial(h)) /\ OnlyListeners
ListenersInsertReturns == InListeners /\ (\E h \in Handler : InsertReturns(h)) /\ OnlyListeners
ListenersNotifySynced == InListeners /\ (\E h \in Handler : NotifySynced(h)) /\ OnlyListeners
ListenersRemove == InListeners /\ (\E h \in Handler : Remove(h)) /\ OnlyListeners
ListenersRun == InListeners /\ (\E h \in Handler : Run(h)) /\ OnlyListeners
ListenersNext ==
  \/ ListenersDistribute \/ ListenersCollectionSyncs \/ ListenersInsert
  \/ ListenersCountInitial \/ ListenersSendInitial \/ ListenersInsertReturns
  \/ ListenersNotifySynced \/ ListenersRemove \/ ListenersRun

-----------------------------------------------------------------------------
(* KrtCollection *)

collectionRest == <<store, token, configIndex, evictQueue, clock, version, builds, object,
                  synced, phase, initial, startedSynced, waiting, notifications, count,
                  hasSynced, pendingSync, closes, seen, val, members, gone, membership,
                  registered, pending, unsynced, worker, deleting, cache, joinReplica,
                  raced, budget, setup, informers, started, listed, shuttingDown, view,
                  crashed, ready, discoveryNamespaces, discoverySelectors, handlers,
                  notifying, exists, delayedClientStore, informer, callbacks, client, inf,
                  setting, adding, lost, runs, delayedReady, dirty, processing, requeues,
                  backoff, running, shutDown, delayedClientSynced, nested, content,
                  notified, workers, filesCount, watched, hash, live, loop, caller,
                  consumer, filesSeen, missed, removes, folder, watching, event, trigger,
                  chan, state, builder, collection, early>>
CollectionInit ==
  /\ part = "collection" /\ Collection!Init
  /\ LruInit /\ HandlersInit /\ val = 0 /\ members = 0 /\ gone = 0 /\ membership = 0
  /\ registered = 0 /\ pending = 0 /\ unsynced = 0 /\ worker = 0 /\ deleting = 0
  /\ cache = 0 /\ joinReplica = 0 /\ raced = 0 /\ budget = 0 /\ setup = 0 /\ informers = 0
  /\ started = 0 /\ listed = 0 /\ shuttingDown = 0 /\ view = 0 /\ crashed = 0 /\ ready = 0
  /\ discoveryNamespaces = 0 /\ discoverySelectors = 0 /\ handlers = 0 /\ notifying = 0
  /\ exists = 0 /\ delayedClientStore = 0 /\ informer = 0 /\ callbacks = 0 /\ client = 0
  /\ inf = 0 /\ setting = 0 /\ adding = 0 /\ lost = 0 /\ runs = 0 /\ delayedReady = 0
  /\ dirty = 0 /\ processing = 0 /\ requeues = 0 /\ backoff = 0 /\ running = 0
  /\ shutDown = 0 /\ delayedClientSynced = 0 /\ nested = 0 /\ content = 0 /\ notified = 0
  /\ workers = 0 /\ filesCount = 0 /\ watched = 0 /\ hash = 0 /\ live = 0 /\ loop = 0
  /\ caller = 0 /\ consumer = 0 /\ filesSeen = 0 /\ missed = 0 /\ removes = 0 /\ folder = 0
  /\ watching = 0 /\ event = 0 /\ trigger = 0 /\ chan = 0 /\ state = 0 /\ builder = 0
  /\ collection = 0 /\ early = 0
InCollection == part = "collection"
OnlyCollection == UNCHANGED <<part, collectionRest>>
CollectionUpdateInput == InCollection /\ Collection!UpdateInput /\ OnlyCollection
CollectionDeleteInput == InCollection /\ Collection!DeleteInput /\ OnlyCollection
CollectionResetInputs == InCollection /\ Collection!ResetInputs /\ OnlyCollection
CollectionChangeDep == InCollection /\ Collection!ChangeDep /\ OnlyCollection
CollectionDepsSync == InCollection /\ Collection!DepsSync /\ OnlyCollection
CollectionRegister == InCollection /\ Collection!Register /\ OnlyCollection
CollectionOnPrimary == InCollection /\ Collection!OnPrimary /\ OnlyCollection
CollectionRunQueue == InCollection /\ Collection!RunQueue /\ OnlyCollection
CollectionOnSecondary == InCollection /\ Collection!OnSecondary /\ OnlyCollection
CollectionTakeTask == InCollection /\ Collection!TakeTask /\ OnlyCollection
CollectionRegisterDependency == InCollection /\ Collection!RegisterDependency /\ OnlyCollection
CollectionApply == InCollection /\ Collection!Apply /\ OnlyCollection
CollectionTransform == InCollection /\ (\E i \in {i1, i2} : Collection!Transform(i)) /\ OnlyCollection
CollectionNext ==
  \/ CollectionUpdateInput \/ CollectionDeleteInput \/ CollectionResetInputs
  \/ CollectionChangeDep \/ CollectionDepsSync \/ CollectionRegister \/ CollectionOnPrimary
  \/ CollectionRunQueue \/ CollectionOnSecondary \/ CollectionTakeTask
  \/ CollectionRegisterDependency \/ CollectionApply \/ CollectionTransform

-----------------------------------------------------------------------------
(* KrtCollection, its second machine *)

joinRest == <<store, token, configIndex, evictQueue, clock, version, builds, object, synced,
            phase, initial, startedSynced, waiting, notifications, count, hasSynced,
            pendingSync, closes, seen, objects, inputs, deps, changes, inEvents, depEvents,
            depSynced, collectionPhase, queue, collectionSynced, current,
            collectionDependencies, objectDependencies, indexedDependencies, extractors,
            mappings, outputs, index, replica, status, setup, informers, started, listed,
            shuttingDown, view, crashed, ready, discoveryNamespaces, discoverySelectors,
            handlers, notifying, exists, delayedClientStore, informer, callbacks, client,
            inf, setting, adding, lost, runs, delayedReady, dirty, processing, requeues,
            backoff, running, shutDown, delayedClientSynced, nested, content, notified,
            workers, filesCount, watched, hash, live, loop, caller, consumer, filesSeen,
            missed, removes, folder, watching, event, trigger, chan, state, builder,
            collection, early>>
JoinInit ==
  /\ part = "join" /\ Collection!JoinInit
  /\ LruInit /\ HandlersInit /\ objects = 0 /\ inputs = 0 /\ deps = 0 /\ changes = 0
  /\ inEvents = 0 /\ depEvents = 0 /\ depSynced = 0 /\ collectionPhase = 0 /\ queue = 0
  /\ collectionSynced = 0 /\ current = 0 /\ collectionDependencies = 0
  /\ objectDependencies = 0 /\ indexedDependencies = 0 /\ extractors = 0 /\ mappings = 0
  /\ outputs = 0 /\ index = 0 /\ replica = 0 /\ status = 0 /\ setup = 0 /\ informers = 0
  /\ started = 0 /\ listed = 0 /\ shuttingDown = 0 /\ view = 0 /\ crashed = 0 /\ ready = 0
  /\ discoveryNamespaces = 0 /\ discoverySelectors = 0 /\ handlers = 0 /\ notifying = 0
  /\ exists = 0 /\ delayedClientStore = 0 /\ informer = 0 /\ callbacks = 0 /\ client = 0
  /\ inf = 0 /\ setting = 0 /\ adding = 0 /\ lost = 0 /\ runs = 0 /\ delayedReady = 0
  /\ dirty = 0 /\ processing = 0 /\ requeues = 0 /\ backoff = 0 /\ running = 0
  /\ shutDown = 0 /\ delayedClientSynced = 0 /\ nested = 0 /\ content = 0 /\ notified = 0
  /\ workers = 0 /\ filesCount = 0 /\ watched = 0 /\ hash = 0 /\ live = 0 /\ loop = 0
  /\ caller = 0 /\ consumer = 0 /\ filesSeen = 0 /\ missed = 0 /\ removes = 0 /\ folder = 0
  /\ watching = 0 /\ event = 0 /\ trigger = 0 /\ chan = 0 /\ state = 0 /\ builder = 0
  /\ collection = 0 /\ early = 0
InJoin == part = "join"
OnlyJoin == UNCHANGED <<part, joinRest>>
JoinChangeValue == InJoin /\ (\E c \in {cl1, cl2, cl3} : Collection!ChangeValue(c)) /\ OnlyJoin
JoinChangeMembers == InJoin /\ (\E c \in {cl1, cl2, cl3} : Collection!ChangeMembers(c)) /\ OnlyJoin
JoinMergeKey == InJoin /\ (\E c \in {cl1, cl2, cl3} : Collection!MergeKey(c)) /\ OnlyJoin
JoinUpdateMergedCache == InJoin /\ (\E c \in {cl1, cl2, cl3} : Collection!UpdateMergedCache(c)) /\ OnlyJoin
JoinCallHandler == InJoin /\ (\E c \in {cl1, cl2, cl3} : Collection!CallHandler(c)) /\ OnlyJoin
JoinAddCollection == InJoin /\ Collection!AddCollection /\ OnlyJoin
JoinStartDelete == InJoin /\ Collection!StartDelete /\ OnlyJoin
JoinFinishDelete == InJoin /\ Collection!FinishDelete /\ OnlyJoin
JoinNext ==
  \/ JoinChangeValue \/ JoinChangeMembers \/ JoinMergeKey \/ JoinUpdateMergedCache
  \/ JoinCallHandler \/ JoinAddCollection \/ JoinStartDelete \/ JoinFinishDelete

-----------------------------------------------------------------------------
(* InformerClient *)

informersRest == <<store, token, configIndex, evictQueue, clock, version, builds, object,
                 synced, phase, initial, startedSynced, waiting, notifications, count,
                 hasSynced, pendingSync, closes, seen, objects, inputs, deps, changes,
                 inEvents, depEvents, depSynced, collectionPhase, collectionSynced, current,
                 collectionDependencies, objectDependencies, indexedDependencies,
                 extractors, mappings, outputs, index, replica, val, members, gone,
                 membership, registered, pending, worker, deleting, joinReplica, raced,
                 budget, exists, delayedClientStore, informer, callbacks, client, inf,
                 setting, adding, lost, runs, delayedReady, dirty, processing, requeues,
                 backoff, running, shutDown, delayedClientSynced, nested, content, notified,
                 workers, filesCount, watched, hash, live, loop, caller, consumer,
                 filesSeen, missed, removes, folder, watching, event, trigger, chan, state,
                 builder, collection, early>>
InformersInit ==
  /\ part = "informers" /\ Informers!Init
  /\ LruInit /\ HandlersInit /\ objects = 0 /\ inputs = 0 /\ deps = 0 /\ changes = 0
  /\ inEvents = 0 /\ depEvents = 0 /\ depSynced = 0 /\ collectionPhase = 0
  /\ collectionSynced = 0 /\ current = 0 /\ collectionDependencies = 0
  /\ objectDependencies = 0 /\ indexedDependencies = 0 /\ extractors = 0 /\ mappings = 0
  /\ outputs = 0 /\ index = 0 /\ replica = 0 /\ val = 0 /\ members = 0 /\ gone = 0
  /\ membership = 0 /\ registered = 0 /\ pending = 0 /\ worker = 0 /\ deleting = 0
  /\ joinReplica = 0 /\ raced = 0 /\ budget = 0 /\ exists = 0 /\ delayedClientStore = 0
  /\ informer = 0 /\ callbacks = 0 /\ client = 0 /\ inf = 0 /\ setting = 0 /\ adding = 0
  /\ lost = 0 /\ runs = 0 /\ delayedReady = 0 /\ dirty = 0 /\ processing = 0
  /\ requeues = 0 /\ backoff = 0 /\ running = 0 /\ shutDown = 0 /\ delayedClientSynced = 0
  /\ nested = 0 /\ content = 0 /\ notified = 0 /\ workers = 0 /\ filesCount = 0
  /\ watched = 0 /\ hash = 0 /\ live = 0 /\ loop = 0 /\ caller = 0 /\ consumer = 0
  /\ filesSeen = 0 /\ missed = 0 /\ removes = 0 /\ folder = 0 /\ watching = 0 /\ event = 0
  /\ trigger = 0 /\ chan = 0 /\ state = 0 /\ builder = 0 /\ collection = 0 /\ early = 0
InInformers == part = "informers"
OnlyInformers == UNCHANGED <<part, informersRest>>
InformersNewDiscoveryNamespacesFilter == InInformers /\ Informers!NewDiscoveryNamespacesFilter /\ OnlyInformers
InformersMeshChanged == InInformers /\ Informers!MeshChanged /\ OnlyInformers
InformersNamespaceEvent == InInformers /\ Informers!NamespaceEvent /\ OnlyInformers
InformersShutdown == InInformers /\ Informers!Shutdown /\ OnlyInformers
InformersNewFiltered == InInformers /\ (\E c \in Informers!Filtered : Informers!NewFiltered(c)) /\ OnlyInformers
InformersAddEventHandler == InInformers /\ (\E c \in Informers!Filtered : Informers!AddEventHandler(c)) /\ OnlyInformers
InformersStart == InInformers /\ (\E c \in Informers!Filtered : Informers!Start(c)) /\ OnlyInformers
InformersShutdownHandlers == InInformers /\ (\E c \in Informers!Filtered : Informers!ShutdownHandlers(c)) /\ OnlyInformers
InformersFilterFunc == InInformers /\ (\E c \in Informers!Filtered : Informers!FilterFunc(c)) /\ OnlyInformers
InformersListUnfiltered == InInformers /\ (\E g \in Informers!Goroutine : Informers!ListUnfiltered(g)) /\ OnlyInformers
InformersNotified == InInformers /\ (\E g \in Informers!Goroutine : Informers!Notified(g)) /\ OnlyInformers
InformersApplyDynamicFilter == InInformers /\ (\E g \in Informers!Goroutine : Informers!applyDynamicFilter(g, n1)) /\ OnlyInformers
InformersInitialList == InInformers /\ (\E k \in Informers!Kind : Informers!InitialList(k)) /\ OnlyInformers
InformersChange == InInformers /\ (\E k \in Informers!Kind, to \in {Informers!Absent} \cup Informers!Value, gap \in BOOLEAN : Informers!Change(k, n1, to, gap)) /\ OnlyInformers
InformersNext ==
  \/ InformersNewDiscoveryNamespacesFilter \/ InformersMeshChanged
  \/ InformersNamespaceEvent \/ InformersShutdown \/ InformersNewFiltered
  \/ InformersAddEventHandler \/ InformersStart \/ InformersShutdownHandlers
  \/ InformersFilterFunc \/ InformersListUnfiltered \/ InformersNotified
  \/ InformersApplyDynamicFilter \/ InformersInitialList \/ InformersChange

-----------------------------------------------------------------------------
(* InformerClient, its second machine *)

delayedClientRest == <<store, token, configIndex, evictQueue, clock, version, builds, object,
                     synced, phase, initial, startedSynced, waiting, notifications, count,
                     hasSynced, pendingSync, closes, seen, objects, inputs, deps, changes,
                     inEvents, depEvents, depSynced, collectionPhase, queue,
                     collectionSynced, current, collectionDependencies, objectDependencies,
                     indexedDependencies, extractors, mappings, outputs, index, replica,
                     status, val, members, gone, membership, unsynced, deleting, cache,
                     joinReplica, raced, budget, setup, informers, started, listed,
                     shuttingDown, view, crashed, ready, discoveryNamespaces,
                     discoverySelectors, handlers, notifying, nested, content, notified,
                     workers, filesCount, watched, hash, live, loop, caller, consumer,
                     filesSeen, missed, removes, folder, watching, event, trigger, chan,
                     state, builder, collection, early>>
DelayedClientInit ==
  /\ part = "delayedClient" /\ Informers!DelayedInit
  /\ LruInit /\ HandlersInit /\ objects = 0 /\ inputs = 0 /\ deps = 0 /\ changes = 0
  /\ inEvents = 0 /\ depEvents = 0 /\ depSynced = 0 /\ collectionPhase = 0 /\ queue = 0
  /\ collectionSynced = 0 /\ current = 0 /\ collectionDependencies = 0
  /\ objectDependencies = 0 /\ indexedDependencies = 0 /\ extractors = 0 /\ mappings = 0
  /\ outputs = 0 /\ index = 0 /\ replica = 0 /\ status = 0 /\ val = 0 /\ members = 0
  /\ gone = 0 /\ membership = 0 /\ unsynced = 0 /\ deleting = 0 /\ cache = 0
  /\ joinReplica = 0 /\ raced = 0 /\ budget = 0 /\ setup = 0 /\ informers = 0
  /\ started = 0 /\ listed = 0 /\ shuttingDown = 0 /\ view = 0 /\ crashed = 0 /\ ready = 0
  /\ discoveryNamespaces = 0 /\ discoverySelectors = 0 /\ handlers = 0 /\ notifying = 0
  /\ nested = 0 /\ content = 0 /\ notified = 0 /\ workers = 0 /\ filesCount = 0
  /\ watched = 0 /\ hash = 0 /\ live = 0 /\ loop = 0 /\ caller = 0 /\ consumer = 0
  /\ filesSeen = 0 /\ missed = 0 /\ removes = 0 /\ folder = 0 /\ watching = 0 /\ event = 0
  /\ trigger = 0 /\ chan = 0 /\ state = 0 /\ builder = 0 /\ collection = 0 /\ early = 0
InDelayedClient == part = "delayedClient"
OnlyDelayedClient == UNCHANGED <<part, delayedClientRest>>
DelayedClientInformerLists == InDelayedClient /\ Informers!InformerLists /\ OnlyDelayedClient
DelayedClientHandlerSyncs == InDelayedClient /\ Informers!HandlerSyncs /\ OnlyDelayedClient
DelayedClientCrdCreated == InDelayedClient /\ Informers!CrdCreated /\ OnlyDelayedClient
DelayedClientRun == InDelayedClient /\ Informers!Run /\ OnlyDelayedClient
DelayedClientGet == InDelayedClient /\ Informers!DelayedGet /\ OnlyDelayedClient
DelayedClientSynced == InDelayedClient /\ Informers!Synced /\ OnlyDelayedClient
DelayedClientReconcile == InDelayedClient /\ Informers!Reconcile /\ OnlyDelayedClient
DelayedClientSetHandlers == InDelayedClient /\ Informers!SetHandlers /\ OnlyDelayedClient
DelayedClientNewDelayedInformer == InDelayedClient /\ Informers!NewDelayedInformer /\ OnlyDelayedClient
DelayedClientStart == InDelayedClient /\ Informers!DelayedStart /\ OnlyDelayedClient
DelayedClientAddEventHandler == InDelayedClient /\ (\E h \in {h1, h2} : Informers!DelayedAddEventHandler(h)) /\ OnlyDelayedClient
DelayedClientKeepHandler == InDelayedClient /\ (\E h \in {h1, h2} : Informers!KeepHandler(h)) /\ OnlyDelayedClient
DelayedClientNext ==
  \/ DelayedClientInformerLists \/ DelayedClientHandlerSyncs \/ DelayedClientCrdCreated
  \/ DelayedClientRun \/ DelayedClientGet \/ DelayedClientSynced \/ DelayedClientReconcile
  \/ DelayedClientSetHandlers \/ DelayedClientNewDelayedInformer \/ DelayedClientStart
  \/ DelayedClientAddEventHandler \/ DelayedClientKeepHandler

-----------------------------------------------------------------------------
(* FileWatcher *)

filesRest == <<store, token, configIndex, evictQueue, clock, version, builds, object, synced,
             phase, initial, startedSynced, waiting, notifications, count, hasSynced,
             pendingSync, closes, seen, objects, inputs, deps, changes, inEvents, depEvents,
             depSynced, collectionPhase, queue, collectionSynced, current,
             collectionDependencies, objectDependencies, indexedDependencies, extractors,
             mappings, outputs, index, replica, status, val, members, gone, membership,
             registered, pending, unsynced, worker, deleting, cache, joinReplica, raced,
             budget, setup, informers, started, listed, shuttingDown, view, crashed, ready,
             discoveryNamespaces, discoverySelectors, handlers, notifying, exists,
             delayedClientStore, informer, callbacks, client, inf, setting, adding, lost,
             runs, delayedReady, dirty, processing, requeues, backoff, running, shutDown,
             delayedClientSynced, folder, watching, event, trigger, chan, state, builder,
             collection, early>>
FilesInit ==
  /\ part = "files" /\ Files!Init
  /\ LruInit /\ HandlersInit /\ objects = 0 /\ inputs = 0 /\ deps = 0 /\ changes = 0
  /\ inEvents = 0 /\ depEvents = 0 /\ depSynced = 0 /\ collectionPhase = 0 /\ queue = 0
  /\ collectionSynced = 0 /\ current = 0 /\ collectionDependencies = 0
  /\ objectDependencies = 0 /\ indexedDependencies = 0 /\ extractors = 0 /\ mappings = 0
  /\ outputs = 0 /\ index = 0 /\ replica = 0 /\ status = 0 /\ val = 0 /\ members = 0
  /\ gone = 0 /\ membership = 0 /\ registered = 0 /\ pending = 0 /\ unsynced = 0
  /\ worker = 0 /\ deleting = 0 /\ cache = 0 /\ joinReplica = 0 /\ raced = 0 /\ budget = 0
  /\ setup = 0 /\ informers = 0 /\ started = 0 /\ listed = 0 /\ shuttingDown = 0
  /\ view = 0 /\ crashed = 0 /\ ready = 0 /\ discoveryNamespaces = 0
  /\ discoverySelectors = 0 /\ handlers = 0 /\ notifying = 0 /\ exists = 0
  /\ delayedClientStore = 0 /\ informer = 0 /\ callbacks = 0 /\ client = 0 /\ inf = 0
  /\ setting = 0 /\ adding = 0 /\ lost = 0 /\ runs = 0 /\ delayedReady = 0 /\ dirty = 0
  /\ processing = 0 /\ requeues = 0 /\ backoff = 0 /\ running = 0 /\ shutDown = 0
  /\ delayedClientSynced = 0 /\ folder = 0 /\ watching = 0 /\ event = 0 /\ trigger = 0
  /\ chan = 0 /\ state = 0 /\ builder = 0 /\ collection = 0 /\ early = 0
InFiles == part = "files"
OnlyFiles == UNCHANGED <<part, filesRest>>
FilesWrite == InFiles /\ (\E f \in {"f", "g"} : Files!Write(f)) /\ OnlyFiles
FilesReadFile == InFiles /\ (\E f \in {"f", "g"} : Files!ReadFile(f)) /\ OnlyFiles
FilesAdd == InFiles /\ (\E f \in {"f", "g"} : Files!Add(f)) /\ OnlyFiles
FilesRemove == InFiles /\ (\E f \in {"f", "g"} : Files!Remove(f)) /\ OnlyFiles
FilesScan == InFiles /\ (\E f \in {"f", "g"} : Files!Scan(f)) /\ OnlyFiles
FilesReload == InFiles /\ (\E f \in {"f", "g"} : Files!Reload(f)) /\ OnlyFiles
FilesClose == InFiles /\ Files!Close /\ OnlyFiles
FilesReceiveEvent == InFiles /\ Files!ReceiveEvent /\ OnlyFiles
FilesScanEnds == InFiles /\ Files!ScanEnds /\ OnlyFiles
FilesDeliver == InFiles /\ Files!Deliver /\ OnlyFiles
FilesRetire == InFiles /\ Files!Retire /\ OnlyFiles
FilesTerminate == InFiles /\ Files!Terminate /\ OnlyFiles
FilesNext ==
  \/ FilesWrite \/ FilesReadFile \/ FilesAdd \/ FilesRemove \/ FilesScan \/ FilesReload
  \/ FilesClose \/ FilesReceiveEvent \/ FilesScanEnds \/ FilesDeliver \/ FilesRetire
  \/ FilesTerminate

-----------------------------------------------------------------------------
(* FileWatcher, its second machine *)

folderWatchRest == <<store, token, configIndex, evictQueue, clock, version, builds, object,
                   synced, phase, initial, startedSynced, waiting, notifications, count,
                   hasSynced, pendingSync, closes, seen, objects, inputs, deps, changes,
                   inEvents, depEvents, depSynced, collectionPhase, queue, collectionSynced,
                   current, collectionDependencies, objectDependencies, indexedDependencies,
                   extractors, mappings, outputs, index, replica, status, val, members,
                   gone, membership, registered, pending, unsynced, worker, deleting, cache,
                   joinReplica, raced, budget, setup, informers, started, listed,
                   shuttingDown, view, crashed, ready, discoveryNamespaces,
                   discoverySelectors, handlers, notifying, exists, delayedClientStore,
                   informer, callbacks, client, inf, setting, adding, lost, runs,
                   delayedReady, dirty, processing, requeues, backoff, running, shutDown,
                   delayedClientSynced, nested, content, notified, workers, filesCount,
                   watched, hash, live, loop, caller, consumer, filesSeen, missed, removes>>
FolderWatchInit ==
  /\ part = "folderWatch" /\ Files!FolderInit
  /\ LruInit /\ HandlersInit /\ objects = 0 /\ inputs = 0 /\ deps = 0 /\ changes = 0
  /\ inEvents = 0 /\ depEvents = 0 /\ depSynced = 0 /\ collectionPhase = 0 /\ queue = 0
  /\ collectionSynced = 0 /\ current = 0 /\ collectionDependencies = 0
  /\ objectDependencies = 0 /\ indexedDependencies = 0 /\ extractors = 0 /\ mappings = 0
  /\ outputs = 0 /\ index = 0 /\ replica = 0 /\ status = 0 /\ val = 0 /\ members = 0
  /\ gone = 0 /\ membership = 0 /\ registered = 0 /\ pending = 0 /\ unsynced = 0
  /\ worker = 0 /\ deleting = 0 /\ cache = 0 /\ joinReplica = 0 /\ raced = 0 /\ budget = 0
  /\ setup = 0 /\ informers = 0 /\ started = 0 /\ listed = 0 /\ shuttingDown = 0
  /\ view = 0 /\ crashed = 0 /\ ready = 0 /\ discoveryNamespaces = 0
  /\ discoverySelectors = 0 /\ handlers = 0 /\ notifying = 0 /\ exists = 0
  /\ delayedClientStore = 0 /\ informer = 0 /\ callbacks = 0 /\ client = 0 /\ inf = 0
  /\ setting = 0 /\ adding = 0 /\ lost = 0 /\ runs = 0 /\ delayedReady = 0 /\ dirty = 0
  /\ processing = 0 /\ requeues = 0 /\ backoff = 0 /\ running = 0 /\ shutDown = 0
  /\ delayedClientSynced = 0 /\ nested = 0 /\ content = 0 /\ notified = 0 /\ workers = 0
  /\ filesCount = 0 /\ watched = 0 /\ hash = 0 /\ live = 0 /\ loop = 0 /\ caller = 0
  /\ consumer = 0 /\ filesSeen = 0 /\ missed = 0 /\ removes = 0
InFolderWatch == part = "folderWatch"
OnlyFolderWatch == UNCHANGED <<part, folderWatchRest>>
FolderWatchEdit == InFolderWatch /\ Files!Edit /\ OnlyFolderWatch
FolderWatchWatch == InFolderWatch /\ Files!Watch /\ OnlyFolderWatch
FolderWatchSeeEvent == InFolderWatch /\ Files!SeeEvent /\ OnlyFolderWatch
FolderWatchFire == InFolderWatch /\ Files!Fire /\ OnlyFolderWatch
FolderWatchReadOnce == InFolderWatch /\ Files!readOnce /\ OnlyFolderWatch
FolderWatchReadSnapshot == InFolderWatch /\ Files!ReadSnapshot /\ OnlyFolderWatch
FolderWatchSubscribe == InFolderWatch /\ Files!Subscribe /\ OnlyFolderWatch
FolderWatchNext ==
  \/ FolderWatchEdit \/ FolderWatchWatch \/ FolderWatchSeeEvent \/ FolderWatchFire
  \/ FolderWatchReadOnce \/ FolderWatchReadSnapshot \/ FolderWatchSubscribe

-----------------------------------------------------------------------------
AllInit == CacheInit \/ ListenersInit \/ CollectionInit \/ JoinInit \/ InformersInit \/ DelayedClientInit \/ FilesInit \/ FolderWatchInit
AllNext == CacheNext \/ ListenersNext \/ CollectionNext \/ JoinNext \/ InformersNext \/ DelayedClientNext \/ FilesNext \/ FolderWatchNext
AllSpec == AllInit /\ [][AllNext]_allVars

\* A delayed client that reports that it has synced has done what there was
\* to do: without an informer, there was no CRD when the watcher started, and
\* with one, the informer has all its handlers but for those that crossed its
\* loading.
SyncedMeansNoCrd ==
  /\ part = "delayedClient" => Informers!SyncedMeansNoCrd

\* Applied one after the other, the events of a derived collection describe
\* what it holds; once nothing is left to do, it holds what its
\* transformation makes of the inputs and of what it fetched, and a join
\* holds the merge of its collections.
DerivedCurrent ==
  /\ part = "collection" => Collection!EventsDescribeOutputs
  /\ part = "collection" => Collection!DerivedCurrent
  /\ part = "join" => Collection!JoinConverges

\* Once nothing is left to do, every consumer has seen the last change: the
\* filtered informer clients hold the objects of the selected namespaces, a
\* watched file has been read as it is, and a file collection holds its
\* folder; changes that fell between a first read and the watch that follows
\* it are left out.
ChangesNoticed ==
  /\ part = "informers" => Informers!ChangesNoticed
  /\ part = "files" => Files!FilesNoticed
  /\ part = "folderWatch" => Files!FolderFollowed

=============================================================================
