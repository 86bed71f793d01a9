# Formal models of the dubbo-kubernetes control plane

TLA+ modules, TLC configurations and TLAPS proofs for `dubbod`, the discovery
server, and for what it stands on: how a change of configuration, services or
endpoints becomes a response on the stream of every client, how the objects it
depends on are stored, checked, derived and rolled out, and how certificates
are issued and reach their users. Line numbers of the source for every
definition are in `PROJECT.json` (`map`).

## The system

`dubbod` watches Kubernetes, turns what it sees into configuration, services
and endpoints, and serves gRPC clients ("proxyless", *inherent* in the code)
over xDS streams. A change travels like this:

    Kubernetes API -> informers, krt collections          InformerClient, KrtHandlers,
        |                                                 KrtCollection, ControllerQueue
        |-- mesh configuration, config stores             ConfigStores, Gateways
        |-- services, pods, endpoint slices, entries      KubeRegistry, Registries
        | EDSUpdate / ServiceUpdate / ConfigUpdate        EndpointIndex
        v
    pushChannel -> debounce loop -> Push                  Debounce
        | initPushContext, AdsPushAll / StartPush         PushContexts, ConfigSnapshot, XdsCache
        v
    PushQueue (one pending request per connection)        PushQueue, PushMailbox
        | doSendPushes, semaphore
        v
    Connection.pushChannel -> Stream loop                 PushDelivery
        | pushConnection / processRequest -> pushXds      Generators
        v
    Send, nonces, ShouldRespond                           XdsStream, DeltaStream
        v                                                 AdsClient (the client side)
    standard ADS adapter (for stock xDS clients)          StandardStream

Beside this pipeline: the server's start and stop (ServerLifecycle), leader
election (LeaderElection), status reports (StatusReporting), the gateway
deployment controller (Gateways), the certificate authority and its signers
(CertAuthority, Certificates), what distributes certificates
(CaDistribution, InherentWorkloads, SecretCache), webhooks (Admission), the
installer of the operator (Installer), and the queues and file
watchers of `pkg` (WorkQueue, FileWatcher). `PROJECT.json` lists every part of
the repository with what is modelled of it, or why it is not.

## The modules

Each module says in its header what it models; actions carry the names of the
Go functions where one action is one function. Definitions commented "Mutant"
are altered forms of the definition that follows them. They are not part of any
specification: they serve to confirm that each property can fail.

**The push pipeline**

- **PushRequest** is `model.PushRequest`, reduced to `Full`, `Forced`, the push
  context (its version) and the updated configurations, with `Merge` and
  `CopyMerge`. Reasons, start times and the delta are left out.
- **PushMailbox** is what the queue promises: per connection, what is owed and
  what is under way; posting merges, taking moves, finishing clears.
- **PushQueue** is `pushqueue.go`. Each method holds the queue's lock, so each is
  one action; Enqueue is split by its three branches. `ImplementsMailbox` is the
  refinement: owed is the pending request or the one parked in `processing`.
- **Debounce** is `debounce`, `ConfigUpdate` and `waitForCacheSync`. The loop has
  one action per `select` case. The push goroutine takes three steps (push,
  count, free). Time is discrete; `quiet`, `delay` and `timer` stand for the
  clock readings and the timer, counted up to the value above which the code
  no longer tells them apart. `enableEDSDebounce` is chosen at the start.
- **PushContexts** is `Push`, `initPushContext`, `AdsPushAll`, `StartPush`,
  `ProxyUpdate`, `initConnection`, `pushConnection` and the answer to requests,
  on top of the mailboxes. A context is its version; `built[v]` is the state of
  the configuration it was made from.
- **PushDelivery** is `doSendPushes` with its goroutines, `Stream` and `Receive`
  of `pkg/xds` and the delta variants of `delta.go`, down to single channel
  operations, because the ways these goroutines end is what it is about.
- **XdsCache** is the typed LRU cache with its token, its reverse index and its
  evict queue, and the builders that add to it. The clock is a counter.

**Streams**

- **XdsStream** is one stream: `ShouldRespond` branch by branch, `pushXds` with
  the clusters and routes that follow a listener, `pushConnection`, and a gRPC
  client. The client is external; it follows the server's comments and tests.
  A resource's content is the version it was generated at, a nonce a number.
- **DeltaStream** is the incremental protocol of `delta.go`: `shouldRespondDelta`,
  `pushDeltaXds`, which resources a change makes the generators rebuild, and the
  removals. The client is external.
- **StandardStream** is `Recv` and `Send` of `standard_ads.go` between its lock
  operations. Translating a message either works or ends the stream.
- **AdsClient** is `pkg/adsc`: the four handlers, what they subscribe to and
  acknowledge, and reconnection, against XdsStream's `ShouldRespond`.

**Registries**

- **EndpointIndex** is `endpointshards.go` for one hostname in several namespaces
  with the calls that update it. Looking up the shards object and filling it are
  two steps, as they are under two locks. Deleting a service drops the shards
  without a push, as `ServiceUpdate` does.
- **KubeRegistry** is the Kubernetes registry for one service: informers, its
  queue, endpoint slices, the pod cache with its two maps and the slices waiting
  for pods, port resolution and the first sync.
- **Registries** holds the service-entry registry, the aggregate over both and
  the pushes that read the index and the service accounts, and the instance TLC
  checks.

**Configuration**

- **ConfigStores** is the memory store, the Kubernetes store, the file store and
  the list over several stores and, as a second machine, the file and ConfigMap
  sources of the mesh configuration, their merge and their readers.
- **ConfigSnapshot** is `config_snapshot.go`: which indexes a new snapshot carries
  over for a request, services and aliases, policies, and the authentication
  modes of `authentication.go`.
- **Generators** is `grpcgen`: which listeners, routes and clusters are made for
  which names, how they refer to each other, TLS modes and authorization.
- **StatusReporting** is the status queue, its worker pool and the collections
  that feed it.
- **Gateways** is the deployment and class controller with the Telemetry settings
  of `pkg/config/telemetry` that go into what it renders and, as a second machine,
  the store of the gateway controller with its classes and reference grants.
- **Admission** is the validators of `pkg/config/validation` and the validating
  webhook with two writers and, as a second machine, the injection webhook and
  the reload of its files.
- **Installer** is the merge of values, profiles and flags of the operator, the
  rendering of its components, their installation in dependency order, pruning
  and removal.

**Libraries**

- **KrtHandlers** is the registration, sync and delivery of handlers of a krt
  collection; **KrtCollection** a derived collection with its dependencies and
  indexes and, as a second machine, a (nested) join.
- **ControllerQueue** is the rate-limited queue of `pkg/kube/controllers`, which
  Gateways, InherentWorkloads, CaDistribution and InformerClient use.
- **InformerClient** is the filtered clients over shared informers and the
  namespace filter and, as a second machine, the client of a CRD that may not
  exist yet. **WorkQueue** is `pkg/queue`: the work queue and, as a second machine,
  the delay queue. **FileWatcher** is `pkg/filewatcher` with the consumers of
  `pkg/kube/krt/files` and, as a second machine, a watched folder.

**Server and security**

- **ServerLifecycle** is `NewServer`, the components it starts, cache sync,
  readiness, serving and shutdown; **LeaderElection** electors that
  compete for one lease.
- **CertAuthority** is the self-signed or plugged-in CA of several replicas, its
  reload from files and dubbod's own certificate; **Certificates** templates,
  lifetimes and the verification of what is signed and, as a second machine,
  signing by a Kubernetes CertificateSigningRequest.
- **CaDistribution** is the three controllers that write the CA bundle (and, into
  namespaces, the CRL) into namespaces and webhook configurations, with calls that
  fail, are forbidden or are given up; **InherentWorkloads** the controller that
  gives managed Pods their Secrets; **SecretCache** the node agent's cache and its
  SDS streams.

**Compositions.** An **MC...** module puts several components side by side: the
variable `part` says which of them a behaviour is about, that one takes its steps
and the others stay as they are. A component whose properties are proved is
extended rather than instantiated, so that run and theorem name the same
definition. So one run checks several components, each on an instance of its own,
and a property of the run is the conjunction of what they promise. Components that
interact are composed inside their modules: Registries over KubeRegistry and
EndpointIndex, XdsStream's `ShouldRespond` under AdsClient, PushRequest's `Merge`
under the queue, the debounce loop and the contexts, ControllerQueue under four
controllers. **...Proofs** modules (and LeaderElection) hold the theorems.

## The runs

| run | what is in it | what it shows |
|---|---|---|
| `push` | PushQueue with 2 connections and 2 requests; PushDelivery, WorkQueue (both machines), KrtHandlers | the waiting queue is consistent and no update is lost; everything queued is delivered; the queue implements PushMailbox; a push reaches its stream; goroutines end; tasks are done |
| `debounce` | 3 updates, 2 producers, channel of 1, After 2, Max 3 | one push at a time and counters in step; no lost wake-up; readiness; delay bounded on both sides; every update is pushed |
| `push_contexts` | 1 client, 2 pushers, changes of both kinds, 1 ProxyUpdate | contexts never go back; a change reaches every client |
| `push_delivery` | a plain and a delta stream, semaphore of 1 | tokens, marks and goroutines agree, the limit holds, no leaked client |
| `streams` | StandardStream, XdsStream, DeltaStream, AdsClient | order and retention in the adapter; subscriptions are served, acknowledgements settle, no loop of pushes; the ADS client stays subscribed |
| `registries` | KubeRegistry, service entries, EndpointIndex with 2 registries | what the registries report is what the objects say; it reaches the clients; both computations of a target port agree |
| `infra` | XdsCache, KrtHandlers, KrtCollection (both machines), InformerClient (both), FileWatcher (both) | no stale entry, no leak in the index; handlers get every event in order; synced means done; derived collections are current; changes are noticed |
| `config` | ConfigSnapshot, ConfigStores (both), Generators, StatusReporting, Admission (both), Gateways (both), Installer | what is derived is what is stored; generated resources agree; no lost update; statuses are written for their generation; what is accepted is applied; what is asked for is deployed |
| `security` | LeaderElection, CertAuthority, Certificates (both), SecretCache, InherentWorkloads, CaDistribution, ServerLifecycle | one leader; what is issued verifies, and replicas sign with one CA; consumers get the newest credentials; the bundle is distributed; ready means pushed |
| `mesh_change`, `xds_stream_eds`, `registries_services` | | violations, below |

The properties of the composed runs, by component:

- `GoroutinesEnd`: PushDelivery `StreamEnds`, `SenderReturns`. `TasksDone`: WorkQueue
  `SyncedMeansProcessed`, `TasksServed`, `TimedTasksServed`; KrtHandlers `HandlersSync`.
- `StreamServed`: XdsStream `ServedWhenQuiet`, `EndpointsServedAtFirst`,
  `AckedWhenQuiet`, `RejectionFindsWatch`.
- `RegistriesReport`: KubeRegistry `EndpointsCurrent`, `SyncedMeansReported`;
  Registries `TargetsAgree`. `RegistriesSettle`: KubeRegistry `PodsFound`, Registries
  `EntriesReported`. `ReportsReachClients`: Registries `ClientsUpdated`,
  `AccountsPushed`.
- `HandlersServed`: KrtHandlers `EventsInOrder`, `SyncedAfterInitialState`.
  `SyncedMeansNoCrd`: InformerClient. `DerivedCurrent`: KrtCollection
  `EventsDescribeOutputs`, `DerivedCurrent`, `JoinConverges`. `ChangesNoticed`:
  InformerClient `ChangesNoticed`, FileWatcher `FilesNoticed`, `FolderFollowed`.
- `ConfigurationCurrent`: ConfigSnapshot `SnapshotCurrent`, `AliasesReachable`,
  `YoungerChangesNothing`; ConfigStores `MeshCurrent`, `ListComplete`,
  `NoLostUpdate`; Gateways `GrantsAsWritten`, `SyncedMeansServed`.
  `GeneratedConsistent`: Generators `ReferencesResolve`,
  `AuthorizationAsDocumented`, `EndsAgreeOnTls`. `StatusesWritten`:
  StatusReporting `OneWriter`, `TasksServed`, `StatusOfGeneration`.
  `AcceptedIsApplied`: Admission `AcceptedIsApplied`, `UpdatesAllowed`.
  `DeployedAsAsked`: Gateways `GatewayDeployed`, `ForeignKept`; Installer
  `InstalledExactly`, `DependenciesServed`, `FlagsApplied`; Admission
  `InjectedPodsServed`.
- `IssuedVerifies`: CertAuthority `PublishedVerifies`, `LoaderCurrent`,
  `ReplicasAgree`; Certificates `AnswersAccepted`, `RequestsSettled`.
  `CredentialsServed`: SecretCache `SecretsServed`; InherentWorkloads
  `CredentialsServed`, `ForeignCredentialsKept`.

**Why the bounds are enough.** Connections are independent of each other except
for the queue order, the semaphore and the client map; two of them show each
interaction. Two requests tell the merge arguments apart. In `debounce`, with
After 2 and Max 3, the timer can fire too early for quiet, be re-armed, and meet
the maximum; three updates keep a window open past it if the code let them, and
let a later update overtake one whose producer is blocked. One client and two
changes let a push be in each of its steps while a later one is built. A cache
of one entry over two keys makes every second insertion evict. In `streams` two
names give a second subscription that overlaps the first. Two electors and four
retry periods let a leader miss its deadline, a lease run out and the other
elector take over. Controllers are shown with one or two objects, one or two
failing calls and one restart, which is what it takes to fail between any two
of their steps and to be repeated; the sets of set-ups in the MC modules say
which combinations are tried. Counters that are unbounded in the code (updates,
contexts, nonces, versions, time) are bounded by the `Max...` constants, in the
guards of actions that begin something and never in those that carry it on.
`infra` and `streams` use symmetry: the keys and configurations of the xDS cache
and the two names of a stream are interchangeable in the actions and in the
properties, and these runs check no liveness.

**Deadlock** is not checked: each instance ends when its bounded environment has
nothing left to offer or the server has stopped. That goroutines do not wait for
each other for ever is stated as `GoroutinesEnd`, `TasksDone` and `NoLostWakeup`.

**Fairness** is assumed in `push`, `debounce` and `push_contexts`. It is weak
fairness for each goroutine that can go on: the debounce loop, pushers, sender,
stream loops, receivers, workers of queues. Go schedules runnable goroutines
eventually. That a push, once started, returns is an assumption: `Send` has no
timeout of its own, and a client that stops reading holds it until the transport's
keep-alive gives the stream up. Clients, the arrival of updates, disconnects and
the server's stop are not fair. Strong fairness twice, in PushDelivery: for the
`select` of the stream loop, which chooses uniformly among ready cases, so that a
case ready again and again is taken; and for a connection's turn in the queue,
which PushQueue's `EventuallyDelivered` justifies. The queue's own liveness rests
on weak fairness of Dequeue and MarkDone alone. In the other runs "once nothing is
left to do" stands in for "eventually": an invariant says what holds whenever no
step of the component itself is pending.

## What the violations show

- **A change of the mesh configuration is not pushed** (`mesh_change`). "When the
  mesh config or networks change, do a full push" says the comment on
  `initMeshHandlers`; the handler first calls the change handler it was given, and
  `NewServer` gives it nil. The call panics and the process ends before it asks for
  the push. What `MeshCurrent` says of the components and of the last push holds
  because the process is then started again and reads its sources anew.
- **Endpoints of an added cluster are not sent** (`xds_stream_eds`). The cluster
  response adds the new name to the endpoint watch; the client's request for it,
  under the current nonce, then looks like an acknowledgement. A client that
  subscribes once is served (`EndpointsServedAtFirst`).
- **A changed service is not pushed** (`registries_services`). The registry tells the
  aggregate's service handlers, and nothing ever registers one; `ServiceUpdate`
  only acts on deletions. The push context keeps the service as it was until
  something else asks for a full push, against "we do a full push on service
  add/update".

### Observations

Some passing properties carry a condition, and some properties are stated in a
module and not part of a run. In both cases TLC finds the behaviour described
here when the condition is dropped or the property is checked; none of these is
a run of its own.

*Pushes*

- A ProxyUpdate can bring back an old context: it reads the global context, a full
  push publishes and enqueues a newer one, then the update is enqueued. `Merge` takes
  the later argument's context, "presumed to be later and more up to date". The
  client keeps the old context until the next full push.
- `doSendPushes` returns on its stop channel and leaves what is queued: that
  everything queued is delivered (`EventuallyDelivered`) holds until the server stops.
- Left out of a push (`stale`): `initConnection` reads the global context, then
  authorizes, then registers. A full push that publishes and lists the clients in
  between does not reach the connection, which serves the old context until the
  next full push.
- Readiness (`overtaken`, `enableEDSDebounce`): `pushContextReady` compares two
  counters. When a producer counts its update and another sends first, or
  endpoint updates are not debounced, later updates make up the number while one
  counted before the caches were synced is not pushed. ServerLifecycle's
  `ReadyMeansPushed` therefore speaks of the number of updates, and of the push context.
- Older after newer (`enableEDSDebounce` in `NeverBackwards`): with endpoint updates
  pushed beside a full push, a client may see a new context in an endpoint push
  and then have a request answered from the old one.

*Streams*

- A client that gives up listeners (`shrunk`) may afterwards not be served what it
  takes again, and a late rejection may find its watch deleted, where
  `ShouldRespond` dereferences it.
- A delta request with an expired nonce is dropped, and with it the names it
  subscribes to or gives up (`dropped`): an acknowledgement that carries a
  subscription and crosses the next response of its type is one. The answer to a
  second subscription of clusters or routes replaces the names of the watch by its
  own, so what was subscribed to before is no longer pushed (`again`). `SentNamesKept`:
  a route that the server added to the watch is not rebuilt by later policy pushes
  in every order.
- `ReconnectAnswered`: the ADS client's first request after a reconnect carries the
  old nonce. It also acknowledges routes with the names of the response, and its
  `HasSynced` is always true.

*Registries*

- Endpoints stored in an orphaned object (`SerialDeletes`):
  `UpdateServiceEndpoints` finds the shards object, another registry deletes the
  service and with it the object, and the endpoints go where nobody looks.
- A service that is deleted and created again has an empty shard until the next
  event of one of its slices. A Pod that changes its address or becomes ready
  without an event of its slice leaves the old endpoint in place.

*Libraries*

- `SyncedExactlyOnce`: `countingTracker.Finished` closes the channel and does not
  record it, so a later notification closes it again. The goroutine that waits for
  the collection to sync may overtake the initial events of a handler registered
  before (`OvertakenAtStart`): it then reports its sync without them. A handler
  added to a delayed client while its informer is set is lost.
- krt: a fetch of mixed keys can miss a changed input, a discarded result does not
  record its new dependencies, the status of a deleted input can come back, a
  merged join may reorder events or report Update for Add to a late handler, and a
  nested join drops undelivered events of a collection that goes and can block.
- The delay queue's loop can sleep past a task whose pusher found the channel full
  (`behind`): it is put on the heap after the loop looked, without heap order.
- The file watcher files a worker under the cleaned directory and looks it up
  under the directory with its slash, which are the same for the root directory
  only. For a file anywhere else `Events` finds no worker, so a change is never
  handed over, the worker waits in that hand-over until the file is removed, and
  the consumer keeps what it read first (`nested`). It also drops an event when
  another tracker is retired while it is sent, and marks a file as watched before
  `Add` succeeded. `TombstonesHandled`: the namespace filter asserts the type of a
  deleted object and panics on a `DeletionFinalStateUnknown`; it may also send a
  second Add.

*Configuration*

- The service index is stale when a service is silently replaced and their number
  stays the same. A policy with selectors does not apply where labels are nil, and
  a namespace policy that is UNSET hides the selector modes of the root. A
  port-level mode is looked up by target port on the server's side and by service
  port on the client's.
- The memory store's `Patch` overwrites, an `Update` without a version does too,
  and its `Delete` ignores the version (`replaced`); its controller without a
  monitor panics on a write. `InvalidIgnored`: of two mesh sources, one that fails
  halfway leaves behind what was applied before the error. Consumers of the mesh
  configuration read it before they register their handler.
- `EmptyValidate`: AuthorizationPolicy, CircuitBreakerPolicy, PeerAuthentication and
  RequestAuthentication have validators that only tests call; the webhook lets every
  resource of these kinds in, and `AcceptedIsApplied` promises nothing of them.
- `MeshlevelUnique`: two mesh-level Telemetry resources are admitted while the
  store is behind. `EntriesRoutable`: a wildcard address passes validation.
  `ConfigFollowed`: nobody registers a handler with the file watcher of the
  injection webhook, so changed files do not reach it.
- `AcceptedIsOurs`: a Gateway of a class the controller does not manage may be
  reported as accepted and programmed. Children have no owner references; Role,
  RoleBinding and PodDisruptionBudget are applied by force and not watched.
- `StatusReported`: a status that a crossing event overtakes is not written again,
  nor is one whose write failed, though the log says "will try again later". A
  status worker that finds every queued task in the hands of others ends without
  giving its place back (`Leaked`); once all places are lost the queue stops, hence
  the condition in `TasksServed`.
- A `--set` flag with a null value is not applied; `GetPath` with a `[k:v]` step
  returns the first element.

*Security and start*

- `AnswersVerify`: a certificate is signed before and its roots are read after a
  change of the CA. `DefaultWithinCA`: the default lifetime is bounded by the
  chain when the CA starts, and not when it signs. `preSign` discards its default
  lifetime; `readSignedCsr` does not expect a closed watch; an error of the
  deletion of a CSR is logged and not returned (`left`), against the comment at
  `utils.go:111`; an RA with a root of its own does not verify what it is given; a
  failed rotation publishes a new key with the old certificate; the reload ignores
  a change of only the signing certificate or key, and a change between the
  loader's read and `AddWatcher`. The watcher of a plugged-in CA's files starts
  before `s.CA` is set, and a change of the files in between ends the process
  (`handleEvent` reads through nil). The self-signed root rotator does nothing.
- `RootsServed`: a root generated while no workload certificate is cached is
  served without anchors and is not sent again. Push goroutines of a closed SDS
  stream leak, and the output directory may be overwritten by an older
  certificate.
- A key of the inherent controller is given up after its last attempt, with its
  rotation, and a replacement Pod of the same name with it. A mutating webhook
  whose write fails is not patched again, and a bundle set before `AddWatcher` is
  not announced. A ConfigMap that dubbod is forbidden to create is skipped, and a
  namespace is dropped after its last attempt (`gaveUp`): it has the bundle after
  the next event only.
- A leader whose `OnStartedLeading` goroutine is delayed past its cycle starts its
  functions under a cancelled context; LeaderElection lets no time pass while it
  is pending. A leader that releases its lease ends its functions afterwards, when
  another elector may lead already: leaderships never overlap, functions may.
- `ConfigPushed`: the handlers of the config store are registered after the caches
  have synced, and a change in between is not pushed. Without a Kubernetes client the
  server is never ready; `none` and `kubernetes` as certificate providers make
  `NewServer` fail; the process ends right after the signal.

Three more come from reading the code, and no property here states them: a push
between a cluster response and the client's endpoint request sends endpoints
before they are asked for, which the comment at `xdsgen.go:400` wants to avoid; a
request with a nonce for a type without a watch is not answered, against the
comment at `pkg/xds/server.go:314`; and the cache is written but never read, as
the endpoint generator treats every service as updated.

## What is proved

TLAPS checks the theorems for every set of connections, producers, requests,
types, keys, configurations, electors, registries, resources, handlers and (finitely
many) names, pods and slices, and for every bound. The assumptions are
the named `ASSUME`s of the modules: constants have their types, `nil` is not one of
the values it stands beside, and the requests and updates offered are well typed.

**QueueProofs** holds the proofs of two modules.

*PushQueue.* `TypeCorrect`, `Consistency` (the waiting sequence is without
repetition and holds exactly the connections with a pending request, none of
which is being pushed), `SinglePush`, `Conservation` (no accepted update is lost)
and `Refinement` (the queue implements the mailboxes). The inductive invariant
conjoins the four safety properties: that Dequeue finds a request for the head of
the queue is consistency, and that MarkDone may put its connection back without
a duplicate is `OnePushPerConnection` with the disjointness in consistency. The
refinement maps initial states to initial states and each action to a mailbox
step or a stutter, under that invariant.

*KrtHandlers.* `HandlersHold`: `HandlersServed`, for any handlers and any number of
events. The inductive invariant follows a registration through its phases. Until
the initial state is sent, nothing was seen, no notification carries an event and
the object is still the one that was read, since the collection cannot publish
meanwhile (`NotSent`). From then on the events seen count up from the first one, and
the notifications carry exactly those from the next one to the object's version,
each once and ascending, with silent notifications anywhere between them
(`Follows`); the lemmas on `Carried` say what appending and taking a notification do
to it. For the sync, `StartsSynced` says that a handler that started on a synced
collection with an object has, until it saw something, an untouched tracker and no
waiting goroutine, and the initial event at the head of its notifications; that no
goroutine waits is what keeps another notification from getting in front of it. The
double close of `Observations` does not matter here: what was seen is as it was.

**XdsProofs** holds the proofs of three modules.

*StandardStream.* `StreamTypes`, `WritersExclude`, `NeverOvertaken` (what is
sent of a type is never older than what was sent before), `NewestKept`,
`WatchersCurrent` and `PrefetchHeldBack`. The invariant is strengthened by three
facts: nothing waits for a type that is watched, being drained or being written
(`NothingWaits`); what waits or is drained is not older than what was written, nor
newer than what was made (`Ordered`); and a type being drained or written was
asked for (`Subscribed`). The writer lock is what makes the first two inductive.

*XdsCache.* `CacheTypes`, `ClearFindsEntries` (each entry is indexed under
every configuration it depends on), `IndexDoesNotLeak` and `CacheIsFresh` (no entry
was built before the last clear of something it depends on). The strengthening,
`BuildsFresh`, says that a build under way whose start is not before the token
has seen the current configuration; with it, the token test of `Add` is enough.

*PushDelivery.* `AccountsHold`: tokens held are the pushes under way plus those
being handed over or released; the queue's marks are the pushes under way; there
is one goroutine per push; at most `PushLimit` (DUBBO_PUSH_THROTTLE) run; and a
client stays in the map no longer than its stream. The invariant `Counted` ties the
place of the sender, of each stream loop and of each receiver to the sets; the
proof goes through every step of the three goroutines of a stream.

**DebounceProofs.** `Typing`, `WakeupKept`, `DelaysHold`, `CountsHold` and
`ReadyHolds`. The invariant has layers, each proved from the ones before. `Looks` is
what the loop knows: there is a request exactly when events are counted, a window
that is open has an armed timer or a running push, one push runs at a time, and
while the loop reacts at once the timer of a window that could be pushed goes off
less than DebounceAfter after debounceMax (`Prompt`). From it follow the wake-up
and both bounds of the delay. `Accounted` says where each
update is: with its producer, in the channel, in the window, in a push or
committed, each in one place, so that the two counters differ by what is between
them. It rests on the cardinality of those sets. `InOrder` holds while no producer
has overtaken another and endpoint updates are debounced: updates are numbered
in the order they were counted, every place holds an interval of the numbers, and
the intervals follow each other. Then the committed ones are the first ones, and
with `Waited` (a ready server has committed as many as it expected) the comparison
of `pushContextReady` means what it is used for.

**PushContextsProofs.** `QuietIsUpToDate`: once nothing is left to do, every served
client that is not `stale` answers from the published context, and that was built
from the configuration as it is. `Orderly` says that contexts are numbered in the
order they are built, requests carry contexts that exist, and the newest was built
from the store unless a change waits. `Caught` says that every live client either
has the published context, or a request with it on its way, or is still to be
enqueued by the push that published it; this is where the order of publish, list
and register matters. `ContextsAscend` (`NeverBackwards`) needs `Ascending`: with
debounced endpoint updates one goroutine makes the pushes, and what a client has,
what is under way and what is owed to it ascend in that order.

**LeaderElection** (theorem and proof are in the module itself). `LeaderUnique`:
no two electors lead at the same time; a leader whose callback has run has its
functions running; and functions start with a leadership and are over before the
next cycle of their elector. (They may go on for a moment after a release, beside
the next leader's.) The lock names one holder, so it is enough that a leader is
the holder it names (`LeaderHolds`). Another elector would have to write the lock:
`Observed` says that it can do so only with the version it has read, and knows the
holder then; and `LeaseOutlasts` that the lease it waits for from that read ends
after the time by which a leader that cannot renew has given up, which is where
the durations of `create` come in (`RetryPeriod`, `RenewDeadline` and
`LeaseDuration` as 1, 2 and 4). `Callbacks` does the same for the goroutine of
`OnStartedLeading`. The proof is about clocks that advance together and processes
that do not stop for a retry period; the lease excludes two leaders only then.

**CaDistributionProofs.** `BundlesArrive` (`BundleDistributed`): when nothing is
left to do, every namespace, or every webhook configuration of the revision, holds
the current CA bundle (or CRL), unless the API server refused the last write to it
for good: a create that is forbidden, or the last of `maxRetries` attempts
(`gaveUp`). The invariant is one of debts. `Owed` says that an object which should
carry the bundle and does not has something on its way that brings its key back to
the reconciler: the watcher's token, an event of an informer, a mark in the queue,
a backoff, or the worker that holds the key. It rests on three facts.
`QueueKeeps`: a marked key waits in the queue's sequence or is with the worker,
who puts it back. `CacheFollows`: a name without a pending event is in the cache
as the API server has it, but for the bundle a mutating configuration was given in
the cache and which is being written. `Overtaken`: a write that will meet a
conflict has an event behind it, so that a conflict that is forgiven is not the
end. The hypothesis `Configured` types the constants, and lets no call of the
mutating patcher fail: such a call is not made again (see the list above), so the
property does not hold there. MCSecurity assumes `Configured` of its instance, and
TLC evaluates it. The property speaks of bundles set after `AddWatcher`.

**RegistriesProofs.** Three invariants over the composition of the registries, the
endpoint index and the pushes, each kept by every action of `Next`.

- `ReportsReach` (`ReportsReachClients`) and `AccountsReach`. `Shards`: outside of
  `UpdateServiceEndpoints` the shard of a registry is what it reported last, and
  inside it the registry works on the object the index still has. `Delivered`:
  without a pending push the clients have the usable endpoints of the index.
  `Accounted`, `ContextAccounted` and `SentAccounted` say the same of the service
  accounts, object, push context and clients in turn, so that no endpoint is sent
  before its account. `ReportsReach` assumes `SerialDeletes`, without which the
  index loses endpoints (see the list above); `AccountsReach` does not.
- `EntriesReach`: the service entry registry has reported what its entries say.
  `EntriesRead`: what a reconcile has read is current unless a handler is due;
  `EntriesSettle`: what it is to report and has not is among its calls, in an order in
  which the last call for a namespace counts.
- `PodsReach`: `MapsInverse` relates the two maps of the pod cache, and `PodsAwaited`
  says that a pod of the informer's store is in the cache unless an event about it
  waits with the informer or in the queue, the last of which is not a deletion.

`RegistriesSettled` (`RegistriesSettle`) is the last two together. They start from
the assumptions that {`kube`, `external`} are two of the registries, that the objects
at the start are well typed, and that there are finitely many pods and slices.

**ServerProofs.** `ReadinessHolds` (`ReadyMeansPushed`): a server that says it is
ready has every cache synced, has committed as many updates as it had accepted
when they were, and has a push context if a Kubernetes config store asked for the
first push. `CountersInv` says where every accepted update is: committed, in the
running push, in the debounced request or on its way to it. `ContextInv` says that
the first full push stays in the debounced request until a push takes it and
leaves a push context; `SyncedInv` that the synced caches are those the arguments
ask for; `PhaseInv` what `Server.Start` has waited for in each phase. The
comparison of the two counters is enough because the updates that were expected
are not more than those committed whenever a later phase is entered, and committed
ones are never taken back. Which updates they are it does not say (see *Pushes*
above).

`StatusesHold` (`StatusesWritten`), with an invariant in two halves. `PoolInv`:
the order of the queue names each resource of its cache once; `currentlyWorking`
is exactly what the workers are at, no two at the same; `workerCount` counts the
workers alive and those that left without giving their place back; and a queued
task has a worker to come, or a Push that has not called `maybeAddWorker` yet.
`GenerationsInv` follows a generation from the object to the write. The
collection's element carries at most the object's generation; events of a resource
carry ascending generations up to the element's; the queue keeps the generation of
the first of several merged requests and the status of the last, so its status is
of the generation it is queued with or a later one; so is what a worker holds. A
copy of the object that has the object's version has its generation (`Older`).
Then a write that the API server takes, with the version that was read and the
generation that was compared, has a status of exactly that generation: it cannot
be older because of the queue, nor newer because of the object. Finitely many
resources are assumed.

**Only model-checked.** All liveness properties, since fairness and ENABLED are
outside what the prover handles: `EventuallyDelivered`, `PushReachesStream`,
`GoroutinesEnd`, `TasksDone`, `EventuallyPushed`, `EventuallyUpToDate`.
`RegistriesReport`: the endpoints the Kubernetes registry reports are named by
their addresses, which two pods may share while one is going, so what holds
between the arrival of slices and pods depends on the histories the instance's
clusters go through. `StreamServed`, `NoPushLoop`, `DeltaServed` and
`EndpointsSubscribed` speak of a server and a client that is external, and compare
nonces and names over a whole exchange. `SyncedMeansNoCrd`, `DerivedCurrent`,
`ChangesNoticed`, `ConfigurationCurrent`, `GeneratedConsistent`,
`AcceptedIsApplied`, `DeployedAsAsked`, `IssuedVerifies` and `CredentialsServed`
are groups over several components, and most of them compare a state with what a
recursive definition or a fold computes from the stored objects (Generators,
ConfigSnapshot, Admission, Installer, KrtCollection): induction over data and
RECURSIVE operators are outside what the prover handles too. ConfigStores and
Installer declare RECURSIVE operators; no theorem module reaches one. The
inductive invariants of the proofs were checked with TLC on small instances before
they were proved.

## What is not modelled

Protobuf details, wording, logging, metrics and debug handlers; the translation
of messages field by field; cryptography, which is a relation between keys and
certificates; authentication of callers; templates and charts, which are what
they depend on; the rate limit on new streams, which delays or refuses a stream
before the part modelled here begins. `dubboctl` is sequential I/O, the schemas are
generated tables, and the support libraries have no behaviour a property here
depends on. Components that are modelled in part are listed in `PROJECT.json` with
what is left out. Two hazards are recorded without a property: clock readings
that coincide, and the cache being dropped before the new context is published.

`map` leaves out the actions of the environment (an object is changed, a clock
advances) and helpers whose lines lie within those of the definition that uses
them.
