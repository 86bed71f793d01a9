-------------------------- MODULE ServerLifecycle --------------------------
(* The life of a dubbod process (bootstrap/server.go, server/instance.go).

   NewServer decides from its arguments which components exist and queues a
   start function for each; Start runs them in order, waits until the caches
   of the controllers are synced and the push context has caught up with the
   updates counted until then, declares the server ready, registers the
   config event handlers and serves until the stop channel is closed.

   The discovery server is reduced to what the start-up depends on: the
   counters of accepted and pushed updates, the debounced request and the
   version of the configuration in the last push context.  Configuration is a
   counter of changes of one kind that needs a full push: `store` is the API
   server's, `configCache` the config controller's copy.  *)
EXTENDS Naturals, Sequences, FiniteSets

CONSTANTS Args,        \* the arguments NewServer is called with
          MaxConfig,   \* changes of the configuration
          MaxMesh,     \* changes of the mesh configuration
          MaxReports,  \* reports of endpoints by the Kubernetes registry
          unset

\* What ConfigUpdate is told of: a forced push, changed endpoints, the first
\* endpoints of a service, a changed kind of configuration; all but changed
\* endpoints are full.  A debounced request is the union of n of them.
Updates == {"all", "endpoints", "service", "kind"}
Full == Updates \ {"endpoints"}
Requests == [what : SUBSET Updates, n : Nat \ {0}]

\* Neither a version nor a request is mistaken for a missing one.
ASSUME LifecycleAssumption == unset \notin Nat /\ unset \notin Requests

VARIABLES args,
          phase,       \* where the main goroutine is
          comps,       \* instance.components
          started,     \* components whose start function has returned
          required,    \* components counted in requiredTerminations
          stopping,    \* the stop channel is closed
          done,        \* instance.done is closed
          syncedCaches,  \* caches whose HasSynced is true
          store, configCache, snapshot,
          pushChannel, \* updates counted by ConfigUpdate that the debounce loop has not received
          req,         \* the debounced request: kinds of update and their number
          pushing,     \* updates of the push that is running
          inbound, committed, expected,
          reports,     \* reports of the registry
          serverReady, handlers, status,
          mesh, meshHandled,
          draining     \* the shutdown goroutine

startVars == <<args, phase, comps, started, required, stopping, done>>
pushVars  == <<snapshot, pushChannel, req, pushing, inbound, committed>>
configVars == <<store, configCache, handlers>>
restVars  == <<syncedCaches, reports, expected, serverReady, status, mesh, meshHandled, draining>>
lifecycleVars == <<startVars, pushVars, configVars, restVars>>

--------------------------------------------------------------------------
(* What NewServer builds. *)

\* A client is needed by a Kubernetes config store or a Kubernetes registry.
initKubeClient(s) == (~s.fileDir /\ s.kubeConfig) \/ s.kubeRegistry

HasCA(s) == s.caServer /\ ~s.k8sSigner

shouldStartNsController(s) ==
  \/ s.caServer /\ s.k8sSigner
  \/ HasCA(s) /\ s.certProvider # "none"

\* initDubbodCerts: unusable custom files are logged and leave the server
\* without a certificate; a provider that publishes none fails the loader.
initDubbodCerts(s) ==
  CASE s.tlsFiles = "unusable" -> "no certificate"
    [] s.tlsFiles = "usable" -> "loaded"
    [] OTHER -> IF (s.caServer /\ s.certProvider = "dubbod") \/ s.certProvider = "signer"
                THEN "loaded" ELSE "error"

\* createPeerCertVerifier: without certificates and a CA there is no TLS.
createPeerCertVerifier(s) == s.tlsFiles # "absent" \/ HasCA(s) \/ (s.caServer /\ s.k8sSigner)

When(c, name) == IF c THEN <<name>> ELSE <<>>

initK8SConfigStore(s) ==
  LET gateway == initKubeClient(s) /\ ~s.fileDir /\ s.gatewayAPI
  IN When(gateway, "status manager")
       \o When(gateway /\ s.legacyLeader, "gateway status activation")
       \o When(gateway, "gateway status")
       \o When(gateway, "gateway deployment controller")

initServiceControllers(s) ==
  When(s.kubeRegistry /\ shouldStartNsController(s), "namespace controller")
    \o <<"service controllers">>

\* initInjector adds nothing where no injection template is found.
initInjector(s) ==
  IF initKubeClient(s) /\ s.template THEN <<"injection patcher", "injection server">> ELSE <<>>

\* The start functions in the order NewServer adds them.
NewServer(s) ==
  initK8SConfigStore(s) \o <<"config controller">> \o initServiceControllers(s)
    \o When(initKubeClient(s), "inherent workloads")
    \o <<"monitoring">>
    \o When(initDubbodCerts(s) = "loaded", "reload certs")
    \o When(s.secureAddr /\ createPeerCertVerifier(s), "secure gRPC")
    \o initInjector(s)
    \o When(initKubeClient(s), "validation controller")
    \o <<"xds server">>
    \o When(s.caServer, "ca")
    \o When(initKubeClient(s), "kube client")

\* RunComponentAsyncAndWait: these run until their task returns.
Terminating == {"gateway status activation", "gateway status",
                "gateway deployment controller", "namespace controller"}

Caches == {"services", "config"} \cup (IF initKubeClient(args) THEN {"inherent"} ELSE {})

LifecycleInit ==
  /\ args \in Args
  /\ phase = "new" /\ comps = <<>> /\ started = {} /\ required = {}
  /\ stopping = FALSE /\ done = FALSE
  /\ syncedCaches = {}
  /\ store = 0 /\ configCache = unset /\ snapshot = unset
  /\ pushChannel = [u \in Updates |-> 0] /\ reports = 0
  /\ req = unset /\ pushing = 0 /\ inbound = 0 /\ committed = 0 /\ expected = 0
  /\ serverReady = FALSE /\ handlers = FALSE /\ status = "waiting"
  /\ mesh = 0 /\ meshHandled = 0
  /\ draining = "no"

ProcessUp == phase \notin {"new", "failed", "crashed", "exited"}

\* DiscoveryServer.ConfigUpdate counts the update and then sends it to the
\* debounce loop: until the loop receives it, another goroutine's update that
\* was counted later may overtake it.
ConfigUpdate(what) ==
  /\ inbound' = inbound + 1
  /\ pushChannel' = [pushChannel EXCEPT ![what] = @ + 1]

Merged(what) ==
  IF req = unset THEN [what |-> {what}, n |-> 1]
  ELSE [what |-> req.what \cup {what}, n |-> req.n + 1]

\* NewServer returns an error, or a server with its start functions queued; a
\* Kubernetes config store asks for a first forced full push.  No other
\* goroutine runs yet: that update is the first the debounce loop receives.
Create ==
  /\ phase = "new"
  /\ IF initDubbodCerts(args) = "error"
     THEN phase' = "failed" /\ UNCHANGED <<comps, inbound, req>>
     ELSE /\ phase' = "starting"
          /\ comps' = NewServer(args)
          /\ IF initKubeClient(args) /\ ~args.fileDir
             THEN inbound' = inbound + 1 /\ req' = Merged("all")
             ELSE UNCHANGED <<inbound, req>>
  /\ UNCHANGED <<args, started, required, stopping, done, snapshot, pushChannel, pushing, committed,
                 configVars, restVars>>

\* One turn of the start-up loop.
RunComponent ==
  /\ phase = "starting" /\ comps # <<>>
  /\ Head(comps) # "kube client"
  /\ comps' = Tail(comps)
  /\ started' = started \cup {Head(comps)}
  /\ required' = required \cup ({Head(comps)} \cap Terminating)
  /\ UNCHANGED <<args, phase, stopping, done, pushVars, configVars, restVars>>

\* "kube client" starts the informers and returns once their stores are
\* filled; the controllers may still have the objects to process.
RunAndWait ==
  /\ phase = "starting" /\ comps # <<>> /\ Head(comps) = "kube client"
  /\ IF "kube client" \in started
     THEN comps' = Tail(comps) /\ UNCHANGED started
     ELSE started' = started \cup {"kube client"} /\ UNCHANGED comps
  /\ UNCHANGED <<args, phase, required, stopping, done, pushVars, configVars, restVars>>

\* The monitoring port is taken: the start function fails, done is closed and
\* the process exits.
MonitoringFails ==
  /\ phase = "starting" /\ comps # <<>> /\ Head(comps) = "monitoring"
  /\ phase' = "failed" /\ done' = TRUE
  /\ UNCHANGED <<args, comps, started, required, stopping, pushVars, configVars, restVars>>

StartupDone ==
  /\ phase = "starting" /\ comps = <<>>
  /\ phase' = "syncing"
  /\ UNCHANGED <<args, comps, started, required, stopping, done, pushVars, configVars, restVars>>

\* A cache syncs once its controller runs and, for objects of the API server,
\* the informers do.
SyncCache(c) ==
  /\ ProcessUp /\ c \in Caches \ syncedCaches
  /\ CASE c = "services" -> "service controllers" \in started
       [] c = "config"   -> "config controller" \in started
       [] OTHER          -> "inherent workloads" \in started
  /\ initKubeClient(args) => "kube client" \in started
  /\ syncedCaches' = syncedCaches \cup {c}
  /\ configCache' = IF c = "config" THEN store ELSE configCache
  /\ UNCHANGED <<startVars, pushVars, store, handlers, reports, expected, serverReady, status, mesh,
                 meshHandled, draining>>

\* The Kubernetes registry handles an EndpointSlice and reports the endpoints,
\* before its cache counts as synced or after.
EDSUpdate(what) ==
  /\ ProcessUp /\ args.kubeRegistry /\ reports < MaxReports
  /\ {"service controllers", "kube client"} \subseteq started
  /\ reports' = reports + 1
  /\ ConfigUpdate(what)
  /\ UNCHANGED <<startVars, snapshot, req, pushing, committed, configVars, syncedCaches,
                 expected, serverReady, status, mesh, meshHandled, draining>>

cachesSynced == syncedCaches = Caches

pushContextReady == committed >= expected

--------------------------------------------------------------------------
(* The main goroutine after start-up: Server.Start. *)

\* waitForCacheSync, first half: the caches, then the updates to wait for.
CountInbound ==
  /\ phase = "syncing" /\ cachesSynced
  /\ phase' = "pushing" /\ expected' = inbound
  /\ UNCHANGED <<args, comps, started, required, stopping, done, pushVars, configVars, syncedCaches, reports,
                 serverReady, status, mesh, meshHandled, draining>>

MarkReadyAtOnce ==
  /\ phase = "pushing"
  /\ phase' = "ready" /\ serverReady' = TRUE
  /\ UNCHANGED <<args, comps, started, required, stopping, done, pushVars, configVars, syncedCaches, reports,
                 expected, status, mesh, meshHandled, draining>>

\* Second half: the push context, then CachesSynced.
MarkReady ==
  /\ phase = "pushing" /\ pushContextReady
  /\ phase' = "ready" /\ serverReady' = TRUE
  /\ UNCHANGED <<args, comps, started, required, stopping, done, pushVars, configVars, syncedCaches, reports,
                 expected, status, mesh, meshHandled, draining>>

\* The handlers are registered without the existing objects being replayed.
initRegistryEventHandlers ==
  /\ phase = "ready"
  /\ phase' = "listening" /\ handlers' = TRUE
  /\ UNCHANGED <<args, comps, started, required, stopping, done, pushVars, store, configCache, restVars>>

\* The listeners are opened; a listener that cannot be opened ends Start.
Serve(opened) ==
  /\ phase = "listening"
  /\ phase' = IF opened THEN "serving" ELSE "failed"
  /\ UNCHANGED <<args, comps, started, required, stopping, done, pushVars, configVars, restVars>>

\* The command waits for a signal, closes stop and returns without waiting.
WaitSignal ==
  /\ phase = "serving" /\ ~stopping
  /\ stopping' = TRUE /\ draining' = "graceful"
  /\ UNCHANGED <<args, phase, comps, started, required, done, pushVars, configVars, syncedCaches, reports,
                 expected, serverReady, status, mesh, meshHandled>>

\* A terminating component notices stop and its task returns.
Terminate(c) ==
  /\ ProcessUp /\ stopping /\ c \in required
  /\ required' = required \ {c}
  /\ UNCHANGED <<args, phase, comps, started, stopping, done, pushVars, configVars, restVars>>

\* The loop after start-up: stop, requiredTerminations.Wait, close(done).
CloseDone ==
  /\ ProcessUp /\ stopping /\ ~done /\ required = {}
  /\ done' = TRUE
  /\ UNCHANGED <<args, phase, comps, started, required, stopping, pushVars, configVars, restVars>>

\* waitForShutdown: GracefulStop or, when the timer fires first, Stop; then
\* the HTTPS server and the push queue.
Drain ==
  /\ ProcessUp /\ stopping /\ draining # "drained"
  /\ \/ draining = "graceful" /\ draining' \in {"https", "forced"}
     \/ draining = "forced" /\ draining' = "https"
     \/ draining = "https" /\ draining' = "drained"
  /\ UNCHANGED <<startVars, pushVars, configVars, syncedCaches, reports, expected, serverReady, status, mesh,
                 meshHandled>>

Exit ==
  /\ phase = "serving" /\ stopping
  /\ phase' = "exited"
  /\ UNCHANGED <<args, comps, started, required, stopping, done, pushVars, configVars, restVars>>

--------------------------------------------------------------------------
(* Updates. *)

\* A change at the API server or in the watched folder.
ChangeConfig ==
  /\ ProcessUp /\ store < MaxConfig
  /\ store' = store + 1
  /\ UNCHANGED <<startVars, pushVars, configCache, handlers, restVars>>

\* The informer stores the change and calls the handlers there are.
DeliverConfig ==
  /\ ProcessUp /\ "config" \in syncedCaches /\ configCache # store
  /\ configCache' = store
  /\ IF handlers THEN ConfigUpdate("kind") ELSE UNCHANGED <<inbound, pushChannel>>
  /\ UNCHANGED <<startVars, snapshot, req, pushing, committed, store, handlers, restVars>>

\* The status writer of the gateway leader: it waits for the activation and
\* asks for a full push.
StatusWriter ==
  /\ ProcessUp /\ status = "waiting" /\ args.leader
  /\ "gateway status" \in required
  /\ "kube client" \in started
  /\ "gateway status activation" \notin required
  /\ status' = "writing"
  /\ ConfigUpdate("all")
  /\ UNCHANGED <<startVars, snapshot, req, pushing, committed, configVars, syncedCaches, reports,
                 expected, serverReady, mesh, meshHandled, draining>>

\* The earlier election is won and its run function closes the channel.
Activate ==
  /\ ProcessUp /\ "gateway status activation" \in required /\ args.leader
  /\ required' = required \ {"gateway status activation"}
  /\ UNCHANGED <<args, phase, comps, started, stopping, done, pushVars, configVars, restVars>>

\* The debounce loop receives an update and merges it (changed endpoints too:
\* enableEDSDebounce is on unless DUBBO_ENABLE_EDS_DEBOUNCE says otherwise).
Receive(what) ==
  /\ ProcessUp /\ "xds server" \in started /\ pushChannel[what] > 0
  /\ pushChannel' = [pushChannel EXCEPT ![what] = @ - 1]
  /\ req' = Merged(what)
  /\ UNCHANGED <<startVars, snapshot, pushing, inbound, committed, configVars, restVars>>

\* The debounce loop starts a push.  A full one sets a new push context; its
\* configuration is read from the config controller for a forced request, for
\* the first context and for a changed kind.
StartPush ==
  /\ ProcessUp /\ "xds server" \in started /\ req # unset /\ pushing = 0
  /\ pushing' = req.n /\ req' = unset
  /\ snapshot' = IF req.what \cap {"all", "kind"} # {} \/ (snapshot = unset /\ req.what \cap Full # {})
                 THEN (IF configCache = unset THEN 0 ELSE configCache) ELSE snapshot
  /\ UNCHANGED <<startVars, pushChannel, inbound, committed, configVars, restVars>>

FinishPush ==
  /\ ProcessUp /\ pushing > 0
  /\ committed' = committed + pushing /\ pushing' = 0
  /\ UNCHANGED <<startVars, snapshot, pushChannel, req, inbound, configVars, restVars>>

\* The mesh configuration changes.
ChangeMesh ==
  /\ ProcessUp /\ mesh < MaxMesh
  /\ mesh' = mesh + 1
  /\ UNCHANGED <<startVars, pushVars, configVars, syncedCaches, reports, expected, serverReady, status,
                 meshHandled, draining>>

\* The handler of initMeshHandlers calls changeHandler before it asks for the
\* push; NewServer passes nil for it and the call panics.
HandleMesh ==
  /\ ProcessUp /\ meshHandled # mesh
  /\ meshHandled' = mesh
  /\ phase' = "crashed"
  /\ UNCHANGED <<args, comps, started, required, stopping, done, pushVars, configVars, syncedCaches, reports,
                 expected, serverReady, status, mesh, draining>>

LifecycleNext ==
  \/ Create \/ RunComponent \/ RunAndWait \/ MonitoringFails \/ StartupDone
  \/ \E c \in {"services", "config", "inherent"} : SyncCache(c)
  \/ EDSUpdate("endpoints") \/ EDSUpdate("service")
  \/ CountInbound \/ MarkReady \/ initRegistryEventHandlers
  \/ Serve(TRUE) \/ Serve(FALSE)
  \/ WaitSignal \/ \E c \in Terminating : Terminate(c)
  \/ CloseDone \/ Drain \/ Exit
  \/ ChangeConfig \/ DeliverConfig \/ StatusWriter \/ Activate
  \/ (\E u \in Updates : Receive(u)) \/ StartPush \/ FinishPush \/ ChangeMesh \/ HandleMesh

LifecycleSpec == LifecycleInit /\ [][LifecycleNext]_lifecycleVars

--------------------------------------------------------------------------
\* dubbodReadyHandler: every probe of initReadinessProbes answers true.
Ready ==
  /\ ProcessUp /\ "monitoring" \in started
  /\ serverReady
  /\ initKubeClient(args) => "inherent" \in syncedCaches
  /\ initKubeClient(args)  \* InjectorReady and configValidationReady

LifecycleTypeOK ==
  /\ phase \in {"new", "starting", "syncing", "pushing", "ready", "listening", "serving",
                "failed", "crashed", "exited"}
  /\ snapshot \in Nat \cup {unset} /\ configCache \in Nat \cup {unset}
  /\ required \subseteq Terminating /\ syncedCaches \subseteq {"services", "config", "inherent"}

\* A server that reports ready, or whose listeners are open, has every cache
\* synced and has committed as many updates as were accepted while the caches
\* were filling; where a Kubernetes config store asked for the first full push
\* it has a push context to answer from (waitForCacheSync before CachesSynced,
\* dubbodReadyHandler, initK8SConfigStore).
ReadyMeansPushed ==
  Ready \/ phase = "serving" =>
    /\ cachesSynced
    /\ committed >= expected
    /\ initKubeClient(args) /\ ~args.fileDir => snapshot # unset

\* A server that accepts connections and has nothing left to push holds the
\* configuration of its caches in the push context.
ConfigPushed ==
  phase = "serving" /\ req = unset /\ pushing = 0 /\ (\A u \in Updates : pushChannel[u] = 0)
    /\ configCache = store => snapshot = configCache
============================================================================
