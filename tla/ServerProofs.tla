--------------------------- MODULE ServerProofs ---------------------------
(***************************************************************************)
(* Two parts of the server that run whatever is configured.                *)
(*                                                                         *)
(* The life of a dubbod process, whatever arguments NewServer is called    *)
(* with and however often the configuration changes: a server that says it *)
(* is ready has committed as many updates as it accepted while its caches  *)
(* filled, and has the push context its config store asked for.            *)
(* ReadyMeansPushed speaks of `expected`, `committed` and the context. Its *)
(* inductive invariant adds where the accepted updates are (pushed, in the *)
(* push that runs, in the debounced request, on their way to it), that the *)
(* first full push stays in the debounced request until a push takes it,   *)
(* and what holds in each phase of Server.Start.                           *)
(*                                                                         *)
(* The worker pool of the status queue, whatever objects, goroutines,      *)
(* changes and failed writes there are.  StatusesWritten speaks of single  *)
(* pieces of the pool; its inductive invariant has two halves.  PoolInv    *)
(* ties the order of the queue to its cache, currentlyWorking to the       *)
(* workers, and workerCount to those alive and those that left without     *)
(* giving their place back.  GenerationsInv follows a generation on its    *)
(* way: object, element, events (ascending), queue, worker, and says that  *)
(* a copy of the object with the object's version has its generation.      *)
(***************************************************************************)
EXTENDS ServerLifecycle, StatusReporting, FiniteSetTheorems, WellFoundedInduction, TLAPS

\* Zenon does the leaves; those about arithmetic, sequences or records cite SMT.
USE Zenon

---------------------------------------------------------------------------
(* The inductive invariant. *)

\* The updates of the debounced request.
Waiting == IF req = unset THEN 0 ELSE req.n

\* The updates the debounce loop has not received.
Sent == pushChannel["all"] + pushChannel["endpoints"] + pushChannel["service"] + pushChannel["kind"]

\* Every accepted update is pushed, being pushed, waiting or on its way.
CountersInv ==
  /\ inbound \in Nat /\ committed \in Nat /\ pushing \in Nat /\ expected \in Nat
  /\ pushChannel \in [Updates -> Nat]
  /\ req \in Requests \cup {unset}
  /\ committed + pushing + Waiting + Sent = inbound

\* A Kubernetes config store asks NewServer for the first full push.
Asked == initKubeClient(args) /\ ~args.fileDir

\* The first full push asked for is in the debounced request until a push takes
\* it and sets a push context.
ContextInv ==
  /\ store \in Nat
  /\ snapshot \in Nat \cup {unset} /\ configCache \in Nat \cup {unset}
  /\ phase = "new" => snapshot = unset /\ req = unset /\ pushing = 0 /\ committed = 0
  /\ Asked /\ snapshot = unset /\ phase \notin {"new", "failed"} => req # unset /\ "all" \in req.what
  /\ Asked /\ snapshot = unset => committed + pushing = 0

\* The caches are those the arguments ask for.
SyncedInv == syncedCaches \subseteq Caches

BeforeReady == {"new", "starting", "syncing", "pushing"}

Counted == syncedCaches = Caches /\ (Asked => expected > 0)

CaughtUp == serverReady \/ phase \in {"ready", "listening", "serving", "exited"}

\* What Server.Start has waited for when it is in a phase.
PhaseInv ==
  /\ Asked /\ phase \notin {"new", "failed"} => inbound > 0
  /\ serverReady => phase \notin BeforeReady
  /\ phase = "pushing" => Counted
  /\ CaughtUp => Counted /\ committed >= expected

LifecycleInv == CountersInv /\ ContextInv /\ SyncedInv /\ PhaseInv

---------------------------------------------------------------------------
(* Steps of the counters. *)

\* ConfigUpdate counts the update and puts it on its way to the debounce loop.
LEMMA UpdateCounted ==
  ASSUME CountersInv, NEW what \in Updates, ConfigUpdate(what),
         UNCHANGED <<req, committed, pushing, expected>>
  PROVE  CountersInv' /\ inbound' = inbound + 1
<1>1. pushChannel \in [Updates -> Nat] /\ inbound \in Nat /\ committed \in Nat /\ pushing \in Nat
      /\ Waiting' = Waiting
  BY DEF CountersInv, Waiting
<1>2. pushChannel' \in [Updates -> Nat] /\ inbound' = inbound + 1
  BY <1>1, SMT DEF ConfigUpdate
<1>3. Waiting \in Nat
  BY SMT DEF CountersInv, Waiting, Requests
<1>4. Sent' = Sent + 1
  BY <1>1, SMT DEF ConfigUpdate, Sent, Updates
<1>5. Sent \in Nat
  BY <1>1, SMT DEF Sent, Updates
<1> QED
  BY <1>1, <1>2, <1>3, <1>4, <1>5, SMT DEF CountersInv

\* An update merged into the debounced request is one more of its updates.
LEMMA UpdateMerged ==
  ASSUME req \in Requests \cup {unset}, NEW what \in Updates, req' = Merged(what)
  PROVE  /\ req' \in Requests /\ req' # unset
         /\ Waiting \in Nat /\ Waiting' = Waiting + 1
         /\ what \in req'.what
         /\ req # unset => req.what \subseteq req'.what
<1>1. CASE req = unset
  <2>1. req' = [what |-> {what}, n |-> 1]
    BY <1>1 DEF Merged
  <2>2. req' \in Requests /\ req'.n = 1 /\ what \in req'.what
    BY <2>1, SMT DEF Requests
  <2>3. req' # unset
    BY <2>2, LifecycleAssumption
  <2> QED
    BY <1>1, <2>2, <2>3, SMT DEF Waiting
<1>2. CASE req # unset
  <2>1. req' = [what |-> req.what \cup {what}, n |-> req.n + 1]
    BY <1>2 DEF Merged
  <2>2. req \in Requests /\ req.n \in Nat \ {0} /\ req.what \in SUBSET Updates
    BY <1>2 DEF Requests
  <2>3. req' \in Requests /\ req'.n = req.n + 1 /\ what \in req'.what /\ req.what \subseteq req'.what
    BY <2>1, <2>2, SMT DEF Requests
  <2>4. req' # unset
    BY <2>3, LifecycleAssumption
  <2> QED
    BY <1>2, <2>2, <2>3, <2>4, SMT DEF Waiting
<1> QED
  BY <1>1, <1>2

\* The debounce loop receives an update: it waits instead of being on its way.
LEMMA UpdateReceived ==
  ASSUME CountersInv, NEW what \in Updates, Receive(what)
  PROVE  CountersInv' /\ req' # unset /\ (req # unset => req.what \subseteq req'.what)
<1>1. req' = Merged(what) /\ pushChannel[what] > 0 /\ pushChannel' = [pushChannel EXCEPT ![what] = @ - 1]
      /\ UNCHANGED <<inbound, committed, pushing, expected>>
  BY DEF Receive, restVars
<1>2. req' \in Requests /\ req' # unset /\ Waiting \in Nat /\ Waiting' = Waiting + 1
      /\ (req # unset => req.what \subseteq req'.what)
  BY <1>1, UpdateMerged DEF CountersInv
<1>3. pushChannel \in [Updates -> Nat]
  BY DEF CountersInv
<1>4. pushChannel' \in [Updates -> Nat]
  BY <1>1, <1>3, SMT
<1>5. Sent \in Nat /\ Sent' \in Nat /\ Sent = Sent' + 1
  BY <1>1, <1>3, <1>4, SMT DEF Sent, Updates
<1>6. UNCHANGED <<inbound, committed, pushing, expected>>
  BY <1>1
<1>7. Waiting \in Nat /\ Waiting' = Waiting + 1
  BY <1>2
<1>8. committed + pushing + Waiting + Sent = inbound /\ committed \in Nat /\ pushing \in Nat
  BY DEF CountersInv
<1>9. committed' + pushing' + Waiting' + Sent' = inbound'
  BY <1>5, <1>6, <1>7, <1>8, SMT
<1> QED
  BY <1>2, <1>4, <1>6, <1>9 DEF CountersInv

\* A push takes the whole debounced request.
LEMMA PushTaken ==
  ASSUME CountersInv, StartPush
  PROVE  CountersInv' /\ pushing' > 0 /\ UNCHANGED <<inbound, committed, expected>>
<1>1. req \in Requests /\ req.n \in Nat \ {0}
  BY DEF CountersInv, Requests, StartPush
<1>2. req # unset /\ pushing = 0 /\ pushing' = req.n /\ req' = unset
  BY DEF StartPush
<1>3. UNCHANGED <<inbound, committed, expected, pushChannel>>
  BY DEF StartPush, restVars
<1>4. Sent' = Sent /\ Sent \in Nat
  BY <1>3, SMT DEF Sent, CountersInv, Updates
<1> QED
  BY <1>1, <1>2, <1>3, <1>4, SMT DEF CountersInv, Waiting

---------------------------------------------------------------------------
\* The server that is about to be created.
LEMMA InitLifecycleInv == LifecycleInit => LifecycleInv
<1> SUFFICES ASSUME LifecycleInit PROVE LifecycleInv
  OBVIOUS
<1>1. CountersInv
  BY SMT DEF LifecycleInit, CountersInv, Waiting, Sent, Updates
<1> QED
  BY <1>1, LifecycleAssumption, SMT
     DEF LifecycleInit, LifecycleInv, ContextInv, SyncedInv, PhaseInv, BeforeReady, CaughtUp

\* Steps that touch neither a counter, a cache nor the phase.
LEMMA LifecycleUnchanged ==
  ASSUME LifecycleInv,
         UNCHANGED <<args, phase, snapshot, pushChannel, req, pushing, inbound, committed, expected,
                     syncedCaches, serverReady, store, configCache>>
  PROVE  LifecycleInv'
BY DEF LifecycleInv, CountersInv, ContextInv, SyncedInv, PhaseInv, Waiting, Sent, Caches, BeforeReady,
       Counted, CaughtUp, Asked

\* Steps that only move the main goroutine, once the server is created.
LEMMA PhaseMoved ==
  ASSUME LifecycleInv, PhaseInv', phase # "new", phase' # "new", phase # "failed",
         UNCHANGED <<args, snapshot, pushChannel, req, pushing, inbound, committed, syncedCaches, store,
                     configCache>>,
         expected' \in Nat
  PROVE  LifecycleInv'
BY DEF LifecycleInv, CountersInv, ContextInv, SyncedInv, Waiting, Sent, Caches, Asked

\* Steps that accept an update for the debounce loop.
LEMMA UpdateAccepted ==
  ASSUME LifecycleInv, NEW what \in Updates,
         ConfigUpdate(what) \/ UNCHANGED <<inbound, pushChannel>>,
         UNCHANGED <<args, phase, snapshot, req, pushing, committed, expected, syncedCaches, serverReady,
                     store>>,
         configCache' \in Nat \cup {unset}
  PROVE  LifecycleInv'
<1>1. CountersInv' /\ inbound' >= inbound
  <2>1. CASE ConfigUpdate(what)
    <3>1. CountersInv' /\ inbound' = inbound + 1
      BY <2>1, UpdateCounted DEF LifecycleInv
    <3> QED
      BY <3>1, SMT DEF LifecycleInv, CountersInv
  <2>2. CASE UNCHANGED <<inbound, pushChannel>>
    BY <2>2, SMT DEF LifecycleInv, CountersInv, Waiting, Sent
  <2> QED
    BY <2>1, <2>2
<1>2. ContextInv' /\ SyncedInv'
  BY DEF LifecycleInv, ContextInv, SyncedInv, Caches, Asked
<1>3. inbound > 0 => inbound' > 0
  BY <1>1, SMT DEF LifecycleInv, CountersInv
<1>4. PhaseInv'
  BY <1>3 DEF LifecycleInv, PhaseInv, BeforeReady, CaughtUp, Counted, Caches, Asked
<1> QED
  BY <1>1, <1>2, <1>4 DEF LifecycleInv

---------------------------------------------------------------------------
\* Every step of the process keeps the invariant.
LEMMA StepLifecycleInv == LifecycleInv /\ [LifecycleNext]_lifecycleVars => LifecycleInv'
<1> SUFFICES ASSUME LifecycleInv, [LifecycleNext]_lifecycleVars
             PROVE  LifecycleInv'
  OBVIOUS
<1> USE DEF startVars, pushVars, configVars, restVars
<1>1. CASE Create
  <2>1. phase = "new" /\ snapshot = unset /\ req = unset /\ pushing = 0 /\ committed = 0
    BY <1>1 DEF Create, LifecycleInv, ContextInv
  <2>2. UNCHANGED <<args, snapshot, pushChannel, pushing, committed, expected, syncedCaches, serverReady,
                    store, configCache>>
    BY <1>1 DEF Create
  <2>3. ~serverReady /\ Asked' = Asked
    BY <1>1, <2>1, <2>2 DEF Create, LifecycleInv, PhaseInv, BeforeReady, Asked
  <2>4. CASE inbound' = inbound + 1 /\ req' = Merged("all") /\ phase' = "starting"
    <3>1. req' \in Requests /\ req' # unset /\ Waiting' = Waiting + 1 /\ Waiting \in Nat /\ "all" \in req'.what
      BY <2>4, UpdateMerged DEF LifecycleInv, CountersInv, Updates
    <3>2. Sent' = Sent
      BY <2>2 DEF Sent
    <3>3. Sent \in Nat
      BY SMT DEF LifecycleInv, CountersInv, Sent, Updates
    <3>4. CountersInv' /\ inbound' > 0
      BY <2>2, <2>4, <3>1, <3>2, <3>3, SMT DEF LifecycleInv, CountersInv
    <3>5. ContextInv' /\ SyncedInv'
      BY <2>1, <2>2, <2>3, <2>4, <3>1 DEF LifecycleInv, ContextInv, SyncedInv, Caches
    <3>6. PhaseInv'
      BY <2>2, <2>3, <2>4, <3>4 DEF PhaseInv, CaughtUp
    <3> QED
      BY <3>4, <3>5, <3>6 DEF LifecycleInv
  <2>5. CASE UNCHANGED <<inbound, req>> /\ (phase' = "failed" \/ (phase' = "starting" /\ ~Asked))
    <3>1. CountersInv'
      BY <2>2, <2>5 DEF LifecycleInv, CountersInv, Waiting, Sent
    <3>2. ContextInv' /\ SyncedInv'
      BY <2>1, <2>2, <2>3, <2>5 DEF LifecycleInv, ContextInv, SyncedInv, Caches
    <3>3. PhaseInv'
      BY <2>2, <2>3, <2>5 DEF PhaseInv, CaughtUp
    <3> QED
      BY <3>1, <3>2, <3>3 DEF LifecycleInv
  <2> QED
    BY <1>1, <2>4, <2>5 DEF Create, Asked
<1>2. CASE RunComponent \/ RunAndWait \/ CloseDone \/ Activate \/ (\E c \in Terminating : Terminate(c))
  BY <1>2, LifecycleUnchanged DEF RunComponent, RunAndWait, CloseDone, Activate, Terminate
<1>3. CASE WaitSignal \/ Drain \/ ChangeMesh
  BY <1>3, LifecycleUnchanged DEF WaitSignal, Drain, ChangeMesh
<1>4. CASE MonitoringFails \/ StartupDone \/ Serve(TRUE) \/ Serve(FALSE) \/ Exit \/ HandleMesh
           \/ initRegistryEventHandlers
  <2>1. PhaseInv'
    BY <1>4, SMT DEF LifecycleInv, PhaseInv, BeforeReady, CaughtUp, Counted, Caches, MonitoringFails,
                StartupDone, Serve, Exit, HandleMesh, initRegistryEventHandlers, ProcessUp, Asked
  <2>2. phase \notin {"new", "failed"} /\ phase' # "new"
    BY <1>4 DEF MonitoringFails, StartupDone, Serve, Exit, HandleMesh, initRegistryEventHandlers, ProcessUp
  <2> QED
    BY <1>4, <2>1, <2>2, PhaseMoved
       DEF LifecycleInv, CountersInv, MonitoringFails, StartupDone, Serve, Exit, HandleMesh,
           initRegistryEventHandlers
<1>5. CASE CountInbound
  <2>1. expected' = inbound /\ expected' \in Nat /\ Asked' = Asked
    BY <1>5 DEF CountInbound, LifecycleInv, CountersInv, Asked
  <2>2. Counted'
    BY <1>5, <2>1 DEF CountInbound, cachesSynced, Counted, Caches, LifecycleInv, PhaseInv
  <2>3. PhaseInv'
    BY <1>5, <2>1, <2>2 DEF CountInbound, LifecycleInv, PhaseInv, BeforeReady, CaughtUp
  <2> QED
    BY <1>5, <2>1, <2>3, PhaseMoved DEF CountInbound
<1>6. CASE MarkReady
  <2>1. PhaseInv'
    BY <1>6 DEF MarkReady, pushContextReady, LifecycleInv, PhaseInv, BeforeReady, CaughtUp,
                Counted, Caches, Asked
  <2> QED
    BY <1>6, <2>1, PhaseMoved DEF MarkReady, LifecycleInv, CountersInv
<1>7. ASSUME NEW c \in {"services", "config", "inherent"}, SyncCache(c)
      PROVE  LifecycleInv'
  <2>1. UNCHANGED <<args, phase, snapshot, pushChannel, req, pushing, inbound, committed, expected,
                    serverReady, store>>
    BY <1>7 DEF SyncCache
  <2>2. CountersInv'
    BY <2>1 DEF LifecycleInv, CountersInv, Waiting, Sent
  <2>3. ContextInv'
    BY <1>7, <2>1 DEF SyncCache, LifecycleInv, ContextInv, Asked
  <2>4. SyncedInv'
    BY <1>7, <2>1 DEF SyncCache, LifecycleInv, SyncedInv, Caches
  <2>5. syncedCaches # Caches /\ ~CaughtUp /\ phase # "pushing"
    BY <1>7 DEF SyncCache, LifecycleInv, PhaseInv, Counted
  <2>6. PhaseInv'
    BY <2>1, <2>5 DEF LifecycleInv, PhaseInv, CaughtUp, BeforeReady, Asked
  <2> QED
    BY <2>2, <2>3, <2>4, <2>6 DEF LifecycleInv
<1>8. CASE ChangeConfig
  <2>1. store' \in Nat
    BY <1>8, SMT DEF ChangeConfig, LifecycleInv, ContextInv
  <2> QED
    BY <1>8, <2>1
       DEF ChangeConfig, LifecycleInv, CountersInv, ContextInv, SyncedInv, PhaseInv, Waiting, Sent,
           Caches, BeforeReady, Counted, CaughtUp, Asked
<1>9. CASE DeliverConfig \/ StatusWriter \/ EDSUpdate("endpoints") \/ EDSUpdate("service")
  <2>1. UNCHANGED <<args, phase, snapshot, req, pushing, committed, expected, syncedCaches, serverReady,
                    store>>
    BY <1>9 DEF DeliverConfig, StatusWriter, EDSUpdate
  <2>2. configCache' \in Nat \cup {unset}
    BY <1>9 DEF DeliverConfig, StatusWriter, EDSUpdate, LifecycleInv, ContextInv
  <2>3. \E what \in Updates : ConfigUpdate(what) \/ UNCHANGED <<inbound, pushChannel>>
    BY <1>9 DEF DeliverConfig, StatusWriter, EDSUpdate, Updates
  <2> QED
    BY <2>1, <2>2, <2>3, UpdateAccepted
<1>10. ASSUME NEW u \in Updates, Receive(u)
       PROVE  LifecycleInv'
  <2>1. CountersInv' /\ req' # unset /\ (req # unset => req.what \subseteq req'.what)
    BY <1>10, UpdateReceived DEF LifecycleInv
  <2>2. UNCHANGED <<args, phase, snapshot, pushing, inbound, committed, expected, syncedCaches, serverReady,
                    store, configCache>> /\ phase # "new"
    BY <1>10 DEF Receive, ProcessUp
  <2>3. ContextInv' /\ SyncedInv'
    BY <2>1, <2>2 DEF LifecycleInv, ContextInv, SyncedInv, Caches, Asked
  <2>4. PhaseInv'
    BY <2>2 DEF LifecycleInv, PhaseInv, BeforeReady, CaughtUp, Counted, Caches, Asked
  <2> QED
    BY <2>1, <2>3, <2>4 DEF LifecycleInv
<1>11. CASE StartPush
  <2>1. CountersInv' /\ UNCHANGED <<inbound, committed, expected>>
    BY <1>11, PushTaken DEF LifecycleInv
  <2>2. UNCHANGED <<args, phase, syncedCaches, serverReady, store, configCache>> /\ Asked' = Asked
    BY <1>11 DEF StartPush, Asked
  <2>3. phase \notin {"new", "failed"}
    BY <1>11 DEF StartPush, ProcessUp
  <2>4. snapshot' \in Nat \cup {unset} /\ (Asked => snapshot' # unset)
    <3>1. snapshot \in Nat \cup {unset} /\ configCache \in Nat \cup {unset}
      BY DEF LifecycleInv, ContextInv
    <3>2. \/ snapshot' = snapshot /\ req.what \cap {"all", "kind"} = {}
          \/ snapshot' = IF configCache = unset THEN 0 ELSE configCache
      BY <1>11 DEF StartPush
    <3>3. Asked /\ snapshot = unset => "all" \in req.what
      BY <2>3 DEF LifecycleInv, ContextInv
    <3>4. (IF configCache = unset THEN 0 ELSE configCache) \in Nat
      BY <3>1, SMT
    <3> QED
      BY <3>1, <3>2, <3>3, <3>4, LifecycleAssumption
  <2>5. ContextInv' /\ SyncedInv'
    BY <2>2, <2>3, <2>4 DEF LifecycleInv, ContextInv, SyncedInv, Caches
  <2>6. PhaseInv'
    BY <2>1, <2>2 DEF LifecycleInv, PhaseInv, BeforeReady, CaughtUp, Counted, Caches
  <2> QED
    BY <2>1, <2>5, <2>6 DEF LifecycleInv
<1>12. CASE FinishPush
  <2>1. CountersInv' /\ committed' >= committed /\ committed' + pushing' = committed + pushing
    <3>1. Sent' = Sent /\ Waiting' = Waiting
      BY <1>12 DEF FinishPush, Sent, Waiting
    <3>2. Sent \in Nat /\ Waiting \in Nat
      BY SMT DEF LifecycleInv, CountersInv, Sent, Waiting, Requests, Updates
    <3> QED
      BY <1>12, <3>1, <3>2, SMT DEF FinishPush, LifecycleInv, CountersInv
  <2>2. phase # "new"
    BY <1>12 DEF FinishPush, ProcessUp
  <2>3. ContextInv' /\ SyncedInv'
    BY <1>12, <2>1, <2>2 DEF FinishPush, LifecycleInv, ContextInv, SyncedInv, Caches, Asked
  <2>4. committed >= expected => committed' >= expected
    BY <1>12, <2>1, SMT DEF LifecycleInv, CountersInv
  <2>5. PhaseInv'
    BY <1>12, <2>4 DEF FinishPush, LifecycleInv, PhaseInv, BeforeReady, CaughtUp, Counted, Caches, Asked
  <2> QED
    BY <2>1, <2>3, <2>5 DEF LifecycleInv
<1>13. CASE UNCHANGED lifecycleVars
  BY <1>13, LifecycleUnchanged DEF lifecycleVars
<1> QED
  BY <1>1, <1>2, <1>3, <1>4, <1>5, <1>6, <1>7, <1>8, <1>9, <1>10, <1>11, <1>12, <1>13 DEF LifecycleNext

\* The invariant gives the property: the first full push is among the updates
\* waited for, and the first push takes it.
LEMMA InvReadyMeansPushed == LifecycleInv => ReadyMeansPushed
<1> SUFFICES ASSUME LifecycleInv, Ready \/ phase = "serving"
             PROVE  cachesSynced /\ committed >= expected /\ (Asked => snapshot # unset)
  BY DEF ReadyMeansPushed, Asked
<1>1. CaughtUp
  BY DEF Ready, CaughtUp
<1>2. Counted /\ committed >= expected
  BY <1>1 DEF LifecycleInv, PhaseInv
<1>3. Asked => committed + pushing > 0
  BY <1>2, SMT DEF LifecycleInv, CountersInv, Counted
<1>4. Asked /\ snapshot = unset => FALSE
  BY <1>3, SMT DEF LifecycleInv, ContextInv
<1> QED
  BY <1>2, <1>4 DEF Counted, cachesSynced

\* Whatever NewServer is asked to build, a server that answers its readiness
\* probe or has opened its listeners has synced every cache and has committed
\* as many updates as were accepted while they filled; with a Kubernetes config
\* store it has a push context, although updates overtake each other between
\* InboundUpdates and the debounce loop.
THEOREM ReadinessHolds == LifecycleSpec => []ReadyMeansPushed
BY InitLifecycleInv, StepLifecycleInv, InvReadyMeansPushed, PTL DEF LifecycleSpec

---------------------------------------------------------------------------
(* The status queue and its worker pool. *)

Events == [r : Resource, e : Elements, deleted : BOOLEAN]
Places == {"new", "loop", "get", "write", "done", "ended", "leaked"}
Workers == [at : Places, r : Resource \cup {nil}, gen : Nat, status : Statuses \cup {nil},
            cfg : Objects \cup {nil}]

\* The order of WorkQueue names each resource of its cache once.
QueueInv ==
  /\ tasks \in Seq(Resource) /\ cache \in [Resource -> Cached \cup {nil}]
  /\ \A x \in Resource : cache[x] # nil <=> \E k \in DOMAIN tasks : tasks[k] = x
  /\ \A k, l \in DOMAIN tasks : tasks[k] = tasks[l] => k = l

\* currentlyWorking is what the workers are at, no two at the same.
WorkersInv ==
  /\ worker \in [Goroutine -> Workers]
  /\ \A g \in Goroutine : Working(g) => worker[g].r \in Resource /\ worker[g].status \in Statuses
  /\ \A x : x \in currentlyWorking <=> \E g \in Goroutine : Working(g) /\ worker[g].r = x
  /\ \A g, h \in Goroutine : Working(g) /\ Working(h) /\ worker[g].r = worker[h].r => g = h

\* workerCount counts the workers, with those that left without giving their
\* place back.
CountInv == workerCount = Cardinality(Alive) + Cardinality(Leaked)

PoolInv == QueueInv /\ WorkersInv /\ CountInv /\ TasksServed

\* Push queues a resource once.
LEMMA TaskPushed ==
  ASSUME QueueInv, NEW x \in Resource, NEW n \in Nat, NEW st \in Statuses, Push(x, n, st)
  PROVE  QueueInv'
<1>1. CASE cache[x] # nil
  <2>1. cache[x] \in Cached
    BY <1>1 DEF QueueInv
  <2>2. cache' = [cache EXCEPT ![x] = [cache[x] EXCEPT !.status = st]] /\ tasks' = tasks
    BY <1>1 DEF Push
  <2>3. [cache[x] EXCEPT !.status = st] \in Cached
    BY <2>1 DEF Cached
  <2>4. cache'[x] # nil /\ \A y \in Resource \ {x} : cache'[y] = cache[y]
    BY <2>2, <2>3, ReportingAssumption, ZenonT(60) DEF QueueInv
  <2> QED
    BY <1>1, <2>2, <2>3, <2>4 DEF QueueInv
<1>2. CASE cache[x] = nil
  <2>1. cache' = [cache EXCEPT ![x] = [gen |-> n, status |-> st]] /\ tasks' = Append(tasks, x)
    BY <1>2 DEF Push
  <2>2. [gen |-> n, status |-> st] \in Cached
    BY DEF Cached
  <2>3. cache'[x] # nil /\ (\A y \in Resource \ {x} : cache'[y] = cache[y])
        /\ cache' \in [Resource -> Cached \cup {nil}]
    BY <2>1, <2>2, ReportingAssumption, ZenonT(60) DEF QueueInv
  <2>4. /\ tasks' \in Seq(Resource) /\ DOMAIN tasks' = 1 .. Len(tasks) + 1
        /\ DOMAIN tasks = 1 .. Len(tasks) /\ Len(tasks) \in Nat
        /\ tasks'[Len(tasks) + 1] = x
        /\ \A k \in DOMAIN tasks : tasks'[k] = tasks[k]
    BY <2>1, SMT DEF QueueInv
  <2>5. \A y \in Resource : cache'[y] # nil <=> \E k \in DOMAIN tasks' : tasks'[k] = y
    BY <2>3, <2>4, SMT DEF QueueInv
  <2>6. \A k \in DOMAIN tasks : tasks[k] # x
    BY <1>2 DEF QueueInv
  <2>7. \A k, l \in DOMAIN tasks' : tasks'[k] = tasks'[l] => k = l
    BY <2>4, <2>6, SMT DEF QueueInv
  <2> QED
    BY <2>3, <2>4, <2>5, <2>7 DEF QueueInv
<1> QED
  BY <1>1, <1>2

\* A task that is taken out leaves the others queued.
LEMMA TaskPopped ==
  ASSUME QueueInv, NEW i \in DOMAIN tasks,
         tasks' = [j \in 1..(Len(tasks) - 1) |-> IF j < i THEN tasks[j] ELSE tasks[j + 1]],
         cache' = [cache EXCEPT ![tasks[i]] = nil]
  PROVE  /\ QueueInv'
         /\ tasks[i] \in Resource /\ cache[tasks[i]] \in Cached
<1>1. /\ tasks \in Seq(Resource) /\ DOMAIN tasks = 1 .. Len(tasks) /\ Len(tasks) \in Nat
      /\ i \in 1 .. Len(tasks)
  BY SMT DEF QueueInv
<1>2. tasks[i] \in Resource /\ cache[tasks[i]] # nil
  BY <1>1, SMT DEF QueueInv
<1>3. cache[tasks[i]] \in Cached
  BY <1>2 DEF QueueInv
<1>4. DOMAIN tasks' = 1 .. Len(tasks) - 1 /\ Len(tasks) - 1 \in Nat
  BY <1>1, SMT
<1>5. \A k \in 1 .. Len(tasks) - 1 : k < i => tasks'[k] = tasks[k] /\ k \in DOMAIN tasks
  BY <1>1, SMT
<1>6. \A k \in 1 .. Len(tasks) - 1 : k >= i => tasks'[k] = tasks[k + 1] /\ k + 1 \in DOMAIN tasks
  BY <1>1, SMT
<1>7. \A k \in 1 .. Len(tasks) - 1 : tasks'[k] \in Resource
  BY <1>1, <1>5, <1>6, SMT
<1>8. tasks' \in Seq(Resource)
  BY <1>4, <1>7, SMT
<1>9. ASSUME NEW k \in DOMAIN tasks', NEW l \in DOMAIN tasks', tasks'[k] = tasks'[l]
      PROVE  k = l
  <2>1. PICK m \in DOMAIN tasks : tasks'[k] = tasks[m] /\ m = IF k < i THEN k ELSE k + 1
    BY <1>1, <1>4, <1>5, <1>6, SMT
  <2>2. PICK n \in DOMAIN tasks : tasks'[l] = tasks[n] /\ n = IF l < i THEN l ELSE l + 1
    BY <1>1, <1>4, <1>5, <1>6, SMT
  <2>3. m = n
    BY <1>9, <2>1, <2>2 DEF QueueInv
  <2> QED
    BY <1>1, <1>4, <2>1, <2>2, <2>3, SMT
<1>10. \A k \in DOMAIN tasks' : tasks'[k] # tasks[i]
  <2> SUFFICES ASSUME NEW k \in DOMAIN tasks', tasks'[k] = tasks[i]
               PROVE  FALSE
    OBVIOUS
  <2>1. PICK m \in DOMAIN tasks : tasks'[k] = tasks[m] /\ m = IF k < i THEN k ELSE k + 1
    BY <1>1, <1>4, <1>5, <1>6, SMT
  <2>2. m = i
    BY <2>1 DEF QueueInv
  <2> QED
    BY <1>1, <1>4, <2>1, <2>2, SMT
<1>11. ASSUME NEW l \in DOMAIN tasks, l # i
       PROVE  \E k \in DOMAIN tasks' : tasks'[k] = tasks[l]
  <2>1. CASE l < i
    BY <1>1, <1>4, <1>5, <2>1, SMT
  <2>2. CASE l > i
    <3>1. l - 1 \in 1 .. Len(tasks) - 1 /\ l - 1 >= i /\ (l - 1) + 1 = l
      BY <1>1, <2>2, SMT
    <3> QED
      BY <1>4, <1>6, <3>1
  <2> QED
    BY <1>1, <1>11, <2>1, <2>2, SMT
<1>12. \A x \in Resource : cache'[x] # nil <=> x # tasks[i] /\ cache[x] # nil
  BY <1>2 DEF QueueInv
<1>13. \A k \in DOMAIN tasks' : \E l \in DOMAIN tasks : tasks'[k] = tasks[l]
  BY <1>1, <1>4, <1>5, <1>6, SMT
<1>14. \A x \in Resource : cache'[x] # nil <=> \E k \in DOMAIN tasks' : tasks'[k] = x
  <2> SUFFICES ASSUME NEW x \in Resource
               PROVE  cache'[x] # nil <=> \E k \in DOMAIN tasks' : tasks'[k] = x
    OBVIOUS
  <2>1. cache[x] # nil <=> \E l \in DOMAIN tasks : tasks[l] = x
    BY DEF QueueInv
  <2>2. ASSUME cache'[x] # nil
        PROVE  \E k \in DOMAIN tasks' : tasks'[k] = x
    <3>1. x # tasks[i] /\ cache[x] # nil
      BY <1>12, <2>2
    <3>2. PICK l \in DOMAIN tasks : tasks[l] = x
      BY <2>1, <3>1
    <3>3. l # i
      BY <3>1, <3>2
    <3> QED
      BY <1>11, <3>2, <3>3
  <2>3. ASSUME NEW k \in DOMAIN tasks', tasks'[k] = x
        PROVE  cache'[x] # nil
    BY <1>10, <1>12, <1>13, <2>1, <2>3
  <2> QED
    BY <2>2, <2>3
<1> QED
  BY <1>2, <1>3, <1>8, <1>9, <1>14 DEF QueueInv

\* One worker moves; the sets of live and leaked ones follow.
LEMMA WorkerMoves ==
  ASSUME WorkersInv, NEW g \in Goroutine, NEW w \in Workers, worker' = [worker EXCEPT ![g] = w]
  PROVE  /\ worker' \in [Goroutine -> Workers] /\ worker'[g] = w
         /\ \A h \in Goroutine \ {g} : worker'[h] = worker[h]
         /\ Alive' = IF w.at \in {"loop", "get", "write", "done"} THEN Alive \cup {g} ELSE Alive \ {g}
         /\ Leaked' = IF w.at = "leaked" THEN Leaked \cup {g} ELSE Leaked \ {g}
<1>1. worker \in [Goroutine -> Workers]
  BY DEF WorkersInv
<1>2. /\ worker' \in [Goroutine -> Workers] /\ worker'[g] = w
      /\ \A h \in Goroutine \ {g} : worker'[h] = worker[h]
  BY <1>1
<1>3. \A h \in Goroutine : h \in Alive <=> worker[h].at \in {"loop", "get", "write", "done"}
  BY DEF Alive, Working, At
<1>4. \A h \in Goroutine : h \in Alive' <=> worker'[h].at \in {"loop", "get", "write", "done"}
  BY DEF Alive, Working, At
<1>5. Alive \subseteq Goroutine /\ Alive' \subseteq Goroutine
  BY DEF Alive
<1>6. \A h \in Goroutine : (h \in Leaked <=> worker[h].at = "leaked")
                           /\ (h \in Leaked' <=> worker'[h].at = "leaked")
  BY DEF Leaked, At
<1>7. Leaked \subseteq Goroutine /\ Leaked' \subseteq Goroutine
  BY DEF Leaked
<1>8. Alive' = IF w.at \in {"loop", "get", "write", "done"} THEN Alive \cup {g} ELSE Alive \ {g}
  BY <1>2, <1>3, <1>4, <1>5, ZenonT(60)
<1>9. Leaked' = IF w.at = "leaked" THEN Leaked \cup {g} ELSE Leaked \ {g}
  BY <1>2, <1>6, <1>7
<1> QED
  BY <1>2, <1>8, <1>9

\* The workers are finitely many.
LEMMA WorkersFinite ==
  /\ IsFiniteSet(Alive) /\ IsFiniteSet(Leaked)
  /\ Cardinality(Alive) \in Nat /\ Cardinality(Leaked) \in Nat
<1>1. IsFiniteSet(Goroutine)
  BY FS_Interval, ReportingAssumption, SMT DEF Goroutine
<1>2. Alive \subseteq Goroutine /\ Leaked \subseteq Goroutine
  BY DEF Alive, Leaked
<1>3. IsFiniteSet(Alive) /\ IsFiniteSet(Leaked)
  BY <1>1, <1>2, FS_Subset
<1> QED
  BY <1>3, FS_CardinalityType

\* A live worker that stays at its task or goes back to the loop changes
\* neither set.
LEMMA SameSets ==
  ASSUME WorkersInv, NEW g \in Alive, NEW w \in Workers, worker' = [worker EXCEPT ![g] = w],
         w.at \in {"loop", "get", "write", "done"}
  PROVE  Alive' = Alive /\ Leaked' = Leaked
<1>1. g \in Goroutine /\ worker[g].at \in {"loop", "get", "write", "done"}
  BY DEF Alive, Working, At
<1>2. g \notin Leaked
  BY <1>1 DEF Leaked, At
<1>3. Alive' = Alive \cup {g} /\ Leaked' = Leaked \ {g}
  BY <1>1, WorkerMoves
<1> QED
  BY <1>2, <1>3

---------------------------------------------------------------------------
(* Steps of the pool. *)

\* The goroutine maybeAddWorker starts is one that was not started yet.
LEMMA LeastExists ==
  ASSUME NEW S, S \subseteq Nat, S # {}
  PROVE  \E n \in S : \A k \in S : n <= k
<1>1. PICK n \in S : \A k \in S : ~(<<k, n>> \in OpToRel(<, Nat))
  BY NatLessThanWellFounded, WFMin
<1>2. ASSUME NEW k \in S PROVE n <= k
  <2>1. ~(<<k, n>> \in {ss \in Nat \X Nat : ss[1] < ss[2]})
    BY <1>1 DEF OpToRel
  <2>2. k \in Nat /\ n \in Nat
    OBVIOUS
  <2> QED
    BY <2>1, <2>2, SMT
<1> QED
  BY <1>2

\* maybeAddWorker: a place that is left is taken when there is something to do.
LEMMA WorkerAdded ==
  ASSUME PoolInv, maybeAddWorker
  PROVE  PoolInv'
<1> USE DEF PoolInv
<1>1. UNCHANGED <<tasks, cache, closing>> /\ pushed' = FALSE
  BY DEF maybeAddWorker, queueVars, poolVars
<1>2. QueueInv'
  BY <1>1 DEF QueueInv
<1>3. CASE workerCount >= maxWorkers \/ tasks = <<>>
  <2>1. UNCHANGED <<workerCount, currentlyWorking, worker>>
    BY <1>3 DEF maybeAddWorker, poolVars
  <2>2. WorkersInv' /\ Alive' = Alive /\ Leaked' = Leaked
    BY <2>1 DEF WorkersInv, Working, Alive, Leaked, At
  <2>3. CountInv'
    BY <2>1, <2>2 DEF CountInv
  <2>4. tasks # <<>> /\ Cardinality(Leaked) < maxWorkers => Cardinality(Alive) # 0
    BY <1>3, WorkersFinite, ReportingAssumption, SMT DEF CountInv
  <2>5. tasks # <<>> /\ Cardinality(Leaked) < maxWorkers => Alive # {}
    BY <2>4, FS_EmptySet
  <2>6. TasksServed'
    BY <1>1, <2>2, <2>5 DEF TasksServed
  <2> QED
    BY <1>2, <2>2, <2>3, <2>6
<1>4. CASE ~(workerCount >= maxWorkers \/ tasks = <<>>)
  <2>1. PICK g \in Goroutine : At(g, "new") /\ worker' = [worker EXCEPT ![g] = Idle]
    <3>1. {g \in Goroutine : At(g, "new")} # {}
      BY <1>4 DEF maybeAddWorker
    <3>2. worker' = [worker EXCEPT ![CHOOSE g \in {g \in Goroutine : At(g, "new")} :
                                       \A h \in {h \in Goroutine : At(h, "new")} : g <= h] = Idle]
      BY <1>4 DEF maybeAddWorker
    <3>3. {g \in Goroutine : At(g, "new")} \subseteq Nat
      BY ReportingAssumption, SMT DEF Goroutine
    <3>4. \E g \in {g \in Goroutine : At(g, "new")} :
            \A h \in {h \in Goroutine : At(h, "new")} : g <= h
      BY <3>1, <3>3, LeastExists
    <3> QED
      BY <3>2, <3>4
  <2>2. workerCount' = workerCount + 1 /\ currentlyWorking' = currentlyWorking
    BY <1>4 DEF maybeAddWorker
  <2>3. Idle \in Workers /\ Idle.at = "loop"
    BY DEF Idle, Workers, Places
  <2>4. /\ worker' \in [Goroutine -> Workers] /\ worker'[g] = Idle
        /\ \A h \in Goroutine \ {g} : worker'[h] = worker[h]
        /\ Alive' = Alive \cup {g} /\ Leaked' = Leaked \ {g}
    BY <2>1, <2>3, WorkerMoves
  <2>5. g \notin Alive /\ g \notin Leaked
    BY <2>1 DEF Alive, Leaked, At, Working
  <2>6. Leaked' = Leaked /\ Cardinality(Alive') = Cardinality(Alive) + 1
    <3>1. Cardinality(Alive \cup {g}) = Cardinality(Alive) + 1
      BY <2>5, WorkersFinite, FS_AddElement
    <3> QED
      BY <2>4, <2>5, <3>1
  <2>7. CountInv'
    BY <2>2, <2>6, WorkersFinite, SMT DEF CountInv
  <2>8. ~Working(g) /\ ~Working(g)'
    BY <2>1, <2>3, <2>4 DEF At, Working
  <2>9. WorkersInv'
    BY <2>2, <2>4, <2>8, SMT DEF WorkersInv, Working
  <2>10. TasksServed'
    BY <2>4 DEF TasksServed
  <2> QED
    BY <1>2, <2>7, <2>9, <2>10
<1> QED
  BY <1>3, <1>4

\* Take: the worker ends when nothing is queued, leaves its place behind when
\* all that is queued is being worked at, or takes a task.
LEMMA TaskTaken ==
  ASSUME PoolInv, NEW g \in Goroutine, Take(g)
  PROVE  PoolInv'
<1> USE DEF PoolInv
<1>1. UNCHANGED <<closing, pushed>> /\ worker[g].at = "loop"
  BY DEF Take, handlerVars, At
<1>2. g \in Alive /\ g \notin Leaked /\ ~Working(g)
  BY <1>1 DEF Alive, Leaked, At, Working
<1>3. \A p \in Places : [Idle EXCEPT !.at = p] \in Workers /\ [Idle EXCEPT !.at = p].at = p
  BY DEF Idle, Workers
<1>4. CASE closing \/ tasks = <<>>
  <2>1. /\ workerCount' = workerCount - 1 /\ worker' = [worker EXCEPT ![g] = [Idle EXCEPT !.at = "ended"]]
        /\ UNCHANGED <<currentlyWorking, tasks, cache>>
    BY <1>4 DEF Take, queueVars
  <2>2. /\ worker' \in [Goroutine -> Workers] /\ worker'[g].at = "ended"
        /\ \A h \in Goroutine \ {g} : worker'[h] = worker[h]
        /\ Alive' = Alive \ {g} /\ Leaked' = Leaked \ {g}
    BY <1>3, <2>1, WorkerMoves DEF Places
  <2>3. Cardinality(Alive \ {g}) = Cardinality(Alive) - 1
    BY <1>2, WorkersFinite, FS_RemoveElement
  <2>4. CountInv'
    <3>1. Leaked' = Leaked /\ Cardinality(Alive') = Cardinality(Alive) - 1
      BY <1>2, <2>2, <2>3
    <3> QED
      BY <2>1, <3>1, WorkersFinite, SMT DEF CountInv
  <2>5. ~Working(g)'
    BY <2>2 DEF Working
  <2>6. WorkersInv'
    BY <1>2, <2>1, <2>2, <2>5, SMT DEF WorkersInv, Working
  <2>7. QueueInv' /\ TasksServed'
    BY <1>1, <1>4, <2>1 DEF QueueInv, TasksServed
  <2> QED
    BY <2>4, <2>6, <2>7
<1>5. CASE ~(closing \/ tasks = <<>>) /\ ~\E i \in DOMAIN tasks : Pop(i)
  <2>1. /\ worker' = [worker EXCEPT ![g] = [Idle EXCEPT !.at = "leaked"]]
        /\ UNCHANGED <<workerCount, currentlyWorking, tasks, cache>>
    BY <1>5 DEF Take, queueVars
  <2>2. /\ worker' \in [Goroutine -> Workers] /\ worker'[g].at = "leaked"
        /\ \A h \in Goroutine \ {g} : worker'[h] = worker[h]
        /\ Alive' = Alive \ {g} /\ Leaked' = Leaked \cup {g}
    BY <1>3, <2>1, WorkerMoves, ZenonT(60) DEF Places
  <2>3. /\ Cardinality(Alive \ {g}) = Cardinality(Alive) - 1
        /\ Cardinality(Leaked \cup {g}) = Cardinality(Leaked) + 1
    BY <1>2, WorkersFinite, FS_RemoveElement, FS_AddElement
  <2>4. CountInv'
    BY <2>1, <2>2, <2>3, WorkersFinite, SMT DEF CountInv
  <2>5. ~Working(g)'
    BY <2>2 DEF Working
  <2>6. WorkersInv'
    BY <1>2, <2>1, <2>2, <2>5, SMT DEF WorkersInv, Working
  <2>7. 1 \in DOMAIN tasks
    BY <1>5, SMT DEF QueueInv
  <2>8. tasks[1] \in currentlyWorking
    BY <1>5, <2>7, SMT DEF Pop
  <2>9. PICK h \in Goroutine : Working(h) /\ worker[h].r = tasks[1]
    BY <2>8 DEF WorkersInv
  <2>10. h \in Alive'
    BY <1>2, <2>2, <2>9 DEF Alive
  <2>11. QueueInv' /\ TasksServed'
    BY <2>1, <2>10 DEF QueueInv, TasksServed
  <2> QED
    BY <2>4, <2>6, <2>11
<1>6. CASE ~(closing \/ tasks = <<>>) /\ \E i \in DOMAIN tasks : Pop(i)
  <2>1. PICK i \in DOMAIN tasks :
          /\ Pop(i)
          /\ tasks' = [j \in 1..(Len(tasks) - 1) |-> IF j < i THEN tasks[j] ELSE tasks[j + 1]]
          /\ cache' = [cache EXCEPT ![tasks[i]] = nil]
          /\ currentlyWorking' = currentlyWorking \cup {tasks[i]}
          /\ worker' = [worker EXCEPT ![g] = [Idle EXCEPT !.at = "get", !.r = tasks[i],
                                                !.gen = cache[tasks[i]].gen,
                                                !.status = cache[tasks[i]].status]]
          /\ UNCHANGED workerCount
    BY <1>6 DEF Take
  <2>2. QueueInv' /\ tasks[i] \in Resource /\ cache[tasks[i]] \in Cached
    BY <2>1, TaskPopped
  <2>3. PICK w : w = [Idle EXCEPT !.at = "get", !.r = tasks[i], !.gen = cache[tasks[i]].gen,
                                  !.status = cache[tasks[i]].status]
    OBVIOUS
  <2>4. w \in Workers /\ w.at = "get" /\ w.r = tasks[i] /\ w.status \in Statuses
    BY <2>2, <2>3 DEF Idle, Workers, Places, Cached
  <2>5. worker' = [worker EXCEPT ![g] = w]
    BY <2>1, <2>3
  <2>6. /\ worker' \in [Goroutine -> Workers] /\ worker'[g] = w
        /\ \A h \in Goroutine \ {g} : worker'[h] = worker[h]
    BY <2>4, <2>5, WorkerMoves
  <2>7. Alive' = Alive /\ Leaked' = Leaked
    BY <1>2, <2>4, <2>5, SameSets
  <2>8. CountInv'
    BY <2>1, <2>7 DEF CountInv
  <2>9. Working(g)' /\ \A h \in Goroutine \ {g} : Working(h)' <=> Working(h)
    BY <2>4, <2>6 DEF Working
  <2>10. tasks[i] \notin currentlyWorking
    BY <2>1 DEF Pop
  <2>11. \A h \in Goroutine \ {g} : Working(h) => worker[h].r # tasks[i]
    BY <2>10 DEF WorkersInv
  <2>12. \A h \in Goroutine : Working(h)' => worker'[h].r \in Resource /\ worker'[h].status \in Statuses
    BY <2>2, <2>4, <2>6, <2>9 DEF WorkersInv
  <2>13. \A x : x \in currentlyWorking' <=> \E h \in Goroutine : Working(h)' /\ worker'[h].r = x
    BY <1>2, <2>1, <2>4, <2>6, <2>9, SMT DEF WorkersInv
  <2>14. \A k, h \in Goroutine : Working(k)' /\ Working(h)' /\ worker'[k].r = worker'[h].r => k = h
    BY <2>4, <2>6, <2>9, <2>11, SMT DEF WorkersInv
  <2>15. WorkersInv'
    BY <2>6, <2>12, <2>13, <2>14 DEF WorkersInv
  <2>16. TasksServed'
    BY <1>2, <2>7 DEF TasksServed
  <2> QED
    BY <2>2, <2>8, <2>15, <2>16
<1> QED
  BY <1>4, <1>5, <1>6

\* Retrieve and Write: the worker stays at its task.
LEMMA TaskContinued ==
  ASSUME PoolInv, NEW g \in Goroutine, Working(g), NEW w \in Workers,
         w.at \in {"get", "write", "done"}, w.r = worker[g].r, w.status = worker[g].status,
         worker' = [worker EXCEPT ![g] = w],
         UNCHANGED <<tasks, cache, closing, pushed, workerCount, currentlyWorking>>
  PROVE  PoolInv'
<1> USE DEF PoolInv
<1>1. g \in Alive
  BY DEF Alive
<1>2. Alive' = Alive /\ Leaked' = Leaked
  BY <1>1, SameSets
<1>3. /\ worker' \in [Goroutine -> Workers] /\ worker'[g] = w
      /\ \A h \in Goroutine \ {g} : worker'[h] = worker[h]
  BY WorkerMoves
<1>4. \A h \in Goroutine : /\ Working(h)' <=> Working(h)
                           /\ worker'[h].r = worker[h].r /\ worker'[h].status = worker[h].status
  BY <1>3 DEF Working
<1>5. WorkersInv'
  BY <1>3, <1>4, SMT DEF WorkersInv
<1>6. CountInv' /\ QueueInv' /\ TasksServed'
  BY <1>2 DEF CountInv, QueueInv, TasksServed
<1> QED
  BY <1>5, <1>6

\* Done: the task is no longer worked at.
LEMMA TaskDone ==
  ASSUME PoolInv, NEW g \in Goroutine, Done(g)
  PROVE  PoolInv'
<1> USE DEF PoolInv
<1>1. /\ worker[g].at = "done" /\ currentlyWorking' = currentlyWorking \ {worker[g].r}
      /\ worker' = [worker EXCEPT ![g] = Idle]
      /\ UNCHANGED <<tasks, cache, closing, pushed, workerCount>>
  BY DEF Done, At, queueVars, handlerVars
<1>2. g \in Alive /\ Working(g)
  BY <1>1 DEF Alive, Working
<1>3. Idle \in Workers /\ Idle.at = "loop"
  BY DEF Idle, Workers, Places
<1>4. Alive' = Alive /\ Leaked' = Leaked
  BY <1>1, <1>2, <1>3, SameSets
<1>5. /\ worker' \in [Goroutine -> Workers] /\ worker'[g] = Idle
      /\ \A h \in Goroutine \ {g} : worker'[h] = worker[h]
  BY <1>1, <1>3, WorkerMoves
<1>6. ~Working(g)' /\ \A h \in Goroutine \ {g} : Working(h)' <=> Working(h)
  BY <1>3, <1>5 DEF Working
<1>7. \A h \in Goroutine \ {g} : Working(h) => worker[h].r # worker[g].r
  BY <1>2 DEF WorkersInv
<1>8. \A x : x \in currentlyWorking' <=> \E h \in Goroutine : Working(h)' /\ worker'[h].r = x
  BY <1>1, <1>5, <1>6, <1>7 DEF WorkersInv
<1>9. WorkersInv'
  BY <1>5, <1>6, <1>8 DEF WorkersInv
<1>10. CountInv' /\ QueueInv' /\ TasksServed'
  BY <1>1, <1>4 DEF CountInv, QueueInv, TasksServed
<1> QED
  BY <1>9, <1>10

---------------------------------------------------------------------------
(* Generations. *)

\* A copy of an object that is not newer than the object; the version tells.
Older(x, r) == x.version <= obj[r].version /\ (x.version = obj[r].version => x.gen = obj[r].gen)

\* The collection's element was computed from a generation of the object.
ElementInv(r) ==
  /\ element[r] \in Elements /\ element[r].desired[1] = element[r].obj.gen
  /\ element[r].obj.gen <= obj[r].gen

\* Events carry ascending generations, up to the element's and from the one
\* that is queued.
EventsInv(r) ==
  \A k \in DOMAIN events : events[k].r = r =>
    /\ events[k].deleted = FALSE /\ events[k].e.desired[1] = events[k].e.obj.gen
    /\ events[k].e.obj.gen <= element[r].obj.gen
    /\ cache[r] # nil => cache[r].gen <= events[k].e.obj.gen
    /\ \A l \in DOMAIN events : events[l].r = r /\ k <= l => events[k].e.obj.gen <= events[l].e.obj.gen

\* A queued status is of the generation it is queued with or a later one.
CachedInv(r) ==
  cache[r] # nil =>
    /\ cache[r].gen <= cache[r].status[1] /\ cache[r].status[1] <= obj[r].gen
    /\ cache[r].gen <= element[r].obj.gen

StoredInv(r) == stored[r] # nil => Older(stored[r], r)

\* So is the status a worker is at; one that writes has compared generations.
WriterInv(r) ==
  \A g \in Goroutine : Working(g) /\ worker[g].r = r =>
    /\ worker[g].gen <= worker[g].status[1] /\ worker[g].status[1] <= obj[r].gen
    /\ worker[g].at = "write" =>
         worker[g].cfg \in Objects /\ worker[g].cfg.gen = worker[g].gen /\ Older(worker[g].cfg, r)

WrittenInv(r) == obj[r].status[1] # 0 => obj[r].status[1] = obj[r].writtenAt

Generations(r) ==
  /\ ElementInv(r) /\ EventsInv(r) /\ CachedInv(r) /\ StoredInv(r) /\ WriterInv(r) /\ WrittenInv(r)

ReportingTypes ==
  /\ obj \in [Resource -> Objects \cup {nil}] /\ stored \in [Resource -> Objects \cup {nil}]
  /\ element \in [Resource -> Elements \cup {nil}] /\ dep \in [Resource -> Nat]
  /\ events \in Seq(Events)

GenerationsInv == ReportingTypes /\ \A r \in Resource : obj[r] # nil => Generations(r)

\* An object may be changed, and its status written: what was computed from it
\* before is of an older version.
LEMMA ObjectMoves ==
  ASSUME ReportingTypes, PoolInv, NEW r \in Resource, obj[r] # nil, Generations(r),
         obj'[r] \in Objects, obj'[r].gen >= obj[r].gen,
         \/ obj'[r].version > obj[r].version
         \/ obj'[r].version = obj[r].version /\ obj'[r].gen = obj[r].gen,
         WrittenInv(r)', WriterInv(r)',
         UNCHANGED <<stored, element, events, cache>>
  PROVE  Generations(r)'
<1>1. obj[r] \in Objects /\ obj[r].gen \in Nat /\ obj[r].version \in Nat
  BY DEF ReportingTypes, Objects
<1>2. obj'[r].gen \in Nat /\ obj'[r].version \in Nat
  BY DEF Objects
<1>3. ElementInv(r)'
  <2>1. element[r].obj.gen \in Nat
    BY DEF Generations, ElementInv, Elements, Objects
  <2> QED
    BY <1>1, <1>2, <2>1, SMT DEF Generations, ElementInv
<1>4. EventsInv(r)'
  BY DEF Generations, EventsInv
<1>5. CachedInv(r)'
  <2> SUFFICES ASSUME cache[r] # nil PROVE CachedInv(r)'
    BY DEF CachedInv
  <2>1. cache[r] \in Cached
    BY DEF PoolInv, QueueInv
  <2>2. cache[r].gen \in Nat /\ cache[r].status[1] \in Nat
    BY <2>1 DEF Cached, Statuses
  <2> QED
    BY <1>1, <1>2, <2>2, SMT DEF Generations, CachedInv
<1>6. StoredInv(r)'
  <2> SUFFICES ASSUME stored[r] # nil PROVE Older(stored[r], r)'
    BY DEF StoredInv
  <2>1. stored[r] \in Objects /\ stored[r].version \in Nat /\ Older(stored[r], r)
    BY DEF ReportingTypes, Objects, Generations, StoredInv
  <2> QED
    BY <1>1, <1>2, <2>1, SMT DEF Older
<1> QED
  BY <1>3, <1>4, <1>5, <1>6 DEF Generations

\* The same for the workers' copies, while they stay where they are.
LEMMA WritersBehind ==
  ASSUME ReportingTypes, PoolInv, NEW r \in Resource, obj[r] # nil, WriterInv(r),
         obj'[r] \in Objects, obj'[r].gen >= obj[r].gen,
         \/ obj'[r].version > obj[r].version
         \/ obj'[r].version = obj[r].version /\ obj'[r].gen = obj[r].gen,
         \A g \in Goroutine : Working(g)' =>
           /\ Working(g) /\ worker'[g].r = worker[g].r /\ worker'[g].gen = worker[g].gen
           /\ worker'[g].status = worker[g].status
           /\ worker'[g].at = "write" => worker[g].at = "write" /\ worker'[g].cfg = worker[g].cfg
  PROVE  WriterInv(r)'
<1>1. obj[r] \in Objects /\ obj[r].gen \in Nat /\ obj[r].version \in Nat
  BY DEF ReportingTypes, Objects
<1>2. obj'[r].gen \in Nat /\ obj'[r].version \in Nat
  BY DEF Objects
<1> SUFFICES ASSUME NEW g \in Goroutine, Working(g)', worker'[g].r = r
             PROVE  /\ worker'[g].gen <= worker'[g].status[1] /\ worker'[g].status[1] <= obj'[r].gen
                    /\ worker'[g].at = "write" =>
                         /\ worker'[g].cfg \in Objects /\ worker'[g].cfg.gen = worker'[g].gen
                         /\ Older(worker[g].cfg, r)'
  BY DEF WriterInv
<1>3. Working(g) /\ worker[g].r = r /\ worker[g].status \in Statuses
  BY DEF PoolInv, WorkersInv
<1>4. worker[g].status[1] \in Nat
  BY <1>3 DEF Statuses
<1>5. worker'[g].gen <= worker'[g].status[1] /\ worker'[g].status[1] <= obj'[r].gen
  BY <1>1, <1>2, <1>3, <1>4, SMT DEF WriterInv
<1>6. ASSUME worker'[g].at = "write"
      PROVE  /\ worker'[g].cfg \in Objects /\ worker'[g].cfg.gen = worker'[g].gen
             /\ Older(worker[g].cfg, r)'
  <2>1. /\ worker[g].at = "write" /\ worker'[g].cfg = worker[g].cfg
        /\ worker[g].cfg \in Objects /\ worker[g].cfg.gen = worker[g].gen /\ Older(worker[g].cfg, r)
    BY <1>3, <1>6 DEF WriterInv
  <2>2. worker[g].cfg.version \in Nat
    BY <2>1 DEF Objects
  <2> QED
    BY <1>1, <1>2, <1>3, <2>1, <2>2, SMT DEF Older
<1> QED
  BY <1>5, <1>6

\* What is said of a resource follows from what is known of it alone.
LEMMA GenerationsKept ==
  ASSUME NEW r \in Resource, Generations(r),
         obj'[r] = obj[r], stored'[r] = stored[r], element'[r] = element[r], cache'[r] = cache[r],
         EventsInv(r)', WriterInv(r)'
  PROVE  Generations(r)'
BY DEF Generations, ElementInv, CachedInv, StoredInv, WrittenInv, Older

\* Users change an object or what else its status depends on.
LEMMA ObjectChanges ==
  ASSUME GenerationsInv, PoolInv, NEW x \in Resource, Change(x)
  PROVE  GenerationsInv'
<1> USE DEF GenerationsInv
<1>1. UNCHANGED <<stored, element, events, cache, worker>> /\ obj[x] # nil
  BY DEF Change, handlerVars, queueVars, poolVars
<1>2. obj[x] \in Objects /\ obj[x].gen \in Nat /\ obj[x].version \in Nat /\ obj \in [Resource -> Objects \cup {nil}]
  BY <1>1 DEF ReportingTypes, Objects
<1>3. \/ obj' = [obj EXCEPT ![x] = [[obj[x] EXCEPT !.gen = obj[x].gen + 1]
                                            EXCEPT !.version = obj[x].version + 1]] /\ dep' = dep
      \/ obj' = obj /\ dep' = [dep EXCEPT ![x] = dep[x] + 1]
      \/ obj' = [obj EXCEPT ![x] = nil] /\ dep' = dep
  BY <1>2 DEF Change, Objects
<1>4. PICK o : o = [[obj[x] EXCEPT !.gen = obj[x].gen + 1] EXCEPT !.version = obj[x].version + 1]
  OBVIOUS
<1>5. /\ o \in Objects /\ o.gen = obj[x].gen + 1 /\ o.version = obj[x].version + 1
      /\ o.status = obj[x].status /\ o.writtenAt = obj[x].writtenAt
  <2>1. PICK m : m = [obj[x] EXCEPT !.gen = obj[x].gen + 1]
    OBVIOUS
  <2>2. /\ m \in Objects /\ m.gen = obj[x].gen + 1
        /\ m.status = obj[x].status /\ m.writtenAt = obj[x].writtenAt
    BY <1>2, <2>1, SMT DEF Objects
  <2>3. PICK v : v = obj[x].version + 1
    OBVIOUS
  <2>4. o = [m EXCEPT !.version = v] /\ v \in Nat
    BY <1>2, <1>4, <2>1, <2>3, SMT
  <2>5. /\ o \in Objects /\ o.gen = m.gen /\ o.version = v
        /\ o.status = m.status /\ o.writtenAt = m.writtenAt
    BY <2>2, <2>4 DEF Objects
  <2> QED
    BY <2>2, <2>3, <2>5
<1>6. ReportingTypes'
  <2>1. obj' \in [Resource -> Objects \cup {nil}]
    BY <1>2, <1>3, <1>4, <1>5
  <2>2. dep' \in [Resource -> Nat]
    BY <1>3, SMT DEF ReportingTypes
  <2> QED
    BY <1>1, <2>1, <2>2 DEF ReportingTypes
<1>7. \A g \in Goroutine : Working(g)' <=> Working(g)
  BY <1>1 DEF Working
<1>8. ASSUME NEW r \in Resource, obj'[r] # nil, obj'[r] = obj[r]
      PROVE  Generations(r)'
  <2>1. Generations(r)
    BY <1>8
  <2>2. EventsInv(r)'
    BY <1>1, <2>1, ZenonT(60) DEF Generations, EventsInv
  <2>3. WriterInv(r)'
    BY <1>1, <1>7, <1>8, <2>1 DEF Generations, WriterInv, Older
  <2> QED
    BY <1>1, <1>8, <2>1, <2>2, <2>3, GenerationsKept
<1>9. ASSUME obj'[x] = o
      PROVE  Generations(x)'
  <2>1. Generations(x)
    BY <1>1
  <2>2. WrittenInv(x)'
    BY <1>5, <1>9, <2>1 DEF Generations, WrittenInv
  <2>3. obj'[x] \in Objects /\ obj'[x].gen >= obj[x].gen /\ obj'[x].version > obj[x].version
    BY <1>2, <1>5, <1>9, SMT
  <2>4. WriterInv(x)
    BY <2>1 DEF Generations
  <2>5. WriterInv(x)'
    BY <1>1, <1>7, <2>3, <2>4, WritersBehind
  <2> QED
    BY <1>1, <2>1, <2>2, <2>3, <2>5, ObjectMoves
<1>10. ASSUME NEW r \in Resource, obj'[r] # nil
       PROVE  obj'[r] = obj[r] \/ (r = x /\ obj'[x] = o)
  BY <1>2, <1>3, <1>4, <1>10
<1> QED
  BY <1>6, <1>8, <1>9, <1>10

\* The store the workers read catches up.
LEMMA StoreUpdated ==
  ASSUME GenerationsInv, NEW x \in Resource, UpdateStore(x)
  PROVE  GenerationsInv'
<1> USE DEF GenerationsInv
<1>1. /\ UNCHANGED <<obj, dep, element, events, cache, worker>>
      /\ stored' = [stored EXCEPT ![x] = obj[x]]
  BY DEF UpdateStore, handlerVars, queueVars, poolVars, worldVars
<1>2. ReportingTypes'
  BY <1>1 DEF ReportingTypes
<1>3. ASSUME NEW r \in Resource, obj'[r] # nil
      PROVE  Generations(r)'
  <2>1. Generations(r)
    BY <1>1, <1>3
  <2>2. /\ ElementInv(r)' /\ EventsInv(r)' /\ CachedInv(r)' /\ WrittenInv(r)'
    BY <1>1, <2>1, ZenonT(60) DEF Generations, ElementInv, EventsInv, CachedInv, WrittenInv
  <2>3. WriterInv(r)'
    BY <1>1, <2>1 DEF Generations, WriterInv, Working, Older
  <2>4. StoredInv(r)'
    <3>1. CASE r = x
      <4>1. obj[x].version \in Nat /\ stored'[x] = obj[x]
        BY <1>1, <1>3, <3>1 DEF ReportingTypes, Objects
      <4> QED
        BY <1>1, <3>1, <4>1, SMT DEF StoredInv, Older
    <3>2. CASE r # x
      <4>1. stored'[r] = stored[r]
        BY <1>1, <3>2 DEF ReportingTypes
      <4> QED
        BY <1>1, <2>1, <4>1 DEF Generations, StoredInv, Older
    <3> QED
      BY <3>1, <3>2
  <2> QED
    BY <2>2, <2>3, <2>4 DEF Generations
<1> QED
  BY <1>2, <1>3

\* The collection recomputes an element; while the object is there its
\* generation is the newest so far.
LEMMA ElementRecomputed ==
  ASSUME GenerationsInv, PoolInv, NEW x \in Resource, Recompute(x)
  PROVE  GenerationsInv'
<1> USE DEF GenerationsInv
<1>1. UNCHANGED <<obj, dep, stored, cache, worker>>
  BY DEF Recompute, queueVars, poolVars, worldVars
<1>2. PICK e : e = IF obj[x] = nil THEN nil ELSE [obj |-> obj[x], desired |-> <<obj[x].gen, dep[x]>>]
  OBVIOUS
<1>3. /\ e # element[x] /\ element' = [element EXCEPT ![x] = e]
      /\ \/ events' = events
         \/ e = nil /\ events' = Append(events, [r |-> x, e |-> element[x], deleted |-> TRUE])
         \/ e # nil /\ events' = Append(events, [r |-> x, e |-> e, deleted |-> FALSE])
  BY <1>2 DEF Recompute
<1>4. obj[x] # nil => /\ e \in Elements /\ e.obj = obj[x] /\ e.desired[1] = obj[x].gen
                      /\ obj[x].gen \in Nat
  BY <1>2, SMT DEF ReportingTypes, Elements, Objects, Statuses
<1>5. obj[x] = nil => e = nil
  BY <1>2
<1>6. events \in Seq(Events) /\ element \in [Resource -> Elements \cup {nil}]
  BY DEF ReportingTypes
<1>7. obj[x] # nil <=> e # nil
  BY <1>4, <1>5, ReportingAssumption
<1>8. ReportingTypes' /\ element'[x] = e /\ \A r \in Resource \ {x} : element'[r] = element[r]
  <2>1. e \in Elements \cup {nil}
    BY <1>4, <1>5
  <2>2. /\ element' \in [Resource -> Elements \cup {nil}] /\ element'[x] = e
        /\ \A r \in Resource \ {x} : element'[r] = element[r]
    BY <1>3, <1>6, <2>1
  <2>3. e = nil => [r |-> x, e |-> element[x], deleted |-> TRUE] \in Events
    BY <1>3, <1>6 DEF Events
  <2>4. e # nil => [r |-> x, e |-> e, deleted |-> FALSE] \in Events
    BY <2>1 DEF Events
  <2>5. events' \in Seq(Events)
    BY <1>3, <1>6, <2>3, <2>4, SMT
  <2> QED
    BY <1>1, <2>2, <2>5 DEF ReportingTypes
<1>9. \/ events' = events
      \/ /\ Len(events) \in Nat /\ DOMAIN events = 1 .. Len(events)
         /\ DOMAIN events' = 1 .. Len(events) + 1 /\ events'[Len(events) + 1].r = x
         /\ e # nil => /\ events'[Len(events) + 1].e = e
                       /\ events'[Len(events) + 1].deleted = FALSE
         /\ \A k \in DOMAIN events : events'[k] = events[k]
  <2>1. ASSUME NEW v, events' = Append(events, v)
        PROVE  /\ Len(events) \in Nat /\ DOMAIN events = 1 .. Len(events)
               /\ DOMAIN events' = 1 .. Len(events) + 1 /\ events'[Len(events) + 1] = v
               /\ \A k \in DOMAIN events : events'[k] = events[k]
    BY <1>6, <2>1, SMT
  <2>2. CASE events' = events
    BY <2>2
  <2>3. CASE events' # events
    <3>1. PICK v : /\ events' = Append(events, v) /\ v.r = x
                   /\ e # nil => v.e = e /\ v.deleted = FALSE
      <4>1. \A w : w = [r |-> x, e |-> element[x], deleted |-> TRUE] => w.r = x
        BY SMT
      <4>2. \A w : w = [r |-> x, e |-> e, deleted |-> FALSE] =>
                     w.r = x /\ w.e = e /\ w.deleted = FALSE
        BY SMT
      <4>3. \E w : /\ events' = Append(events, w)
                   /\ \/ e = nil /\ w = [r |-> x, e |-> element[x], deleted |-> TRUE]
                      \/ w = [r |-> x, e |-> e, deleted |-> FALSE]
        BY <1>3, <2>3
      <4> QED
        BY <4>1, <4>2, <4>3
    <3>2. /\ Len(events) \in Nat /\ DOMAIN events = 1 .. Len(events)
          /\ DOMAIN events' = 1 .. Len(events) + 1 /\ events'[Len(events) + 1] = v
          /\ \A k \in DOMAIN events : events'[k] = events[k]
      BY <2>1, <3>1
    <3>3. \A w : w = v => w.r = x /\ (e # nil => w.e = e /\ w.deleted = FALSE)
      BY <3>1
    <3> QED
      BY <3>2, <3>3
  <2> QED
    BY <2>2, <2>3
<1>10. ASSUME NEW r \in Resource \ {x}, obj'[r] # nil
       PROVE  Generations(r)'
  <2>1. Generations(r)
    BY <1>1, <1>10
  <2>2. EventsInv(r)'
    <3>1. EventsInv(r)
      BY <2>1 DEF Generations
    <3>2. UNCHANGED cache /\ element'[r] = element[r]
      BY <1>1, <1>8
    <3>3. \A k \in DOMAIN events' : events'[k].r = r => k \in DOMAIN events /\ events'[k] = events[k]
      BY <1>9, SMT
    <3> QED
      BY <3>1, <3>2, <3>3 DEF EventsInv
  <2>3. WriterInv(r)'
    BY <1>1, <2>1 DEF Generations, WriterInv, Working, Older
  <2> QED
    BY <1>1, <1>8, <2>1, <2>2, <2>3, GenerationsKept
<1>11. ASSUME obj'[x] # nil
       PROVE  Generations(x)'
  <2>1. Generations(x) /\ obj[x] # nil
    BY <1>1, <1>11
  <2>2. /\ e \in Elements /\ e.obj.gen = obj[x].gen /\ e.desired[1] = obj[x].gen /\ e # nil
        /\ obj[x].gen \in Nat
    BY <1>4, <1>7, <2>1
  <2>3. element[x].obj.gen \in Nat /\ element[x].obj.gen <= obj[x].gen
    BY <2>1 DEF Generations, ElementInv, Elements, Objects
  <2>4. ElementInv(x)'
    <3>1. e.obj.gen <= obj[x].gen
      BY <2>2, SMT
    <3> QED
      BY <1>1, <1>8, <2>2, <3>1 DEF ElementInv
  <2>5. CachedInv(x)'
    <3> SUFFICES ASSUME cache[x] # nil PROVE CachedInv(x)'
      BY <1>1 DEF CachedInv
    <3>1. cache[x] \in Cached /\ cache[x].gen \in Nat
      BY DEF PoolInv, QueueInv, Cached
    <3> QED
      BY <1>1, <1>8, <2>1, <2>2, <2>3, <3>1, SMT DEF Generations, CachedInv
  <2>6. \A k \in DOMAIN events : events[k].e.obj.gen \in Nat
    <3>1. \A k \in DOMAIN events : events[k] \in Events
      BY <1>6, SMT
    <3>2. \A ev \in Events : ev.e.obj.gen \in Nat
      BY DEF Events, Elements, Objects
    <3> QED
      BY <3>1, <3>2
  <2>7. \A k \in DOMAIN events : events[k].r = x => events[k].e.obj.gen <= obj[x].gen
    BY <2>1, <2>2, <2>3, <2>6, SMT DEF Generations, EventsInv
  <2>8. cache[x] # nil => cache[x].gen <= obj[x].gen
    <3> SUFFICES ASSUME cache[x] # nil PROVE cache[x].gen <= obj[x].gen
      OBVIOUS
    <3>1. cache[x] \in Cached /\ cache[x].gen \in Nat /\ cache[x].gen <= element[x].obj.gen
      BY <2>1 DEF PoolInv, QueueInv, Cached, Generations, CachedInv
    <3> QED
      BY <2>2, <2>3, <3>1, SMT
  <2>9. EventsInv(x)'
    <3>1. EventsInv(x) /\ element'[x].obj.gen = obj[x].gen /\ cache' = cache
      BY <1>1, <1>8, <2>1, <2>2 DEF Generations
    <3>2. CASE events' = events
      BY <2>7, <3>1, <3>2 DEF EventsInv
    <3>3. CASE events' # events
      <4>1. PICK m \in Nat : m = Len(events) + 1 /\ Len(events) \in Nat /\ DOMAIN events = 1 .. m - 1
        BY <1>9, <3>3, SMT
      <4>2. /\ DOMAIN events' = 1 .. m /\ events'[m].r = x /\ events'[m].e = e
            /\ events'[m].deleted = FALSE
            /\ \A k \in DOMAIN events : events'[k] = events[k]
        BY <1>9, <2>2, <3>3, <4>1
      <4> SUFFICES ASSUME NEW k \in DOMAIN events', events'[k].r = x
                   PROVE  /\ events'[k].deleted = FALSE
                          /\ events'[k].e.desired[1] = events'[k].e.obj.gen
                          /\ events'[k].e.obj.gen <= element'[x].obj.gen
                          /\ cache'[x] # nil => cache'[x].gen <= events'[k].e.obj.gen
                          /\ \A l \in DOMAIN events' : events'[l].r = x /\ k <= l =>
                               events'[k].e.obj.gen <= events'[l].e.obj.gen
        BY DEF EventsInv
      <4>3. CASE k = m
        BY <2>2, <2>8, <3>1, <4>1, <4>2, <4>3, SMT
      <4>4. CASE k # m
        <5>1. k \in DOMAIN events /\ events'[k] = events[k]
          BY <4>1, <4>2, <4>4, SMT
        <5>2. ASSUME NEW l \in DOMAIN events', events'[l].r = x, k <= l
              PROVE  events'[k].e.obj.gen <= events'[l].e.obj.gen
          <6>1. CASE l = m
            BY <2>2, <2>7, <4>2, <5>1, <6>1
          <6>2. CASE l # m
            <7>1. l \in DOMAIN events /\ events'[l] = events[l]
              BY <4>1, <4>2, <6>2, SMT
            <7> QED
              BY <3>1, <5>1, <5>2, <7>1 DEF EventsInv
          <6> QED
            BY <6>1, <6>2
        <5>3. /\ events'[k].deleted = FALSE /\ events'[k].e.desired[1] = events'[k].e.obj.gen
              /\ cache'[x] # nil => cache'[x].gen <= events'[k].e.obj.gen
          BY <3>1, <5>1 DEF EventsInv
        <5>4. events'[k].e.obj.gen <= element'[x].obj.gen
          BY <2>7, <3>1, <5>1
        <5> QED
          BY <5>2, <5>3, <5>4
      <4> QED
        BY <4>3, <4>4
    <3> QED
      BY <3>2, <3>3
  <2>10. WriterInv(x)' /\ StoredInv(x)' /\ WrittenInv(x)'
    BY <1>1, <2>1 DEF Generations, WriterInv, StoredInv, WrittenInv, Working, Older
  <2> QED
    BY <2>4, <2>5, <2>9, <2>10 DEF Generations
<1> QED
  BY <1>8, <1>10, <1>11

\* The handler is registered and handed every element, or removed.
LEMMA HandlerMoves ==
  ASSUME GenerationsInv, PoolInv, SetQueue \/ UnsetQueue
  PROVE  GenerationsInv'
<1> USE DEF GenerationsInv
<1>1. UNCHANGED <<obj, dep, stored, element, cache, worker>>
  BY DEF SetQueue, UnsetQueue, queueVars, poolVars, worldVars
<1> DEFINE there == {r \in Resource : element[r] # nil}
<1>2. \/ events' = <<>>
      \/ \E order \in [1..Cardinality(there) -> there] :
           /\ \A k, l \in DOMAIN order : order[k] = order[l] => k = l
           /\ events' = [k \in DOMAIN order |->
                           [r |-> order[k], e |-> element[order[k]], deleted |-> FALSE]]
  BY DEF SetQueue, UnsetQueue
<1>3. Cardinality(there) \in Nat
  <2>1. there \subseteq Resource
    OBVIOUS
  <2>2. IsFiniteSet(there)
    BY <2>1, FS_Subset, ReportingAssumption
  <2> QED
    BY <2>2, FS_CardinalityType
<1>4. \A r \in there : r \in Resource /\ element[r] \in Elements
  BY DEF ReportingTypes
<1> HIDE DEF there
<1>5. /\ events' \in Seq(Events)
      /\ \A k \in DOMAIN events' : events'[k].e = element[events'[k].r] /\ events'[k].deleted = FALSE
      /\ \A k, l \in DOMAIN events' : events'[k].r = events'[l].r => k = l
  <2>1. CASE events' = <<>>
    BY <2>1, SMT
  <2>2. CASE events' # <<>>
    <3>1. PICK order \in [1..Cardinality(there) -> there] :
            /\ \A k, l \in DOMAIN order : order[k] = order[l] => k = l
            /\ events' = [k \in DOMAIN order |->
                            [r |-> order[k], e |-> element[order[k]], deleted |-> FALSE]]
      BY <1>2, <2>2
    <3>2. \A k \in 1..Cardinality(there) : order[k] \in there
      BY <3>1
    <3>3. DOMAIN events' = 1..Cardinality(there) /\ DOMAIN order = 1..Cardinality(there)
      BY <3>1
    <3>4. \A k \in 1..Cardinality(there) :
            /\ events'[k] = [r |-> order[k], e |-> element[order[k]], deleted |-> FALSE]
            /\ events'[k].r = order[k]
      BY <3>1, <3>3
    <3>5. \A k \in 1..Cardinality(there) : events'[k] \in Events
      <4> SUFFICES ASSUME NEW k \in 1..Cardinality(there) PROVE events'[k] \in Events
        OBVIOUS
      <4>1. order[k] \in Resource /\ element[order[k]] \in Elements
        BY <1>4, <3>2
      <4>2. [r |-> order[k], e |-> element[order[k]], deleted |-> FALSE] \in Events
        BY <4>1 DEF Events
      <4> QED
        BY <3>4, <4>2
    <3>6. events' \in Seq(Events)
      <4>1. events' = [k \in 1..Cardinality(there) |-> events'[k]]
        BY <3>1, <3>3
      <4> QED
        BY <1>3, <3>5, <4>1, SMT
    <3> QED
      BY <3>1, <3>3, <3>4, <3>6
  <2> QED
    BY <2>1, <2>2
<1>6. ReportingTypes'
  BY <1>1, <1>5 DEF ReportingTypes
<1>7. ASSUME NEW r \in Resource, obj'[r] # nil
      PROVE  Generations(r)'
  <2>1. Generations(r)
    BY <1>1, <1>7
  <2>2. /\ element[r].desired[1] = element[r].obj.gen /\ element[r].obj.gen \in Nat
    BY <2>1 DEF Generations, ElementInv, Elements, Objects
  <2>3. cache[r] # nil => cache[r].gen <= element[r].obj.gen
    BY <2>1 DEF Generations, CachedInv
  <2>4. EventsInv(r)'
    BY <1>1, <1>5, <2>2, <2>3, SMT DEF EventsInv
  <2>5. WriterInv(r)'
    BY <1>1, <2>1 DEF Generations, WriterInv, Working, Older
  <2> QED
    BY <1>1, <2>1, <2>4, <2>5, GenerationsKept
<1> QED
  BY <1>6, <1>7

\* The handler queues the status of the first event; a resource that is queued
\* keeps its generation and gets a status that is not older.
LEMMA EventHandled ==
  ASSUME GenerationsInv, PoolInv, RegisterStatus
  PROVE  GenerationsInv' /\ QueueInv'
<1> USE DEF GenerationsInv
<1>1. UNCHANGED <<obj, dep, stored, element, worker>> /\ events # <<>> /\ events' = Tail(events)
  BY DEF RegisterStatus, poolVars, worldVars
<1>2. PICK ev : ev = Head(events)
  OBVIOUS
<1>3. events \in Seq(Events)
  BY DEF ReportingTypes
<1>4. /\ ev = events[1] /\ ev \in Events /\ 1 \in DOMAIN events
      /\ Tail(events) \in Seq(Events)
      /\ \A k \in DOMAIN Tail(events) : k + 1 \in DOMAIN events /\ Tail(events)[k] = events[k + 1]
                                        /\ k \in Nat /\ k >= 1
  BY <1>1, <1>2, <1>3, SMT
<1>5. PICK st : st = IF ev.deleted THEN <<0, 0>> ELSE ev.e.desired
  OBVIOUS
<1>6. /\ ev.r \in Resource /\ ev.e.obj.gen \in Nat /\ ev.e.desired \in Statuses /\ st \in Statuses
  BY <1>4, <1>5 DEF Events, Elements, Objects, Statuses
<1>7. UNCHANGED <<tasks, cache>> \/ Push(ev.r, ev.e.obj.gen, st)
  BY <1>2, <1>5 DEF RegisterStatus, queueVars
<1>8. QueueInv /\ QueueInv'
  <2>1. QueueInv
    BY DEF PoolInv
  <2>2. CASE UNCHANGED <<tasks, cache>>
    BY <2>1, <2>2 DEF QueueInv
  <2>3. CASE Push(ev.r, ev.e.obj.gen, st)
    BY <1>6, <2>1, <2>3, TaskPushed
  <2> QED
    BY <1>7, <2>1, <2>2, <2>3
<1>9. ReportingTypes'
  BY <1>1, <1>4 DEF ReportingTypes
<1>10. cache \in [Resource -> Cached \cup {nil}]
  BY <1>8 DEF QueueInv
<1>11. ASSUME NEW r \in Resource, obj'[r] # nil, cache'[r] = cache[r]
       PROVE  Generations(r)'
  <2>1. Generations(r)
    BY <1>1, <1>11
  <2>2. EventsInv(r)'
    <3>1. EventsInv(r) /\ element'[r] = element[r] /\ events' = Tail(events)
      BY <1>1, <2>1 DEF Generations
    <3> QED
      BY <1>4, <1>11, <3>1, SMT DEF EventsInv
  <2>3. WriterInv(r)'
    BY <1>1, <2>1 DEF Generations, WriterInv, Working, Older
  <2> QED
    BY <1>1, <1>11, <2>1, <2>2, <2>3, GenerationsKept
<1>12. ASSUME Push(ev.r, ev.e.obj.gen, st), obj'[ev.r] # nil
       PROVE  Generations(ev.r)'
  <2>1. Generations(ev.r)
    BY <1>1, <1>6, <1>12
  <2>2. EventsInv(ev.r)
    BY <2>1 DEF Generations
  <2>3. /\ ev.deleted = FALSE /\ ev.e.desired[1] = ev.e.obj.gen
        /\ ev.e.obj.gen <= element[ev.r].obj.gen
        /\ cache[ev.r] # nil => cache[ev.r].gen <= ev.e.obj.gen
        /\ \A k \in DOMAIN events : events[k].r = ev.r => ev.e.obj.gen <= events[k].e.obj.gen
    BY <1>3, <1>4, <2>2, SMT DEF EventsInv
  <2>4. st = ev.e.desired /\ st[1] = ev.e.obj.gen
    BY <1>5, <2>3
  <2>5. element[ev.r].obj.gen \in Nat /\ element[ev.r].obj.gen <= obj[ev.r].gen /\ obj[ev.r].gen \in Nat
    BY <1>1, <1>6, <1>12, <2>1 DEF Generations, ElementInv, Elements, Objects, ReportingTypes
  <2>6. PICK n : n = IF cache[ev.r] # nil THEN cache[ev.r].gen ELSE ev.e.obj.gen
    OBVIOUS
  <2>7. n \in Nat /\ n <= ev.e.obj.gen
    BY <1>6, <1>10, <2>3, <2>6, SMT DEF Cached
  <2>8. cache'[ev.r].gen = n /\ cache'[ev.r].status = st
    <3>1. CASE cache[ev.r] # nil
      <4>1. cache' = [cache EXCEPT ![ev.r] = [cache[ev.r] EXCEPT !.status = st]]
        BY <1>12, <3>1 DEF Push
      <4>2. cache[ev.r] \in Cached
        BY <1>6, <1>10, <3>1
      <4>3. cache'[ev.r] = [cache[ev.r] EXCEPT !.status = st]
        BY <1>6, <1>10, <4>1
      <4> QED
        BY <2>6, <3>1, <4>2, <4>3 DEF Cached
    <3>2. CASE cache[ev.r] = nil
      <4>1. cache'[ev.r] = [gen |-> ev.e.obj.gen, status |-> st]
        BY <1>6, <1>10, <1>12, <3>2 DEF Push
      <4> QED
        BY <2>6, <3>2, <4>1, SMT
    <3> QED
      BY <3>1, <3>2
  <2>9. CachedInv(ev.r)'
    <3>1. PICK a, b, c \in Nat : a = ev.e.obj.gen /\ b = element[ev.r].obj.gen /\ c = obj[ev.r].gen
      BY <1>6, <2>5
    <3>2. n <= a /\ a <= b /\ b <= c
      BY <2>3, <2>5, <2>7, <3>1
    <3>3. a <= c /\ n <= b
      BY <2>7, <3>1, <3>2, SMT
    <3>4. n <= st[1] /\ st[1] <= obj[ev.r].gen /\ n <= element[ev.r].obj.gen
      BY <2>4, <3>1, <3>2, <3>3
    <3> QED
      BY <1>1, <2>8, <3>4 DEF CachedInv
  <2>10. EventsInv(ev.r)'
    <3>1. \A k \in DOMAIN events : events[k].r = ev.r => n <= events[k].e.obj.gen
      <4>1. \A k \in DOMAIN events : events[k].e.obj.gen \in Nat
        <5>1. \A k \in DOMAIN events : events[k] \in Events
          BY <1>3, SMT
        <5>2. \A x \in Events : x.e.obj.gen \in Nat
          BY DEF Events, Elements, Objects
        <5> QED
          BY <5>1, <5>2
      <4> QED
        BY <1>6, <2>3, <2>7, <4>1, SMT
    <3>2. element' = element /\ events' = Tail(events)
      BY <1>1
    <3> QED
      BY <1>4, <2>2, <2>8, <3>1, <3>2, SMT DEF EventsInv
  <2>11. ElementInv(ev.r)' /\ StoredInv(ev.r)' /\ WrittenInv(ev.r)'
    BY <1>1, <2>1 DEF Generations, ElementInv, StoredInv, WrittenInv, Older
  <2>12. WriterInv(ev.r)'
    BY <1>1, <2>1 DEF Generations, WriterInv, Working, Older
  <2> QED
    BY <2>9, <2>10, <2>11, <2>12 DEF Generations
<1>13. ASSUME Push(ev.r, ev.e.obj.gen, st), NEW r \in Resource \ {ev.r}
       PROVE  cache'[r] = cache[r]
  BY <1>6, <1>10, <1>13 DEF Push
<1> QED
  BY <1>7, <1>8, <1>9, <1>11, <1>12, <1>13

\* Steps of the workers that leave the objects alone: a task that is taken
\* carries what was queued, one that writes has found its generation stored.
LEMMA WorkerSteps ==
  ASSUME GenerationsInv, PoolInv,
         NEW g \in Goroutine, Take(g) \/ Retrieve(g) \/ Done(g)
  PROVE  GenerationsInv'
<1> USE DEF GenerationsInv
<1>1. UNCHANGED <<obj, dep, stored, element, events>>
  BY DEF Take, Retrieve, Done, handlerVars, worldVars
<1>2. ReportingTypes'
  BY <1>1 DEF ReportingTypes
<1>3. /\ worker \in [Goroutine -> Workers] /\ cache \in [Resource -> Cached \cup {nil}]
      /\ tasks \in Seq(Resource) /\ QueueInv
  BY DEF PoolInv, WorkersInv, QueueInv
<1>4. \A h \in Goroutine \ {g} : worker'[h] = worker[h]
  BY <1>3 DEF Take, Retrieve, Done
<1>5. \A r \in Resource : cache'[r] = nil \/ cache'[r] = cache[r]
  BY <1>3 DEF Take, Retrieve, Done, queueVars
<1> SUFFICES ASSUME NEW r \in Resource, obj'[r] # nil
             PROVE  Generations(r)'
  BY <1>2
<1>6. Generations(r) /\ obj[r] # nil
  BY <1>1, ZenonT(60)
<1>7. ElementInv(r)' /\ EventsInv(r)' /\ CachedInv(r)' /\ StoredInv(r)' /\ WrittenInv(r)'
  BY <1>1, <1>5, <1>6, SMT
     DEF Generations, ElementInv, EventsInv, CachedInv, StoredInv, WrittenInv, Older
<1>8. ASSUME Working(g)', worker'[g].r = r
      PROVE  /\ worker'[g].gen <= worker'[g].status[1] /\ worker'[g].status[1] <= obj[r].gen
             /\ worker'[g].at = "write" =>
                  /\ worker'[g].cfg \in Objects /\ worker'[g].cfg.gen = worker'[g].gen
                  /\ Older(worker'[g].cfg, r)
  <2>1. CASE Take(g)
    <3>1. \E i \in DOMAIN tasks :
            worker' = [worker EXCEPT ![g] = [Idle EXCEPT !.at = "get", !.r = tasks[i],
                                                !.gen = cache[tasks[i]].gen,
                                                !.status = cache[tasks[i]].status]]
      <4>1. ~(closing \/ tasks = <<>>)
        BY <1>3, <1>8, <2>1 DEF Take, Working, Idle
      <4>2. \E i \in DOMAIN tasks : Pop(i)
        BY <1>3, <1>8, <2>1, <4>1 DEF Take, Working, Idle
      <4> QED
        BY <2>1, <4>1, <4>2 DEF Take
    <3>2. PICK i \in DOMAIN tasks :
            worker' = [worker EXCEPT ![g] = [Idle EXCEPT !.at = "get", !.r = tasks[i],
                                                !.gen = cache[tasks[i]].gen,
                                                !.status = cache[tasks[i]].status]]
      BY <3>1
    <3>3. /\ worker'[g].at = "get" /\ worker'[g].r = tasks[i]
          /\ worker'[g].gen = cache[tasks[i]].gen /\ worker'[g].status = cache[tasks[i]].status
      BY <1>3, <3>2 DEF Idle
    <3>4. tasks[i] = r /\ cache[r] # nil
      BY <1>3, <1>8, <3>3 DEF QueueInv
    <3> QED
      BY <1>6, <3>3, <3>4 DEF Generations, CachedInv
  <2>2. CASE Retrieve(g)
    <3>1. worker[g].at = "get" /\ worker[g] \in Workers
      BY <1>3, <2>2 DEF Retrieve, At
    <3>2. PICK p : p = IF (IF stored[worker[g].r] = nil THEN FALSE
                           ELSE SameGeneration(stored[worker[g].r], worker[g].gen))
                       THEN "write" ELSE "done"
      OBVIOUS
    <3>3. worker' = [worker EXCEPT ![g] = [[worker[g] EXCEPT !.at = p] EXCEPT !.cfg = stored[worker[g].r]]]
      BY <2>2, <3>2 DEF Retrieve
    <3>4. PICK w : w = [[worker[g] EXCEPT !.at = p] EXCEPT !.cfg = stored[worker[g].r]]
      OBVIOUS
    <3>5. /\ w.at = p /\ w.cfg = stored[worker[g].r] /\ w.r = worker[g].r
          /\ w.gen = worker[g].gen /\ w.status = worker[g].status
      BY <3>1, <3>4 DEF Workers
    <3>6. worker'[g] = w
      BY <1>3, <3>3, <3>4
    <3>7. worker[g].r = r /\ Working(g)
      BY <1>8, <3>1, <3>5, <3>6 DEF Working
    <3>8. worker[g].gen <= worker[g].status[1] /\ worker[g].status[1] <= obj[r].gen
      BY <1>6, <3>7 DEF Generations, WriterInv
    <3>9. p = "write" => stored[r] # nil /\ stored[r].gen = worker[g].gen
      BY <3>2, <3>7 DEF SameGeneration
    <3>10. stored[r] # nil => stored[r] \in Objects /\ Older(stored[r], r)
      BY <1>6 DEF ReportingTypes, Generations, StoredInv
    <3> QED
      BY <3>5, <3>6, <3>7, <3>8, <3>9, <3>10
  <2>3. CASE Done(g)
    BY <1>3, <1>8, <2>3 DEF Done, Working, Idle
  <2> QED
    BY <2>1, <2>2, <2>3
<1>9. WriterInv(r)'
  <2>1. \A h \in Goroutine \ {g} : Working(h)' <=> Working(h)
    BY <1>4 DEF Working
  <2>2. WriterInv(r)
    BY <1>6 DEF Generations
  <2> QED
    BY <1>1, <1>4, <1>8, <2>1, <2>2, ZenonT(60) DEF WriterInv, Older
<1> QED
  BY <1>7, <1>9 DEF Generations

\* A worker writes: the API server takes the status when the object still has
\* the version that was read, and so the generation that was compared.
LEMMA StatusWritten ==
  ASSUME GenerationsInv, PoolInv, NEW g \in Goroutine, NEW failed, Write(g, failed)
  PROVE  GenerationsInv' /\ PoolInv'
<1> USE DEF GenerationsInv
<1>1. /\ UNCHANGED <<dep, stored, element, events, cache, tasks, closing, pushed, workerCount, currentlyWorking>>
      /\ worker[g].at = "write"
  BY DEF Write, handlerVars, queueVars, At
<1>2. /\ worker \in [Goroutine -> Workers] /\ worker[g] \in Workers /\ Working(g)
      /\ worker[g].r \in Resource /\ worker[g].status \in Statuses
  BY <1>1 DEF PoolInv, WorkersInv, Working
<1>3. PICK w : w = [worker[g] EXCEPT !.at = "done"]
  OBVIOUS
<1>4. /\ w \in Workers /\ w.at = "done" /\ w.r = worker[g].r /\ w.gen = worker[g].gen
      /\ w.status = worker[g].status
  BY <1>2, <1>3 DEF Workers, Places
<1>5. worker' = [worker EXCEPT ![g] = w]
  BY <1>3 DEF Write
<1>6. PoolInv'
  BY <1>1, <1>2, <1>4, <1>5, TaskContinued
<1>7. \A h \in Goroutine : Working(h)' =>
        /\ Working(h) /\ worker'[h].r = worker[h].r /\ worker'[h].gen = worker[h].gen
        /\ worker'[h].status = worker[h].status
        /\ worker'[h].at = "write" => worker[h].at = "write" /\ worker'[h].cfg = worker[h].cfg
  <2>1. \A h \in Goroutine : worker'[h] = IF h = g THEN w ELSE worker[h]
    BY <1>2, <1>5
  <2> QED
    BY <1>2, <1>4, <2>1 DEF Working
<1>8. PICK x \in Resource : x = worker[g].r
  BY <1>2
<1>9. \/ obj' = obj
      \/ /\ obj[x] # nil /\ obj[x].version = worker[g].cfg.version
         /\ obj' = [obj EXCEPT ![x].status = worker[g].status, ![x].version = @ + 1,
                               ![x].writtenAt = obj[x].gen]
  BY <1>8 DEF Write
<1>10. obj \in [Resource -> Objects \cup {nil}]
  BY DEF ReportingTypes
<1>11. ASSUME NEW r \in Resource, obj'[r] # nil, obj'[r] = obj[r]
       PROVE  Generations(r)'
  <2>1. Generations(r) /\ WriterInv(r) /\ WrittenInv(r)
    BY <1>11 DEF Generations
  <2>2. /\ obj'[r] \in Objects /\ obj'[r].gen >= obj[r].gen
        /\ obj'[r].version = obj[r].version /\ obj'[r].gen = obj[r].gen
    BY <1>10, <1>11, SMT DEF Objects
  <2>3. WriterInv(r)'
    BY <1>7, <1>11, <2>1, <2>2, WritersBehind
  <2>4. WrittenInv(r)'
    BY <1>11, <2>1 DEF WrittenInv
  <2> QED
    BY <1>1, <1>11, <2>1, <2>2, <2>3, <2>4, ObjectMoves
<1>12. CASE obj' = obj
  <2>1. ReportingTypes'
    BY <1>1, <1>12 DEF ReportingTypes
  <2> QED
    BY <1>6, <1>11, <1>12, <2>1
<1>13. CASE obj' # obj
  <2>1. /\ obj[x] # nil /\ obj[x].version = worker[g].cfg.version /\ obj[x] \in Objects
        /\ Generations(x)
    BY <1>9, <1>10, <1>13
  <2>2. PICK o : o = [obj[x] EXCEPT !.status = worker[g].status]
    OBVIOUS
  <2>3. PICK p : p = [o EXCEPT !.version = obj[x].version + 1]
    OBVIOUS
  <2>4. PICK s : s = [p EXCEPT !.writtenAt = obj[x].gen]
    OBVIOUS
  <2>5. o \in Objects /\ o.status = worker[g].status /\ o.gen = obj[x].gen /\ o.version = obj[x].version
    BY <1>2, <2>1, <2>2 DEF Objects
  <2>6. /\ p \in Objects /\ p.status = worker[g].status /\ p.gen = obj[x].gen
        /\ p.version = obj[x].version + 1
    BY <2>1, <2>3, <2>5, SMT DEF Objects
  <2>7. /\ s \in Objects /\ s.status = worker[g].status /\ s.gen = obj[x].gen
        /\ s.version = obj[x].version + 1 /\ s.writtenAt = obj[x].gen
    BY <2>1, <2>4, <2>6 DEF Objects
  <2>8. obj' = [obj EXCEPT ![x] = s]
    BY <1>9, <1>10, <1>13, <2>1, <2>2, <2>3, <2>4, <2>5
  <2>9. obj' \in [Resource -> Objects \cup {nil}] /\ obj'[x] = s
        /\ \A r \in Resource \ {x} : obj'[r] = obj[r]
    BY <1>10, <2>7, <2>8
  <2>10. ReportingTypes'
    BY <1>1, <2>9 DEF ReportingTypes
  <2>11. /\ worker[g].gen <= worker[g].status[1] /\ worker[g].status[1] <= obj[x].gen
         /\ worker[g].cfg.gen = worker[g].gen /\ Older(worker[g].cfg, x)
    BY <1>1, <1>2, <1>8, <2>1 DEF Generations, WriterInv
  <2>12. worker[g].status[1] = obj[x].gen
    <3>1. worker[g].gen = obj[x].gen
      BY <2>1, <2>11 DEF Older
    <3>2. worker[g].status[1] \in Nat /\ obj[x].gen \in Nat
      BY <1>2, <2>1 DEF Statuses, Objects
    <3> QED
      BY <2>11, <3>1, <3>2, SMT
  <2>13. WrittenInv(x)'
    BY <2>7, <2>9, <2>12 DEF WrittenInv
  <2>14. obj'[x] \in Objects /\ obj'[x].gen >= obj[x].gen /\ obj'[x].version > obj[x].version
    BY <2>1, <2>7, <2>9, SMT DEF Objects
  <2>15. WriterInv(x)'
    BY <1>7, <2>1, <2>14, WritersBehind DEF Generations
  <2>16. Generations(x)'
    BY <1>1, <2>1, <2>13, <2>14, <2>15, ObjectMoves
  <2> QED
    BY <1>6, <1>11, <2>9, <2>10, <2>16
<1> QED
  BY <1>12, <1>13

---------------------------------------------------------------------------
\* Nothing is queued or worked at yet.
LEMMA InitReportingInv == ReportingInit => PoolInv /\ GenerationsInv
<1> SUFFICES ASSUME ReportingInit PROVE PoolInv /\ GenerationsInv
  OBVIOUS
<1>1. Object \in Objects /\ Object.gen = 1 /\ Object.status[1] = 0 /\ Object.version = 1
  BY DEF Object, Objects, Statuses
<1>2. QueueInv
  BY SMT DEF ReportingInit, QueueInv
<1>3. \A g \in Goroutine : worker[g] = [Idle EXCEPT !.at = "new"] /\ worker[g].at = "new"
  BY DEF ReportingInit, Idle
<1>4. Alive = {} /\ Leaked = {} /\ \A g \in Goroutine : ~Working(g)
  BY <1>3 DEF Alive, Leaked, Working, At
<1>5. WorkersInv
  <2>1. [Idle EXCEPT !.at = "new"] \in Workers
    BY DEF Idle, Workers, Places
  <2> QED
    BY <1>4, <2>1 DEF ReportingInit, WorkersInv
<1>6. CountInv /\ TasksServed
  BY <1>4, FS_EmptySet, SMT DEF ReportingInit, CountInv, TasksServed
<1>7. /\ obj = [r \in Resource |-> Object] /\ stored = obj /\ dep = [r \in Resource |-> 1]
      /\ element = [r \in Resource |-> [obj |-> obj[r], desired |-> <<1, 1>>]]
      /\ events = <<>> /\ cache = [r \in Resource |-> nil]
  BY DEF ReportingInit
<1>8. \A r \in Resource : /\ element[r] \in Elements /\ element[r].obj = Object
                          /\ element[r].desired[1] = 1
  BY <1>1, <1>7 DEF Elements, Statuses
<1>9. ReportingTypes
  <2>1. events \in Seq(Events)
    BY <1>7, SMT
  <2>2. /\ obj \in [Resource -> Objects \cup {nil}] /\ stored \in [Resource -> Objects \cup {nil}]
        /\ dep \in [Resource -> Nat]
    BY <1>1, <1>7
  <2>3. element \in [Resource -> Elements \cup {nil}]
    <3>1. element = [r \in Resource |-> element[r]]
      BY <1>7
    <3> QED
      BY <1>8, <3>1
  <2> QED
    BY <2>1, <2>2, <2>3 DEF ReportingTypes
<1>10. ASSUME NEW r \in Resource PROVE Generations(r)
  <2>1. obj[r] = Object /\ stored[r] = Object /\ cache[r] = nil
    BY <1>7, ZenonT(60)
  <2>2. ElementInv(r) /\ EventsInv(r) /\ CachedInv(r) /\ WrittenInv(r)
    BY <1>1, <1>7, <1>8, <2>1, SMT DEF ElementInv, EventsInv, CachedInv, WrittenInv
  <2>3. StoredInv(r) /\ WriterInv(r)
    BY <1>1, <1>4, <2>1, SMT DEF StoredInv, WriterInv, Older
  <2> QED
    BY <2>2, <2>3 DEF Generations
<1> QED
  BY <1>2, <1>5, <1>6, <1>9, <1>10 DEF PoolInv, GenerationsInv

\* A step that touches neither queue nor workers keeps the pool as it is.
LEMMA PoolUntouched ==
  ASSUME PoolInv, UNCHANGED <<tasks, cache, closing, pushed, workerCount, currentlyWorking, worker>>
  PROVE  PoolInv'
<1>1. Alive' = Alive /\ Leaked' = Leaked /\ \A g \in Goroutine : Working(g)' <=> Working(g)
  BY DEF Alive, Leaked, Working, At
<1>2. QueueInv'
  BY DEF PoolInv, QueueInv
<1>3. WorkersInv'
  BY <1>1 DEF PoolInv, WorkersInv
<1> QED
  BY <1>1, <1>2, <1>3 DEF PoolInv, CountInv, TasksServed

\* What the objects are computed from and written with stays what it is when
\* only the pool's places change.
LEMMA GenerationsUntouched ==
  ASSUME GenerationsInv, UNCHANGED <<obj, dep, stored, element, events, cache>>,
         \A g \in Goroutine : Working(g)' => worker'[g] = worker[g]
  PROVE  GenerationsInv'
<1> USE DEF GenerationsInv
<1>1. ReportingTypes'
  BY DEF ReportingTypes
<1>2. ASSUME NEW r \in Resource, obj'[r] # nil PROVE Generations(r)'
  <2>1. Generations(r)
    BY <1>2
  <2>2. EventsInv(r)'
    BY <2>1, ZenonT(60) DEF Generations, EventsInv
  <2>3. \A g \in Goroutine : Working(g)' => Working(g)
    BY DEF Working
  <2>4. WriterInv(r)'
    BY <2>1, <2>3, ZenonT(60) DEF Generations, WriterInv, Older
  <2> QED
    BY <2>1, <2>2, <2>4, GenerationsKept
<1> QED
  BY <1>1, <1>2

\* RegisterStatus queues, and goes on to ask for a worker.
LEMMA PoolRegistered ==
  ASSUME PoolInv, GenerationsInv, RegisterStatus
  PROVE  PoolInv'
<1>1. QueueInv'
  BY EventHandled
<1>2. /\ UNCHANGED <<closing, workerCount, currentlyWorking, worker>>
      /\ pushed' = TRUE \/ UNCHANGED <<pushed, tasks>>
  BY DEF RegisterStatus, poolVars, queueVars
<1>3. Alive' = Alive /\ Leaked' = Leaked /\ \A g \in Goroutine : Working(g)' <=> Working(g)
  BY <1>2 DEF Alive, Leaked, Working, At
<1>4. WorkersInv'
  BY <1>2, <1>3 DEF PoolInv, WorkersInv
<1>5. CountInv'
  BY <1>2, <1>3 DEF PoolInv, CountInv
<1>6. TasksServed'
  BY <1>2, <1>3 DEF PoolInv, TasksServed
<1> QED
  BY <1>1, <1>4, <1>5, <1>6 DEF PoolInv

\* The task a worker is at stays its own while it reads the object.
LEMMA PoolRetrieved ==
  ASSUME PoolInv, GenerationsInv, NEW g \in Goroutine, Retrieve(g)
  PROVE  PoolInv'
<1>1. /\ UNCHANGED <<tasks, cache, closing, pushed, workerCount, currentlyWorking>>
      /\ worker[g].at = "get"
  BY DEF Retrieve, handlerVars, queueVars, At
<1>2. worker \in [Goroutine -> Workers] /\ worker[g] \in Workers /\ Working(g) /\ worker[g].r \in Resource
  BY <1>1 DEF PoolInv, WorkersInv, Working
<1>3. stored[worker[g].r] \in Objects \cup {nil}
  BY <1>2 DEF GenerationsInv, ReportingTypes
<1>4. PICK at \in {"write", "done"} :
        worker' = [worker EXCEPT ![g].at = at, ![g].cfg = stored[worker[g].r]]
  BY DEF Retrieve
<1>5. PICK v : v = [worker[g] EXCEPT !.at = at]
  OBVIOUS
<1>6. PICK w : w = [v EXCEPT !.cfg = stored[worker[g].r]]
  OBVIOUS
<1>7. v \in Workers /\ v.at = at /\ v.r = worker[g].r /\ v.status = worker[g].status
  BY <1>2, <1>5 DEF Workers, Places
<1>8. w \in Workers /\ w.at = at /\ w.r = worker[g].r /\ w.status = worker[g].status
  BY <1>3, <1>6, <1>7 DEF Workers
<1>9. worker' = [worker EXCEPT ![g] = w]
  BY <1>2, <1>4, <1>5, <1>6
<1>10. w.at \in {"get", "write", "done"}
  BY <1>8
<1> QED
  BY <1>1, <1>2, <1>8, <1>9, <1>10, TaskContinued

\* The server stops: no worker is owed to what is queued.
LEMMA PoolClosed ==
  ASSUME PoolInv, GenerationsInv, Close
  PROVE  PoolInv' /\ GenerationsInv'
<1>1. /\ UNCHANGED <<obj, dep, stored, element, events, cache, tasks, workerCount, currentlyWorking, worker, pushed>>
      /\ closing' = TRUE
  BY DEF Close, handlerVars, queueVars, worldVars
<1>2. Alive' = Alive /\ Leaked' = Leaked /\ \A g \in Goroutine : Working(g)' <=> Working(g)
  BY <1>1 DEF Alive, Leaked, Working, At
<1>3. QueueInv'
  BY <1>1 DEF PoolInv, QueueInv
<1>4. WorkersInv'
  BY <1>1, <1>2 DEF PoolInv, WorkersInv
<1>5. CountInv'
  BY <1>1, <1>2 DEF PoolInv, CountInv
<1>6. TasksServed'
  BY <1>1 DEF TasksServed
<1>7. GenerationsInv'
  BY <1>1, GenerationsUntouched
<1> QED
  BY <1>3, <1>4, <1>5, <1>6, <1>7 DEF PoolInv

\* A worker that is added is at no task yet.
LEMMA GenerationsAdded ==
  ASSUME PoolInv, GenerationsInv, maybeAddWorker
  PROVE  GenerationsInv'
<1>1. UNCHANGED <<obj, dep, stored, element, events, cache>>
  BY DEF maybeAddWorker, queueVars, worldVars
<1>2. PICK g : worker' = worker \/ worker' = [worker EXCEPT ![g] = Idle]
  BY DEF maybeAddWorker, poolVars
<1>3. worker \in [Goroutine -> Workers] /\ Idle.at = "loop"
  BY DEF PoolInv, WorkersInv, Idle
<1>4. \A h \in Goroutine : worker'[h] = worker[h] \/ worker'[h] = Idle
  BY <1>2, <1>3
<1>5. \A h \in Goroutine : Working(h)' => worker'[h] = worker[h]
  BY <1>3, <1>4 DEF Working
<1> QED
  BY <1>1, <1>5, GenerationsUntouched

LEMMA StepReportingInv ==
  PoolInv /\ GenerationsInv /\ [ReportingNext]_reportingVars => PoolInv' /\ GenerationsInv'
<1> SUFFICES ASSUME PoolInv, GenerationsInv, [ReportingNext]_reportingVars
             PROVE  PoolInv' /\ GenerationsInv'
  OBVIOUS
<1>1. ASSUME NEW r \in Resource, Change(r) \/ UpdateStore(r) \/ Recompute(r)
      PROVE  PoolInv' /\ GenerationsInv'
  <2>1. UNCHANGED <<tasks, cache, closing, pushed, workerCount, currentlyWorking, worker>>
    BY <1>1 DEF Change, UpdateStore, Recompute, handlerVars, queueVars, poolVars
  <2>2. GenerationsInv'
    BY <1>1, ObjectChanges, StoreUpdated, ElementRecomputed
  <2> QED
    BY <2>1, <2>2, PoolUntouched
<1>2. CASE SetQueue \/ UnsetQueue
  <2>1. UNCHANGED <<tasks, cache, closing, pushed, workerCount, currentlyWorking, worker>>
    BY <1>2 DEF SetQueue, UnsetQueue, queueVars, poolVars
  <2>2. GenerationsInv'
    BY <1>2, HandlerMoves
  <2> QED
    BY <2>1, <2>2, PoolUntouched
<1>3. CASE RegisterStatus
  BY <1>3, EventHandled, PoolRegistered
<1>4. CASE maybeAddWorker
  BY <1>4, WorkerAdded, GenerationsAdded
<1>5. CASE Close
  BY <1>5, PoolClosed
<1>6. ASSUME NEW g \in Goroutine, Take(g) \/ Retrieve(g) \/ Done(g)
      PROVE  PoolInv' /\ GenerationsInv'
  BY <1>6, WorkerSteps, TaskTaken, PoolRetrieved, TaskDone
<1>7. ASSUME NEW g \in Goroutine, Write(g, TRUE) \/ Write(g, FALSE)
      PROVE  PoolInv' /\ GenerationsInv'
  BY <1>7, StatusWritten
<1>8. CASE UNCHANGED reportingVars
  <2>1. /\ UNCHANGED <<tasks, cache, closing, pushed, workerCount, currentlyWorking, worker>>
        /\ UNCHANGED <<obj, dep, stored, element, events, cache>>
    BY <1>8 DEF reportingVars
  <2> QED
    BY <2>1, PoolUntouched, GenerationsUntouched
<1> QED
  BY <1>1, <1>2, <1>3, <1>4, <1>5, <1>6, <1>7, <1>8 DEF ReportingNext

LEMMA InvStatusesWritten == PoolInv /\ GenerationsInv => StatusesWritten
<1> SUFFICES ASSUME PoolInv, GenerationsInv PROVE StatusesWritten
  OBVIOUS
<1>1. OneWriter
  BY DEF PoolInv, WorkersInv, OneWriter, Alive
<1>2. StatusOfGeneration
  BY DEF GenerationsInv, Generations, WrittenInv, StatusOfGeneration
<1> QED
  BY <1>1, <1>2 DEF PoolInv, StatusesWritten

\* However many resources, workers, changes and failed writes there are, an
\* object has one writer at a time, a queued status has a worker to come while
\* the pool has places, and a status is only written onto the generation it was
\* computed from (WorkerPool.Push, maybeAddWorker, WorkQueue.Push).
THEOREM StatusesHold == ReportingSpec => []StatusesWritten
BY InitReportingInv, StepReportingInv, InvStatusesWritten, PTL DEF ReportingSpec
===========================================================================
