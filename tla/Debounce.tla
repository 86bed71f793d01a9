------------------------------ MODULE Debounce ------------------------------
(***************************************************************************)
(* The front half of the push pipeline                                     *)
(* (dubbod/discovery/pkg/xds/discovery.go): ConfigUpdate puts an update on *)
(* the push channel, the debounce loop merges updates until things settle  *)
(* and hands the merged request to a push goroutine, one at a time; and    *)
(* the start-up check of bootstrap/server.go that compares the inbound and *)
(* committed update counters before the server declares itself ready.      *)
(*                                                                         *)
(* Time is discrete.  quiet is the time since the last update, delay the   *)
(* time since the window opened, both counted up to the value above which  *)
(* the code no longer tells them apart; timer is what is left of           *)
(* time.After, 0 when its value waits in the channel, Off when there is no *)
(* timer or its value has been received.                                   *)
(***************************************************************************)
EXTENDS PushRequest, Integers, Sequences, FiniteSets

CONSTANTS
  After,             \* DebounceOptions.DebounceAfter
  Max,               \* DebounceOptions.debounceMax
  ChanCap,           \* capacity of DiscoveryServer.pushChannel
  Producers          \* how many goroutines call ConfigUpdate at a time

\* A push goroutine: its step, the request and debouncedEvents.
Push == [step : {"push", "count", "free"}, req : PushRequest, events : Nat]

ASSUME DebounceAssumption ==
  /\ After \in Nat \ {0} /\ Max \in Nat /\ After <= Max
  /\ ChanCap \in Nat /\ Producers \in Nat
  /\ nil \notin Push

Off == -1
DelayCap == Max + After
Update == [full : BOOLEAN, id : ConfigKey]

VARIABLES
  enableEDSDebounce,  \* DebounceOptions.enableEDSDebounce: set when the server starts
  inbound,    \* InboundUpdates
  sending,    \* updates counted in inbound, their ConfigUpdate still blocked on the channel
  ch,         \* pushChannel
  req,        \* the request being merged, or nil
  events,     \* debouncedEvents
  free,
  freeCh,     \* tokens in freeCh
  timer, quiet, delay,
  pushing,    \* the push goroutine: its step, request and debouncedEvents, or nil
  immediate,  \* goroutines pushing an endpoint update outside the window
  committed,  \* CommittedUpdates
  stopped,    \* stopCh is closed and the loop has returned
  pushed,     \* history: configs of the requests pushFn has returned for
  expected,   \* waitForCacheSync's expected, Off before it is read
  synced,     \* history: the configs counted in inbound when expected was read
  ready,      \* serverReady
  late,       \* history: time has passed while the loop had work to do
  overtaken   \* history: an update got into the channel before one counted earlier

loopVars == <<req, events, free, freeCh, timer, quiet, delay>>
fixedVars == <<enableEDSDebounce, late, overtaken>>
waitVars == <<expected, synced, ready>>
syncVars == <<waitVars, fixedVars>>
vars == <<enableEDSDebounce, late, overtaken, inbound, sending, ch, req, events, free, freeCh, timer, quiet, delay,
          pushing, immediate, committed, stopped, pushed, expected, synced, ready>>

Counted == {u.id : u \in sending} \union
           {ch[i].id : i \in 1..Len(ch)} \union
           (IF req = nil THEN {} ELSE req.configs) \union
           (IF pushing = nil THEN {} ELSE pushing.req.configs) \union
           {u.id : u \in immediate} \union
           pushed

Init ==
  /\ enableEDSDebounce \in BOOLEAN /\ late = FALSE /\ overtaken = FALSE
  /\ inbound = 0 /\ sending = {} /\ ch = <<>>
  /\ req = nil /\ events = 0 /\ free = TRUE /\ freeCh = 0
  /\ timer = Off /\ quiet = After /\ delay = DelayCap
  /\ pushing = nil /\ immediate = {} /\ committed = 0
  /\ stopped = FALSE /\ pushed = {}
  /\ expected = Off /\ synced = {} /\ ready = FALSE

-----------------------------------------------------------------------------
(* ConfigUpdate: count the update, then block until the channel has room.  *)

ConfigUpdate(u) ==
  /\ u.id = inbound + 1                  \* an update is known by its number
  /\ Cardinality(sending) < Producers
  /\ inbound' = inbound + 1
  /\ sending' = sending \union {u}
  /\ UNCHANGED <<ch, loopVars, pushing, immediate, committed, stopped, pushed, syncVars>>

SendUpdate(u) ==
  /\ u \in sending
  /\ Len(ch) < ChanCap
  /\ sending' = sending \ {u}
  /\ ch' = Append(ch, u)
  /\ overtaken' = (overtaken \/ \E v \in sending : v.id < u.id)
  /\ UNCHANGED <<inbound, loopVars, pushing, immediate, committed, stopped, pushed, waitVars,
                 enableEDSDebounce, late>>

-----------------------------------------------------------------------------
(* The debounce loop: one action per select case.                          *)

\* Mutant: the quiet period is one tick short.
StableEarly == delay >= Max \/ quiet >= After - 1

\* Mutant: debounceMax is not looked at.
StableNoMax == quiet >= After

Stable == delay >= Max \/ quiet >= After

\* Mutant: pushWorker does not test req for nil.
pushWorkerNoTest(t, f) ==
  /\ timer' = IF Stable THEN t ELSE After - quiet
  /\ IF Stable
       THEN /\ free' = FALSE
            /\ pushing' = [step |-> "push", req |-> req, events |-> events]
            /\ req' = nil
            /\ events' = 0
       ELSE /\ free' = f
            /\ UNCHANGED <<pushing, req, events>>

\* Mutant: pushWorker does not arm the timer again.
pushWorkerNoTimer(t, f) ==
  /\ timer' = t
  /\ IF Stable /\ req # nil
       THEN /\ free' = FALSE
            /\ pushing' = [step |-> "push", req |-> req, events |-> events]
            /\ req' = nil
            /\ events' = 0
       ELSE /\ free' = f
            /\ UNCHANGED <<pushing, req, events>>

\* pushWorker, entered with timeChan = t and free = f: start the push when the
\* window is stable, otherwise look again when the quiet period would end.
pushWorker(t, f) ==
  /\ timer' = IF Stable THEN t ELSE After - quiet
  /\ IF Stable /\ req # nil
       THEN /\ free' = FALSE
            /\ pushing' = [step |-> "push", req |-> req, events |-> events]
            /\ req' = nil
            /\ events' = 0
       ELSE /\ free' = f
            /\ UNCHANGED <<pushing, req, events>>

\* case <-freeCh: the previous push has finished.
Freed ==
  /\ ~stopped
  /\ freeCh > 0
  /\ freeCh' = freeCh - 1
  /\ pushWorker(timer, TRUE)
  /\ UNCHANGED <<inbound, sending, ch, quiet, delay, immediate, committed, stopped, pushed, syncVars>>

\* case r := <-ch for an endpoint update when those are not debounced.
ReceiveImmediate ==
  /\ ~stopped
  /\ ch # <<>>
  /\ ~enableEDSDebounce /\ ~Head(ch).full
  /\ ch' = Tail(ch)
  /\ immediate' = immediate \union {Head(ch)}
  /\ UNCHANGED <<inbound, sending, loopVars, pushing, committed, stopped, pushed, syncVars>>

RequestOf(u) ==
  [full |-> u.full, forced |-> FALSE, push |-> NoContext, configs |-> {u.id}]

\* Mutant: a new update replaces the ones in the window.
ReceiveReplaces ==
  /\ ~stopped
  /\ ch # <<>>
  /\ enableEDSDebounce \/ Head(ch).full
  /\ ch' = Tail(ch)
  /\ quiet' = 0
  /\ IF events = 0
       THEN timer' = After /\ delay' = 0
       ELSE UNCHANGED <<timer, delay>>
  /\ events' = events + 1
  /\ req' = RequestOf(Head(ch))
  /\ UNCHANGED <<inbound, sending, free, freeCh, pushing, immediate, committed,
                 stopped, pushed, syncVars>>

\* case r := <-ch otherwise: open a window unless one is open, and merge.
Receive ==
  /\ ~stopped
  /\ ch # <<>>
  /\ enableEDSDebounce \/ Head(ch).full
  /\ ch' = Tail(ch)
  /\ quiet' = 0
  /\ IF events = 0
       THEN timer' = After /\ delay' = 0
       ELSE UNCHANGED <<timer, delay>>
  /\ events' = events + 1
  /\ req' = Merge(req, RequestOf(Head(ch)))
  /\ UNCHANGED <<inbound, sending, free, freeCh, pushing, immediate, committed,
                 stopped, pushed, syncVars>>

\* Mutant: the timer case does not look at free.
TimerFiredAlways ==
  /\ ~stopped
  /\ timer = 0
  /\ pushWorker(Off, free)
  /\ UNCHANGED <<inbound, sending, ch, freeCh, quiet, delay, immediate, committed,
                 stopped, pushed, syncVars>>

\* case <-timeChan: dropped while a push is running; Freed looks again.
TimerFired ==
  /\ ~stopped
  /\ timer = 0
  /\ IF free
       THEN pushWorker(Off, free)
       ELSE /\ timer' = Off
            /\ UNCHANGED <<free, pushing, req, events>>
  /\ UNCHANGED <<inbound, sending, ch, freeCh, quiet, delay, immediate, committed,
                 stopped, pushed, syncVars>>

\* case <-stopCh
Stop ==
  /\ ~stopped
  /\ stopped' = TRUE
  /\ UNCHANGED <<inbound, sending, ch, loopVars, pushing, immediate, committed, pushed, syncVars>>

-----------------------------------------------------------------------------
(* The push goroutine: pushFn, then updateSent.Add, then freeCh <-.        *)

PushReturns ==
  /\ pushing # nil /\ pushing.step = "push"
  /\ pushed' = pushed \union pushing.req.configs
  /\ pushing' = [pushing EXCEPT !.step = "count"]
  /\ UNCHANGED <<inbound, sending, ch, loopVars, immediate, committed, stopped, syncVars>>

CountPush ==
  /\ pushing # nil /\ pushing.step = "count"
  /\ committed' = committed + pushing.events
  /\ pushing' = [pushing EXCEPT !.step = "free"]
  /\ UNCHANGED <<inbound, sending, ch, loopVars, immediate, stopped, pushed, syncVars>>

FreePush ==
  /\ pushing # nil /\ pushing.step = "free"
  /\ freeCh = 0                           \* a buffered channel of capacity 1
  /\ freeCh' = 1
  /\ pushing' = nil
  /\ UNCHANGED <<inbound, sending, ch, req, events, free, timer, quiet, delay,
                 immediate, committed, stopped, pushed, syncVars>>

\* Mutant: an endpoint push is not counted.
ImmediateReturnsUncounted(u) ==
  /\ u \in immediate
  /\ immediate' = immediate \ {u}
  /\ pushed' = pushed \union {u.id}
  /\ UNCHANGED <<inbound, sending, ch, loopVars, pushing, committed, stopped, syncVars>>

\* The goroutine of an endpoint update pushed at once.
ImmediateReturns(u) ==
  /\ u \in immediate
  /\ immediate' = immediate \ {u}
  /\ pushed' = pushed \union {u.id}
  /\ committed' = committed + 1
  /\ UNCHANGED <<inbound, sending, ch, loopVars, pushing, stopped, syncVars>>

-----------------------------------------------------------------------------
(* Start-up: waitForCacheSync reads InboundUpdates once the caches are     *)
(* synced, waits for CommittedUpdates to reach it, and the server is ready.*)

ReadExpected ==
  /\ expected = Off
  /\ expected' = inbound
  /\ synced' = Counted
  /\ UNCHANGED <<inbound, sending, ch, loopVars, pushing, immediate, committed, stopped, pushed, ready,
                 fixedVars>>

\* Mutant: the server is ready one update early.
PushContextReadyEarly ==
  /\ expected # Off /\ ~ready
  /\ committed + 1 >= expected
  /\ ready' = TRUE
  /\ UNCHANGED <<inbound, sending, ch, loopVars, pushing, immediate, committed, stopped, pushed,
                 expected, synced, fixedVars>>

\* pushContextReady, then CachesSynced.
PushContextReady ==
  /\ expected # Off /\ ~ready
  /\ committed >= expected
  /\ ready' = TRUE
  /\ UNCHANGED <<inbound, sending, ch, loopVars, pushing, immediate, committed, stopped, pushed,
                 expected, synced, fixedVars>>

-----------------------------------------------------------------------------
LoopHasWork == ~stopped /\ (freeCh > 0 \/ ch # <<>> \/ timer = 0)
UpTo(bound, n) == IF n < bound THEN n + 1 ELSE bound

Tick ==
  /\ late' = (late \/ LoopHasWork)
  /\ timer > 0 \/ quiet < After \/ delay < DelayCap
  /\ timer' = IF timer > 0 THEN timer - 1 ELSE timer
  /\ quiet' = UpTo(After, quiet)
  /\ delay' = UpTo(DelayCap, delay)
  /\ UNCHANGED <<inbound, sending, ch, req, events, free, freeCh, pushing, immediate,
                 committed, stopped, pushed, waitVars, enableEDSDebounce, overtaken>>

PushGoroutine == PushReturns \/ CountPush \/ FreePush
Loop == Freed \/ ReceiveImmediate \/ Receive \/ TimerFired

Next ==
  \/ \E u \in Update : ConfigUpdate(u) \/ SendUpdate(u) \/ ImmediateReturns(u)
  \/ Freed \/ ReceiveImmediate \/ Receive \/ TimerFired \/ Stop
  \/ PushGoroutine
  \/ ReadExpected \/ PushContextReady
  \/ Tick

Spec == Init /\ [][Next]_vars

\* The loop handles what is ready, in whatever order its select picks; pushes
\* return; blocked senders get their turn; time passes.
FairSpec ==
  /\ Spec
  /\ WF_vars(Loop) /\ WF_vars(PushGoroutine) /\ WF_vars(Tick)
  /\ WF_vars(\E u \in Update : ImmediateReturns(u)) /\ WF_vars(\E u \in Update : SendUpdate(u))

-----------------------------------------------------------------------------
TypeOK ==
  /\ inbound \in Nat /\ committed \in Nat /\ events \in Nat
  /\ sending \subseteq Update /\ immediate \subseteq Update
  /\ ch \in Seq(Update)
  /\ req \in PushRequest \union {nil}
  /\ free \in BOOLEAN /\ stopped \in BOOLEAN /\ ready \in BOOLEAN /\ late \in BOOLEAN /\ overtaken \in BOOLEAN
  /\ enableEDSDebounce \in BOOLEAN
  /\ freeCh \in {0, 1}
  /\ timer \in {Off} \union (0..After)
  /\ quiet \in 0..After /\ delay \in 0..DelayCap
  /\ pushing \in Push \union {nil}
  /\ pushed \subseteq ConfigKey /\ synced \subseteq ConfigKey
  /\ expected \in Nat \union {Off}

\* At most one merged push runs, and while it does the loop knows it: free is
\* false from the moment pushWorker starts the goroutine until the loop has
\* received the goroutine's token, so the token never finds freeCh full.
SingleFlight ==
  /\ free => (pushing = nil /\ freeCh = 0)
  /\ ~free => (pushing # nil <=> freeCh = 0)

\* A merged request never waits without something that will look at it again:
\* an armed timer when no push is running (the timer value that fires during
\* a push is thrown away, the push's token replaces it).
NoLostWakeup ==
  req # nil => (~free \/ timer # Off)

\* Updates are counted once each on their way: what InboundUpdates counts
\* is in a blocked ConfigUpdate, in the channel, in the open window, in a push
\* not counted yet, or in CommittedUpdates.
CountersAgree ==
  inbound = Cardinality(sending) + Len(ch) + events + Cardinality(immediate)
            + (IF pushing # nil /\ pushing.step # "free" THEN pushing.events ELSE 0)
            + committed

\* The documentation of DUBBO_DEBOUNCE_MAX: events that keep showing up cannot
\* hold back a push for ever.  While no push is running, and as long as the
\* loop reacts at once, a window is pushed less than DebounceAfter later than
\* debounceMax.
BoundedDelay ==
  (~late /\ req # nil /\ free /\ ~stopped) => delay < Max + After

\* The documentation of DUBBO_DEBOUNCE_AFTER: a push starts no earlier than
\* DebounceAfter after its window opened.
MinimumDelay ==
  [][(pushing = nil /\ pushing' # nil) => delay >= After]_vars

\* "Waiting for pushcontext to process inbound updates" (bootstrap/server.go):
\* when the server declares itself ready, every update counted when its caches
\* were synced has been pushed - as long as updates are pushed in the order
\* they are counted: endpoint updates are debounced, and of two producers the
\* one that counted first is also the first to send.
ReadyImpliesPushed ==
  (ready /\ enableEDSDebounce /\ ~overtaken) => synced \subseteq pushed

\* An update that was counted is eventually pushed, unless the loop is stopped.
EventuallyPushed ==
  \A k \in ConfigKey : (k \in Counted) ~> (k \in pushed \/ stopped)

\* At most one merged push runs at a time, whatever started it, and every update
\* is counted once on its way, in InboundUpdates and in CommittedUpdates (debounce).
PushesCounted == SingleFlight /\ CountersAgree

\* A push starts no earlier than DebounceAfter after its window opened, and less
\* than DebounceAfter later than debounceMax as long as the loop reacts at once.
DelayBounded == []BoundedDelay /\ MinimumDelay
=============================================================================
