--------------------------- MODULE DebounceProofs ---------------------------
(***************************************************************************)
(* Proofs about the debounce loop and the start-up check, for every length *)
(* of the two windows, every channel capacity, every number of producers   *)
(* and every number of updates.                                            *)
(*                                                                         *)
(* The invariant comes in four layers, each proved from the ones before    *)
(* it: the types; what the loop knows (Looks); where the updates are       *)
(* (Accounted); and, as long as they are not overtaken, which numbers they *)
(* have (InOrder).                                                         *)
(***************************************************************************)
EXTENDS Debounce, FiniteSetTheorems, TLAPS

(***************************************************************************)
(* Merging an update into the window.                                      *)
(***************************************************************************)

\* Merge of a window and an update is a request that carries the configs of both.
LEMMA MergeUpdate ==
  ASSUME NEW r \in PushRequest \union {nil}, NEW u \in Update
  PROVE  /\ RequestOf(u) \in PushRequest
         /\ Merge(r, RequestOf(u)) \in PushRequest
         /\ Merge(r, RequestOf(u)).configs = (IF r = nil THEN {} ELSE r.configs) \union {u.id}
<1>1. RequestOf(u) \in PushRequest /\ RequestOf(u).configs = {u.id}
  BY DEF RequestOf, PushRequest, Update, NoContext
<1>2. RequestOf(u) # nil
  BY <1>1, NilAssumption
<1>3. CASE r = nil
  BY <1>1, <1>3 DEF Merge
<1>4. CASE r # nil
  <2>1. r \in PushRequest
    BY <1>4
  <2>2. Merge(r, RequestOf(u)) = MergeFields(r, RequestOf(u))
    BY <1>2, <1>4 DEF Merge
  <2>3. MergeFields(r, RequestOf(u)) \in PushRequest
    BY <1>1, <2>1 DEF MergeFields, PushRequest, NoContext
  <2>4. MergeFields(r, RequestOf(u)).configs = r.configs \union {u.id}
    BY <1>1 DEF MergeFields
  <2> QED BY <1>1, <1>4, <2>2, <2>3, <2>4
<1> QED BY <1>3, <1>4

\* Taking the head of the channel leaves the other updates, one place forward.
LEMMA TakeHead ==
  ASSUME NEW s \in Seq(Update), s # <<>>
  PROVE  /\ Head(s) \in Update /\ Head(s) = s[1] /\ Tail(s) \in Seq(Update)
         /\ Len(s) \in Nat \ {0} /\ Len(Tail(s)) = Len(s) - 1
         /\ \A i \in 1..Len(Tail(s)) : Tail(s)[i] = s[i + 1] /\ i + 1 \in 1..Len(s)
OBVIOUS

\* A send puts the update last.
LEMMA SendLast ==
  ASSUME NEW s \in Seq(Update), NEW u \in Update
  PROVE  /\ Append(s, u) \in Seq(Update) /\ Len(s) \in Nat /\ Len(Append(s, u)) = Len(s) + 1
         /\ \A i \in 1..Len(s) : Append(s, u)[i] = s[i]
         /\ Append(s, u)[Len(s) + 1] = u
OBVIOUS

-----------------------------------------------------------------------------
(* Types.                                                                  *)

\* pushWorker keeps the types of what it sets, whatever timer it is given.
LEMMA WorkerTypes ==
  ASSUME TypeOK, NEW t \in {Off} \union (0..After), NEW f \in BOOLEAN, pushWorker(t, f)
  PROVE  /\ timer' \in {Off} \union (0..After)
         /\ free' \in BOOLEAN
         /\ pushing' \in Push \union {nil}
         /\ req' \in PushRequest \union {nil}
         /\ events' \in Nat
<1>1. timer' \in {Off} \union (0..After)
  BY DebounceAssumption DEF pushWorker, Stable, TypeOK
<1>2. CASE Stable /\ req # nil
  <2>1. [step |-> "push", req |-> req, events |-> events] \in Push
    BY <1>2 DEF TypeOK, Push
  <2>2. /\ free' = FALSE /\ pushing' = [step |-> "push", req |-> req, events |-> events]
        /\ req' = nil /\ events' = 0
    BY <1>2, Zenon DEF pushWorker
  <2> QED BY <1>1, <2>1, <2>2
<1>3. CASE ~(Stable /\ req # nil)
  BY <1>1, <1>3 DEF pushWorker, TypeOK
<1> QED BY <1>2, <1>3

\* Every step keeps the types.
LEMMA TypeInductive == TypeOK /\ [Next]_vars => TypeOK'
<1> SUFFICES ASSUME TypeOK, [Next]_vars PROVE TypeOK'
  OBVIOUS
<1> USE DEF loopVars, fixedVars, waitVars, syncVars
<1>1. ASSUME NEW u \in Update, ConfigUpdate(u) PROVE TypeOK'
  BY <1>1 DEF ConfigUpdate, TypeOK
<1>2. ASSUME NEW u \in Update, SendUpdate(u) PROVE TypeOK'
  <2>1. ch' \in Seq(Update)
    BY <1>2, SendLast DEF SendUpdate, TypeOK
  <2> QED BY <1>2, <2>1 DEF SendUpdate, TypeOK
<1>3. ASSUME NEW u \in Update, ImmediateReturns(u) PROVE TypeOK'
  BY <1>3 DEF ImmediateReturns, TypeOK, Update
<1>4. CASE Freed
  <2>1. timer \in {Off} \union (0..After) /\ TRUE \in BOOLEAN
    BY DEF TypeOK
  <2>2. /\ timer' \in {Off} \union (0..After) /\ free' \in BOOLEAN
        /\ pushing' \in Push \union {nil} /\ req' \in PushRequest \union {nil} /\ events' \in Nat
    BY <1>4, <2>1, WorkerTypes, Zenon DEF Freed
  <2> QED BY <1>4, <2>2 DEF Freed, TypeOK
<1>5. CASE ReceiveImmediate
  <2>1. ch' \in Seq(Update) /\ Head(ch) \in Update
    BY <1>5, TakeHead DEF ReceiveImmediate, TypeOK
  <2> QED BY <1>5, <2>1 DEF ReceiveImmediate, TypeOK
<1>6. CASE Receive
  <2>1. ch' \in Seq(Update) /\ Head(ch) \in Update
    BY <1>6, TakeHead DEF Receive, TypeOK
  <2>2. req' \in PushRequest
    BY <1>6, <2>1, MergeUpdate DEF Receive, TypeOK
  <2>3. timer' \in {Off} \union (0..After) /\ quiet' \in 0..After /\ delay' \in 0..DelayCap
    BY <1>6, DebounceAssumption DEF Receive, TypeOK, DelayCap
  <2> QED BY <1>6, <2>1, <2>2, <2>3 DEF Receive, TypeOK
<1>7. CASE TimerFired
  <2>1. CASE free
    BY <1>7, <2>1, WorkerTypes DEF TimerFired, TypeOK
  <2>2. CASE ~free
    BY <1>7, <2>2 DEF TimerFired, TypeOK
  <2> QED BY <2>1, <2>2
<1>8. CASE Stop
  BY <1>8 DEF Stop, TypeOK
<1>9. CASE PushReturns
  <2>1. pushing \in Push
    BY <1>9 DEF PushReturns, TypeOK
  <2>2. pushing' \in Push /\ pushing.req.configs \subseteq ConfigKey
    BY <1>9, <2>1 DEF PushReturns, Push, PushRequest
  <2> QED BY <1>9, <2>2 DEF PushReturns, TypeOK
<1>10. CASE CountPush
  <2>1. pushing \in Push
    BY <1>10 DEF CountPush, TypeOK
  <2>2. pushing' \in Push /\ pushing.events \in Nat
    BY <1>10, <2>1 DEF CountPush, Push
  <2> QED BY <1>10, <2>2 DEF CountPush, TypeOK
<1>11. CASE FreePush
  BY <1>11 DEF FreePush, TypeOK
<1>12. CASE ReadExpected
  <2>1. \A i \in 1..Len(ch) : ch[i] \in Update
    BY DEF TypeOK
  <2>2. /\ \A u \in sending \union immediate : u.id \in ConfigKey
        /\ \A i \in 1..Len(ch) : ch[i].id \in ConfigKey
    BY <2>1 DEF TypeOK, Update
  <2>3. /\ req # nil => req.configs \subseteq ConfigKey
        /\ pushing # nil => pushing.req.configs \subseteq ConfigKey
    BY DEF TypeOK, Push, PushRequest
  <2>4. Counted \subseteq ConfigKey
    BY <2>2, <2>3 DEF TypeOK, Counted
  <2> QED BY <1>12, <2>4 DEF ReadExpected, TypeOK
<1>13. CASE PushContextReady
  BY <1>13 DEF PushContextReady, TypeOK
<1>14. CASE Tick
  <2>1. timer' \in {Off} \union (0..After) /\ quiet' \in 0..After /\ delay' \in 0..DelayCap
    BY <1>14, DebounceAssumption DEF Tick, TypeOK, UpTo, DelayCap, Off
  <2>2. late' \in BOOLEAN
    BY <1>14 DEF Tick, TypeOK, LoopHasWork
  <2> QED BY <1>14, <2>1, <2>2 DEF Tick, TypeOK
<1>15. CASE UNCHANGED vars
  BY <1>15 DEF vars, TypeOK
<1> QED
  BY <1>1, <1>2, <1>3, <1>4, <1>5, <1>6, <1>7, <1>8, <1>9, <1>10, <1>11, <1>12, <1>13, <1>14, <1>15
  DEF Next, PushGoroutine

\* Every variable of the loop, of its pushes and of the start-up check keeps
\* its type (debounce, Push, waitForCacheSync).
THEOREM Typing == Spec => []TypeOK
<1>1. Init => TypeOK
  <2> SUFFICES ASSUME Init PROVE TypeOK
    OBVIOUS
  <2>1. quiet \in 0..After /\ delay \in 0..DelayCap /\ inbound \in Nat /\ committed \in Nat /\ events \in Nat
    BY DebounceAssumption DEF Init, DelayCap
  <2>2. /\ ch \in Seq(Update) /\ freeCh \in {0, 1} /\ timer \in {Off} \union (0..After)
        /\ expected \in Nat \union {Off} /\ sending \subseteq Update /\ immediate \subseteq Update
        /\ pushed \subseteq ConfigKey /\ synced \subseteq ConfigKey
        /\ req \in PushRequest \union {nil} /\ pushing \in Push \union {nil}
    BY DEF Init
  <2>3. /\ enableEDSDebounce \in BOOLEAN /\ late \in BOOLEAN /\ overtaken \in BOOLEAN
        /\ free \in BOOLEAN /\ stopped \in BOOLEAN /\ ready \in BOOLEAN
    BY Zenon DEF Init
  <2> QED BY <2>1, <2>2, <2>3, Zenon DEF TypeOK
<1> QED BY <1>1, TypeInductive, PTL DEF Spec

-----------------------------------------------------------------------------
(* What the loop knows: whether a push runs, that something will look at   *)
(* the window again, and how old the window is.                            *)

\* debouncedEvents counts the updates of the window: there is a request
\* exactly when it is not zero.
Window == req = nil <=> events = 0

\* As long as the loop reacts at once, the timer of a window that could be
\* pushed goes off less than DebounceAfter after debounceMax.
Prompt == (~late /\ req # nil /\ free /\ ~stopped) => delay + timer < Max + After

Looks ==
  /\ SingleFlight /\ Window /\ NoLostWakeup
  /\ quiet <= delay
  /\ Prompt

\* What pushWorker leaves: it is called when no push runs, and then either
\* starts one, or finds nothing to push, or arms the timer.
LEMMA WorkerLooks ==
  ASSUME TypeOK, Looks, NEW t \in {Off} \union (0..After), NEW f \in BOOLEAN, f,
         pushing = nil, freeCh' = 0, pushWorker(t, f)
  PROVE  /\ SingleFlight' /\ Window' /\ NoLostWakeup'
         /\ req' # nil => delay + timer' < Max + After
<1>1. CASE Stable /\ req # nil
  <2>1. /\ ~free' /\ pushing' = [step |-> "push", req |-> req, events |-> events]
        /\ req' = nil /\ events' = 0
    BY <1>1, Zenon DEF pushWorker
  <2>2. pushing' # nil
    BY <1>1, <2>1, DebounceAssumption DEF TypeOK, Push
  <2> QED BY <2>1, <2>2 DEF SingleFlight, Window, NoLostWakeup
<1>2. CASE ~(Stable /\ req # nil)
  <2>1. free' = f /\ pushing' = nil /\ req' = req /\ events' = events
    BY <1>2, Zenon DEF pushWorker
  <2>2. SingleFlight' /\ Window'
    BY <2>1 DEF SingleFlight, Window, Looks
  <2>3. req' # nil => timer' # Off /\ delay + timer' < Max + After
    <3> SUFFICES ASSUME req' # nil PROVE timer' # Off /\ delay + timer' < Max + After
      OBVIOUS
    <3>1. ~Stable
      BY <1>2, <2>1
    <3>2. timer' = After - quiet
      BY <3>1 DEF pushWorker
    <3> QED BY <3>1, <3>2, DebounceAssumption DEF Stable, TypeOK, Off, DelayCap
  <2> QED BY <2>2, <2>3 DEF NoLostWakeup
<1> QED BY <1>1, <1>2

\* The loop, its timer and its push keep each other going.
LEMMA LooksInductive == TypeOK /\ TypeOK' /\ Looks /\ [Next]_vars => Looks'
<1> SUFFICES ASSUME TypeOK, TypeOK', Looks, [Next]_vars PROVE Looks'
  OBVIOUS
<1> USE DEF loopVars, fixedVars, waitVars, syncVars
<1>1. ASSUME UNCHANGED <<loopVars, pushing, stopped, late>> PROVE Looks'
  BY <1>1 DEF Looks, SingleFlight, Window, NoLostWakeup, Prompt
<1>2. ASSUME NEW u \in Update, ConfigUpdate(u) \/ SendUpdate(u) \/ ImmediateReturns(u) PROVE Looks'
  BY <1>1, <1>2, Zenon DEF ConfigUpdate, SendUpdate, ImmediateReturns
<1>3. CASE ReceiveImmediate \/ ReadExpected \/ PushContextReady
  BY <1>1, <1>3, Zenon DEF ReceiveImmediate, ReadExpected, PushContextReady
<1>4. CASE Freed
  <2>1. ~free /\ pushing = nil /\ freeCh' = 0
    BY <1>4 DEF Freed, Looks, SingleFlight, TypeOK
  <2>2. timer \in {Off} \union (0..After) /\ TRUE \in BOOLEAN /\ TRUE
    BY DEF TypeOK
  <2>3. pushWorker(timer, TRUE)
    BY <1>4 DEF Freed
  <2>4. SingleFlight' /\ Window' /\ NoLostWakeup' /\ (req' # nil => delay + timer' < Max + After)
    BY <2>1, <2>2, <2>3, WorkerLooks, Zenon
  <2>5. quiet' = quiet /\ delay' = delay
    BY <1>4, Zenon DEF Freed
  <2> QED BY <2>4, <2>5 DEF Looks, Prompt
<1>5. CASE Receive
  <2>1. Head(ch) \in Update
    BY <1>5, TakeHead DEF Receive, TypeOK
  <2>2. req' # nil
    BY <1>5, <2>1, MergeUpdate, NilAssumption DEF Receive, TypeOK
  <2>3. events' = events + 1 /\ quiet' = 0 /\ UNCHANGED <<free, freeCh, pushing, stopped, late>>
    BY <1>5, Zenon DEF Receive
  <2>4. SingleFlight' /\ Window'
    BY <2>2, <2>3 DEF SingleFlight, Window, Looks, TypeOK
  <2>5. CASE events = 0
    <3>1. timer' = After /\ delay' = 0
      BY <1>5, <2>5 DEF Receive
    <3> QED BY <2>3, <2>4, <3>1, DebounceAssumption DEF Looks, NoLostWakeup, Prompt, Off
  <2>6. CASE events # 0
    <3>1. timer' = timer /\ delay' = delay /\ req # nil
      BY <1>5, <2>6 DEF Receive, Looks, Window
    <3>2. NoLostWakeup' /\ Prompt'
      BY <2>3, <3>1 DEF Looks, NoLostWakeup, Prompt
    <3> QED BY <2>3, <2>4, <3>1, <3>2 DEF Looks, TypeOK
  <2> QED BY <2>5, <2>6
<1>6. CASE TimerFired
  <2>1. UNCHANGED <<freeCh, quiet, delay, stopped, late>>
    BY <1>6, Zenon DEF TimerFired
  <2>2. CASE free
    <3>1. pushing = nil /\ freeCh' = 0
      BY <2>1, <2>2 DEF Looks, SingleFlight
    <3>2. pushWorker(Off, free) /\ Off \in {Off} \union (0..After) /\ free \in BOOLEAN
      BY <1>6, <2>2 DEF TimerFired, TypeOK
    <3>3. SingleFlight' /\ Window' /\ NoLostWakeup' /\ (req' # nil => delay + timer' < Max + After)
      BY <2>2, <3>1, <3>2, WorkerLooks, Zenon
    <3> QED BY <2>1, <3>3 DEF Looks, Prompt
  <2>3. CASE ~free
    <3>1. UNCHANGED <<free, pushing, req, events>>
      BY <1>6, <2>3, Zenon DEF TimerFired
    <3> QED BY <2>1, <2>3, <3>1 DEF Looks, SingleFlight, Window, NoLostWakeup, Prompt
  <2> QED BY <2>2, <2>3
<1>7. CASE Stop
  <2>1. stopped' /\ UNCHANGED <<loopVars, pushing>>
    BY <1>7, Zenon DEF Stop
  <2> QED BY <2>1 DEF Looks, SingleFlight, Window, NoLostWakeup, Prompt
<1>8. CASE PushReturns \/ CountPush
  <2>1. pushing # nil /\ pushing' # nil
    BY <1>8, DebounceAssumption DEF PushReturns, CountPush, TypeOK, Push
  <2>2. UNCHANGED <<loopVars, stopped, late>>
    BY <1>8, Zenon DEF PushReturns, CountPush
  <2> QED BY <2>1, <2>2 DEF Looks, SingleFlight, Window, NoLostWakeup, Prompt
<1>9. CASE FreePush
  <2>1. pushing # nil /\ pushing' = nil /\ freeCh' = 1
    BY <1>9 DEF FreePush
  <2>2. UNCHANGED <<req, events, free, timer, quiet, delay, stopped, late>>
    BY <1>9, Zenon DEF FreePush
  <2> QED BY <2>1, <2>2 DEF Looks, SingleFlight, Window, NoLostWakeup, Prompt
<1>10. CASE Tick
  <2>1. UNCHANGED <<req, events, free, freeCh, pushing, stopped>>
    BY <1>10, Zenon DEF Tick
  <2>2. SingleFlight' /\ Window'
    BY <2>1 DEF Looks, SingleFlight, Window
  <2>3. NoLostWakeup'
    BY <1>10, <2>1 DEF Tick, Looks, NoLostWakeup, TypeOK, Off
  <2>4. quiet' <= delay'
    BY <1>10, DebounceAssumption DEF Tick, UpTo, Looks, TypeOK, DelayCap
  <2>5. Prompt'
    <3> SUFFICES ASSUME ~late', req' # nil, free', ~stopped' PROVE delay' + timer' < Max + After
      BY DEF Prompt
    <3>1. ~late /\ ~LoopHasWork
      BY <1>10 DEF Tick
    <3>2. timer > 0
      BY <2>1, <3>1 DEF LoopHasWork, Looks, NoLostWakeup, TypeOK, Off
    <3>3. delay + timer < Max + After
      BY <2>1, <3>1 DEF Looks, Prompt
    <3> QED BY <1>10, <3>2, <3>3, DebounceAssumption DEF Tick, UpTo, TypeOK, DelayCap, Off
  <2> QED BY <2>2, <2>3, <2>4, <2>5 DEF Looks
<1>11. CASE UNCHANGED vars
  BY <1>1, <1>11, Zenon DEF vars
<1> QED
  BY <1>2, <1>3, <1>4, <1>5, <1>6, <1>7, <1>8, <1>9, <1>10, <1>11 DEF Next, PushGoroutine

\* So it is in every state.
LEMMA LoopLooks == Spec => []Looks
<1>1. Init => Looks
  <2> SUFFICES ASSUME Init PROVE Looks
    OBVIOUS
  <2>1. free /\ pushing = nil /\ freeCh = 0 /\ req = nil /\ events = 0
    BY Zenon DEF Init
  <2>2. quiet <= delay
    BY DebounceAssumption DEF Init, DelayCap
  <2> QED BY <2>1, <2>2 DEF Looks, SingleFlight, Window, NoLostWakeup, Prompt
<1> QED BY <1>1, LooksInductive, Typing, PTL DEF Spec

\* A merged request never waits without an armed timer or a push whose token
\* will make the loop look again (debounce, the select on timeChan and freeCh).
THEOREM WakeupKept == Spec => []NoLostWakeup
<1>1. Looks => NoLostWakeup
  BY DEF Looks
<1> QED BY <1>1, LoopLooks, PTL

\* The two promises of the debounce options, for every choice of them: a push
\* starts no earlier than DebounceAfter after its window opened and, as long as
\* the loop reacts at once, less than DebounceAfter later than debounceMax.
THEOREM DelaysHold == Spec => DelayBounded
<1>1. TypeOK /\ Looks => BoundedDelay
  <2> SUFFICES ASSUME TypeOK, Looks, ~late, req # nil, free, ~stopped PROVE delay < Max + After
    BY DEF BoundedDelay
  <2>1. timer # Off /\ delay + timer < Max + After
    BY DEF Looks, NoLostWakeup, Prompt
  <2> QED BY <2>1, DebounceAssumption DEF TypeOK, Off, DelayCap
<1>2. TypeOK /\ Looks /\ [Next]_vars => [(pushing = nil /\ pushing' # nil) => delay >= After]_vars
  <2> SUFFICES ASSUME TypeOK, Looks, [Next]_vars, pushing = nil, pushing' # nil PROVE delay >= After
    OBVIOUS
  <2> USE DEF loopVars, fixedVars, waitVars, syncVars
  <2>1. ASSUME NEW t, NEW f, pushWorker(t, f) PROVE delay >= After
    <3>1. Stable
      BY <2>1, Zenon DEF pushWorker
    <3> QED BY <3>1, DebounceAssumption DEF Stable, Looks, TypeOK, DelayCap
  <2>2. CASE Freed
    BY <2>1, <2>2 DEF Freed
  <2>3. CASE TimerFired
    BY <2>1, <2>3 DEF TimerFired
  <2>4. ~(PushReturns \/ CountPush \/ FreePush)
    BY DEF PushReturns, CountPush, FreePush
  <2>5. ASSUME NEW u \in Update PROVE ~(ConfigUpdate(u) \/ SendUpdate(u) \/ ImmediateReturns(u))
    BY Zenon DEF ConfigUpdate, SendUpdate, ImmediateReturns
  <2>6. ~(ReceiveImmediate \/ Receive \/ Stop \/ ReadExpected \/ PushContextReady \/ Tick)
    BY Zenon DEF ReceiveImmediate, Receive, Stop, ReadExpected, PushContextReady, Tick
  <2> QED BY <2>2, <2>3, <2>4, <2>5, <2>6 DEF Next, PushGoroutine, vars
<1> QED BY <1>1, <1>2, Typing, LoopLooks, PTL DEF Spec, DelayBounded, MinimumDelay

-----------------------------------------------------------------------------
(* Where the updates are.                                                  *)

\* The updates on their way to a push are told apart by their numbers.
Numbered ==
  /\ \A u \in sending \union immediate : u.id \in 1..inbound
  /\ \A i \in 1..Len(ch) : ch[i].id \in 1..inbound
  /\ \A u \in sending, v \in immediate : u.id # v.id
  /\ \A u \in sending \union immediate, i \in 1..Len(ch) : u.id # ch[i].id
  /\ \A i, j \in 1..Len(ch) : ch[i].id = ch[j].id => i = j
  /\ \A u, v \in sending : u.id = v.id => u = v

\* The updates of the push that runs, until they are counted.
Uncounted == IF pushing # nil /\ pushing.step # "free" THEN pushing.events ELSE 0

Accounted ==
  /\ IsFiniteSet(sending) /\ IsFiniteSet(immediate)
  /\ Numbered
  /\ CountersAgree

\* What a push has yet to count is a number.
LEMMA UncountedType == TypeOK => Uncounted \in Nat
  BY DEF TypeOK, Push, Uncounted

\* pushWorker hands the updates of the window to the push it starts.
LEMMA WorkerCounts ==
  ASSUME TypeOK, pushing = nil, NEW t, NEW f, pushWorker(t, f)
  PROVE  events' + Uncounted' = events + Uncounted
<1>1. CASE Stable /\ req # nil
  <2>1. pushing' = [step |-> "push", req |-> req, events |-> events] /\ events' = 0
    BY <1>1, Zenon DEF pushWorker
  <2>2. pushing' # nil
    BY <1>1, <2>1, DebounceAssumption DEF TypeOK, Push
  <2> QED BY <2>1, <2>2 DEF Uncounted, TypeOK
<1>2. CASE ~(Stable /\ req # nil)
  <2>1. pushing' = nil /\ events' = events
    BY <1>2, Zenon DEF pushWorker
  <2> QED BY <2>1 DEF Uncounted, TypeOK
<1> QED BY <1>1, <1>2

\* Every step takes an update from one place to the next.
LEMMA AccountedInductive ==
  TypeOK /\ TypeOK' /\ Looks /\ Accounted /\ [Next]_vars => Accounted'
<1> SUFFICES ASSUME TypeOK, TypeOK', Looks, Accounted, [Next]_vars PROVE Accounted'
  OBVIOUS
<1> USE DEF loopVars, fixedVars, waitVars, syncVars
<1> DEFINE Sum == Cardinality(sending) + Len(ch) + events + Cardinality(immediate) + Uncounted + committed
<1>1. /\ IsFiniteSet(sending) /\ Cardinality(sending) \in Nat
      /\ IsFiniteSet(immediate) /\ Cardinality(immediate) \in Nat
      /\ Len(ch) \in Nat /\ events \in Nat /\ committed \in Nat /\ Uncounted \in Nat
  BY FS_CardinalityType, UncountedType DEF Accounted, TypeOK
<1>2. inbound = Sum
  BY DEF Accounted, CountersAgree, Uncounted
<1>3. ASSUME inbound' = Sum' PROVE CountersAgree'
  BY <1>3 DEF CountersAgree, Uncounted
<1>4. ASSUME UNCHANGED <<sending, immediate, ch, inbound>>, events' + Uncounted' + committed' = events + Uncounted + committed
      PROVE Accounted'
  <2>1. Numbered'
    BY <1>4 DEF Accounted, Numbered
  <2>2. events' \in Nat /\ committed' \in Nat /\ Uncounted' \in Nat
    BY DEF TypeOK, Push, Uncounted
  <2>3. Sum' = Cardinality(sending) + Len(ch) + events' + Cardinality(immediate) + Uncounted' + committed'
    BY <1>4
  <2>4. Sum' = Sum
    <3> DEFINE l == Len(ch)  e == events'  p == Uncounted'  c == committed'
    <3>1. /\ l \in Nat /\ e \in Nat /\ p \in Nat /\ c \in Nat
          /\ Cardinality(sending) \in Nat /\ Cardinality(immediate) \in Nat
          /\ events \in Nat /\ committed \in Nat /\ Uncounted \in Nat
          /\ e + p + c = events + Uncounted + committed
      BY <1>1, <1>4, <2>2
    <3> HIDE DEF l, e, p, c
    <3>2. Cardinality(sending) + l + e + Cardinality(immediate) + p + c
            = Cardinality(sending) + l + events + Cardinality(immediate) + Uncounted + committed
      BY <3>1
    <3> QED BY <2>3, <3>2 DEF l, e, p, c
  <2> QED BY <1>1, <1>2, <1>3, <1>4, <2>1, <2>4 DEF Accounted
<1>5. ASSUME UNCHANGED <<sending, immediate, ch, inbound, events, pushing, committed>> PROVE Accounted'
  BY <1>4, <1>5 DEF Uncounted
<1>6. ASSUME NEW u \in Update, ConfigUpdate(u) PROVE Accounted'
  <2>1. u \notin sending
    BY <1>6 DEF ConfigUpdate, Accounted, Numbered, TypeOK
  <2>2. IsFiniteSet(sending') /\ Cardinality(sending') = Cardinality(sending) + 1
    BY <1>1, <1>6, <2>1, FS_AddElement DEF ConfigUpdate
  <2>3. Uncounted' = Uncounted /\ UNCHANGED <<ch, events, immediate, committed>> /\ inbound' = inbound + 1
    BY <1>6 DEF ConfigUpdate, Uncounted
  <2>4. inbound \in Nat /\ u.id = inbound + 1 /\ sending' = sending \union {u}
    BY <1>6 DEF ConfigUpdate, TypeOK
  <2>5. Numbered'
    BY <2>3, <2>4, SMTT(60) DEF Accounted, Numbered
  <2> QED BY <1>1, <1>2, <1>3, <2>2, <2>3, <2>5, SMTT(60) DEF Accounted
<1>7. ASSUME NEW u \in Update, SendUpdate(u) PROVE Accounted'
  <2>1. u \in sending /\ ch' = Append(ch, u) /\ sending' = sending \ {u}
    BY <1>7 DEF SendUpdate
  <2>2. IsFiniteSet(sending') /\ Cardinality(sending') = Cardinality(sending) - 1
    BY <1>1, <2>1, FS_RemoveElement
  <2>3. Uncounted' = Uncounted /\ UNCHANGED <<events, immediate, committed, inbound>>
    BY <1>7 DEF SendUpdate, Uncounted
  <2>4. /\ Len(ch') = Len(ch) + 1
        /\ \A i \in 1..Len(ch) : ch'[i] = ch[i]
        /\ ch'[Len(ch) + 1] = u
    BY <2>1, SendLast DEF TypeOK
  <2>5. \A i \in 1..Len(ch') : i \in 1..Len(ch) \/ i = Len(ch) + 1
    BY <1>1, <2>4
  <2>6. Numbered'
    BY <2>1, <2>3, <2>4, <2>5 DEF Accounted, Numbered
  <2> QED BY <1>1, <1>2, <1>3, <2>2, <2>3, <2>4, <2>6 DEF Accounted
<1>8. ASSUME NEW u \in Update, ImmediateReturns(u) PROVE Accounted'
  <2>1. u \in immediate /\ immediate' = immediate \ {u} /\ committed' = committed + 1
    BY <1>8 DEF ImmediateReturns
  <2>2. IsFiniteSet(immediate') /\ Cardinality(immediate') = Cardinality(immediate) - 1
    BY <1>1, <2>1, FS_RemoveElement
  <2>3. Uncounted' = Uncounted /\ UNCHANGED <<events, sending, ch, inbound>>
    BY <1>8 DEF ImmediateReturns, Uncounted
  <2>4. Numbered'
    BY <2>1, <2>3 DEF Accounted, Numbered
  <2> QED BY <1>1, <1>2, <1>3, <2>1, <2>2, <2>3, <2>4 DEF Accounted
<1>9. ASSUME ch # <<>>, ch' = Tail(ch), UNCHANGED <<sending, inbound>>,
             immediate' = immediate \/ immediate' = immediate \union {Head(ch)}
      PROVE Numbered' /\ Len(ch') = Len(ch) - 1 /\ Head(ch) \notin immediate
  <2>1. /\ Head(ch) = ch[1] /\ Len(ch') = Len(ch) - 1 /\ Len(ch) \in Nat \ {0}
        /\ \A i \in 1..Len(ch') : ch'[i] = ch[i + 1] /\ i + 1 \in 1..Len(ch)
    BY <1>9, TakeHead DEF TypeOK
  <2>2. \A i \in 1..Len(ch') : ch'[i].id # Head(ch).id
    BY <2>1 DEF Accounted, Numbered
  <2>3. \A u \in sending \union immediate : u.id # Head(ch).id
    BY <2>1 DEF Accounted, Numbered
  <2>4. \A i, j \in 1..Len(ch') : ch'[i].id = ch'[j].id => i = j
    BY <2>1, SMTT(60) DEF Accounted, Numbered
  <2>5. Head(ch).id \in 1..inbound /\ \A i \in 1..Len(ch') : ch'[i].id \in 1..inbound
    BY <2>1 DEF Accounted, Numbered
  <2>6. \A u \in sending \union immediate, i \in 1..Len(ch') : u.id # ch'[i].id
    BY <2>1 DEF Accounted, Numbered
  <2>7. Numbered'
    BY <1>9, <2>2, <2>3, <2>4, <2>5, <2>6 DEF Accounted, Numbered
  <2> QED BY <2>1, <2>3, <2>7
<1>10. CASE ReceiveImmediate
  <2>1. /\ ch # <<>> /\ ch' = Tail(ch) /\ immediate' = immediate \union {Head(ch)}
        /\ UNCHANGED <<sending, inbound, events, committed, pushing>>
    BY <1>10, Zenon DEF ReceiveImmediate
  <2>2. Numbered' /\ Len(ch') = Len(ch) - 1 /\ Head(ch) \notin immediate
    BY <1>9, <2>1
  <2>3. IsFiniteSet(immediate') /\ Cardinality(immediate') = Cardinality(immediate) + 1
    BY <1>1, <2>1, <2>2, FS_AddElement
  <2>4. Uncounted' = Uncounted
    BY <2>1 DEF Uncounted
  <2> QED BY <1>1, <1>2, <1>3, <2>1, <2>2, <2>3, <2>4 DEF Accounted
<1>11. CASE Receive
  <2>1. /\ ch # <<>> /\ ch' = Tail(ch) /\ events' = events + 1
        /\ UNCHANGED <<immediate, sending, inbound, committed, pushing>>
    BY <1>11, Zenon DEF Receive
  <2>2. Numbered' /\ Len(ch') = Len(ch) - 1
    BY <1>9, <2>1
  <2>3. Uncounted' = Uncounted
    BY <2>1 DEF Uncounted
  <2> QED BY <1>1, <1>2, <1>3, <2>1, <2>2, <2>3 DEF Accounted
<1>12. CASE Freed
  <2>1. pushWorker(timer, TRUE) /\ UNCHANGED <<sending, immediate, ch, inbound, committed>>
    BY <1>12, Zenon DEF Freed
  <2>2. pushing = nil
    BY <1>12 DEF Freed, Looks, SingleFlight, TypeOK
  <2>3. events' + Uncounted' = events + Uncounted
    BY <2>1, <2>2, WorkerCounts
  <2> QED BY <1>1, <1>4, <2>1, <2>3
<1>13. CASE TimerFired
  <2>1. UNCHANGED <<sending, immediate, ch, inbound, committed>>
    BY <1>13, Zenon DEF TimerFired
  <2>2. CASE free
    <3>1. pushing = nil /\ pushWorker(Off, free)
      BY <1>13, <2>2 DEF TimerFired, Looks, SingleFlight
    <3>2. events' + Uncounted' = events + Uncounted
      BY <3>1, WorkerCounts
    <3> QED BY <1>1, <1>4, <2>1, <3>2
  <2>3. CASE ~free
    BY <1>5, <1>13, <2>1, <2>3 DEF TimerFired
  <2> QED BY <2>2, <2>3
<1>14. CASE PushReturns
  <2>1. pushing \in Push /\ pushing.step = "push" /\ pushing' = [pushing EXCEPT !.step = "count"]
    BY <1>14 DEF PushReturns, TypeOK
  <2>2. pushing' \in Push /\ pushing'.events = pushing.events /\ pushing'.step = "count"
    BY <2>1 DEF Push
  <2>3. Uncounted' = Uncounted
    BY <2>1, <2>2, DebounceAssumption DEF Uncounted
  <2>4. UNCHANGED <<sending, immediate, ch, inbound, events, committed>>
    BY <1>14, Zenon DEF PushReturns
  <2> QED BY <1>4, <2>3, <2>4
<1>15. CASE CountPush
  <2>1. /\ pushing \in Push /\ pushing.step = "count" /\ pushing' = [pushing EXCEPT !.step = "free"]
        /\ committed' = committed + pushing.events
    BY <1>15 DEF CountPush, TypeOK
  <2>2. Uncounted = pushing.events /\ Uncounted' = 0 /\ pushing.events \in Nat
    BY <2>1, DebounceAssumption DEF Uncounted, Push
  <2>3. UNCHANGED <<sending, immediate, ch, inbound, events>>
    BY <1>15, Zenon DEF CountPush
  <2> QED BY <1>1, <1>4, <2>1, <2>2, <2>3
<1>16. CASE FreePush
  <2>1. Uncounted = 0 /\ Uncounted' = 0
    BY <1>16 DEF FreePush, Uncounted
  <2>2. UNCHANGED <<sending, immediate, ch, inbound, events, committed>>
    BY <1>16, Zenon DEF FreePush
  <2> QED BY <1>4, <2>1, <2>2
<1>17. CASE Stop \/ ReadExpected \/ PushContextReady \/ Tick \/ UNCHANGED vars
  <2>1. UNCHANGED <<sending, immediate, ch, inbound, events, pushing, committed>>
    BY <1>17, Zenon DEF Stop, ReadExpected, PushContextReady, Tick, vars
  <2> QED BY <1>5, <2>1
<1> QED
  BY <1>6, <1>7, <1>8, <1>10, <1>11, <1>12, <1>13, <1>14, <1>15, <1>16, <1>17 DEF Next, PushGoroutine

\* So every update is in one place.
LEMMA UpdatesAccounted == Spec => []Accounted
<1>1. Init => Accounted
  <2> SUFFICES ASSUME Init PROVE Accounted
    OBVIOUS
  <2>1. /\ sending = {} /\ immediate = {} /\ ch = <<>> /\ inbound = 0 /\ events = 0
        /\ committed = 0 /\ pushing = nil
    BY Zenon DEF Init
  <2> QED BY <2>1, FS_EmptySet DEF Accounted, Numbered, CountersAgree
<1> QED BY <1>1, AccountedInductive, Typing, LoopLooks, PTL DEF Spec

\* At most one merged push runs, with the loop knowing of it, and every update
\* that InboundUpdates counted is at exactly one place on its way to
\* CommittedUpdates, however the producers, the loop and the pushes interleave.
THEOREM CountsHold == Spec => []PushesCounted
<1>1. Looks /\ Accounted => PushesCounted
  BY DEF Looks, Accounted, PushesCounted
<1> QED BY <1>1, LoopLooks, UpdatesAccounted, PTL

-----------------------------------------------------------------------------
(* Which updates are where, as long as none is overtaken.                  *)

InTurn == enableEDSDebounce /\ ~overtaken

\* The updates lie in the order of their numbers: those pushed, those of the
\* push that runs, of the window, of the channel, and those still sending.
InOrder == InTurn =>
  /\ immediate = {}
  /\ pushed = 1..(committed + IF pushing # nil /\ pushing.step = "count" THEN pushing.events ELSE 0)
  /\ (pushing # nil /\ pushing.step = "push") =>
       pushing.req.configs = (committed + 1)..(committed + pushing.events)
  /\ (pushing # nil /\ pushing.step # "push") => pushing.req.configs \subseteq pushed
  /\ req # nil => req.configs = (committed + Uncounted + 1)..(committed + Uncounted + events)
  /\ \A i \in 1..Len(ch) : ch[i].id = committed + Uncounted + events + i
  /\ {u.id : u \in sending} = (committed + Uncounted + events + Len(ch) + 1)..inbound

\* Once an update has been overtaken it stays so, and the server's option is
\* not changed while it runs.
LEMMA TurnLost == [Next]_vars /\ InTurn' => InTurn
<1> SUFFICES ASSUME [Next]_vars, InTurn' PROVE InTurn
  OBVIOUS
<1> USE DEF loopVars, fixedVars, waitVars, syncVars
<1>1. enableEDSDebounce' = enableEDSDebounce
  BY Zenon DEF Next, PushGoroutine, ConfigUpdate, SendUpdate, ImmediateReturns, Freed, ReceiveImmediate,
     Receive, TimerFired, Stop, PushReturns, CountPush, FreePush, ReadExpected, PushContextReady, Tick, vars
<1>2. ASSUME NEW u \in Update, SendUpdate(u), overtaken PROVE overtaken'
  BY <1>2, Zenon DEF SendUpdate
<1>3. overtaken => overtaken'
  BY <1>2, Zenon DEF Next, PushGoroutine, ConfigUpdate, ImmediateReturns, Freed, ReceiveImmediate,
     Receive, TimerFired, Stop, PushReturns, CountPush, FreePush, ReadExpected, PushContextReady, Tick, vars
<1> QED BY <1>1, <1>3, Zenon DEF InTurn

\* An interval of numbers grows at its end and shrinks at its start.
LEMMA Interval ==
  ASSUME NEW k \in Nat, NEW n \in Nat
  PROVE  /\ k <= n => ((k + 1)..n) \union {n + 1} = (k + 1)..(n + 1)
         /\ ((k + 1)..n) \ {k + 1} = (k + 1 + 1)..n
         /\ \A m \in (k + 1)..n : k + 1 \in (k + 1)..n /\ m \in Nat /\ (m # k + 1 => k + 1 < m)
  OBVIOUS

\* While nobody overtakes, the places hold consecutive intervals.
LEMMA InOrderInductive ==
  TypeOK /\ TypeOK' /\ Looks /\ Accounted /\ InOrder /\ [Next]_vars => InOrder'
<1> SUFFICES ASSUME TypeOK, TypeOK', Looks, Accounted, InOrder, [Next]_vars, InTurn'
             PROVE  InOrder'
  BY DEF InOrder
<1> USE DEF loopVars, fixedVars, waitVars, syncVars
<1> DEFINE Base == committed + Uncounted
           Ids == {u.id : u \in sending}
<1>1. InTurn
  BY TurnLost
<1>2. /\ committed \in Nat /\ Uncounted \in Nat /\ events \in Nat /\ Len(ch) \in Nat /\ inbound \in Nat
      /\ ch \in Seq(Update)
  BY UncountedType DEF TypeOK
<1>3. Base + events + Len(ch) <= inbound
  BY <1>2, FS_CardinalityType DEF Accounted, CountersAgree, Uncounted
<1>4. /\ immediate = {}
      /\ pushed = 1..(committed + IF pushing # nil /\ pushing.step = "count" THEN pushing.events ELSE 0)
      /\ (pushing # nil /\ pushing.step = "push") =>
           pushing.req.configs = (committed + 1)..(committed + pushing.events)
      /\ (pushing # nil /\ pushing.step # "push") => pushing.req.configs \subseteq pushed
      /\ req # nil => req.configs = (Base + 1)..(Base + events)
      /\ \A i \in 1..Len(ch) : ch[i].id = Base + events + i
      /\ Ids = (Base + events + Len(ch) + 1)..inbound
  BY <1>1 DEF InOrder
<1>5. ASSUME UNCHANGED <<inbound, sending, ch, req, events, pushing, immediate, committed, pushed>> PROVE InOrder'
  BY <1>4, <1>5 DEF InOrder, Uncounted
<1>6. ASSUME NEW u \in Update, ConfigUpdate(u) PROVE InOrder'
  <2>1. /\ sending' = sending \union {u} /\ u.id = inbound + 1 /\ inbound' = inbound + 1
        /\ UNCHANGED <<ch, req, events, pushing, immediate, committed, pushed>>
    BY <1>6, Zenon DEF ConfigUpdate
  <2>2. Ids' = Ids \union {inbound + 1}
    BY <2>1
  <2>3. Ids' = (Base + events + Len(ch) + 1)..(inbound + 1)
    <3> DEFINE k == Base + events + Len(ch)
    <3>1. k \in Nat /\ k <= inbound /\ Ids = (k + 1)..inbound
      BY <1>2, <1>3, <1>4
    <3> HIDE DEF k, Ids
    <3>2. Ids' = (k + 1)..(inbound + 1)
      BY <1>2, <2>2, <3>1, Interval
    <3> QED BY <3>2 DEF k
  <2>4. Uncounted' = Uncounted
    BY <2>1 DEF Uncounted
  <2> QED BY <1>4, <2>1, <2>3, <2>4 DEF InOrder
<1>7. ASSUME NEW u \in Update, SendUpdate(u) PROVE InOrder'
  <2>1. /\ u \in sending /\ sending' = sending \ {u} /\ ch' = Append(ch, u)
        /\ UNCHANGED <<inbound, req, events, pushing, immediate, committed, pushed>>
    BY <1>7, Zenon DEF SendUpdate
  <2>2. \A v \in sending : ~(v.id < u.id)
    BY <1>7 DEF SendUpdate, InTurn
  <2> DEFINE k == Base + events + Len(ch)
  <2>x. k \in Nat /\ Ids = (k + 1)..inbound
    BY <1>2, <1>4
  <2>3. u.id = k + 1
    <3>1. u.id \in Ids
      BY <2>1
    <3> HIDE DEF k
    <3>2. k + 1 \in Ids
      BY <1>2, <2>x, <3>1, Interval
    <3>3. PICK v \in sending : v.id = k + 1
      BY <3>2
    <3> HIDE DEF Ids
    <3> QED BY <1>2, <2>2, <2>x, <3>1, <3>3, Interval
  <2>4. /\ Len(ch') = Len(ch) + 1
        /\ \A i \in 1..Len(ch) : ch'[i] = ch[i]
        /\ ch'[Len(ch) + 1] = u
    BY <2>1, <1>2, SendLast
  <2>5. \A i \in 1..Len(ch') : i \in 1..Len(ch) \/ i = Len(ch) + 1
    BY <1>2, <2>4
  <2>6. \A i \in 1..Len(ch') : ch'[i].id = Base + events + i
    <3>1. u.id = Base + events + (Len(ch) + 1)
      <4> DEFINE b == Base + events
      <4>1. b \in Nat /\ u.id = b + Len(ch) + 1
        BY <1>2, <2>3
      <4> HIDE DEF b
      <4>2. u.id = b + (Len(ch) + 1)
        BY <1>2, <4>1
      <4> QED BY <4>2 DEF b
    <3> QED BY <1>4, <2>4, <2>5, <3>1, Zenon
  <2>7. Ids' = Ids \ {u.id}
    BY <2>1 DEF Accounted, Numbered
  <2>8. Ids' = (Base + events + Len(ch') + 1)..inbound
    <3>1. Base + events + Len(ch') = k + 1
      BY <1>2, <2>4
    <3>2. Ids' = (k + 1 + 1)..inbound
      <4> HIDE DEF k, Ids
      <4> QED BY <1>2, <2>x, <2>3, <2>7, Interval
    <3> HIDE DEF k, Ids
    <3> QED BY <3>1, <3>2
  <2>9. Uncounted' = Uncounted
    BY <2>1 DEF Uncounted
  <2> QED BY <1>4, <2>1, <2>6, <2>8, <2>9 DEF InOrder
<1>8. ASSUME NEW u \in Update, ImmediateReturns(u) PROVE FALSE
  BY <1>4, <1>8 DEF ImmediateReturns
<1>9. ~ReceiveImmediate
  BY <1>1 DEF ReceiveImmediate, InTurn
<1>10. ASSUME NEW t, NEW f, pushing = nil, pushWorker(t, f),
              UNCHANGED <<inbound, sending, ch, immediate, committed, pushed>>
       PROVE  InOrder'
  <2>1. Uncounted = 0
    BY <1>10 DEF Uncounted
  <2>2. CASE Stable /\ req # nil
    <3>1. /\ pushing' = [step |-> "push", req |-> req, events |-> events]
          /\ req' = nil /\ events' = 0
      BY <1>10, <2>2, Zenon DEF pushWorker
    <3>2. pushing' # nil
      BY <2>2, <3>1, DebounceAssumption DEF TypeOK, Push
    <3>3. Uncounted' = events
      BY <3>1, <3>2 DEF Uncounted
    <3>4. pushing'.req.configs = (committed + 1)..(committed + events) /\ pushing'.events = events /\ pushing'.step = "push"
      BY <1>2, <1>4, <2>1, <2>2, <3>1
    <3>5. pushed = 1..committed
      BY <1>2, <1>4, <1>10
    <3> QED BY <1>2, <1>4, <1>10, <2>1, <3>1, <3>2, <3>3, <3>4, <3>5, SMTT(60) DEF InOrder
  <2>3. CASE ~(Stable /\ req # nil)
    <3>1. UNCHANGED <<pushing, req, events>>
      BY <1>10, <2>3, Zenon DEF pushWorker
    <3> QED BY <1>5, <1>10, <3>1
  <2> QED BY <2>2, <2>3
<1>11. CASE Freed
  <2>1. pushing = nil
    BY <1>11 DEF Freed, Looks, SingleFlight, TypeOK
  <2> QED BY <1>10, <1>11, <2>1, Zenon DEF Freed
<1>12. CASE TimerFired
  <2>1. CASE free
    <3>1. pushing = nil
      BY <2>1 DEF Looks, SingleFlight
    <3> QED BY <1>10, <1>12, <2>1, <3>1, Zenon DEF TimerFired
  <2>2. CASE ~free
    BY <1>5, <1>12, <2>2, Zenon DEF TimerFired
  <2> QED BY <2>1, <2>2
<1>13. CASE Receive
  <2>1. /\ ch # <<>> /\ ch' = Tail(ch) /\ events' = events + 1 /\ req' = Merge(req, RequestOf(Head(ch)))
        /\ UNCHANGED <<inbound, sending, pushing, immediate, committed, pushed>>
    BY <1>13, Zenon DEF Receive
  <2>2. /\ Head(ch) \in Update /\ Head(ch) = ch[1] /\ Len(ch') = Len(ch) - 1 /\ Len(ch) \in Nat \ {0}
        /\ \A i \in 1..Len(ch') : ch'[i] = ch[i + 1] /\ i + 1 \in 1..Len(ch)
    BY <1>2, <2>1, TakeHead
  <2>3. Head(ch).id = Base + events + 1
    BY <1>4, <2>2
  <2>4. req'.configs = (IF req = nil THEN {} ELSE req.configs) \union {Base + events + 1}
    <3>1. req \in PushRequest \union {nil}
      BY DEF TypeOK
    <3>2. Merge(req, RequestOf(Head(ch))).configs = (IF req = nil THEN {} ELSE req.configs) \union {Head(ch).id}
      BY <2>2, <3>1, MergeUpdate, Zenon
    <3> QED BY <2>1, <2>3, <3>2, Zenon
  <2>5. req'.configs = (Base + 1)..(Base + events + 1)
    <3> DEFINE b == Base
               c == req'.configs
    <3>1. b \in Nat
      BY <1>2
    <3>2. c = ((b + 1)..(b + events)) \union {b + events + 1}
      <4>1. CASE req = nil
        <5>1. events = 0
          BY <4>1 DEF Looks, Window
        <5>2. c = {b + 1}
          BY <1>2, <2>4, <4>1, <5>1
        <5> HIDE DEF b, c
        <5> QED BY <3>1, <5>1, <5>2
      <4>2. CASE req # nil
        BY <1>4, <2>4, <4>2, Zenon
      <4> QED BY <4>1, <4>2
    <3> HIDE DEF b, c
    <3>3. c = (b + 1)..(b + events + 1)
      BY <1>2, <3>1, <3>2
    <3> QED BY <3>3 DEF b, c
  <2>6. \A i \in 1..Len(ch') : ch'[i].id = Base + events + 1 + i
    <3> DEFINE b == Base + events
    <3>1. b \in Nat /\ \A i \in 1..Len(ch) : ch[i].id = b + i
      BY <1>2, <1>4
    <3> HIDE DEF b
    <3>2. ASSUME NEW i \in 1..Len(ch') PROVE ch'[i].id = b + (i + 1) /\ b + (i + 1) = b + 1 + i
      BY <2>2, <3>1, <3>2
    <3> QED BY <3>2 DEF b
  <2>7. Ids' = Ids /\ Base + events + 1 + Len(ch') = Base + events + Len(ch)
    BY <1>2, <2>1, <2>2
  <2>8. Uncounted' = Uncounted
    BY <2>1 DEF Uncounted
  <2> QED BY <1>2, <1>4, <2>1, <2>5, <2>6, <2>7, <2>8, SMTT(60) DEF InOrder
<1>14. CASE PushReturns
  <2>1. /\ pushing \in Push /\ pushing.step = "push" /\ pushing' = [pushing EXCEPT !.step = "count"]
        /\ pushed' = pushed \union pushing.req.configs /\ pushing'.req = pushing.req
    BY <1>14 DEF PushReturns, TypeOK
  <2>2. pushing' \in Push /\ pushing'.events = pushing.events /\ pushing'.step = "count" /\ pushing.events \in Nat
    BY <2>1 DEF Push
  <2>3. pushing # nil /\ pushing' # nil
    BY <2>1, <2>2, DebounceAssumption
  <2>4. pushed' = 1..(committed + pushing.events)
    BY SMTT(60), <1>2, <1>4, <2>1, <2>2, <2>3
  <2>5. Uncounted' = Uncounted
    BY <2>1, <2>2, <2>3 DEF Uncounted
  <2>6. UNCHANGED <<inbound, sending, ch, req, events, immediate, committed>>
    BY <1>14, Zenon DEF PushReturns
  <2> QED BY <1>4, <2>1, <2>2, <2>3, <2>4, <2>5, <2>6 DEF InOrder
<1>15. CASE CountPush
  <2>1. /\ pushing \in Push /\ pushing.step = "count" /\ pushing' = [pushing EXCEPT !.step = "free"]
        /\ committed' = committed + pushing.events
    BY <1>15 DEF CountPush, TypeOK
  <2>2. pushing # nil /\ pushing'.step = "free" /\ pushing.events \in Nat /\ pushing'.req = pushing.req
    BY <2>1, DebounceAssumption DEF Push
  <2>3. Uncounted = pushing.events /\ Uncounted' = 0
    BY <2>1, <2>2 DEF Uncounted
  <2>4. Base' = Base
    BY <1>2, <2>1, <2>2, <2>3
  <2>5. UNCHANGED <<inbound, sending, ch, req, events, immediate, pushed>>
    BY <1>15, Zenon DEF CountPush
  <2>6. pushed' = 1..committed'
    BY <1>4, <2>1, <2>2, <2>5
  <2>7. committed' + 0 = committed'
    <3> DEFINE c == committed'
    <3>1. c \in Nat
      BY DEF TypeOK
    <3> HIDE DEF c
    <3>2. c + 0 = c
      BY <3>1
    <3> QED BY <3>2 DEF c
  <2> QED BY <1>4, <2>1, <2>2, <2>4, <2>5, <2>6, <2>7 DEF InOrder
<1>16. CASE FreePush
  <2>1. pushing # nil /\ pushing.step = "free" /\ pushing' = nil
    BY <1>16 DEF FreePush
  <2>2. Uncounted' = Uncounted
    BY <2>1 DEF Uncounted
  <2>3. UNCHANGED <<inbound, sending, ch, req, events, immediate, committed, pushed>>
    BY <1>16, Zenon DEF FreePush
  <2> QED BY <1>4, <2>1, <2>2, <2>3 DEF InOrder
<1>17. CASE Stop \/ ReadExpected \/ PushContextReady \/ Tick \/ UNCHANGED vars
  <2>1. UNCHANGED <<inbound, sending, ch, req, events, pushing, immediate, committed, pushed>>
    BY <1>17, Zenon DEF Stop, ReadExpected, PushContextReady, Tick, vars
  <2> QED BY <1>5, <2>1
<1> QED
  BY <1>6, <1>7, <1>8, <1>9, <1>11, <1>12, <1>13, <1>14, <1>15, <1>16, <1>17 DEF Next, PushGoroutine

\* What the start-up check waits for, and has waited for once it is ready.
Waited ==
  /\ ready => (expected # Off /\ committed >= expected)
  /\ (InTurn /\ expected # Off) => synced = 1..expected

\* While the updates are in turn, those counted in inbound and not lost are
\* the numbers up to inbound: what waitForCacheSync's expected stands for.
LEMMA CountedInTurn ==
  TypeOK /\ Looks /\ Accounted /\ InOrder /\ InTurn => Counted = 1..inbound
<1> SUFFICES ASSUME TypeOK, Looks, Accounted, InOrder, InTurn PROVE Counted = 1..inbound
  OBVIOUS
<1> DEFINE c == committed
           n == Uncounted
           e == events
           l == Len(ch)
           Running == IF pushing = nil THEN {} ELSE pushing.req.configs
           Merged == IF req = nil THEN {} ELSE req.configs
           InChannel == {ch[i].id : i \in 1..l}
           Blocked == {u.id : u \in sending}
<1>1. c \in Nat /\ n \in Nat /\ e \in Nat /\ l \in Nat /\ inbound \in Nat
  BY UncountedType DEF TypeOK
<1>2. c + n + e + l <= inbound
  BY <1>1, FS_CardinalityType, SMTT(60) DEF Accounted, CountersAgree, Uncounted
<1>3. pushed \union Running = 1..(c + n)
  <2>1. CASE pushing = nil
    BY <1>1, <2>1 DEF InOrder, Uncounted
  <2>2. CASE pushing # nil /\ pushing.step = "push"
    <3>1. pushed = 1..c /\ Running = (c + 1)..(c + n)
      BY <1>1, <2>2 DEF InOrder, Uncounted
    <3> HIDE DEF c, n, Running
    <3> QED BY <1>1, <3>1
  <2>3. CASE pushing # nil /\ pushing.step # "push"
    <3>1. pushing.step \in {"count", "free"}
      BY <2>3 DEF TypeOK, Push
    <3>2. pushed = 1..(c + n) /\ Running \subseteq pushed
      BY <1>1, <2>3, <3>1 DEF InOrder, Uncounted
    <3> QED BY <3>2
  <2> QED BY <2>1, <2>2, <2>3
<1>4. Merged = (c + n + 1)..(c + n + e)
  <2>1. CASE req = nil
    <3>1. e = 0 /\ Merged = {}
      BY <2>1 DEF Looks, Window
    <3> HIDE DEF c, n, e, Merged
    <3> QED BY <1>1, <3>1
  <2>2. CASE req # nil
    BY <2>2 DEF InOrder
  <2> QED BY <2>1, <2>2
<1>5. InChannel = (c + n + e + 1)..(c + n + e + l)
  <2>1. \A i \in 1..l : ch[i].id = c + n + e + i
    BY DEF InOrder
  <2>2. InChannel = {c + n + e + i : i \in 1..l}
    BY <2>1
  <2> HIDE DEF c, n, e, l, InChannel
  <2>3. \A m \in (c + n + e + 1)..(c + n + e + l) : m - (c + n + e) \in 1..l /\ m = c + n + e + (m - (c + n + e))
    BY <1>1
  <2>4. \A i \in 1..l : c + n + e + i \in (c + n + e + 1)..(c + n + e + l)
    BY <1>1
  <2> QED BY <2>2, <2>3, <2>4
<1>6. Blocked = (c + n + e + l + 1)..inbound /\ immediate = {}
  BY DEF InOrder
<1>7. Counted = Blocked \union InChannel \union Merged \union Running \union {} \union pushed
  BY <1>6 DEF Counted
<1> HIDE DEF c, n, e, l, Running, Merged, InChannel, Blocked
<1> QED BY <1>1, <1>2, <1>3, <1>4, <1>5, <1>6, <1>7

\* A ready server has committed as many updates as it expected.
LEMMA WaitedInductive ==
  TypeOK /\ TypeOK' /\ Looks /\ Accounted /\ InOrder /\ Waited /\ [Next]_vars => Waited'
<1> SUFFICES ASSUME TypeOK, TypeOK', Looks, Accounted, InOrder, Waited, [Next]_vars PROVE Waited'
  OBVIOUS
<1> USE DEF loopVars, fixedVars, waitVars, syncVars
<1>1. InTurn' => InTurn
  BY TurnLost
<1>2. ASSUME UNCHANGED waitVars, committed' >= committed PROVE Waited'
  <2> DEFINE c == committed'
  <2>1. c \in Nat /\ committed \in Nat /\ c >= committed /\ expected \in Nat \union {Off}
    BY <1>2 DEF TypeOK
  <2> HIDE DEF c
  <2>2. (expected # Off /\ committed >= expected) => c >= expected
    BY <2>1
  <2> QED BY <1>1, <1>2, <2>2, Zenon DEF Waited, c
<1>3. committed' = committed => committed' >= committed
  BY DEF TypeOK
<1>4. ASSUME NEW u \in Update, ImmediateReturns(u) PROVE Waited'
  <2>1. committed' = committed + 1 /\ UNCHANGED waitVars
    BY <1>4, Zenon DEF ImmediateReturns
  <2> QED BY <1>2, <2>1 DEF TypeOK
<1>5. CASE CountPush
  <2>1. committed' = committed + pushing.events /\ UNCHANGED waitVars
    BY <1>5, Zenon DEF CountPush
  <2>2. pushing.events \in Nat
    BY <1>5 DEF CountPush, TypeOK, Push
  <2> QED BY <1>2, <2>1, <2>2 DEF TypeOK
<1>6. CASE ReadExpected
  <2>1. /\ expected = Off /\ expected' = inbound /\ synced' = Counted /\ ready' = ready
        /\ committed' = committed
    BY <1>6, Zenon DEF ReadExpected
  <2>2. ~ready'
    BY <2>1 DEF Waited
  <2>3. InTurn' => synced' = 1..expected'
    BY <1>1, <2>1, CountedInTurn
  <2> QED BY <2>2, <2>3, Zenon DEF Waited
<1>7. CASE PushContextReady
  <2>1. expected # Off /\ committed >= expected /\ UNCHANGED <<expected, synced, committed>>
    BY <1>7, Zenon DEF PushContextReady
  <2> QED BY <1>1, <2>1 DEF Waited
<1>8. CASE \/ \E u \in Update : ConfigUpdate(u) \/ SendUpdate(u)
           \/ Freed \/ ReceiveImmediate \/ Receive \/ TimerFired \/ Stop
           \/ PushReturns \/ FreePush \/ Tick \/ UNCHANGED vars
  <2>1. UNCHANGED <<waitVars, committed>>
    BY <1>8, Zenon DEF ConfigUpdate, SendUpdate, Freed, ReceiveImmediate, Receive, TimerFired, Stop,
                 PushReturns, FreePush, Tick, vars
  <2> QED BY <1>2, <1>3, <2>1
<1> QED BY <1>4, <1>5, <1>6, <1>7, <1>8 DEF Next, PushGoroutine

\* The start-up check of bootstrap/server.go: once the server is ready, every
\* update counted when its caches were synced has been pushed, as long as no
\* update overtakes one counted before it and endpoint updates are debounced.
THEOREM ReadyHolds == Spec => []ReadyImpliesPushed
<1>1. Init => InOrder /\ Waited
  BY DEF Init, InOrder, Waited, InTurn, Uncounted
<1>2. TypeOK /\ TypeOK' /\ Looks /\ Accounted /\ InOrder /\ Waited /\ [Next]_vars => InOrder' /\ Waited'
  BY InOrderInductive, WaitedInductive
<1>3. TypeOK /\ InOrder /\ Waited => ReadyImpliesPushed
  <2> SUFFICES ASSUME TypeOK, InOrder, Waited, ready, InTurn PROVE synced \subseteq pushed
    BY DEF ReadyImpliesPushed, InTurn
  <2>1. /\ committed \in Nat /\ expected \in Nat /\ committed >= expected /\ synced = 1..expected
    BY DEF TypeOK, Waited
  <2>2. 1..committed \subseteq pushed
    <3>1. CASE pushing # nil /\ pushing.step = "count"
      <4>1. pushing.events \in Nat
        BY <3>1 DEF TypeOK, Push
      <4> QED BY <2>1, <3>1, <4>1, SMTT(60) DEF InOrder
    <3>2. CASE ~(pushing # nil /\ pushing.step = "count")
      BY <2>1, <3>2 DEF InOrder
    <3> QED BY <3>1, <3>2
  <2> QED BY <2>1, <2>2
<1> QED
  BY <1>1, <1>2, <1>3, Typing, LoopLooks, UpdatesAccounted, PTL DEF Spec
=============================================================================
