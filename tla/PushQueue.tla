----------------------------- MODULE PushQueue -----------------------------
(***************************************************************************)
(* The push queue of the discovery server                                  *)
(* (dubbod/discovery/pkg/xds/pushqueue.go): the connections that need a    *)
(* push, each at most once, with the updates that arrive for a connection  *)
(* merged while it waits and while it is being pushed to.  Every operation *)
(* holds the condition variable's lock from its first line to its last, so *)
(* each is one action.                                                     *)
(***************************************************************************)
EXTENDS PushRequest, Sequences, FiniteSets

CONSTANTS
  Conn,     \* the connections
  Incoming  \* the requests producers enqueue

ASSUME IncomingAssumption == Incoming \subseteq PushRequest

VARIABLES
  pending,       \* map con -> request waiting in the queue
  queue,         \* the order in which pending connections are served
  processing,    \* map con -> request that arrived during the push, or nil
  shuttingDown,
  stopped,       \* stopCh of doSendPushes is closed
  inflight,      \* con -> the request Dequeue handed out and MarkDone has
                 \*        not answered yet (held by the caller), or nil
  accepted,      \* history: con -> configs in the requests accepted
  delivered      \* history: con -> configs in the requests marked done

queueVars == <<pending, queue, processing, shuttingDown>>
vars == <<pending, queue, processing, shuttingDown, stopped, inflight, accepted, delivered>>

With(map, c, r) == [k \in DOMAIN map \union {c} |-> IF k = c THEN r ELSE map[k]]
Without(map, c) == [k \in DOMAIN map \ {c} |-> map[k]]

\* NewPushQueue
Init ==
  /\ pending = [c \in {} |-> nil]
  /\ queue = <<>>
  /\ processing = [c \in {} |-> nil]
  /\ shuttingDown = FALSE
  /\ stopped = FALSE
  /\ inflight = [c \in Conn |-> nil]
  /\ accepted = [c \in Conn |-> {}]
  /\ delivered = [c \in Conn |-> {}]

-----------------------------------------------------------------------------
(* Enqueue.  A connection being pushed to collects the update in           *)
(* processing, one that already waits collects it in pending, any other    *)
(* joins the tail of the queue.                                            *)

\* Slip: the two requests are merged the wrong way round.
EnqueueProcessingSwapped(c, r) ==
  /\ c \in DOMAIN processing
  /\ processing' = With(processing, c, CopyMerge(r, processing[c]))
  /\ UNCHANGED <<pending, queue>>

EnqueueProcessing(c, r) ==
  /\ c \in DOMAIN processing
  /\ processing' = With(processing, c, CopyMerge(processing[c], r))
  /\ UNCHANGED <<pending, queue>>

\* Slip: a connection that already waits is appended to the queue again.
EnqueuePendingTwice(c, r) ==
  /\ c \notin DOMAIN processing
  /\ c \in DOMAIN pending
  /\ pending' = With(pending, c, CopyMerge(pending[c], r))
  /\ queue' = Append(queue, c)
  /\ UNCHANGED processing

EnqueuePending(c, r) ==
  /\ c \notin DOMAIN processing
  /\ c \in DOMAIN pending
  /\ pending' = With(pending, c, CopyMerge(pending[c], r))
  /\ UNCHANGED <<queue, processing>>

\* Slip: a new connection goes to the head of the queue.
EnqueueNewFront(c, r) ==
  /\ c \notin DOMAIN processing
  /\ c \notin DOMAIN pending
  /\ pending' = With(pending, c, r)
  /\ queue' = <<c>> \o queue
  /\ UNCHANGED processing

EnqueueNew(c, r) ==
  /\ c \notin DOMAIN processing
  /\ c \notin DOMAIN pending
  /\ pending' = With(pending, c, r)
  /\ queue' = Append(queue, c)
  /\ UNCHANGED processing

Enqueue(c, r) ==
  /\ ~shuttingDown
  /\ EnqueueProcessing(c, r) \/ EnqueuePending(c, r) \/ EnqueueNew(c, r)
  /\ accepted' = [accepted EXCEPT ![c] = @ \union r.configs]
  /\ UNCHANGED <<shuttingDown, stopped, inflight, delivered>>

\* The early return of Enqueue on a queue that is shutting down.
EnqueueRefused(c, r) ==
  /\ shuttingDown
  /\ UNCHANGED vars

\* Slip: Dequeue does not mark the connection as being pushed to.
DequeueUnmarked ==
  /\ queue # <<>>
  /\ LET c == Head(queue) IN
       /\ queue' = Tail(queue)
       /\ inflight' = [inflight EXCEPT ![c] = pending[c]]
       /\ pending' = Without(pending, c)
  /\ UNCHANGED <<processing, shuttingDown, stopped, accepted, delivered>>

\* Dequeue once its wait loop has let it through with a connection.  The
\* entry processing[c] = nil is what marks c as being pushed to.
Dequeue ==
  /\ queue # <<>>
  /\ LET c == Head(queue) IN
       /\ queue' = Tail(queue)
       /\ inflight' = [inflight EXCEPT ![c] = pending[c]]
       /\ pending' = Without(pending, c)
       /\ processing' = With(processing, c, nil)
  /\ UNCHANGED <<shuttingDown, stopped, accepted, delivered>>

\* Slip: MarkDone queues the connection again without testing for nil.
MarkDoneNoTest(c) ==
  /\ inflight[c] # nil
  /\ LET request == IF c \in DOMAIN processing THEN processing[c] ELSE nil IN
       /\ processing' = Without(processing, c)
       /\ pending' = With(pending, c, request)
       /\ queue' = Append(queue, c)
  /\ delivered' = [delivered EXCEPT ![c] = @ \union inflight[c].configs]
  /\ inflight' = [inflight EXCEPT ![c] = nil]
  /\ UNCHANGED <<shuttingDown, stopped, accepted>>

\* Slip: MarkDone forgets what arrived during the push.
MarkDoneForgets(c) ==
  /\ inflight[c] # nil
  /\ processing' = Without(processing, c)
  /\ delivered' = [delivered EXCEPT ![c] = @ \union inflight[c].configs]
  /\ inflight' = [inflight EXCEPT ![c] = nil]
  /\ UNCHANGED <<pending, queue, shuttingDown, stopped, accepted>>

\* MarkDone, called by doneFunc for a connection that Dequeue handed out.
\* There is no test of shuttingDown: what arrived meanwhile is queued again.
MarkDone(c) ==
  /\ inflight[c] # nil
  /\ LET request == IF c \in DOMAIN processing THEN processing[c] ELSE nil IN
       /\ processing' = Without(processing, c)
       /\ IF request # nil
            THEN /\ pending' = With(pending, c, request)
                 /\ queue' = Append(queue, c)
            ELSE UNCHANGED <<pending, queue>>
  /\ delivered' = [delivered EXCEPT ![c] = @ \union inflight[c].configs]
  /\ inflight' = [inflight EXCEPT ![c] = nil]
  /\ UNCHANGED <<shuttingDown, stopped, accepted>>

\* The server stops: doSendPushes returns when it next looks at stopCh.  It
\* may be past that look, inside Dequeue, when the channel closes.
CloseStop ==
  /\ ~stopped /\ stopped' = TRUE
  /\ UNCHANGED <<pending, queue, processing, shuttingDown, inflight, accepted, delivered>>

\* The last step of waitForShutdown, which waits for stop first.
ShutDown ==
  /\ stopped
  /\ shuttingDown' = TRUE
  /\ UNCHANGED <<pending, queue, processing, stopped, inflight, accepted, delivered>>

Next ==
  \/ \E c \in Conn, r \in Incoming : Enqueue(c, r) \/ EnqueueRefused(c, r)
  \/ Dequeue
  \/ \E c \in Conn : MarkDone(c)
  \/ CloseStop
  \/ ShutDown

Spec == Init /\ [][Next]_vars

\* The sender loop dequeues for as long as the server runs, and every push
\* ends in doneFunc.
FairSpec == Spec /\ WF_vars(~stopped /\ Dequeue) /\ \A c \in Conn : WF_vars(MarkDone(c))

-----------------------------------------------------------------------------
Distinct(s) == \A i, j \in 1..Len(s) : s[i] = s[j] => i = j
Waiting == {queue[i] : i \in 1..Len(queue)}

TypeOK ==
  /\ DOMAIN pending \subseteq Conn
  /\ \A c \in DOMAIN pending : pending[c] \in PushRequest
  /\ queue \in Seq(Conn)
  /\ DOMAIN processing \subseteq Conn
  /\ \A c \in DOMAIN processing : processing[c] \in PushRequest \union {nil}
  /\ shuttingDown \in BOOLEAN
  /\ stopped \in BOOLEAN
  /\ inflight \in [Conn -> PushRequest \union {nil}]
  /\ accepted \in [Conn -> SUBSET ConfigKey]
  /\ delivered \in [Conn -> SUBSET ConfigKey]

\* The queue slice and the two maps of pushqueue.go describe the same set of
\* connections: the slice holds exactly the pending ones, each once, and no
\* connection is both waiting and being pushed to.
QueueConsistent ==
  /\ Distinct(queue)
  /\ Waiting = DOMAIN pending
  /\ DOMAIN pending \intersect DOMAIN processing = {}

\* Between Dequeue and MarkDone a connection is in processing, and only then:
\* Dequeue cannot hand out a connection whose previous push has not ended, so
\* two pushes never write to one stream at the same time.
OnePushPerConnection ==
  \A c \in Conn : c \in DOMAIN processing <=> inflight[c] # nil

ConfigsOf(r) == IF r = nil THEN {} ELSE r.configs
PendingConfigs(c) == IF c \in DOMAIN pending THEN pending[c].configs ELSE {}
ProcessingConfigs(c) == IF c \in DOMAIN processing THEN ConfigsOf(processing[c]) ELSE {}

\* Every configuration update Enqueue accepted for a connection has either
\* been delivered or is still held somewhere for it: no interleaving of
\* Enqueue, Dequeue, MarkDone and ShutDown drops an accepted update.
NoUpdateLost ==
  \A c \in Conn :
    accepted[c] = delivered[c] \union ConfigsOf(inflight[c])
                    \union PendingConfigs(c) \union ProcessingConfigs(c)

\* An update that Enqueue accepted is eventually delivered, whatever else is
\* enqueued meanwhile, unless the server stops first: doSendPushes returns on
\* stopCh and leaves what is still in the queue.
EventuallyDelivered ==
  \A c \in Conn, k \in ConfigKey :
    (k \in accepted[c]) ~> (k \in delivered[c] \/ stopped)

-----------------------------------------------------------------------------
(* The queue implements one mailbox per connection.                        *)

Mailbox == INSTANCE PushMailbox WITH
  owed <- [c \in Conn |-> IF c \in DOMAIN pending THEN pending[c]
                          ELSE IF c \in DOMAIN processing THEN processing[c]
                          ELSE nil],
  underway <- inflight,
  closed <- shuttingDown

\* Pending and processing together are one mailbox of the abstract
\* specification: an Enqueue during a push is not lost, not sent twice and not
\* merged into the push already under way.
ImplementsMailbox == Mailbox!Spec
=============================================================================
