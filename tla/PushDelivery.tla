---------------------------- MODULE PushDelivery ----------------------------
(***************************************************************************)
(* The goroutines between the push queue and a client: doSendPushes with   *)
(* its semaphore (dubbod/discovery/pkg/xds/discovery.go), the goroutine it *)
(* starts for each push, the loop that serves a stream and the goroutine   *)
(* that receives its requests (pkg/xds/server.go for streams of the whole  *)
(* state, dubbod/discovery/pkg/xds/delta.go for those of differences).     *)
(*                                                                         *)
(* The queue is PushMailbox without the contents: a connection is owed a   *)
(* push or not, and has one under way or not.  Requests carry no data; a   *)
(* client may send any number of them.                                     *)
(***************************************************************************)
EXTENDS Naturals, FiniteSets

CONSTANTS
  Conn,
  Delta,     \* the connections that are delta streams
  PushLimit  \* capacity of concurrentPushLimit

ASSUME PushDeliveryAssumption ==
  Delta \subseteq Conn /\ PushLimit \in Nat \ {0} /\ IsFiniteSet(Conn)

VARIABLES
  sender,      \* where doSendPushes is
  semaphore,   \* tokens taken from concurrentPushLimit
  stopped,     \* stopCh is closed
  shuttingDown,  \* the queue is
  owed, underway,  \* the queue: connections waiting, connections being pushed
  offering,    \* goroutines at `client.PushCh() <- pushEv`
  releasing,   \* the same, between MarkDone and the semaphore
  handler,     \* where the stream's loop is
  receiver,    \* where the stream's receiving goroutine is
  added,       \* connections that initConnection has added (once)
  registered,  \* adsClients
  initialized, \* connections whose initialized channel is closed
  request,     \* connections with a request in reqChan
  reqClosed, errClosed,  \* connections whose reqChan / errorChan is closed
  error,       \* connections with an error in errorChan
  done         \* connections whose stream context is done

queueVars == <<owed, underway>>
senderVars == <<sender, semaphore, stopped, shuttingDown, offering, releasing>>
chanVars == <<initialized, request, reqClosed, errClosed, error>>
receiverVars == <<receiver, added, registered>>
deliveryVars ==
  <<sender, semaphore, stopped, shuttingDown, owed, underway, offering, releasing, handler,
    receiver, added, registered, initialized, request, reqClosed, errClosed, error, done>>

DeliveryInit ==
  /\ sender = "top" /\ semaphore = 0 /\ stopped = FALSE /\ shuttingDown = FALSE
  /\ owed = {} /\ underway = {} /\ offering = {} /\ releasing = 0
  /\ handler = [c \in Conn |-> "waiting"]
  /\ receiver = [c \in Conn |-> "receiving"]
  /\ added = {} /\ registered = {} /\ initialized = {} /\ request = {}
  /\ reqClosed = {} /\ errClosed = {} /\ error = {} /\ done = {}

-----------------------------------------------------------------------------
(* The queue's producers, and the end of the server.                       *)

\* StartPush or ProxyUpdate; the client may have been removed since it was listed.
Enqueue(c) ==
  /\ c \in added /\ ~shuttingDown
  /\ owed' = owed \union {c}
  /\ UNCHANGED <<senderVars, underway, handler, receiverVars, chanVars, done>>

\* waitForShutdown: the stop channel, then PushQueue.ShutDown.
CloseStop ==
  /\ ~stopped /\ stopped' = TRUE
  /\ UNCHANGED <<sender, semaphore, shuttingDown, offering, releasing, queueVars, handler,
                 receiverVars, chanVars, done>>

ShutDown ==
  /\ stopped /\ ~shuttingDown /\ shuttingDown' = TRUE
  /\ UNCHANGED <<sender, semaphore, stopped, offering, releasing, queueVars, handler,
                 receiverVars, chanVars, done>>

-----------------------------------------------------------------------------
(* doSendPushes                                                            *)

CheckStop ==
  /\ sender = "top"
  /\ sender' = IF stopped THEN "returned" ELSE "acquire"
  /\ UNCHANGED <<semaphore, stopped, shuttingDown, offering, releasing, queueVars, handler,
                 receiverVars, chanVars, done>>

Acquire ==
  /\ sender = "acquire" /\ semaphore < PushLimit
  /\ semaphore' = semaphore + 1
  /\ sender' = "dequeue"
  /\ UNCHANGED <<stopped, shuttingDown, offering, releasing, queueVars, handler,
                 receiverVars, chanVars, done>>

Dequeue(c) ==
  /\ sender = "dequeue" /\ c \in owed \ underway
  /\ owed' = owed \ {c} /\ underway' = underway \union {c}
  /\ offering' = offering \union {c}
  /\ sender' = "top"
  /\ UNCHANGED <<semaphore, stopped, shuttingDown, releasing, handler, receiverVars,
                 chanVars, done>>

DequeueShutDown ==
  /\ sender = "dequeue" /\ shuttingDown /\ owed \subseteq underway
  /\ sender' = "returned"
  /\ UNCHANGED <<semaphore, stopped, shuttingDown, offering, releasing, queueVars, handler,
                 receiverVars, chanVars, done>>

\* Mutant: the push given up marks the queue but keeps its token.
StreamClosedLeaks(c) ==
  /\ c \in offering /\ c \in done
  /\ offering' = offering \ {c}
  /\ underway' = underway \ {c}
  /\ UNCHANGED <<sender, semaphore, stopped, shuttingDown, owed, releasing, handler,
                 receiverVars, chanVars, done>>

\* The stream is gone: the goroutine calls doneFunc itself.
StreamClosed(c) ==
  /\ c \in offering /\ c \in done
  /\ offering' = offering \ {c}
  /\ underway' = underway \ {c}
  /\ releasing' = releasing + 1
  /\ UNCHANGED <<sender, semaphore, stopped, shuttingDown, owed, handler, receiverVars,
                 chanVars, done>>

ReleaseClosed ==
  /\ releasing > 0
  /\ releasing' = releasing - 1
  /\ semaphore' = semaphore - 1
  /\ UNCHANGED <<sender, stopped, shuttingDown, offering, queueVars, handler, receiverVars,
                 chanVars, done>>

-----------------------------------------------------------------------------
(* The loop that serves a stream: a first select that looks for a request  *)
(* only, a second that waits for a request or a push.                      *)

Goto(c, place) ==
  /\ handler' = [handler EXCEPT ![c] = place]
  /\ done' = IF place = "returned" THEN done \union {c} ELSE done

Start(c) ==
  /\ handler[c] = "waiting" /\ c \in initialized
  /\ Goto(c, "first")
  /\ UNCHANGED <<senderVars, queueVars, receiverVars, chanVars>>

\* Mutant: `continue` after a request, so pushes wait for the requests to end.
ProcessContinues(c) ==
  /\ handler[c] \in {"first", "second"} /\ c \in request
  /\ request' = request \ {c}
  /\ Goto(c, "first") \/ Goto(c, "returned")
  /\ UNCHANGED <<senderVars, queueVars, receiverVars, initialized, reqClosed, errClosed, error>>

\* Process succeeds, or its error ends the stream.
Process(c) ==
  /\ handler[c] \in {"first", "second"} /\ c \in request
  /\ request' = request \ {c}
  /\ \/ Goto(c, IF handler[c] = "first" THEN "second" ELSE "first")
     \/ Goto(c, "returned")
  /\ UNCHANGED <<senderVars, queueVars, receiverVars, initialized, reqClosed, errClosed, error>>

\* `return <-con.errorChan` once reqChan is closed and drained.
ReturnError(c) ==
  /\ handler[c] \in {"first", "second"} /\ c \notin request /\ c \in reqClosed
  /\ c \in error \union errClosed
  /\ error' = error \ {c}
  /\ Goto(c, "returned")
  /\ UNCHANGED <<senderVars, queueVars, receiverVars, initialized, request, reqClosed, errClosed>>

NoRequest(c) ==
  /\ handler[c] = "first" /\ c \notin request \union reqClosed
  /\ Goto(c, "second")
  /\ UNCHANGED <<senderVars, queueVars, receiverVars, chanVars>>

ReceivePush(c) ==
  /\ handler[c] = "second" /\ c \in offering
  /\ offering' = offering \ {c}
  /\ Goto(c, "pushing")
  /\ UNCHANGED <<sender, semaphore, stopped, shuttingDown, releasing, queueVars,
                 receiverVars, chanVars>>

\* Mutant: the error of a push returns before doneFunc.
MarkDoneUnlessError(c) ==
  /\ handler[c] = "pushing"
  /\ \/ underway' = underway \ {c} /\ Goto(c, "pushed")
     \/ UNCHANGED underway /\ Goto(c, "returned")
  /\ UNCHANGED <<senderVars, owed, receiverVars, chanVars>>

\* pushConnection returns, with or without an error, and doneFunc starts.
MarkDone(c) ==
  /\ handler[c] = "pushing"
  /\ underway' = underway \ {c}
  /\ Goto(c, "pushed") \/ Goto(c, "failed")
  /\ UNCHANGED <<senderVars, owed, receiverVars, chanVars>>

Release(c) ==
  /\ handler[c] \in {"pushed", "failed"}
  /\ semaphore' = semaphore - 1
  /\ Goto(c, IF handler[c] = "pushed" THEN "first" ELSE "returned")
  /\ UNCHANGED <<sender, stopped, shuttingDown, offering, releasing, queueVars,
                 receiverVars, chanVars>>
-----------------------------------------------------------------------------
(* Receive and receiveDelta.                                               *)

\* The client goes away, or the transport fails.
Disconnect(c) ==
  /\ c \notin done /\ done' = done \union {c}
  /\ UNCHANGED <<senderVars, queueVars, handler, receiverVars, chanVars>>

ReceiverAt(c, from, to) ==
  /\ receiver[c] = from
  /\ receiver' = [receiver EXCEPT ![c] = to]

\* Recv returns a request: the first one initialises the connection.
Receive(c) ==
  /\ c \notin done
  /\ ReceiverAt(c, "receiving", IF c \in added THEN "handing" ELSE "initializing")
  /\ UNCHANGED <<senderVars, queueVars, handler, added, registered, chanVars, done>>

\* Recv fails: an unexpected error is left for the stream's loop, the end of
\* the stream is not.
ReceiveFails(c) ==
  /\ ReceiverAt(c, "receiving", "closing")
  /\ error' \in {error, error \union {c}}
  /\ UNCHANGED <<senderVars, queueVars, handler, added, registered, initialized, request,
                 reqClosed, errClosed, done>>

\* The node is missing, malformed or not authorized.
InitializeFails(c) ==
  /\ ReceiverAt(c, "initializing", "closing")
  /\ error' = error \union {c}
  /\ UNCHANGED <<senderVars, queueVars, handler, added, registered, initialized, request,
                 reqClosed, errClosed, done>>

\* initConnection: addCon, then MarkInitialized when it returns.
AddCon(c) ==
  /\ ReceiverAt(c, "initializing", "added")
  /\ added' = added \union {c} /\ registered' = registered \union {c}
  /\ UNCHANGED <<senderVars, queueVars, handler, chanVars, done>>

MarkInitialized(c) ==
  /\ ReceiverAt(c, "added", "handing")
  /\ initialized' = initialized \union {c}
  /\ UNCHANGED <<senderVars, queueVars, handler, added, registered, request, reqClosed,
                 errClosed, error, done>>

\* The request goes into reqChan, which holds one.
HandOver(c) ==
  /\ c \notin request
  /\ ReceiverAt(c, "handing", "receiving")
  /\ request' = request \union {c}
  /\ UNCHANGED <<senderVars, queueVars, handler, added, registered, initialized, reqClosed,
                 errClosed, error, done>>

HandOverAborted(c) ==
  /\ c \in done
  /\ ReceiverAt(c, "handing", "closing")
  /\ UNCHANGED <<senderVars, queueVars, handler, added, registered, chanVars, done>>

\* Mutant: the client stays registered when its stream was cut off.
CloseConnectionUnlessDone(c) ==
  /\ ReceiverAt(c, "closing", "closed")
  /\ registered' = IF c \in done THEN registered ELSE registered \ {c}
  /\ UNCHANGED <<senderVars, queueVars, handler, added, chanVars, done>>

\* The deferred calls: closeConnection first (when initConnection succeeded),
\* then the channels, in an order of its own for each kind of stream.
CloseConnection(c) ==
  /\ ReceiverAt(c, "closing", "closed")
  /\ registered' = registered \ {c}
  /\ UNCHANGED <<senderVars, queueVars, handler, added, chanVars, done>>

CloseFirst(c) ==
  /\ ReceiverAt(c, "closed", "half")
  /\ IF c \in Delta
       THEN reqClosed' = reqClosed \union {c} /\ UNCHANGED errClosed
       ELSE errClosed' = errClosed \union {c} /\ UNCHANGED reqClosed
  /\ UNCHANGED <<senderVars, queueVars, handler, added, registered, initialized, request,
                 error, done>>

CloseSecond(c) ==
  /\ ReceiverAt(c, "half", "ending")
  /\ reqClosed' = reqClosed \union {c} /\ errClosed' = errClosed \union {c}
  /\ UNCHANGED <<senderVars, queueVars, handler, added, registered, initialized, request,
                 error, done>>

\* Mutant: a stream that ends before it is initialised leaves its loop waiting.
CloseInitializedForgotten(c) ==
  /\ ReceiverAt(c, "ending", "ended")
  /\ UNCHANGED <<senderVars, queueVars, handler, added, registered, chanVars, done>>

CloseInitialized(c) ==
  /\ ReceiverAt(c, "ending", "ended")
  /\ initialized' = initialized \union {c}
  /\ UNCHANGED <<senderVars, queueVars, handler, added, registered, request, reqClosed,
                 errClosed, error, done>>

-----------------------------------------------------------------------------
SenderStep == CheckStop \/ Acquire \/ DequeueShutDown

HandlerStep(c) ==
  Start(c) \/ Process(c) \/ ReturnError(c) \/ NoRequest(c) \/ MarkDone(c) \/ Release(c)

\* What the receiver does without waiting for the client.
ReceiverStep(c) ==
  \/ InitializeFails(c) \/ AddCon(c) \/ MarkInitialized(c) \/ HandOver(c)
  \/ HandOverAborted(c) \/ CloseConnection(c) \/ CloseFirst(c) \/ CloseSecond(c)
  \/ CloseInitialized(c)

DeliveryNext ==
  \/ CloseStop \/ ShutDown \/ SenderStep \/ ReleaseClosed
  \/ \E c \in Conn :
       \/ Enqueue(c) \/ Dequeue(c) \/ StreamClosed(c) \/ ReceivePush(c) \/ HandlerStep(c)
       \/ Disconnect(c) \/ Receive(c) \/ ReceiveFails(c) \/ ReceiverStep(c)

DeliverySpec == DeliveryInit /\ [][DeliveryNext]_deliveryVars

\* Every goroutine that can go on does; Process, pushConnection and Send
\* return; Recv fails once the stream's context is done.  Strong fairness
\* twice: Go's select chooses uniformly among the ready cases, and the queue
\* is first come first served (PushQueue, EventuallyDelivered).
FairSpec ==
  /\ DeliverySpec
  /\ WF_deliveryVars(SenderStep) /\ WF_deliveryVars(ReleaseClosed)
  /\ \A c \in Conn :
       /\ WF_deliveryVars(HandlerStep(c)) /\ WF_deliveryVars(ReceiverStep(c))
       /\ WF_deliveryVars(StreamClosed(c))
       /\ WF_deliveryVars(c \in done /\ ReceiveFails(c))
       /\ SF_deliveryVars(ReceivePush(c)) /\ SF_deliveryVars(Dequeue(c))

-----------------------------------------------------------------------------
\* Streams in the middle of a push, and those that have still to give the
\* semaphore back.
Pushing == {c \in Conn : handler[c] = "pushing"}
Releasing == {c \in Conn : handler[c] \in {"pushed", "failed"}}

\* doneFunc runs exactly once for each push: every token taken from the
\* semaphore is held by the sender, by a push that is offered or under way,
\* or by one about to give it back.  (The token the sender holds when the
\* queue shuts down is never returned.)
SemaphoreAccounted ==
  \E t \in (IF sender = "returned" THEN {0, 1} ELSE {IF sender = "dequeue" THEN 1 ELSE 0}) :
    semaphore = t + Cardinality(offering) + Cardinality(Pushing) + releasing
                + Cardinality(Releasing)

\* The queue has a connection marked as being pushed exactly as long as one
\* goroutine offers its push or its loop works on it, never both.
OneGoroutinePerPush ==
  underway = offering \union Pushing /\ offering \intersect Pushing = {}

\* A connection whose receiver has ended is no longer among the clients that
\* pushes are directed at, whichever way its stream ended.
NoLeakedClient ==
  \A c \in Conn : receiver[c] \in {"closed", "half", "ending", "ended"} => c \notin registered

\* No more pushes are under way at a time than DUBBO_PUSH_THROTTLE lets through.
PushesLimited == Cardinality(underway) <= PushLimit

\* An update the queue holds for a connection reaches the loop of its stream,
\* whatever the client sends meanwhile ("This ensures a wave of requests
\* cannot completely starve pushes", pkg/xds/server.go), unless the stream
\* or the server ends.
PushReachesStream ==
  \A c \in Conn : c \in owed ~> (handler[c] = "pushing" \/ c \in done \/ stopped)

\* When a stream is over, both of its goroutines end, the client is
\* unregistered, and a push that was offered to it is given up.
StreamEnds ==
  \A c \in Conn : c \in done ~> /\ handler[c] = "returned" /\ receiver[c] = "ended"
                               /\ c \notin registered

\* doSendPushes returns after the server stops: neither the semaphore nor
\* the queue keeps it.
SenderReturns == (stopped /\ shuttingDown) ~> (sender = "returned")

\* The tokens of the push semaphore, the queue marks and the goroutines that
\* offer pushes stay in step, wherever streams end, pushes fail and the server
\* stops, no more pushes are under way than the semaphore lets through, and no
\* closed stream stays among the clients (doSendPushes, addCon and removeCon).
PushesAccounted ==
  SemaphoreAccounted /\ OneGoroutinePerPush /\ PushesLimited /\ NoLeakedClient
=============================================================================
