------------------------------- MODULE MCPush -------------------------------
(*****************************************************************************)
(* The push queue and the components that run beside or below it, each on a  *)
(* small instance of its own: a behaviour picks one of them and only its     *)
(* variables move.  Those that are here promise something that must          *)
(* eventually happen.                                                        *)
(*****************************************************************************)
EXTENDS PushQueue

CONSTANTS
  k1, k2, c1, h1, Task, SyncTask, NoTask, MaxFailures, Timed, Buffer, Delays, ExecuteCap,
  maxTaskRetry, Horizon

VARIABLES
  part,  \* the component this behaviour is about; the others are not there
  sender, semaphore, deliveryStopped, deliveryShuttingDown, owed, underway, offering,
  releasing, handler, receiver, added, registered, initialized, request, reqClosed,
  errClosed, error, deliveryDone, tasks, current, delayed, loop, closing, initialSync,
  early, workAccepted, attempted, succeeded, failures, now, enqueue, heap, execute, at,
  head, direct, working, delayStopped, pushed, delayDone, behind, object, synced, phase,
  initial, startedSynced, waiting, notifications, count, hasSynced, pendingSync, closes,
  seen

allVars == <<part, pending, queue, processing, shuttingDown, stopped, inflight, accepted,
             delivered, sender, semaphore, deliveryStopped, deliveryShuttingDown, owed,
             underway, offering, releasing, handler, receiver, added, registered,
             initialized, request, reqClosed, errClosed, error, deliveryDone, tasks,
             current, delayed, loop, closing, initialSync, early, workAccepted, attempted,
             succeeded, failures, now, enqueue, heap, execute, at, head, direct, working,
             delayStopped, pushed, delayDone, behind, object, synced, phase, initial,
             startedSynced, waiting, notifications, count, hasSynced, pendingSync, closes,
             seen>>


MCConfigKey == {k1, k2}
MCIncoming ==
  {[full |-> FALSE, forced |-> FALSE, push |-> 1, configs |-> {k1}],
   [full |-> TRUE,  forced |-> TRUE,  push |-> 2, configs |-> {k2}]}

Delivery == INSTANCE PushDelivery WITH Conn <- {c1}, Delta <- {c1}, PushLimit <- 2, stopped
  <- deliveryStopped, shuttingDown <- deliveryShuttingDown, done <- deliveryDone
Work == INSTANCE WorkQueue WITH accepted <- workAccepted, stopped <- delayStopped, done <-
  delayDone
Handlers == INSTANCE KrtHandlers WITH Handler <- {h1}, MaxVersion <- 2

-----------------------------------------------------------------------------
(* PushQueue *)

queueRest == <<sender, semaphore, deliveryStopped, deliveryShuttingDown, owed, underway,
             offering, releasing, handler, receiver, added, registered, initialized,
             request, reqClosed, errClosed, error, deliveryDone, tasks, current, delayed,
             loop, closing, initialSync, early, workAccepted, attempted, succeeded,
             failures, now, enqueue, heap, execute, at, head, direct, working, delayStopped,
             pushed, delayDone, behind, object, synced, phase, initial, startedSynced,
             waiting, notifications, count, hasSynced, pendingSync, closes, seen>>
QueueInit ==
  /\ part = "queue" /\ Init
  /\ Delivery!DeliveryInit /\ Work!Init /\ Work!DelayInit /\ Handlers!HandlersInit
InQueue == part = "queue"
OnlyQueue == UNCHANGED <<part, queueRest>>
QueueEnqueue == InQueue /\ (\E c \in Conn, r \in Incoming : Enqueue(c, r)) /\ OnlyQueue
QueueEnqueueRefused == InQueue /\ (\E c \in Conn, r \in Incoming : EnqueueRefused(c, r)) /\ OnlyQueue
QueueDequeue == InQueue /\ Dequeue /\ OnlyQueue
QueueMarkDone == InQueue /\ (\E c \in Conn : MarkDone(c)) /\ OnlyQueue
QueueCloseStop == InQueue /\ CloseStop /\ OnlyQueue
QueueShutDown == InQueue /\ ShutDown /\ OnlyQueue
QueueNext ==
  \/ QueueEnqueue \/ QueueEnqueueRefused \/ QueueDequeue \/ QueueMarkDone \/ QueueCloseStop
  \/ QueueShutDown
QueueFairness ==
  /\ WF_allVars(~stopped /\ QueueDequeue)
  /\ \A c \in Conn : WF_allVars(InQueue /\ MarkDone(c) /\ OnlyQueue)

-----------------------------------------------------------------------------
(* PushDelivery *)

deliveryRest == <<pending, queue, processing, shuttingDown, stopped, inflight, accepted,
                delivered, tasks, current, delayed, loop, closing, initialSync, early,
                workAccepted, attempted, succeeded, failures, now, enqueue, heap, execute,
                at, head, direct, working, delayStopped, pushed, delayDone, behind, object,
                synced, phase, initial, startedSynced, waiting, notifications, count,
                hasSynced, pendingSync, closes, seen>>
DeliveryInit ==
  /\ part = "delivery" /\ Delivery!DeliveryInit
  /\ Init /\ Work!Init /\ Work!DelayInit /\ Handlers!HandlersInit
InDelivery == part = "delivery"
OnlyDelivery == UNCHANGED <<part, deliveryRest>>
DeliveryCloseStop == InDelivery /\ Delivery!CloseStop /\ OnlyDelivery
DeliveryShutDown == InDelivery /\ Delivery!ShutDown /\ OnlyDelivery
DeliveryCheckStop == InDelivery /\ Delivery!CheckStop /\ OnlyDelivery
DeliveryAcquire == InDelivery /\ Delivery!Acquire /\ OnlyDelivery
DeliveryDequeueShutDown == InDelivery /\ Delivery!DequeueShutDown /\ OnlyDelivery
DeliveryReleaseClosed == InDelivery /\ Delivery!ReleaseClosed /\ OnlyDelivery
DeliveryEnqueue == InDelivery /\ Delivery!Enqueue(c1) /\ OnlyDelivery
DeliveryDequeue == InDelivery /\ Delivery!Dequeue(c1) /\ OnlyDelivery
DeliveryStreamClosed == InDelivery /\ Delivery!StreamClosed(c1) /\ OnlyDelivery
DeliveryReceivePush == InDelivery /\ Delivery!ReceivePush(c1) /\ OnlyDelivery
DeliveryStart == InDelivery /\ Delivery!Start(c1) /\ OnlyDelivery
DeliveryProcess == InDelivery /\ Delivery!Process(c1) /\ OnlyDelivery
DeliveryReturnError == InDelivery /\ Delivery!ReturnError(c1) /\ OnlyDelivery
DeliveryNoRequest == InDelivery /\ Delivery!NoRequest(c1) /\ OnlyDelivery
DeliveryMarkDone == InDelivery /\ Delivery!MarkDone(c1) /\ OnlyDelivery
DeliveryRelease == InDelivery /\ Delivery!Release(c1) /\ OnlyDelivery
DeliveryDisconnect == InDelivery /\ Delivery!Disconnect(c1) /\ OnlyDelivery
DeliveryReceive == InDelivery /\ Delivery!Receive(c1) /\ OnlyDelivery
DeliveryReceiveFails == InDelivery /\ Delivery!ReceiveFails(c1) /\ OnlyDelivery
DeliveryInitializeFails == InDelivery /\ Delivery!InitializeFails(c1) /\ OnlyDelivery
DeliveryAddCon == InDelivery /\ Delivery!AddCon(c1) /\ OnlyDelivery
DeliveryMarkInitialized == InDelivery /\ Delivery!MarkInitialized(c1) /\ OnlyDelivery
DeliveryHandOver == InDelivery /\ Delivery!HandOver(c1) /\ OnlyDelivery
DeliveryHandOverAborted == InDelivery /\ Delivery!HandOverAborted(c1) /\ OnlyDelivery
DeliveryCloseConnection == InDelivery /\ Delivery!CloseConnection(c1) /\ OnlyDelivery
DeliveryCloseFirst == InDelivery /\ Delivery!CloseFirst(c1) /\ OnlyDelivery
DeliveryCloseSecond == InDelivery /\ Delivery!CloseSecond(c1) /\ OnlyDelivery
DeliveryCloseInitialized == InDelivery /\ Delivery!CloseInitialized(c1) /\ OnlyDelivery
DeliveryNext ==
  \/ DeliveryCloseStop \/ DeliveryShutDown \/ DeliveryCheckStop \/ DeliveryAcquire
  \/ DeliveryDequeueShutDown \/ DeliveryReleaseClosed \/ DeliveryEnqueue \/ DeliveryDequeue
  \/ DeliveryStreamClosed \/ DeliveryReceivePush \/ DeliveryStart \/ DeliveryProcess
  \/ DeliveryReturnError \/ DeliveryNoRequest \/ DeliveryMarkDone \/ DeliveryRelease
  \/ DeliveryDisconnect \/ DeliveryReceive \/ DeliveryReceiveFails
  \/ DeliveryInitializeFails \/ DeliveryAddCon \/ DeliveryMarkInitialized
  \/ DeliveryHandOver \/ DeliveryHandOverAborted \/ DeliveryCloseConnection
  \/ DeliveryCloseFirst \/ DeliveryCloseSecond \/ DeliveryCloseInitialized
DeliveryFairness ==
  /\ WF_allVars(InDelivery /\ Delivery!SenderStep /\ OnlyDelivery)
  /\ WF_allVars(DeliveryReleaseClosed)
  /\ WF_allVars(InDelivery /\ Delivery!HandlerStep(c1) /\ OnlyDelivery)
  /\ WF_allVars(InDelivery /\ Delivery!ReceiverStep(c1) /\ OnlyDelivery)
  /\ WF_allVars(DeliveryStreamClosed)
  /\ WF_allVars(InDelivery /\ c1 \in deliveryDone /\ Delivery!ReceiveFails(c1) /\ OnlyDelivery)
  /\ SF_allVars(DeliveryReceivePush)
  /\ SF_allVars(DeliveryDequeue)

-----------------------------------------------------------------------------
(* WorkQueue *)

workRest == <<pending, queue, processing, shuttingDown, stopped, inflight, accepted,
            delivered, sender, semaphore, deliveryStopped, deliveryShuttingDown, owed,
            underway, offering, releasing, handler, receiver, added, registered,
            initialized, request, reqClosed, errClosed, error, deliveryDone, now, enqueue,
            heap, execute, at, head, direct, working, delayStopped, pushed, delayDone,
            behind, object, synced, phase, initial, startedSynced, waiting, notifications,
            count, hasSynced, pendingSync, closes, seen>>
WorkInit ==
  /\ part = "work" /\ Work!Init
  /\ Init /\ Delivery!DeliveryInit /\ Work!DelayInit /\ Handlers!HandlersInit
InWork == part = "work"
OnlyWork == UNCHANGED <<part, workRest>>
WorkPush == InWork /\ (\E t \in Task : Work!Push(t)) /\ OnlyWork
WorkRetry == InWork /\ (\E t \in Task : Work!Retry(t)) /\ OnlyWork
WorkRun == InWork /\ Work!Run /\ OnlyWork
WorkStop == InWork /\ Work!Stop /\ OnlyWork
WorkGet == InWork /\ Work!Get /\ OnlyWork
WorkShutDown == InWork /\ Work!ShutDown /\ OnlyWork
WorkSyncReached == InWork /\ Work!SyncReached /\ OnlyWork
WorkSucceed == InWork /\ Work!Succeed /\ OnlyWork
WorkFail == InWork /\ Work!Fail /\ OnlyWork
WorkNext ==
  \/ WorkPush \/ WorkRetry \/ WorkRun \/ WorkStop \/ WorkGet \/ WorkShutDown
  \/ WorkSyncReached \/ WorkSucceed \/ WorkFail
WorkFairness ==
  /\ WF_allVars(WorkGet)
  /\ WF_allVars(WorkShutDown)
  /\ WF_allVars(WorkSyncReached)
  /\ WF_allVars(WorkSucceed \/ WorkFail)
  /\ \A t \in Task : WF_allVars(InWork /\ Work!Retry(t) /\ OnlyWork)

-----------------------------------------------------------------------------
(* WorkQueue, its second machine *)

delayRest == <<pending, queue, processing, shuttingDown, stopped, inflight, accepted,
             delivered, sender, semaphore, deliveryStopped, deliveryShuttingDown, owed,
             underway, offering, releasing, handler, receiver, added, registered,
             initialized, request, reqClosed, errClosed, error, deliveryDone, tasks,
             current, delayed, loop, closing, initialSync, early, workAccepted, attempted,
             succeeded, failures, object, synced, phase, initial, startedSynced, waiting,
             notifications, count, hasSynced, pendingSync, closes, seen>>
DelayInit ==
  /\ part = "delay" /\ Work!DelayInit
  /\ Init /\ Delivery!DeliveryInit /\ Work!Init /\ Handlers!HandlersInit
InDelay == part = "delay"
OnlyDelay == UNCHANGED <<part, delayRest>>
DelayTick == InDelay /\ Work!Tick /\ OnlyDelay
DelayPushDelayed == InDelay /\ (\E t \in Timed, d \in Delays : Work!PushDelayed(t, d)) /\ OnlyDelay
DelayPushHeap == InDelay /\ Work!PushHeap /\ OnlyDelay
DelayPeek == InDelay /\ Work!Peek /\ OnlyDelay
DelayTimerFires == InDelay /\ Work!TimerFires /\ OnlyDelay
DelayReceive == InDelay /\ Work!Receive /\ OnlyDelay
DelayHandToWorker == InDelay /\ Work!HandToWorker /\ OnlyDelay
DelayStop == InDelay /\ Work!DelayStop /\ OnlyDelay
DelayLoopReturns == InDelay /\ Work!LoopReturns /\ OnlyDelay
DelayWork == InDelay /\ Work!Work /\ OnlyDelay
DelayWorkSucceeds == InDelay /\ Work!WorkSucceeds /\ OnlyDelay
DelayWorkFails == InDelay /\ Work!WorkFails /\ OnlyDelay
DelayNext ==
  \/ DelayTick \/ DelayPushDelayed \/ DelayPushHeap \/ DelayPeek \/ DelayTimerFires
  \/ DelayReceive \/ DelayHandToWorker \/ DelayStop \/ DelayLoopReturns \/ DelayWork
  \/ DelayWorkSucceeds \/ DelayWorkFails
DelayFairness ==
  /\ WF_allVars(DelayTick)
  /\ WF_allVars(DelayPushHeap)
  /\ WF_allVars(DelayPeek)
  /\ WF_allVars(DelayTimerFires)
  /\ WF_allVars(DelayReceive)
  /\ WF_allVars(DelayHandToWorker)
  /\ WF_allVars(DelayWork)
  /\ WF_allVars(DelayWorkSucceeds \/ DelayWorkFails)

-----------------------------------------------------------------------------
(* KrtHandlers *)

handlersRest == <<pending, queue, processing, shuttingDown, stopped, inflight, accepted,
                delivered, sender, semaphore, deliveryStopped, deliveryShuttingDown, owed,
                underway, offering, releasing, handler, receiver, added, registered,
                initialized, request, reqClosed, errClosed, error, deliveryDone, tasks,
                current, delayed, loop, closing, initialSync, early, workAccepted,
                attempted, succeeded, failures, now, enqueue, heap, execute, at, head,
                direct, working, delayStopped, pushed, delayDone, behind>>
HandlersInit ==
  /\ part = "handlers" /\ Handlers!HandlersInit
  /\ Init /\ Delivery!DeliveryInit /\ Work!Init /\ Work!DelayInit
InHandlers == part = "handlers"
OnlyHandlers == UNCHANGED <<part, handlersRest>>
HandlersDistribute == InHandlers /\ Handlers!Distribute /\ OnlyHandlers
HandlersCollectionSyncs == InHandlers /\ Handlers!CollectionSyncs /\ OnlyHandlers
HandlersInsert == InHandlers /\ Handlers!Insert(h1) /\ OnlyHandlers
HandlersCountInitial == InHandlers /\ Handlers!CountInitial(h1) /\ OnlyHandlers
HandlersSendInitial == InHandlers /\ Handlers!SendInitial(h1) /\ OnlyHandlers
HandlersInsertReturns == InHandlers /\ Handlers!InsertReturns(h1) /\ OnlyHandlers
HandlersNotifySynced == InHandlers /\ Handlers!NotifySynced(h1) /\ OnlyHandlers
HandlersRemove == InHandlers /\ Handlers!Remove(h1) /\ OnlyHandlers
HandlersRun == InHandlers /\ Handlers!Run(h1) /\ OnlyHandlers
HandlersNext ==
  \/ HandlersDistribute \/ HandlersCollectionSyncs \/ HandlersInsert \/ HandlersCountInitial
  \/ HandlersSendInitial \/ HandlersInsertReturns \/ HandlersNotifySynced \/ HandlersRemove
  \/ HandlersRun
HandlersFairness ==
  /\ WF_allVars(HandlersCountInitial)
  /\ WF_allVars(HandlersSendInitial)
  /\ WF_allVars(HandlersInsertReturns)
  /\ WF_allVars(HandlersNotifySynced)
  /\ WF_allVars(HandlersRun)

-----------------------------------------------------------------------------
AllInit == QueueInit \/ DeliveryInit \/ WorkInit \/ DelayInit \/ HandlersInit
AllNext == QueueNext \/ DeliveryNext \/ WorkNext \/ DelayNext \/ HandlersNext
AllSpec == AllInit /\ [][AllNext]_allVars /\ QueueFairness /\ DeliveryFairness /\ WorkFairness /\ DelayFairness /\ HandlersFairness

\* An update the queue holds for a connection reaches the loop of its stream,
\* whatever the client sends meanwhile ("This ensures a wave of requests
\* cannot completely starve pushes", pkg/xds/server.go), unless the stream or
\* the server ends.
PushReachesStream == Delivery!PushReachesStream

\* When a stream is over, both of its goroutines end, the client is
\* unregistered and a push that was offered to it is given up; and
\* doSendPushes returns after the server stops: neither the semaphore nor the
\* queue keeps it.
GoroutinesEnd ==
  /\ Delivery!StreamEnds
  /\ Delivery!SenderReturns

\* Tasks that the queues of pkg/queue took in are done: once instance.go says
\* that it has synced it has run what it had before it started, and it runs
\* every task until it succeeds unless it is stopped, and a stopped queue
\* still runs what it had and then closes; delay.go runs every task until it
\* succeeds or its retries are used up, unless it is stopped or a pusher that
\* found the channel full reached the heap after the loop looked at it; and a
\* handler registered with a krt collection that syncs comes to report that
\* it has synced too.
TasksDone ==
  /\ []Work!SyncedMeansProcessed
  /\ Work!TasksServed
  /\ Work!TimedTasksServed
  /\ Handlers!HandlersSync

=============================================================================
