----------------------------- MODULE WorkQueue ------------------------------
(***************************************************************************)
(* The work queue of pkg/queue/instance.go: an unbounded list of tasks,    *)
(* one goroutine that runs them in order, a marker task that records the   *)
(* initial sync, retries after a delay, and a stop that drains.            *)
(*                                                                         *)
(* The second half of the module is the delay queue of delay.go, a machine *)
(* of its own with its own variables, DelayInit and DelayNext.             *)
(***************************************************************************)
EXTENDS Naturals, Sequences, SequencesExt

CONSTANTS
  Task,         \* what callers push, each of them once
  SyncTask,     \* the task Run pushes to record the initial sync
  NoTask,
  MaxFailures   \* bound on failing runs of a task

VARIABLES
  tasks,        \* the queued tasks
  current,      \* the task being run, NoTask between two
  delayed,      \* failed tasks whose timer has not fired
  loop,         \* "new", "running" or "closed"
  closing, initialSync,
  early, accepted,       \* history: tasks accepted before Run, and at all
  attempted, succeeded,  \* history: tasks run, tasks run without error
  failures

history == <<early, accepted, attempted, succeeded, failures>>
wqVars == <<tasks, current, delayed, loop, closing, initialSync, history>>

Init ==
  /\ tasks = <<>> /\ current = NoTask /\ delayed = {} /\ loop = "new"
  /\ closing = FALSE /\ initialSync = FALSE
  /\ early = {} /\ accepted = {} /\ attempted = {} /\ succeeded = {}
  /\ failures = [t \in Task |-> 0]

\* A queue that is closing takes nothing in.
PushItem(t) == IF closing THEN tasks ELSE Append(tasks, t)

\* A caller pushes a task.
Push(t) ==
  /\ t \notin accepted
  /\ tasks' = PushItem(t)
  /\ accepted' = IF closing THEN accepted ELSE accepted \cup {t}
  /\ early' = IF loop = "new" THEN early \cup {t} ELSE early
  /\ UNCHANGED <<current, delayed, loop, closing, initialSync, attempted, succeeded, failures>>

\* Mutant: the marker goes before the tasks that are already there.
RunMarkerFirst ==
  /\ loop = "new" /\ loop' = "running"
  /\ tasks' = <<SyncTask>> \o tasks
  /\ UNCHANGED <<current, delayed, closing, initialSync, history>>

Run ==
  /\ loop = "new" /\ loop' = "running"
  /\ tasks' = PushItem(SyncTask)
  /\ UNCHANGED <<current, delayed, closing, initialSync, history>>

\* The goroutine Run started sees the stop channel closed.
Stop ==
  /\ loop = "running" /\ ~closing /\ closing' = TRUE
  /\ UNCHANGED <<tasks, current, delayed, loop, initialSync, history>>

\* get: the next task, also while closing.
Get ==
  /\ loop = "running" /\ current = NoTask /\ tasks # <<>>
  /\ current' = Head(tasks) /\ tasks' = Tail(tasks)
  /\ UNCHANGED <<delayed, loop, closing, initialSync, history>>

\* get: shut down once closing and empty.
ShutDown ==
  /\ loop = "running" /\ current = NoTask /\ closing /\ tasks = <<>>
  /\ loop' = "closed"
  /\ UNCHANGED <<tasks, current, delayed, closing, initialSync, history>>

SyncReached ==
  /\ current = SyncTask
  /\ initialSync' = TRUE /\ current' = NoTask
  /\ UNCHANGED <<tasks, delayed, loop, closing, history>>

Succeed ==
  /\ current \in Task
  /\ attempted' = attempted \cup {current} /\ succeeded' = succeeded \cup {current}
  /\ current' = NoTask
  /\ UNCHANGED <<tasks, delayed, loop, closing, initialSync, early, accepted, failures>>

\* Mutant: an error drops the task.
DropFailed(t) == delayed
\* The task failed: a timer will push it again.
DelayFailed(t) == delayed \cup {t}

Fail ==
  /\ current \in Task /\ failures[current] < MaxFailures
  /\ attempted' = attempted \cup {current}
  /\ failures' = [failures EXCEPT ![current] = @ + 1]
  /\ delayed' = DelayFailed(current)
  /\ current' = NoTask
  /\ UNCHANGED <<tasks, loop, closing, initialSync, early, accepted, succeeded>>

Retry(t) ==
  /\ t \in delayed /\ delayed' = delayed \ {t}
  /\ tasks' = PushItem(t)
  /\ UNCHANGED <<current, loop, closing, initialSync, history>>

Next ==
  \/ \E t \in Task : Push(t) \/ Retry(t)
  \/ Run \/ Stop \/ Get \/ ShutDown \/ SyncReached \/ Succeed \/ Fail

\* The loop goes on, tasks return and timers fire.
FairSpec ==
  /\ Init /\ [][Next]_wqVars
  /\ WF_wqVars(Get) /\ WF_wqVars(ShutDown) /\ WF_wqVars(SyncReached) /\ WF_wqVars(Succeed \/ Fail)
  /\ \A t \in Task : WF_wqVars(Retry(t))

-----------------------------------------------------------------------------
\* "all items in the queue *before* Run was called have been processed" once
\* the queue says it has synced.
SyncedMeansProcessed == initialSync => early \subseteq attempted

\* Every task the queue accepted succeeds in the end, unless the queue is
\* stopped; a stopped queue still runs what it had and then closes.
TasksServed ==
  /\ \A t \in Task : (t \in accepted /\ loop # "new") ~> (t \in succeeded \/ closing)
  /\ closing ~> loop = "closed"

-----------------------------------------------------------------------------
(* The delay queue of pkg/queue/delay.go: pushers hand tasks to the run    *)
(* loop over the enqueue channel or, when it is full, put them into the    *)
(* heap themselves; the loop hands due tasks to a worker, which retries    *)
(* failures up to maxTaskRetry times.                                      *)

CONSTANTS
  Timed,         \* tasks, at most 3, each pushed once
  Buffer,        \* capacity of the enqueue channel (DelayQueueBuffer)
  Delays,        \* delays callers push with
  ExecuteCap,    \* capacity of the execute channel (workerChanBuf)
  maxTaskRetry,
  Horizon        \* bound on the clock and on the times tasks are due

VARIABLES
  now,
  enqueue, heap, execute,  \* the two channels and the priority queue
  at,            \* the loop: "peek", "push", "await", "wait" or "returned"
  head,          \* the task the loop took from the heap, <<>> when none
  direct,        \* tasks of pushers that found the channel full
  working,       \* the task the worker runs, <<>> when none
  stopped,       \* the stop channel is closed
  pushed, done,  \* history: tasks pushed; tasks that succeeded or were given up
  behind         \* history: a task went into the heap while the loop waited

dqVars == <<now, enqueue, heap, execute, at, head, direct, working, stopped, pushed, done, behind>>

DelayInit ==
  /\ now = 0 /\ enqueue = <<>> /\ heap = <<>> /\ execute = <<>> /\ at = "peek"
  /\ head = <<>> /\ direct = {} /\ working = <<>> /\ stopped = FALSE
  /\ pushed = {} /\ done = {} /\ behind = FALSE

Tick ==
  /\ now < Horizon /\ now' = now + 1
  /\ UNCHANGED <<enqueue, heap, execute, at, head, working, stopped, pushed, done, direct, behind>>

-----------------------------------------------------------------------------
(* container/heap over pq: a binary heap in an array, soonest first *)

Sooner(a, b) == a.runAt < b.runAt
SwapAt(q, i, j) == [q EXCEPT ![i] = q[j], ![j] = q[i]]
\* A heap of at most 3 has one level below its root.
Up(q) == IF Len(q) > 1 /\ Sooner(q[Len(q)], q[1]) THEN SwapAt(q, Len(q), 1) ELSE q
Down(q) ==
  LET child == IF Len(q) > 2 /\ Sooner(q[3], q[2]) THEN 3 ELSE 2
  IN IF Len(q) < 2 \/ ~Sooner(q[child], q[1]) THEN q ELSE SwapAt(q, 1, child)
HeapPush(q, task) == Up(Append(q, task))
HeapPop(q) == Down(Front(SwapAt(q, 1, Len(q))))

-----------------------------------------------------------------------------
\* The loop waits in a select that receives from enqueue.
Receiving == at \in {"await", "wait"}
\* Mutant: the head the loop held is forgotten.
TakenForgetsHead(task) == HeapPush(heap, task)

\* What the loop does with a task it receives: with an empty heap it appends
\* (pq.Push, not heap.Push), else it also puts the old head back.
Taken(task) == IF at = "wait" THEN Append(heap, task) ELSE HeapPush(HeapPush(heap, task), head[1])

\* pushInternal: the channel if it has room or the loop waits for it, else
\* the heap.
pushInternal(task) ==
  \/ /\ Buffer = 0 /\ Receiving
     /\ heap' = Taken(task) /\ head' = <<>> /\ at' = "peek" /\ UNCHANGED <<enqueue, direct>>
  \/ /\ Len(enqueue) < Buffer /\ enqueue' = Append(enqueue, task)
     /\ UNCHANGED <<heap, head, at, direct>>
  \/ /\ Len(enqueue) = Buffer /\ (Buffer = 0 => ~Receiving)
     /\ direct' = direct \cup {task} /\ UNCHANGED <<enqueue, heap, head, at>>

\* The heap does not wake the loop up.
PushHeap ==
  /\ \E task \in direct : heap' = HeapPush(heap, task) /\ direct' = direct \ {task}
  /\ behind' = (behind \/ Receiving)
  /\ UNCHANGED <<now, enqueue, execute, at, head, working, stopped, pushed, done>>

PushDelayed(t, delay) ==
  /\ t \notin pushed /\ now + delay <= Horizon
  /\ pushed' = pushed \cup {t}
  /\ pushInternal([id |-> t, runAt |-> now + delay, retries |-> 0])
  /\ UNCHANGED <<now, execute, working, stopped, done, behind>>

-----------------------------------------------------------------------------
(* Run *)

Peek ==
  /\ at = "peek"
  /\ IF heap = <<>> THEN at' = "wait" /\ UNCHANGED <<heap, head>>
     ELSE /\ head' = <<heap[1]>> /\ heap' = HeapPop(heap)
          /\ at' = IF heap[1].runAt <= now THEN "push" ELSE "await"
  /\ UNCHANGED <<now, enqueue, execute, working, stopped, pushed, done, direct, behind>>

TimerFires ==
  /\ at = "await" /\ head[1].runAt <= now /\ at' = "push"
  /\ UNCHANGED <<now, enqueue, heap, execute, head, working, stopped, pushed, done, direct, behind>>

Receive ==
  /\ Receiving /\ enqueue # <<>>
  /\ heap' = Taken(Head(enqueue)) /\ enqueue' = Tail(enqueue)
  /\ head' = <<>> /\ at' = "peek"
  /\ UNCHANGED <<now, execute, working, stopped, pushed, done, direct, behind>>

HandToWorker ==
  /\ at = "push" /\ Len(execute) < ExecuteCap /\ execute' = Append(execute, head[1])
  /\ head' = <<>> /\ at' = "peek"
  /\ UNCHANGED <<now, enqueue, heap, working, stopped, pushed, done, direct, behind>>

DelayStop ==
  /\ ~stopped /\ stopped' = TRUE
  /\ UNCHANGED <<now, enqueue, heap, execute, at, head, working, pushed, done, direct, behind>>

LoopReturns ==
  /\ stopped /\ at \in {"push", "await", "wait"} /\ at' = "returned"
  /\ UNCHANGED <<now, enqueue, heap, execute, head, working, stopped, pushed, done, direct, behind>>

-----------------------------------------------------------------------------
(* work: the worker goroutine *)

Work ==
  /\ working = <<>> /\ execute # <<>> /\ \A t \in direct : t.retries = 0
  /\ working' = <<Head(execute)>> /\ execute' = Tail(execute)
  /\ UNCHANGED <<now, enqueue, heap, at, head, stopped, pushed, done, direct, behind>>

WorkSucceeds ==
  /\ working # <<>> /\ done' = done \cup {working[1].id} /\ working' = <<>>
  /\ UNCHANGED <<now, enqueue, heap, execute, at, head, stopped, pushed, direct, behind>>

\* An error: back to the queue with its old time, or given up.
WorkFails ==
  /\ working # <<>> /\ working' = <<>>
  /\ IF working[1].retries < maxTaskRetry
     THEN pushInternal([working[1] EXCEPT !.retries = @ + 1]) /\ UNCHANGED done
     ELSE done' = done \cup {working[1].id} /\ UNCHANGED <<enqueue, heap, head, at, direct>>
  /\ UNCHANGED <<now, execute, stopped, pushed, behind>>

DelayNext ==
  \/ \E t \in Timed, d \in Delays : PushDelayed(t, d)
  \/ Tick \/ PushHeap \/ Peek \/ TimerFires \/ Receive \/ HandToWorker
  \/ DelayStop \/ LoopReturns \/ Work \/ WorkSucceeds \/ WorkFails

\* The loop, the worker and the pushers go on, and time passes.
DelayFairSpec ==
  /\ DelayInit /\ [][DelayNext]_dqVars
  /\ WF_dqVars(Tick) /\ WF_dqVars(PushHeap) /\ WF_dqVars(Peek) /\ WF_dqVars(TimerFires)
  /\ WF_dqVars(Receive) /\ WF_dqVars(HandToWorker) /\ WF_dqVars(Work)
  /\ WF_dqVars(WorkSucceeds \/ WorkFails)

-----------------------------------------------------------------------------
\* "Push will execute the task as soon as possible", "PushDelayed will execute
\* the task after waiting for the delay": every task pushed is run until it
\* succeeds or its retries are used up, unless the queue is stopped or a pusher
\* that found the channel full reached the heap after the loop looked at it.
TimedTasksServed == \A t \in Timed : t \in pushed ~> (t \in done \/ stopped \/ behind)
=============================================================================
