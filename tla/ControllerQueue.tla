-------------------------- MODULE ControllerQueue --------------------------
(***************************************************************************)
(* The reconciler queue of pkg/kube/controllers/queue.go over client-go's  *)
(* deduplicating, rate-limited work queue, with one worker.  A controller  *)
(* instantiates it and joins its own work to Process.                      *)
(***************************************************************************)
EXTENDS Naturals, Sequences, FiniteSets, Functions

CONSTANTS
  Key,           \* names of objects
  SyncSignal,    \* the key Run adds
  NoKey,         \* the worker has no key
  maxAttempts

VARIABLES
  ready,         \* the keys in order, each at most once
  dirty,         \* keys to be processed (again)
  processing,    \* keys handed out and not Done
  requeues,      \* per key: the rate limiter's failures
  backoff,       \* keys waiting for their rate limit
  worker,        \* the key being worked on, NoKey, or "closed"
  running,       \* Run was called
  shutDown, synced

queueVars == <<ready, dirty, processing, requeues, backoff, worker, running, shutDown, synced>>

Init ==
  /\ ready = <<>> /\ dirty = {} /\ processing = {} /\ backoff = {}
  /\ requeues = [k \in Key |-> 0] /\ worker = NoKey
  /\ running = FALSE /\ shutDown = FALSE /\ synced = FALSE

\* Mutant: a key that is being processed is not remembered.
AddForgets(k) ==
  IF shutDown \/ k \in dirty \/ k \in processing THEN UNCHANGED <<ready, dirty>>
  ELSE dirty' = dirty \cup {k} /\ ready' = Append(ready, k)

\* workqueue Add: a key already waiting is not added twice, one that is being
\* processed is only marked.
AddKey(k) ==
  IF shutDown \/ k \in dirty THEN UNCHANGED <<ready, dirty>>
  ELSE /\ dirty' = dirty \cup {k}
       /\ ready' = IF k \in processing THEN ready ELSE Append(ready, k)

\* Several keys at once, in the order the informer lists them.
AddAll(ks) ==
  LET new == IF shutDown THEN {} ELSE ks \ dirty
      free == new \ processing
  IN /\ dirty' = dirty \cup new
     /\ \E order \in Bijection(1 .. Cardinality(free), free) : ready' = ready \o order

\* Add and AddObject.
Add(k) ==
  /\ AddKey(k)
  /\ UNCHANGED <<processing, requeues, backoff, worker, running, shutDown, synced>>

Run ==
  /\ ~running /\ running' = TRUE
  /\ AddKey(SyncSignal)
  /\ UNCHANGED <<processing, requeues, backoff, worker, shutDown, synced>>

Get ==
  /\ running /\ worker = NoKey /\ ready # <<>>
  /\ worker' = Head(ready) /\ ready' = Tail(ready)
  /\ dirty' = dirty \ {Head(ready)} /\ processing' = processing \cup {Head(ready)}
  /\ UNCHANGED <<requeues, backoff, running, shutDown, synced>>

\* The signal is never marked Done.
ProcessSignal ==
  /\ worker = SyncSignal /\ synced' = TRUE /\ worker' = NoKey
  /\ UNCHANGED <<ready, dirty, processing, requeues, backoff, running, shutDown>>

\* The deferred Done puts a key that was added meanwhile back.
Done(k) ==
  /\ processing' = processing \ {k}
  /\ ready' = IF k \in dirty THEN Append(ready, k) ELSE ready
  /\ worker' = NoKey

\* The end of processNextItem, after workFn returned.
Process(ok) ==
  /\ worker \in Key
  /\ IF ~ok /\ requeues[worker] + 1 < maxAttempts
     THEN backoff' = backoff \cup {worker} /\ requeues' = [requeues EXCEPT ![worker] = @ + 1]
     ELSE requeues' = [requeues EXCEPT ![worker] = 0] /\ UNCHANGED backoff
  /\ Done(worker)
  /\ UNCHANGED <<dirty, running, shutDown, synced>>

BackoffEnds(k) ==
  /\ k \in backoff /\ backoff' = backoff \ {k}
  /\ AddKey(k)
  /\ UNCHANGED <<processing, requeues, worker, running, shutDown, synced>>

\* Run returns and shuts the queue down; also ShutDownEarly.
ShutDown ==
  /\ ~shutDown /\ shutDown' = TRUE
  /\ UNCHANGED <<ready, dirty, processing, requeues, backoff, worker, running, synced>>

WorkerReturns ==
  /\ running /\ worker = NoKey /\ shutDown /\ ready = <<>> /\ worker' = "closed"
  /\ UNCHANGED <<ready, dirty, processing, requeues, backoff, running, shutDown, synced>>

\* Nothing left to do.
Drained == worker = NoKey /\ ready = <<>> /\ backoff = {}
=============================================================================
