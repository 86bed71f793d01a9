-------------------------- MODULE StatusReporting --------------------------
(***************************************************************************)
(* Status reporting (discovery/pkg/status): a status collection computes   *)
(* for every object the status it should have; while this replica leads, a *)
(* handler queues the ones that differ from the live status, and a pool of *)
(* at most maxWorkers goroutines writes them to the API server.            *)
(*                                                                         *)
(* A status is <<generation, dep>>: computed from the object's generation  *)
(* and from what else the controller looks at.                             *)
(***************************************************************************)
EXTENDS Naturals, Sequences, FiniteSets

CONSTANTS
  Resource,
  maxWorkers,  \* features.StatusMaxWorkers
  MaxSpawned,  \* goroutines started in a behaviour
  MaxChanges, MaxErrors, MaxTerms,
  nil

\* Statuses, objects, the collection's elements, and what the queue keeps of a
\* resource.
Statuses == Nat \X Nat
Objects == [gen : Nat, version : Nat, status : Statuses, writtenAt : Nat]
Elements == [obj : Objects, desired : Statuses]
Cached == [gen : Nat, status : Statuses]

ASSUME ReportingAssumption ==
  /\ IsFiniteSet(Resource) /\ maxWorkers \in Nat /\ MaxSpawned \in Nat
  /\ nil \notin Elements /\ nil \notin Cached

VARIABLES
  obj,         \* the API server's object: nil or [gen, version, status, writtenAt]
  dep,         \* what else the status depends on
  stored,      \* the object in the store the workers read
  element,     \* the collection's element: nil or [obj, desired]
  events,      \* events queued for the handler: [r, e, deleted]
  leading,     \* the handler is registered (SetQueue)
  pushed,      \* Push has queued a task and has not called maybeAddWorker yet
  tasks, cache,                       \* WorkQueue: order, and r -> nil or [gen, status]
  workerCount, currentlyWorking, closing,
  worker,      \* per goroutine [at, r, gen, status, cfg]
  changes, errors, terms

queueVars == <<tasks, cache>>
poolVars == <<workerCount, currentlyWorking, closing, worker>>
handlerVars == <<events, leading, pushed>>
worldVars == <<obj, dep, changes, errors, terms>>
reportingVars == <<obj, dep, stored, element, events, leading, pushed, tasks, cache,
                  workerCount, currentlyWorking, closing, worker, changes, errors, terms>>

Goroutine == 1..MaxSpawned
Idle == [at |-> "loop", r |-> nil, gen |-> 0, status |-> nil, cfg |-> nil]
Object == [gen |-> 1, version |-> 1, status |-> <<0, 0>>, writtenAt |-> 0]

ReportingInit ==
  /\ obj = [r \in Resource |-> Object] /\ dep = [r \in Resource |-> 1]
  /\ stored = obj
  /\ element = [r \in Resource |-> [obj |-> obj[r], desired |-> <<1, 1>>]]
  /\ events = <<>> /\ leading = FALSE /\ pushed = FALSE
  /\ tasks = <<>> /\ cache = [r \in Resource |-> nil]
  /\ workerCount = 0 /\ currentlyWorking = {} /\ closing = FALSE
  /\ worker = [g \in Goroutine |-> [Idle EXCEPT !.at = "new"]]
  /\ changes = 0 /\ errors = 0 /\ terms = 0

(***************************************************************************)
(* Users change objects, the controller's other inputs change.             *)
(***************************************************************************)
Change(r) ==
  /\ obj[r] # nil /\ changes < MaxChanges /\ changes' = changes + 1
  /\ \/ obj' = [obj EXCEPT ![r].gen = @ + 1, ![r].version = @ + 1] /\ UNCHANGED dep
     \/ dep' = [dep EXCEPT ![r] = @ + 1] /\ UNCHANGED obj
     \/ obj' = [obj EXCEPT ![r] = nil] /\ UNCHANGED dep
  /\ UNCHANGED <<stored, element, handlerVars, queueVars, poolVars, errors, terms>>

UpdateStore(r) ==
  /\ stored[r] # obj[r] /\ stored' = [stored EXCEPT ![r] = obj[r]]
  /\ UNCHANGED <<element, handlerVars, queueVars, poolVars, worldVars>>

\* The collection recomputes an element; a change is an event for the handler.
Recompute(r) ==
  LET e == IF obj[r] = nil THEN nil ELSE [obj |-> obj[r], desired |-> <<obj[r].gen, dep[r]>>] IN
  /\ e # element[r] /\ element' = [element EXCEPT ![r] = e]
  /\ events' = IF ~leading THEN events
               ELSE Append(events, IF e = nil THEN [r |-> r, e |-> element[r], deleted |-> TRUE]
                                   ELSE [r |-> r, e |-> e, deleted |-> FALSE])
  /\ UNCHANGED <<stored, leading, pushed, queueVars, poolVars, worldVars>>

\* Leadership: the handler is registered and handed what exists.
SetQueue ==
  /\ ~leading /\ terms < MaxTerms /\ terms' = terms + 1 /\ leading' = TRUE
  /\ \E order \in [1..Cardinality({r \in Resource : element[r] # nil}) -> {r \in Resource : element[r] # nil}] :
       /\ \A i, j \in DOMAIN order : order[i] = order[j] => i = j
       /\ events' = [i \in DOMAIN order |-> [r |-> order[i], e |-> element[order[i]], deleted |-> FALSE]]
  /\ UNCHANGED <<obj, dep, stored, element, pushed, queueVars, poolVars, changes, errors>>

UnsetQueue ==
  /\ leading /\ leading' = FALSE /\ events' = <<>>
  /\ UNCHANGED <<stored, element, pushed, queueVars, poolVars, worldVars>>

\* WorkQueue.Push: a resource that is queued keeps its place and its generation.
Push(r, gen, status) ==
  IF cache[r] # nil
  THEN cache' = [cache EXCEPT ![r].status = status] /\ UNCHANGED tasks
  ELSE cache' = [cache EXCEPT ![r] = [gen |-> gen, status |-> status]] /\ tasks' = Append(tasks, r)

\* The handler of RegisterStatus.
RegisterStatus ==
  LET ev == Head(events)
      wanted == IF ev.deleted THEN <<0, 0>> ELSE ev.e.desired IN
  /\ events # <<>> /\ ~pushed /\ events' = Tail(events)
  /\ IF ev.e.obj.status = ev.e.desired THEN UNCHANGED <<pushed, queueVars>>
     ELSE pushed' = TRUE /\ Push(ev.r, ev.e.obj.gen, wanted)
  /\ UNCHANGED <<stored, element, leading, poolVars, worldVars>>

(***************************************************************************)
(* The worker pool.                                                        *)
(***************************************************************************)
At(g, at) == worker[g].at = at

maybeAddWorker ==
  /\ pushed /\ pushed' = FALSE
  /\ IF workerCount >= maxWorkers \/ tasks = <<>> THEN UNCHANGED poolVars
     ELSE LET fresh == {g \in Goroutine : At(g, "new")} IN
          /\ fresh # {} /\ workerCount' = workerCount + 1
          /\ worker' = [worker EXCEPT ![CHOOSE g \in fresh : \A h \in fresh : g <= h] = Idle]
          /\ UNCHANGED <<currentlyWorking, closing>>
  /\ UNCHANGED <<stored, element, events, leading, queueVars, worldVars>>

\* Mutant: a resource may be handed to two workers.
PopAny(i) == i = 1

\* The first task that no worker is at.
Pop(i) ==
  /\ tasks[i] \notin currentlyWorking
  /\ \A j \in 1..(i - 1) : tasks[j] \in currentlyWorking

Take(g) ==
  /\ At(g, "loop")
  /\ IF closing \/ tasks = <<>>
     THEN /\ workerCount' = workerCount - 1 /\ worker' = [worker EXCEPT ![g] = [Idle EXCEPT !.at = "ended"]]
          /\ UNCHANGED <<currentlyWorking, queueVars>>
     ELSE IF \E i \in DOMAIN tasks : Pop(i)
     THEN \E i \in DOMAIN tasks : LET r == tasks[i] IN
          /\ Pop(i)
          /\ tasks' = [j \in 1..(Len(tasks) - 1) |-> IF j < i THEN tasks[j] ELSE tasks[j + 1]]
          /\ cache' = [cache EXCEPT ![r] = nil]
          /\ currentlyWorking' = currentlyWorking \cup {r}
          /\ worker' = [worker EXCEPT ![g] = [Idle EXCEPT !.at = "get", !.r = r, !.gen = cache[r].gen,
                                                          !.status = cache[r].status]]
          /\ UNCHANGED workerCount
     \* It returns without giving its place back.
     ELSE worker' = [worker EXCEPT ![g] = [Idle EXCEPT !.at = "leaked"]] /\ UNCHANGED <<workerCount, currentlyWorking, queueVars>>
  /\ UNCHANGED <<stored, element, handlerVars, closing, worldVars>>

\* Mutant: whatever the generation.
AnyGeneration(cfg, gen) == TRUE

SameGeneration(cfg, gen) == cfg.gen = gen

\* retrieveFunc, and the comparison of generations.
Retrieve(g) ==
  /\ At(g, "get")
  /\ LET cfg == stored[worker[g].r]
         writes == IF cfg = nil THEN FALSE ELSE SameGeneration(cfg, worker[g].gen) IN
     worker' = [worker EXCEPT ![g].at = IF writes THEN "write" ELSE "done", ![g].cfg = cfg]
  /\ UNCHANGED <<stored, element, handlerVars, queueVars, workerCount, currentlyWorking, closing, worldVars>>

\* writeFunc: an error is logged, and nothing else.
Write(g, failed) ==
  LET r == worker[g].r IN
  /\ At(g, "write") /\ worker' = [worker EXCEPT ![g].at = "done"]
  /\ failed => errors < MaxErrors
  /\ errors' = IF failed THEN errors + 1 ELSE errors
  /\ obj' = IF failed \/ obj[r] = nil THEN obj
            ELSE IF obj[r].version # worker[g].cfg.version THEN obj
            ELSE [obj EXCEPT ![r].status = worker[g].status, ![r].version = @ + 1, ![r].writtenAt = obj[r].gen]
  /\ UNCHANGED <<stored, element, handlerVars, queueVars, workerCount, currentlyWorking, closing, dep, changes, terms>>

\* Mutant: a worker ends after one task.
OneTask(g) ==
  /\ At(g, "done") /\ currentlyWorking' = currentlyWorking \ {worker[g].r}
  /\ worker' = [worker EXCEPT ![g] = [Idle EXCEPT !.at = "ended"]] /\ workerCount' = workerCount - 1
  /\ UNCHANGED <<stored, element, handlerVars, queueVars, closing, worldVars>>

Done(g) ==
  /\ At(g, "done") /\ currentlyWorking' = currentlyWorking \ {worker[g].r}
  /\ worker' = [worker EXCEPT ![g] = Idle]
  /\ UNCHANGED <<stored, element, handlerVars, queueVars, workerCount, closing, worldVars>>

\* WorkerPool.Run: the server stops.
Close ==
  /\ ~closing /\ closing' = TRUE
  /\ UNCHANGED <<stored, element, handlerVars, queueVars, workerCount, currentlyWorking, worker, worldVars>>

ReportingNext ==
  \/ \E r \in Resource : Change(r) \/ UpdateStore(r) \/ Recompute(r)
  \/ SetQueue \/ UnsetQueue \/ RegisterStatus \/ maybeAddWorker \/ Close
  \/ \E g \in Goroutine : Take(g) \/ Retrieve(g) \/ Write(g, TRUE) \/ Write(g, FALSE) \/ Done(g)

ReportingSpec == ReportingInit /\ [][ReportingNext]_reportingVars

Working(g) == worker[g].at \in {"get", "write", "done"}
Alive == {g \in Goroutine : Working(g) \/ At(g, "loop")}
Leaked == {g \in Goroutine : At(g, "leaked")}

ReportingTypeOK ==
  /\ \A r \in Resource : obj[r] # nil => obj[r].gen \in Nat /\ obj[r].status \in Nat \X Nat
  /\ {tasks[i] : i \in DOMAIN tasks} = {r \in Resource : cache[r] # nil}
  /\ workerCount = Cardinality(Alive) + Cardinality(Leaked) /\ workerCount <= maxWorkers

(* OneWriter: no two workers are at the same object, however often its       *)
(* status is queued again meanwhile (currentlyWorking in maybeAddWorker).    *)
OneWriter == \A g, h \in Alive : Working(g) /\ Working(h) /\ (worker[g].r = worker[h].r) => g = h

(* TasksServed: while places are left in the pool a queued status has a      *)
(* worker to come, although a worker may leave at the moment of a Push       *)
(* (WorkerPool.Push, maybeAddWorker).                                        *)
TasksServed ==
  tasks # <<>> /\ Cardinality(Leaked) < maxWorkers /\ ~closing => Alive # {} \/ pushed

(* StatusOfGeneration: a status is only ever written onto the generation it  *)
(* was computed from, although the queue keeps the generation of the first   *)
(* of several merged requests and the store lags (WorkQueue.Push, the        *)
(* comparison in maybeAddWorker, the version sent by UpdateStatus).          *)
StatusOfGeneration ==
  \A r \in Resource : obj[r] # nil /\ obj[r].status[1] # 0 => obj[r].status[1] = obj[r].writtenAt

(* StatusesWritten: what the pool promises whatever is changed, queued again *)
(* or lost meanwhile: each object has one writer at a time, a queued status  *)
(* has a worker to come, and what is written belongs to its generation       *)
(* (WorkerPool.Push, maybeAddWorker).                                        *)
StatusesWritten == OneWriter /\ TasksServed /\ StatusOfGeneration

(* StatusReported: when nothing is left to do on the leader every object has *)
(* the status computed for it, if no write failed ("if either the live OR    *)
(* the desired status changes, this callback will trigger", RegisterStatus). *)
Quiet ==
  /\ leading /\ events = <<>> /\ ~pushed /\ tasks = <<>> /\ ~closing /\ \A g \in Goroutine : ~Working(g)
  /\ \A r \in Resource : stored[r] = obj[r] /\
       element[r] = (IF obj[r] = nil THEN nil ELSE [obj |-> obj[r], desired |-> <<obj[r].gen, dep[r]>>])
StatusReported ==
  Quiet /\ errors = 0 => \A r \in Resource : obj[r] # nil => obj[r].status = <<obj[r].gen, dep[r]>>
=============================================================================
