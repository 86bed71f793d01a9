---------------------------- MODULE KrtHandlers ----------------------------
(***************************************************************************)
(* Event delivery of a krt collection (pkg/kube/krt/processor.go): the set *)
(* of handlers, the listener that carries notifications from the           *)
(* collection to one handler, and the tracker that tells when the handler  *)
(* has seen the initial state.                                             *)
(*                                                                         *)
(* The collection holds one object whose versions are numbered; it is      *)
(* derived (manyCollection), so it publishes under its lock from the       *)
(* goroutine that runs its queue, and that goroutine marks it synced.      *)
(* RegisterBatch holds the same lock for reading until Insert returns, so  *)
(* no event is published meanwhile, but the collection may become synced.  *)
(***************************************************************************)
EXTENDS Integers, Sequences

CONSTANTS
    Handler,      \* the handlers that are registered
    MaxVersion    \* bound on the number of events

VARIABLES
    object,       \* the collection's object: 0 is absent, n its n-th version
    synced,       \* the collection has synced
    phase,        \* how far the registration of a handler is
    initial,      \* the version a handler got as its initial state
    startedSynced, \* the collection had synced when the handler was inserted
    waiting,      \* the goroutine that waits for the collection to sync
    notifications, \* addCh, the ring buffer and nextCh of a listener
    count, hasSynced, pendingSync,  \* countingTracker
    closes,       \* how often countingTracker.synced has been closed
    seen          \* the versions the handler was called with

trackerVars == <<count, hasSynced, pendingSync, closes>>
handlersVars == <<object, synced, phase, initial, startedSynced, waiting, notifications,
          count, hasSynced, pendingSync, closes, seen>>

SyncedNotification == [kind |-> "parentSynced", events |-> <<>>, initialList |-> FALSE]
EventSet(events, isInInitialList) ==
    [kind |-> "events", events |-> events, initialList |-> isInInitialList]

Phases == {"none", "inserted", "counted", "sent", "registered", "removed"}

HandlersTypeOK ==
    /\ object \in 0..MaxVersion
    /\ synced \in BOOLEAN
    /\ phase \in [Handler -> Phases]
    /\ initial \in [Handler -> 0..MaxVersion]
    /\ count \in [Handler -> Int]
    /\ hasSynced \in [Handler -> BOOLEAN]
    /\ closes \in [Handler -> Nat]

HandlersInit ==
    /\ object = 0
    /\ synced = FALSE
    /\ phase = [h \in Handler |-> "none"]
    /\ initial = [h \in Handler |-> 0]
    /\ startedSynced = [h \in Handler |-> FALSE]
    /\ waiting = [h \in Handler |-> FALSE]
    /\ notifications = [h \in Handler |-> <<>>]
    /\ count = [h \in Handler |-> 0]
    /\ hasSynced = [h \in Handler |-> FALSE]
    /\ pendingSync = [h \in Handler |-> FALSE]
    /\ closes = [h \in Handler |-> 0]
    /\ seen = [h \in Handler |-> <<>>]

\* Closing a closed channel panics, and the process ends.
Crashed == \E h \in Handler : closes[h] > 1

InitialEvents(h) == IF initial[h] = 0 THEN <<>> ELSE <<initial[h]>>

-----------------------------------------------------------------------------
\* countingTracker

Start(h, n) ==
    /\ count' = [count EXCEPT ![h] = @ + n]
    /\ UNCHANGED <<hasSynced, pendingSync, closes>>

ParentSynced(h) ==
    /\ \/ /\ hasSynced[h]
          /\ UNCHANGED <<hasSynced, pendingSync, closes>>
       \/ /\ ~hasSynced[h] /\ count[h] = 0
          /\ closes' = [closes EXCEPT ![h] = @ + 1]
          /\ hasSynced' = [hasSynced EXCEPT ![h] = TRUE]
          /\ UNCHANGED pendingSync
       \/ /\ ~hasSynced[h] /\ count[h] # 0
          /\ pendingSync' = [pendingSync EXCEPT ![h] = TRUE]
          /\ UNCHANGED <<hasSynced, closes>>
    /\ UNCHANGED count

\* A tracker that leaves a sync that came too early to the next notification.
FinishedOnly(h, n) ==
    /\ count' = [count EXCEPT ![h] = @ - n]
    /\ UNCHANGED <<hasSynced, pendingSync, closes>>

\* Finished closes the channel but leaves hasSynced as it was.
Finished(h, n) ==
    /\ count' = [count EXCEPT ![h] = @ - n]
    /\ closes' = IF ~hasSynced[h] /\ pendingSync[h] /\ count[h] = n /\ n # 0
                 THEN [closes EXCEPT ![h] = @ + 1] ELSE closes
    /\ UNCHANGED <<hasSynced, pendingSync>>

-----------------------------------------------------------------------------
\* handlerSet

\* An Insert that takes a synced collection for a handler that has synced.
InsertSynced(h) ==
    /\ ~Crashed
    /\ phase[h] = "none"
    /\ initial' = [initial EXCEPT ![h] = object]
    /\ startedSynced' = [startedSynced EXCEPT ![h] = synced]
    /\ waiting' = [waiting EXCEPT ![h] = ~synced]
    /\ phase' = [phase EXCEPT ![h] = "inserted"]
    /\ IF synced THEN ParentSynced(h) ELSE UNCHANGED trackerVars
    /\ UNCHANGED <<object, synced, notifications, seen>>

\* Insert, under the lock of the handler set: initialEvents are what the
\* collection held when RegisterBatch took the collection's lock.
Insert(h) ==
    /\ ~Crashed
    /\ phase[h] = "none"
    /\ initial' = [initial EXCEPT ![h] = object]
    /\ startedSynced' = [startedSynced EXCEPT ![h] = synced]
    /\ waiting' = [waiting EXCEPT ![h] = ~synced]
    /\ phase' = [phase EXCEPT ![h] = "inserted"]
    /\ IF synced /\ object = 0 THEN ParentSynced(h) ELSE UNCHANGED trackerVars
    /\ UNCHANGED <<object, synced, notifications, seen>>

\* send of the initial events, after the lock was released: the tracker counts
\* them, then they are offered to addCh.
CountInitial(h) ==
    /\ ~Crashed
    /\ phase[h] = "inserted"
    /\ phase' = [phase EXCEPT ![h] = "counted"]
    /\ Start(h, Len(InitialEvents(h)))
    /\ UNCHANGED <<object, synced, initial, startedSynced, waiting, notifications, seen>>

SendInitial(h) ==
    /\ ~Crashed
    /\ phase[h] = "counted"
    /\ phase' = [phase EXCEPT ![h] = "sent"]
    /\ notifications' = [notifications EXCEPT ![h] = Append(@, EventSet(InitialEvents(h), TRUE))]
    /\ UNCHANGED <<object, synced, initial, startedSynced, waiting, count,
                   hasSynced, pendingSync, closes, seen>>

\* The rest of Insert: a collection that had synced, with initial events, is
\* followed by a notification of its own.
SyncedAfterInitial(h) ==
    [notifications EXCEPT ![h] =
        IF startedSynced[h] /\ initial[h] # 0 THEN Append(@, SyncedNotification) ELSE @]

InsertReturns(h) ==
    /\ ~Crashed
    /\ phase[h] = "sent"
    /\ phase' = [phase EXCEPT ![h] = "registered"]
    /\ notifications' = SyncedAfterInitial(h)
    /\ UNCHANGED <<object, synced, initial, startedSynced, waiting, count,
                   hasSynced, pendingSync, closes, seen>>

\* The goroutine Insert started for a collection that had not synced.
NotifySynced(h) ==
    /\ ~Crashed
    /\ waiting[h] /\ synced
    /\ waiting' = [waiting EXCEPT ![h] = FALSE]
    /\ notifications' = IF phase[h] = "removed" THEN notifications
                        ELSE [notifications EXCEPT ![h] = Append(@, SyncedNotification)]
    /\ UNCHANGED <<object, synced, phase, initial, startedSynced, count,
                   hasSynced, pendingSync, closes, seen>>

\* remove closes addCh: pop ends, and what it still held is dropped.
Remove(h) ==
    /\ ~Crashed
    /\ phase[h] = "registered"
    /\ phase' = [phase EXCEPT ![h] = "removed"]
    /\ notifications' = [notifications EXCEPT ![h] = <<>>]
    /\ UNCHANGED <<object, synced, initial, startedSynced, waiting, count,
                   hasSynced, pendingSync, closes, seen>>

Inserted == {h \in Handler : phase[h] \notin {"none", "removed"}}

\* A collection that publishes while a registration is in progress.
DistributeUnlocked ==
    /\ ~Crashed
    /\ object < MaxVersion
    /\ object' = object + 1
    /\ notifications' = [h \in Handler |->
         IF h \in Inserted THEN Append(notifications[h], EventSet(<<object + 1>>, ~synced))
                           ELSE notifications[h]]
    /\ count' = [h \in Handler |-> IF h \in Inserted /\ ~synced THEN count[h] + 1 ELSE count[h]]
    /\ UNCHANGED <<synced, phase, initial, startedSynced, waiting, hasSynced,
                   pendingSync, closes, seen>>

\* handleChangedPrimaryInputEvents ends in Distribute(events, !HasSynced()):
\* every handler of the set gets the events, counted while the collection has
\* not synced.  A registration in progress holds the collection's lock.
Distribute ==
    /\ ~Crashed
    /\ \A h \in Inserted : phase[h] = "registered"
    /\ object < MaxVersion
    /\ object' = object + 1
    /\ notifications' = [h \in Handler |->
         IF h \in Inserted THEN Append(notifications[h], EventSet(<<object + 1>>, ~synced))
                           ELSE notifications[h]]
    /\ count' = [h \in Handler |-> IF h \in Inserted /\ ~synced THEN count[h] + 1 ELSE count[h]]
    /\ UNCHANGED <<synced, phase, initial, startedSynced, waiting, hasSynced,
                   pendingSync, closes, seen>>

\* The queue of the collection has run everything that was in it at the start.
CollectionSyncs ==
    /\ ~Crashed
    /\ ~synced
    /\ synced' = TRUE
    /\ UNCHANGED <<object, phase, initial, startedSynced, waiting, notifications,
                   count, hasSynced, pendingSync, closes, seen>>

-----------------------------------------------------------------------------
\* processorListener.run, one notification.  The tracker hears of the sync
\* before the handler gets an event outside the initial list, and counts an
\* initial one off after the handler returned.
Run(h) ==
    /\ ~Crashed
    /\ notifications[h] # <<>>
    /\ LET next == Head(notifications[h]) IN
         /\ notifications' = [notifications EXCEPT ![h] = Tail(@)]
         /\ seen' = [seen EXCEPT ![h] = @ \o next.events]
         /\ IF next.initialList THEN Finished(h, Len(next.events)) ELSE ParentSynced(h)
    /\ UNCHANGED <<object, synced, phase, initial, startedSynced, waiting>>

HandlersNext ==
    \/ Distribute
    \/ CollectionSyncs
    \/ \E h \in Handler :
         \/ Insert(h)
         \/ CountInitial(h)
         \/ SendInitial(h)
         \/ InsertReturns(h)
         \/ NotifySynced(h)
         \/ Remove(h)
         \/ Run(h)

\* Goroutines run; nobody has to remove a handler, change the object or sync.
Fairness ==
    \A h \in Handler : /\ WF_handlersVars(CountInitial(h))
                       /\ WF_handlersVars(SendInitial(h))
                       /\ WF_handlersVars(InsertReturns(h))
                       /\ WF_handlersVars(NotifySynced(h))
                       /\ WF_handlersVars(Run(h))

HandlersSpec == HandlersInit /\ [][HandlersNext]_handlersVars
HandlersLiveSpec == HandlersSpec /\ Fairness

-----------------------------------------------------------------------------
\* Synced(): the registration reports that it has synced.
ReportsSynced(h) == synced /\ closes[h] > 0

\* The two races of a registration made before the collection has synced: the
\* goroutine that waits for the sync may overtake the initial events.
OvertakenAtStart(h) == initial[h] # 0 /\ ~startedSynced[h]

\* The first version a handler is told of.
First(h) == IF initial[h] = 0 THEN 1 ELSE initial[h]

\* Events reach a handler "in order, and will not be dropped or deduplicated"
\* (core.go): what it was called with, followed by what is queued for it, is
\* its initial state and then every later version, whatever registrations,
\* removals and the sync of the collection interleave with the events.
EventsInOrder ==
    \A h \in Handler :
      phase[h] \in {"sent", "registered"} =>
        LET queued == notifications[h]
            carrying == {n \in DOMAIN queued : queued[n].events # <<>>}
        IN /\ \A n \in DOMAIN seen[h] : seen[h][n] = First(h) + n - 1
           /\ {queued[n].events : n \in carrying} = {<<v>> : v \in (First(h) + Len(seen[h]))..object}
           /\ \A m, n \in carrying : m < n => queued[m].events[1] < queued[n].events[1]

\* A registration that started on a synced or an empty collection reports that
\* it has synced only after the handler was called with the whole initial state
\* (countingTracker.Synced).
SyncedAfterInitialState ==
    \A h \in Handler :
      (phase[h] = "registered" /\ ReportsSynced(h) /\ ~OvertakenAtStart(h)) =>
        (initial[h] # 0 => seen[h] # <<>> /\ seen[h][1] = initial[h])

\* What a handler may rely on, whenever it registers: the events of the
\* collection in order and without gaps, and a sync that comes after the initial
\* state (handlerSet.Insert, Distribute, processorListener.run).
HandlersServed == EventsInOrder /\ SyncedAfterInitialState

\* "we need to mark ourselves as 'synced' (which we do exactly once)"
\* (countingTracker): the channel that says so is closed at most once.
SyncedExactlyOnce == \A h \in Handler : closes[h] <= 1

\* Once the collection has synced, every registered handler comes to report
\* that it has synced too, however the notification races with the events.
HandlersSync ==
    \A h \in Handler :
      (phase[h] = "registered" /\ synced) ~>
          (ReportsSynced(h) \/ phase[h] = "removed" \/ Crashed)
=============================================================================
