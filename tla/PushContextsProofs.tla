------------------------- MODULE PushContextsProofs -------------------------
(***************************************************************************)
(* Contexts reach the clients in order, for any number of connections and  *)
(* of pushes beside each other.                                            *)
(*                                                                         *)
(* What a client will have once the queue has served it (Reach) is the     *)
(* context of the last full push on its way to it, and its LastPushContext *)
(* when there is none.  Caught says that this is the published context,    *)
(* unless the full push that published it has not got round to the client; *)
(* Ascending, that no request on the way is older than what is before it.  *)
(* Both leave out the stale, as the properties do.                         *)
(***************************************************************************)
EXTENDS PushContexts, SequenceTheorems, TLAPS

Step == {"idle", "publish", "list", "enqueue"}
PusherState == [step : Step, full : BOOLEAN, push : Nat, todo : SUBSET Conn]
Life == {"new", "initializing", "registered", "serving", "closed"}

TypeOK ==
  /\ enableEDSDebounce \in BOOLEAN
  /\ store \in Nat /\ unnotified \subseteq {"full", "eds"}
  /\ built \in Seq(Nat) /\ global \in 1..Len(built)
  /\ pusher \in [Pushers -> PusherState]
  /\ status \in [Conn -> Life]
  /\ last \in [Conn -> 0..global] /\ lastSent \in [Conn -> Nat]
  /\ owed \in [Conn -> PushRequest \union {nil}] /\ underway \in [Conn -> PushRequest \union {nil}]
  /\ updater \in {<<>>} \union (Conn \X (1..global))
  /\ stale \subseteq Conn

\* One goroutine makes full pushes, one at a time; the context it works with
\* is the published one from the moment it has published it.
Pushes ==
  \A p \in Pushers :
    /\ pusher[p].full => p = MainPusher
    /\ pusher[p].step = "idle" => ~pusher[p].full
    /\ pusher[p].step = "publish" => pusher[p].full /\ pusher[p].push = Len(built)
    /\ pusher[p].step \in {"list", "enqueue"} =>
         /\ pusher[p].push \in 1..global
         /\ pusher[p].full => pusher[p].push = global

\* Requests on the way carry a context that has been published, and only to
\* connections that have been added.
Requests ==
  \A c \in Conn :
    /\ owed[c] # nil => owed[c].push \in 1..global
    /\ underway[c] # nil => underway[c].push \in 1..global
    /\ status[c] \in {"new", "initializing"} =>
         /\ owed[c] = nil /\ underway[c] = nil
         /\ \A p \in Pushers : c \notin pusher[p].todo
         /\ updater # <<>> => updater[1] # c

\* The latest context is built from the store as it is, when no change waits.
Latest ==
  "full" \notin unnotified =>
    built[IF pusher[MainPusher].step = "publish" THEN pusher[MainPusher].push ELSE global] = store

Orderly == TypeOK /\ Pushes /\ Requests /\ Latest

Live(c) == status[c] \in {"initializing", "registered", "serving"}

\* LastPushContext once the request under way, and then the one waiting, has
\* been pushed.
Next1(c) == IF underway[c] # nil /\ underway[c].full THEN underway[c].push ELSE last[c]
Reach(c) == IF owed[c] # nil /\ owed[c].full THEN owed[c].push ELSE Next1(c)

\* The full push that published the context has still to enqueue the client.
Coming(c) ==
  /\ pusher[MainPusher].full
  /\ \/ pusher[MainPusher].step = "list"
     \/ pusher[MainPusher].step = "enqueue" /\ c \in pusher[MainPusher].todo

Caught == \A c \in Conn \ stale : Live(c) => (Coming(c) \/ Reach(c) = global)

-----------------------------------------------------------------------------
(* What the operators of the queue do.                                     *)

\* Merge with a request that has a context: it is full when one of the two
\* is, and carries the later request's context.
LEMMA MergeRequest ==
  ASSUME NEW r \in PushRequest \union {nil}, NEW q \in PushRequest, q.push # NoContext
  PROVE  /\ Merge(r, q) \in PushRequest /\ Merge(r, q) # nil
         /\ Merge(r, q).push = q.push
         /\ Merge(r, q).full <=> (q.full \/ (r # nil /\ r.full))
<1>1. q # nil
  BY NilAssumption
<1>2. CASE r = nil
  BY <1>1, <1>2 DEF Merge
<1>3. CASE r # nil
  <2>1. r \in PushRequest
    BY <1>3
  <2>2. Merge(r, q) = MergeFields(r, q)
    BY <1>1, <1>3 DEF Merge
  <2>3. MergeFields(r, q) \in PushRequest
    BY <2>1 DEF MergeFields, PushRequest, NoContext
  <2>4. MergeFields(r, q).push = q.push
    BY DEF MergeFields
  <2>5. MergeFields(r, q).full <=> (q.full \/ r.full)
    BY <2>1 DEF MergeFields, PushRequest
  <2> QED BY <1>3, <2>2, <2>3, <2>4, <2>5, NilAssumption
<1> QED BY <1>2, <1>3

\* The requests that pushes and ProxyUpdate build.
LEMMA RequestFields ==
  ASSUME NEW full \in BOOLEAN, NEW forced \in BOOLEAN, NEW push \in Nat
  PROVE  /\ Request(full, forced, push) \in PushRequest
         /\ Request(full, forced, push).push = push
         /\ Request(full, forced, push).full = full
  BY DEF Request, PushRequest

\* PushQueue.Enqueue changes what waits for one connection, which carries the
\* published context then or is among the stale.
LEMMA EnqueueEffect ==
  ASSUME TypeOK, NEW c \in Conn, NEW q \in PushRequest, q.push \in 1..global, Enqueue(c, q)
  PROVE  /\ owed' \in [Conn -> PushRequest \union {nil}]
         /\ owed'[c] \in PushRequest /\ owed'[c] # nil /\ owed'[c].push = q.push
         /\ owed'[c].full <=> (q.full \/ (owed[c] # nil /\ owed[c].full))
         /\ \A d \in Conn \ {c} : owed'[d] = owed[d]
         /\ stale \subseteq stale' /\ stale' \subseteq Conn /\ stale' \subseteq stale \union {c}
         /\ c \notin stale' => q.push = global
<1>1. owed' = [owed EXCEPT ![c] = Merge(owed[c], q)] /\ owed \in [Conn -> PushRequest \union {nil}]
  BY DEF Enqueue, TypeOK
<1>2. q.push # NoContext
  BY DEF NoContext
<1>3. /\ Merge(owed[c], q) \in PushRequest /\ Merge(owed[c], q) # nil
      /\ Merge(owed[c], q).push = q.push
      /\ Merge(owed[c], q).full <=> (q.full \/ (owed[c] # nil /\ owed[c].full))
  <2>1. owed[c] \in PushRequest \union {nil}
    BY <1>1
  <2> QED BY <1>2, <2>1, MergeRequest
<1>4. owed'[c] = Merge(owed[c], q) /\ owed' \in [Conn -> PushRequest \union {nil}]
  BY <1>1, <1>3
<1>5. \A d \in Conn \ {c} : owed'[d] = owed[d]
  BY <1>1
<1>6. /\ stale \subseteq stale' /\ stale' \subseteq Conn /\ stale' \subseteq stale \union {c}
      /\ c \notin stale' => q.push = global
  BY DEF Enqueue, TypeOK
<1> QED BY <1>3, <1>4, <1>5, <1>6

\* A step of a push changes its place and the clients it has still to enqueue.
LEMMA MovePusher ==
  ASSUME TypeOK, NEW p \in Pushers, NEW s \in Step, NEW T \in SUBSET Conn,
         pusher' = [pusher EXCEPT ![p].step = s, ![p].todo = T]
  PROVE  /\ pusher' \in [Pushers -> PusherState]
         /\ pusher'[p].step = s /\ pusher'[p].todo = T /\ pusher'[p].push = pusher[p].push
         /\ pusher'[p].full <=> pusher[p].full
         /\ \A r \in Pushers \ {p} : pusher'[r] = pusher[r]
<1>1. pusher \in [Pushers -> PusherState] /\ pusher[p] \in PusherState
  BY DEF TypeOK
<1> DEFINE h == [[pusher[p] EXCEPT !.step = s] EXCEPT !.todo = T]
<1>2. pusher' = [pusher EXCEPT ![p] = h]
  BY <1>1
<1>3. h.step = s /\ h.todo = T /\ h.push = pusher[p].push
  BY <1>1 DEF PusherState
<1>4. h.full <=> pusher[p].full
  BY <1>1 DEF PusherState
<1>5. h \in PusherState
  BY <1>1 DEF PusherState
<1> HIDE DEF h
<1>6. pusher' \in [Pushers -> PusherState] /\ pusher'[p] = h /\ \A r \in Pushers \ {p} : pusher'[r] = pusher[r]
  BY <1>1, <1>2, <1>5
<1> QED BY <1>3, <1>4, <1>6, Zenon

\* Appending to the contexts built.
LEMMA BuildAppends ==
  ASSUME NEW s \in Seq(Nat), NEW n \in Nat
  PROVE  /\ Append(s, n) \in Seq(Nat) /\ Len(Append(s, n)) = Len(s) + 1
         /\ Append(s, n)[Len(s) + 1] = n
  OBVIOUS

\* The connection and the context that ProxyUpdate has read.
LEMMA UpdaterRead ==
  ASSUME TypeOK, updater # <<>> PROVE updater[1] \in Conn /\ updater[2] \in 1..global
  BY DEF TypeOK

-----------------------------------------------------------------------------
(* The pushers and the queue.                                              *)

\* A step that leaves the contexts and the pushers alone.
LEMMA PushersKept ==
  ASSUME Orderly, UNCHANGED <<built, global, pusher>>
  PROVE  Pushes'
  BY DEF Orderly, Pushes

\* Pushes keep to the contexts that have been published, and their requests
\* to the connections that have been added.
LEMMA OrderlyInductive == Orderly /\ [Next]_vars => Orderly'
<1> SUFFICES ASSUME Orderly, [Next]_vars PROVE Orderly'
  OBVIOUS
<1> USE DEF storeVars, queueVars, proxyVars
<1>1. TypeOK /\ Pushes /\ Requests /\ Latest
  BY DEF Orderly
<1>2. global \in Nat \ {0} /\ Len(built) \in Nat /\ global <= Len(built)
  BY <1>1 DEF TypeOK
<1>3. MainPusher \in Pushers
  BY PushContextsAssumption
<1>4. CASE ConfigChange
  <2>1. /\ store' = store + 1 /\ unnotified' = unnotified \union {"full"}
        /\ UNCHANGED <<enableEDSDebounce, built, global, pusher, status, last, owed, underway, lastSent, updater, stale>>
    BY <1>4, Zenon DEF ConfigChange
  <2> QED BY <1>1, <2>1 DEF Orderly, TypeOK, Pushes, Requests, Latest
<1>5. CASE EndpointChange
  <2>1. /\ unnotified' = unnotified \union {"eds"}
        /\ UNCHANGED <<enableEDSDebounce, store, built, global, pusher, status, last, owed, underway, lastSent, updater, stale>>
    BY <1>5, Zenon DEF EndpointChange
  <2> QED BY <1>1, <2>1 DEF Orderly, TypeOK, Pushes, Requests, Latest
<1>6. ASSUME NEW p \in Pushers, BuildContext(p) PROVE Orderly'
  <2>1. /\ p = MainPusher /\ unnotified' = unnotified \ Debounced /\ built' = Append(built, store)
        /\ pusher' = [pusher EXCEPT ![p] =
             [step |-> "publish", full |-> TRUE, push |-> Len(built) + 1, todo |-> {}]]
        /\ UNCHANGED <<enableEDSDebounce, store, global, status, last, owed, underway, lastSent, updater, stale>>
    BY <1>6, Zenon DEF BuildContext
  <2>2. built' \in Seq(Nat) /\ Len(built') = Len(built) + 1 /\ built'[Len(built) + 1] = store
    BY <1>1, <2>1, BuildAppends DEF TypeOK
  <2>3. /\ pusher'[p] = [step |-> "publish", full |-> TRUE, push |-> Len(built) + 1, todo |-> {}]
        /\ \A r \in Pushers \ {p} : pusher'[r] = pusher[r]
    BY <1>1, <2>1 DEF TypeOK
  <2>4. TypeOK'
    <3>1. pusher' \in [Pushers -> PusherState]
      BY <1>1, <1>2, <2>1 DEF TypeOK, PusherState, Step
    <3>2. global' \in 1..Len(built')
      BY <1>2, <2>1, <2>2
    <3> QED BY <1>1, <2>1, <2>2, <3>1, <3>2 DEF TypeOK
  <2>5. Pushes'
    BY <1>1, <2>1, <2>2, <2>3 DEF Pushes
  <2>6. Requests'
    BY <1>1, <2>1, <2>3 DEF Requests
  <2>7. Latest'
    BY <2>1, <2>2, <2>3 DEF Latest
  <2> QED BY <2>4, <2>5, <2>6, <2>7 DEF Orderly
<1>7. ASSUME NEW p \in Pushers, PublishContext(p) PROVE Orderly'
  <2>1. /\ pusher[p].step = "publish" /\ global' = pusher[p].push
        /\ pusher' = [pusher EXCEPT ![p].step = "list"]
        /\ UNCHANGED <<enableEDSDebounce, store, unnotified, built, status, last, owed, underway, lastSent, updater, stale>>
    BY <1>7, Zenon DEF PublishContext
  <2>2. p = MainPusher /\ global' = Len(built) /\ pusher[p].full
    BY <1>1, <2>1 DEF Pushes
  <2>3. /\ pusher'[p].step = "list" /\ (pusher'[p].full <=> pusher[p].full) /\ pusher'[p].push = pusher[p].push
        /\ pusher'[p].todo = pusher[p].todo
        /\ \A r \in Pushers \ {p} : pusher'[r] = pusher[r]
        /\ pusher' \in [Pushers -> PusherState]
    <3>1. pusher' = [pusher EXCEPT ![p].step = "list", ![p].todo = pusher[p].todo]
      BY <1>1, <2>1 DEF TypeOK, PusherState
    <3>2. "list" \in Step /\ pusher[p].todo \in SUBSET Conn /\ pusher \in [Pushers -> PusherState]
      BY <1>1 DEF TypeOK, PusherState, Step
    <3> QED BY <1>1, <3>1, <3>2, MovePusher, ZenonT(60)
  <2>4. 0..global \subseteq 0..global' /\ 1..global \subseteq 1..global' /\ global' \in 1..Len(built)
    BY <1>2, <2>2
  <2>5. TypeOK'
    <3>1. last' \in [Conn -> 0..global']
      BY <1>1, <2>1, <2>4 DEF TypeOK
    <3>2. updater' \in {<<>>} \union (Conn \X (1..global'))
      BY <1>1, <2>1, <2>4 DEF TypeOK
    <3> QED BY <1>1, <2>1, <2>3, <2>4, <3>1, <3>2 DEF TypeOK
  <2>6. Pushes'
    BY <1>1, <2>1, <2>2, <2>3, <2>4 DEF Pushes
  <2>7. Requests'
    BY <1>1, <2>1, <2>3, <2>4 DEF Requests
  <2>8. Latest'
    BY <1>1, <2>1, <2>2, <2>3 DEF Latest
  <2> QED BY <2>5, <2>6, <2>7, <2>8 DEF Orderly
<1>8. ASSUME NEW p \in Pushers, ReadContext(p) PROVE Orderly'
  <2>1. /\ pusher[p].step = "idle" /\ unnotified' = unnotified \ {"eds"}
        /\ pusher' = [pusher EXCEPT ![p] = [step |-> "list", full |-> FALSE, push |-> global, todo |-> {}]]
        /\ UNCHANGED <<enableEDSDebounce, store, built, global, status, last, owed, underway, lastSent, updater, stale>>
    BY <1>8, Zenon DEF ReadContext
  <2>2. /\ pusher'[p] = [step |-> "list", full |-> FALSE, push |-> global, todo |-> {}]
        /\ \A r \in Pushers \ {p} : pusher'[r] = pusher[r]
    BY <1>1, <2>1 DEF TypeOK
  <2>3. pusher' \in [Pushers -> PusherState]
    BY <1>1, <1>2, <2>1 DEF TypeOK, PusherState, Step
  <2>4. TypeOK'
    BY <1>1, <2>1, <2>3 DEF TypeOK
  <2>5. Pushes'
    BY <1>1, <1>2, <2>1, <2>2 DEF Pushes
  <2>6. Requests'
    BY <1>1, <2>1, <2>2 DEF Requests
  <2>7. Latest'
    BY <1>1, <1>3, <2>1, <2>2 DEF Latest
  <2> QED BY <2>4, <2>5, <2>6, <2>7 DEF Orderly
<1>9. ASSUME NEW p \in Pushers, ListClients(p) PROVE Orderly'
  <2>1. PICK listed \in SUBSET Registered :
          pusher' = [pusher EXCEPT ![p].step = "enqueue", ![p].todo = listed]
    BY <1>9 DEF ListClients
  <2>2. /\ pusher[p].step = "list"
        /\ UNCHANGED <<enableEDSDebounce, store, unnotified, built, global, status, last, owed, underway, lastSent, updater>>
    BY <1>9, Zenon DEF ListClients
  <2>3. stale' \subseteq Conn
    BY <1>1, <1>9 DEF ListClients, TypeOK
  <2>4. listed \in SUBSET Conn
    BY DEF Registered
  <2>5. /\ pusher'[p].step = "enqueue" /\ (pusher'[p].full <=> pusher[p].full) /\ pusher'[p].push = pusher[p].push
        /\ pusher'[p].todo = listed
        /\ \A r \in Pushers \ {p} : pusher'[r] = pusher[r]
        /\ pusher' \in [Pushers -> PusherState]
    <3>1. "enqueue" \in Step
      BY DEF Step
    <3>2. /\ pusher' \in [Pushers -> PusherState]
          /\ pusher'[p].step = "enqueue" /\ pusher'[p].todo = listed /\ pusher'[p].push = pusher[p].push
          /\ pusher'[p].full <=> pusher[p].full
          /\ \A r \in Pushers \ {p} : pusher'[r] = pusher[r]
      BY <1>1, <2>1, <2>4, <3>1, MovePusher, Zenon
    <3> QED BY <3>2, Zenon
  <2>6. TypeOK'
    BY <1>1, <2>2, <2>3, <2>5 DEF TypeOK
  <2>7. Pushes'
    BY <1>1, <2>2, <2>5 DEF Pushes
  <2>8. Requests'
    BY <1>1, <2>2, <2>5 DEF Requests, Registered
  <2>9. Latest'
    BY <1>1, <1>3, <2>2, <2>5 DEF Latest
  <2> QED BY <2>6, <2>7, <2>8, <2>9 DEF Orderly
<1>10. ASSUME NEW p \in Pushers, NEW c \in Conn, EnqueueNext(p, c) PROVE Orderly'
  <2>1. /\ pusher[p].step = "enqueue" /\ c \in pusher[p].todo
        /\ Enqueue(c, Request(pusher[p].full, FALSE, pusher[p].push))
        /\ pusher' = [pusher EXCEPT ![p].todo = @ \ {c}]
        /\ UNCHANGED <<enableEDSDebounce, store, unnotified, built, global, status, last, underway, lastSent, updater>>
    BY <1>10, Zenon DEF EnqueueNext
  <2>2. /\ pusher'[p].step = pusher[p].step /\ (pusher'[p].full <=> pusher[p].full) /\ pusher'[p].push = pusher[p].push
        /\ pusher'[p].todo = pusher[p].todo \ {c}
        /\ \A r \in Pushers \ {p} : pusher'[r] = pusher[r]
        /\ pusher' \in [Pushers -> PusherState]
    <3> DEFINE T == pusher[p].todo \ {c}
    <3>1. pusher' = [pusher EXCEPT ![p].step = pusher[p].step, ![p].todo = T]
      BY <1>1, <2>1 DEF TypeOK, PusherState
    <3>2. pusher[p].step \in Step /\ T \in SUBSET Conn
      BY <1>1 DEF TypeOK, PusherState
    <3>3. T = pusher[p].todo \ {c}
      OBVIOUS
    <3> HIDE DEF T
    <3>4. /\ pusher' \in [Pushers -> PusherState]
          /\ pusher'[p].step = pusher[p].step /\ pusher'[p].todo = T /\ pusher'[p].push = pusher[p].push
          /\ pusher'[p].full <=> pusher[p].full
          /\ \A r \in Pushers \ {p} : pusher'[r] = pusher[r]
      BY <1>1, <3>1, <3>2, MovePusher, Zenon
    <3> QED BY <3>3, <3>4, Zenon
  <2>3. pusher[p].push \in 1..global /\ pusher[p].push \in Nat /\ pusher[p].full \in BOOLEAN
    BY <1>1, <2>1 DEF Pushes, TypeOK, PusherState
  <2>4. /\ owed' \in [Conn -> PushRequest \union {nil}]
        /\ owed'[c].push = pusher[p].push
        /\ \A d \in Conn \ {c} : owed'[d] = owed[d]
        /\ stale' \subseteq Conn
    <3> DEFINE q == Request(pusher[p].full, FALSE, pusher[p].push)
    <3>1. q \in PushRequest /\ q.push = pusher[p].push
      BY <2>3, RequestFields
    <3> HIDE DEF q
    <3>2. Enqueue(c, q) /\ q.push \in 1..global
      BY <2>1, <2>3, <3>1 DEF q
    <3> QED BY <1>1, <3>1, <3>2, EnqueueEffect, Zenon
  <2>5. status[c] \notin {"new", "initializing"}
    BY <1>1, <2>1 DEF Requests
  <2>6. TypeOK'
    BY <1>1, <2>1, <2>2, <2>4 DEF TypeOK
  <2>7. Pushes'
    BY <1>1, <2>1, <2>2 DEF Pushes
  <2>8. Requests'
    BY <1>1, <2>1, <2>2, <2>3, <2>4, <2>5 DEF Requests
  <2>9. Latest'
    BY <1>1, <1>3, <2>1, <2>2 DEF Latest
  <2> QED BY <2>6, <2>7, <2>8, <2>9 DEF Orderly
<1>11. ASSUME NEW p \in Pushers, PushEnds(p) PROVE Orderly'
  <2>1. /\ pusher[p].step = "enqueue" /\ pusher' = [pusher EXCEPT ![p] = Idle]
        /\ UNCHANGED <<enableEDSDebounce, store, unnotified, built, global, status, last, owed, underway, lastSent, updater, stale>>
    BY <1>11, Zenon DEF PushEnds
  <2>2. /\ pusher'[p] = Idle /\ \A r \in Pushers \ {p} : pusher'[r] = pusher[r]
        /\ pusher' \in [Pushers -> PusherState]
    BY <1>1, <2>1 DEF TypeOK, PusherState, Step, Idle, NoContext
  <2>3. TypeOK'
    BY <1>1, <2>1, <2>2 DEF TypeOK
  <2>4. Pushes'
    BY <1>1, <2>1, <2>2 DEF Pushes, Idle
  <2>5. Requests'
    BY <1>1, <2>1, <2>2 DEF Requests, Idle
  <2>6. Latest'
    BY <1>1, <1>3, <2>1, <2>2 DEF Latest, Idle
  <2> QED BY <2>3, <2>4, <2>5, <2>6 DEF Orderly
<1>12. ASSUME NEW c \in Conn, ProxyUpdateRead(c) PROVE Orderly'
  <2>1. /\ status[c] = "serving" /\ updater' = <<c, global>>
        /\ UNCHANGED <<enableEDSDebounce, store, unnotified, built, global, pusher, status, last, owed, underway, lastSent, stale>>
    BY <1>12, Zenon DEF ProxyUpdateRead
  <2>2. updater' \in Conn \X (1..global) /\ updater'[1] = c
    BY <1>2, <2>1
  <2>3. TypeOK'
    BY <1>1, <2>1, <2>2 DEF TypeOK
  <2>4. Requests'
    BY <1>1, <2>1, <2>2 DEF Requests
  <2> QED BY <1>1, <2>1, <2>3, <2>4, PushersKept DEF Orderly, Latest
<1>13. CASE ProxyUpdateEnqueue
  <2>1. /\ updater # <<>> /\ Enqueue(updater[1], Request(TRUE, TRUE, updater[2])) /\ updater' = <<>>
        /\ UNCHANGED <<enableEDSDebounce, store, unnotified, built, global, pusher, status, last, underway, lastSent>>
    BY <1>13, Zenon DEF ProxyUpdateEnqueue
  <2>2. updater[1] \in Conn /\ updater[2] \in 1..global /\ updater[2] \in Nat
    BY <1>1, <2>1, UpdaterRead
  <2>3. /\ owed' \in [Conn -> PushRequest \union {nil}]
        /\ owed'[updater[1]].push = updater[2]
        /\ \A d \in Conn \ {updater[1]} : owed'[d] = owed[d]
        /\ stale' \subseteq Conn
    <3> DEFINE q == Request(TRUE, TRUE, updater[2])
    <3>1. q \in PushRequest /\ q.push = updater[2]
      BY <2>2, RequestFields
    <3> HIDE DEF q
    <3>2. Enqueue(updater[1], q) /\ q.push \in 1..global
      BY <2>1, <2>2, <3>1 DEF q
    <3> QED BY <1>1, <2>2, <3>1, <3>2, EnqueueEffect, Zenon
  <2>4. TypeOK'
    BY <1>1, <2>1, <2>3 DEF TypeOK
  <2>5. Requests'
    BY <1>1, <2>1, <2>2, <2>3 DEF Requests
  <2> QED BY <1>1, <2>1, <2>4, <2>5, PushersKept DEF Orderly, Latest
<1>14. ASSUME NEW c \in Conn, InitConnection(c) PROVE Orderly'
  <2>1. /\ status[c] = "new" /\ status' = [status EXCEPT ![c] = "initializing"]
        /\ last' = [last EXCEPT ![c] = global]
        /\ UNCHANGED <<enableEDSDebounce, store, unnotified, built, global, pusher, owed, underway, lastSent, updater, stale>>
    BY <1>14, Zenon DEF InitConnection
  <2>2. status' \in [Conn -> Life] /\ last' \in [Conn -> 0..global] /\ \A d \in Conn \ {c} : status'[d] = status[d]
    BY <1>1, <1>2, <2>1 DEF TypeOK, Life
  <2>3. TypeOK'
    BY <1>1, <2>1, <2>2 DEF TypeOK
  <2>4. Requests'
    BY <1>1, <2>1, <2>2 DEF Requests
  <2> QED BY <1>1, <2>1, <2>3, <2>4, PushersKept DEF Orderly, Latest
<1>15. ASSUME NEW c \in Conn, Unauthorized(c) \/ AddCon(c) \/ MarkInitialized(c) \/ CloseConnection(c) PROVE Orderly'
  <2>1. /\ \E s \in {"registered", "serving", "closed"} : status' = [status EXCEPT ![c] = s]
        /\ UNCHANGED <<enableEDSDebounce, store, unnotified, built, global, pusher, last, owed, underway, lastSent, updater, stale>>
    BY <1>15, Zenon DEF Unauthorized, AddCon, MarkInitialized, CloseConnection
  <2>2. /\ status' \in [Conn -> Life] /\ status'[c] \notin {"new", "initializing"}
        /\ \A d \in Conn \ {c} : status'[d] = status[d]
    BY <1>1, <2>1 DEF TypeOK, Life
  <2>3. TypeOK'
    BY <1>1, <2>1, <2>2 DEF TypeOK
  <2>4. Requests'
    BY <1>1, <2>1, <2>2 DEF Requests
  <2> QED BY <1>1, <2>1, <2>3, <2>4, PushersKept DEF Orderly, Latest
<1>16. ASSUME NEW c \in Conn, Dequeue(c) PROVE Orderly'
  <2>1. /\ owed[c] # nil /\ underway' = [underway EXCEPT ![c] = owed[c]] /\ owed' = [owed EXCEPT ![c] = nil]
        /\ UNCHANGED <<enableEDSDebounce, store, unnotified, built, global, pusher, status, last, lastSent, updater, stale>>
    BY <1>16, Zenon DEF Dequeue
  <2>2. /\ underway' \in [Conn -> PushRequest \union {nil}] /\ owed' \in [Conn -> PushRequest \union {nil}]
        /\ underway'[c] = owed[c] /\ owed'[c] = nil
        /\ \A d \in Conn \ {c} : underway'[d] = underway[d] /\ owed'[d] = owed[d]
    BY <1>1, <2>1 DEF TypeOK
  <2>3. TypeOK'
    BY <1>1, <2>1, <2>2 DEF TypeOK
  <2>4. Requests'
    BY <1>1, <2>1, <2>2 DEF Requests
  <2> QED BY <1>1, <2>1, <2>3, <2>4, PushersKept DEF Orderly, Latest
<1>17. ASSUME NEW c \in Conn, PushConnection(c) PROVE Orderly'
  <2>1. /\ underway[c] # nil /\ underway' = [underway EXCEPT ![c] = nil]
        /\ lastSent' = [lastSent EXCEPT ![c] = underway[c].push]
        /\ last' = [last EXCEPT ![c] = underway[c].push] \/ last' = last
        /\ stale' = stale \ {c} \/ stale' = stale
        /\ UNCHANGED <<enableEDSDebounce, store, unnotified, built, global, pusher, status, owed, updater>>
    BY <1>17, Zenon DEF PushConnection
  <2>2. underway[c].push \in 1..global
    BY <1>1, <2>1 DEF Requests
  <2>3. /\ underway' \in [Conn -> PushRequest \union {nil}] /\ underway'[c] = nil
        /\ \A d \in Conn \ {c} : underway'[d] = underway[d]
    BY <1>1, <2>1 DEF TypeOK
  <2>4. last' \in [Conn -> 0..global] /\ lastSent' \in [Conn -> Nat]
    <3> DEFINE n == underway[c].push
    <3>1. n \in 0..global /\ n \in Nat /\ last \in [Conn -> 0..global] /\ lastSent \in [Conn -> Nat]
      BY <1>1, <1>2, <2>2 DEF TypeOK
    <3>2. last' = [last EXCEPT ![c] = n] \/ last' = last
      BY <2>1
    <3>3. lastSent' = [lastSent EXCEPT ![c] = n]
      BY <2>1
    <3> HIDE DEF n
    <3> QED BY <3>1, <3>2, <3>3
  <2>5. TypeOK'
    BY <1>1, <2>1, <2>3, <2>4 DEF TypeOK
  <2>6. Requests'
    BY <1>1, <2>1, <2>3 DEF Requests
  <2> QED BY <1>1, <2>1, <2>5, <2>6, PushersKept DEF Orderly, Latest
<1>18. ASSUME NEW c \in Conn, ProcessRequest(c) PROVE Orderly'
  <2>1. /\ lastSent' = [lastSent EXCEPT ![c] = last[c]]
        /\ UNCHANGED <<enableEDSDebounce, store, unnotified, built, global, pusher, status, last, owed, underway, updater, stale>>
    BY <1>18, Zenon DEF ProcessRequest
  <2>2. lastSent' \in [Conn -> Nat]
    BY <1>1, <1>2, <2>1 DEF TypeOK
  <2>3. TypeOK'
    BY <1>1, <2>1, <2>2 DEF TypeOK
  <2>4. Requests'
    BY <1>1, <2>1 DEF Requests
  <2> QED BY <1>1, <2>1, <2>3, <2>4, PushersKept DEF Orderly, Latest
<1>19. ASSUME NEW c \in Conn, DropClosed(c) PROVE Orderly'
  <2>1. /\ underway' = [underway EXCEPT ![c] = nil]
        /\ UNCHANGED <<enableEDSDebounce, store, unnotified, built, global, pusher, status, last, owed, lastSent, updater, stale>>
    BY <1>19, Zenon DEF DropClosed
  <2>2. /\ underway' \in [Conn -> PushRequest \union {nil}] /\ underway'[c] = nil
        /\ \A d \in Conn \ {c} : underway'[d] = underway[d]
    BY <1>1, <2>1 DEF TypeOK
  <2>3. TypeOK'
    BY <1>1, <2>1, <2>2 DEF TypeOK
  <2>4. Requests'
    BY <1>1, <2>1, <2>2 DEF Requests
  <2> QED BY <1>1, <2>1, <2>3, <2>4, PushersKept DEF Orderly, Latest
<1>20. CASE UNCHANGED vars
  BY <1>1, <1>20 DEF vars, Orderly, TypeOK, Pushes, Requests, Latest
<1> QED
  BY <1>4, <1>5, <1>6, <1>7, <1>8, <1>9, <1>10, <1>11, <1>12, <1>13, <1>14, <1>15, <1>16, <1>17, <1>18, <1>19, <1>20
     DEF Next, PushStep

-----------------------------------------------------------------------------
(* The published context is on its way to every client.                    *)

\* A client that is not stale is caught up by what is on its way to it, or
\* by the full push that has still to list or to enqueue it.
LEMMA CaughtInductive == Orderly /\ Orderly' /\ Caught /\ [Next]_vars => Caught'
<1> SUFFICES ASSUME Orderly, Orderly', Caught, [Next]_vars,
                    NEW d \in Conn, d \notin stale', Live(d)'
             PROVE  Coming(d)' \/ Reach(d)' = global'
  BY DEF Caught
<1> USE DEF storeVars, queueVars, proxyVars
<1>1. TypeOK /\ Pushes /\ Requests /\ MainPusher \in Pushers
  BY PushContextsAssumption DEF Orderly
<1>2. (d \notin stale /\ Live(d)) => (Coming(d) \/ Reach(d) = global)
  BY DEF Caught
<1>3. ~pusher[MainPusher].full => ~Coming(d)
  BY DEF Coming
<1>4. ASSUME d \notin stale, Live(d), global' = global,
             last'[d] = last[d], owed'[d] = owed[d], underway'[d] = underway[d], ~Coming(d)
      PROVE  Reach(d)' = global'
  BY <1>2, <1>4 DEF Reach, Next1
<1>5. ASSUME d \notin stale, Live(d), global' = global, pusher'[MainPusher] = pusher[MainPusher],
             last'[d] = last[d], owed'[d] = owed[d], underway'[d] = underway[d]
      PROVE  Coming(d)' \/ Reach(d)' = global'
  <2>1. CASE Coming(d)
    BY <1>5, <2>1 DEF Coming
  <2> QED BY <1>4, <1>5, <2>1
<1>6. CASE ConfigChange \/ EndpointChange \/ UNCHANGED vars \/ \E c \in Conn : ProxyUpdateRead(c) \/ ProcessRequest(c)
  <2>1. UNCHANGED <<global, pusher, status, last, owed, underway, stale>>
    BY <1>6, Zenon DEF ConfigChange, EndpointChange, vars, ProxyUpdateRead, ProcessRequest
  <2> QED BY <1>5, <2>1 DEF Live
<1>7. ASSUME NEW p \in Pushers, BuildContext(p) PROVE Reach(d)' = global'
  <2>1. p = MainPusher /\ pusher[p].step = "idle" /\ UNCHANGED <<global, status, last, owed, underway, stale>>
    BY <1>7, Zenon DEF BuildContext
  <2>2. ~Coming(d)
    BY <1>1, <1>3, <2>1 DEF Pushes
  <2> QED BY <1>4, <2>1, <2>2 DEF Live
<1>8. ASSUME NEW p \in Pushers, PublishContext(p) PROVE Coming(d)'
  <2>1. pusher[p].step = "publish" /\ pusher' = [pusher EXCEPT ![p].step = "list"]
    BY <1>8, Zenon DEF PublishContext
  <2>2. p = MainPusher /\ pusher[p].full
    BY <1>1, <2>1 DEF Pushes
  <2>3. pusher'[p].step = "list" /\ (pusher'[p].full <=> pusher[p].full)
    BY <1>1, <2>1 DEF TypeOK, PusherState
  <2> QED BY <2>2, <2>3 DEF Coming
<1>9. ASSUME NEW p \in Pushers, ReadContext(p) PROVE Coming(d)' \/ Reach(d)' = global'
  <2>1. /\ pusher[p].step = "idle" /\ UNCHANGED <<global, status, last, owed, underway, stale>>
        /\ pusher' = [pusher EXCEPT ![p] = [step |-> "list", full |-> FALSE, push |-> global, todo |-> {}]]
    BY <1>9, Zenon DEF ReadContext
  <2>2. CASE p = MainPusher
    <3>1. ~Coming(d)
      BY <1>1, <1>3, <2>1, <2>2 DEF Pushes
    <3> QED BY <1>4, <2>1, <3>1 DEF Live
  <2>3. CASE p # MainPusher
    <3>1. pusher'[MainPusher] = pusher[MainPusher]
      BY <1>1, <2>1, <2>3 DEF TypeOK
    <3> QED BY <1>5, <2>1, <3>1 DEF Live
  <2> QED BY <2>2, <2>3
<1>10. ASSUME NEW p \in Pushers, ListClients(p) PROVE Coming(d)' \/ Reach(d)' = global'
  <2>1. pusher[p].step = "list" /\ UNCHANGED <<global, status, last, owed, underway>>
    BY <1>10, Zenon DEF ListClients
  <2>2. d \notin stale /\ Live(d)
    BY <1>10, <2>1 DEF ListClients, Live
  <2>3. PICK listed \in (IF pusher[p].full THEN {Registered} ELSE SUBSET Registered) :
          pusher' = [pusher EXCEPT ![p].step = "enqueue", ![p].todo = listed]
    BY <1>10 DEF ListClients
  <2>4. CASE p # MainPusher
    <3>1. pusher'[MainPusher] = pusher[MainPusher]
      BY <1>1, <2>3, <2>4 DEF TypeOK
    <3> QED BY <1>5, <2>1, <2>2, <3>1
  <2>5. CASE p = MainPusher /\ ~pusher[p].full
    BY <1>3, <1>4, <2>1, <2>2, <2>5
  <2>6. CASE p = MainPusher /\ pusher[p].full
    <3>1. CASE d \in Registered
      <4>1. listed = Registered
        BY <2>6
      <4>2. pusher'[p].step = "enqueue" /\ (pusher'[p].full <=> pusher[p].full) /\ pusher'[p].todo = listed
        <5>1. "enqueue" \in Step /\ listed \in SUBSET Conn
          BY <4>1 DEF Step, Registered
        <5>2. /\ pusher' \in [Pushers -> PusherState]
              /\ pusher'[p].step = "enqueue" /\ pusher'[p].todo = listed /\ pusher'[p].push = pusher[p].push
              /\ pusher'[p].full <=> pusher[p].full
              /\ \A r \in Pushers \ {p} : pusher'[r] = pusher[r]
          BY <1>1, <2>3, <5>1, MovePusher, Zenon
        <5> QED BY <5>2, Zenon
      <4> QED BY <2>6, <3>1, <4>1, <4>2 DEF Coming
    <3>2. CASE d \notin Registered
      <4>1. status[d] = "initializing"
        BY <2>2, <3>2 DEF Live, Registered
      <4>2. pusher[p].push = global
        BY <1>1, <2>1, <2>6 DEF Pushes
      <4>3. ~(last[d] < global)
        BY <1>10, <2>6, <4>1, <4>2 DEF ListClients
      <4>4. last[d] = global
        BY <1>1, <4>3 DEF TypeOK
      <4>5. owed[d] = nil /\ underway[d] = nil
        BY <1>1, <4>1 DEF Requests
      <4> QED BY <2>1, <4>4, <4>5 DEF Reach, Next1
    <3> QED BY <3>1, <3>2
  <2> QED BY <2>4, <2>5, <2>6
<1>11. ASSUME NEW p \in Pushers, NEW c \in Conn, EnqueueNext(p, c) PROVE Coming(d)' \/ Reach(d)' = global'
  <2>1. /\ pusher[p].step = "enqueue" /\ c \in pusher[p].todo
        /\ Enqueue(c, Request(pusher[p].full, FALSE, pusher[p].push))
        /\ pusher' = [pusher EXCEPT ![p].todo = @ \ {c}]
        /\ UNCHANGED <<global, status, last, underway>>
    BY <1>11, Zenon DEF EnqueueNext
  <2>2. pusher[p].push \in 1..global /\ pusher[p].push \in Nat /\ pusher[p].full \in BOOLEAN
    BY <1>1, <2>1 DEF Pushes, TypeOK, PusherState
  <2> DEFINE q == Request(pusher[p].full, FALSE, pusher[p].push)
  <2>3. q \in PushRequest /\ q.push = pusher[p].push /\ (q.full <=> pusher[p].full)
    BY <2>2, RequestFields
  <2> HIDE DEF q
  <2>4. Enqueue(c, q) /\ q.push \in 1..global
    BY <2>1, <2>2, <2>3 DEF q
  <2>5. /\ owed'[c] \in PushRequest /\ owed'[c] # nil /\ owed'[c].push = q.push
        /\ owed'[c].full <=> (q.full \/ (owed[c] # nil /\ owed[c].full))
        /\ \A e \in Conn \ {c} : owed'[e] = owed[e]
        /\ stale \subseteq stale'
        /\ c \notin stale' => q.push = global
    BY <1>1, <2>3, <2>4, EnqueueEffect, Zenon
  <2>6. /\ pusher'[p].step = pusher[p].step /\ (pusher'[p].full <=> pusher[p].full)
        /\ pusher'[p].todo = pusher[p].todo \ {c}
        /\ \A r \in Pushers \ {p} : pusher'[r] = pusher[r]
    BY <1>1, <2>1 DEF TypeOK, PusherState
  <2>7. d \notin stale /\ Live(d)
    BY <2>1, <2>5 DEF Live
  <2>8. CASE d = c
    <3>1. CASE owed'[c].full
      BY <2>1, <2>5, <2>8, <3>1 DEF Reach
    <3>2. CASE ~owed'[c].full
      <4>1. ~pusher[p].full /\ ~(owed[c] # nil /\ owed[c].full)
        BY <2>3, <2>5, <3>2
      <4>2. Reach(d)' = Reach(d)
        BY <2>1, <2>8, <3>2, <4>1 DEF Reach, Next1
      <4>3. CASE Coming(d)
        <5>1. p # MainPusher
          BY <4>1, <4>3 DEF Coming
        <5> QED BY <1>1, <2>6, <4>3, <5>1 DEF Coming
      <4> QED BY <1>2, <2>1, <2>7, <4>2, <4>3
    <3> QED BY <3>1, <3>2
  <2>9. CASE d # c
    <3>1. owed'[d] = owed[d]
      BY <2>5, <2>9
    <3>2. CASE Coming(d)
      BY <1>1, <2>6, <2>9, <3>2 DEF Coming
    <3> QED BY <1>4, <2>1, <2>7, <3>1, <3>2
  <2> QED BY <2>8, <2>9
<1>12. ASSUME NEW p \in Pushers, PushEnds(p) PROVE Coming(d)' \/ Reach(d)' = global'
  <2>1. /\ pusher[p].step = "enqueue" /\ pusher[p].todo = {} /\ pusher' = [pusher EXCEPT ![p] = Idle]
        /\ UNCHANGED <<global, status, last, owed, underway, stale>>
    BY <1>12, Zenon DEF PushEnds
  <2>2. CASE p = MainPusher
    <3>1. ~Coming(d)
      BY <2>1, <2>2 DEF Coming
    <3> QED BY <1>4, <2>1, <3>1 DEF Live
  <2>3. CASE p # MainPusher
    <3>1. pusher'[MainPusher] = pusher[MainPusher]
      BY <1>1, <2>1, <2>3 DEF TypeOK
    <3> QED BY <1>5, <2>1, <3>1 DEF Live
  <2> QED BY <2>2, <2>3
<1>13. CASE ProxyUpdateEnqueue
  <2>1. /\ updater # <<>> /\ Enqueue(updater[1], Request(TRUE, TRUE, updater[2]))
        /\ UNCHANGED <<global, pusher, status, last, underway>>
    BY <1>13, Zenon DEF ProxyUpdateEnqueue
  <2> DEFINE c == updater[1]
             q == Request(TRUE, TRUE, updater[2])
  <2>2. c \in Conn /\ updater[2] \in 1..global /\ updater[2] \in Nat
    BY <1>1, <2>1, UpdaterRead
  <2>3. q \in PushRequest /\ q.push = updater[2] /\ q.full
    BY <2>2, RequestFields
  <2>4. Enqueue(c, q)
    BY <2>1
  <2> HIDE DEF c, q
  <2>5. q.push \in 1..global
    BY <2>2, <2>3
  <2>6. /\ owed'[c] \in PushRequest /\ owed'[c] # nil /\ owed'[c].push = q.push
        /\ owed'[c].full <=> (q.full \/ (owed[c] # nil /\ owed[c].full))
        /\ \A e \in Conn \ {c} : owed'[e] = owed[e]
        /\ stale \subseteq stale'
        /\ c \notin stale' => q.push = global
    BY <1>1, <2>2, <2>3, <2>4, <2>5, EnqueueEffect, Zenon
  <2>7. d \notin stale /\ Live(d)
    BY <2>1, <2>6 DEF Live
  <2>8. CASE d = c
    BY <2>1, <2>3, <2>6, <2>8 DEF Reach
  <2>9. CASE d # c
    BY <1>5, <2>1, <2>6, <2>7, <2>9
  <2> QED BY <2>8, <2>9
<1>14. ASSUME NEW c \in Conn, InitConnection(c) PROVE Coming(d)' \/ Reach(d)' = global'
  <2>1. /\ status[c] = "new" /\ status' = [status EXCEPT ![c] = "initializing"]
        /\ last' = [last EXCEPT ![c] = global] /\ UNCHANGED <<global, pusher, owed, underway, stale>>
    BY <1>14, Zenon DEF InitConnection
  <2>2. CASE d = c
    <3>1. owed[d] = nil /\ underway[d] = nil
      BY <1>1, <2>1, <2>2 DEF Requests
    <3>2. last'[d] = global
      BY <1>1, <2>1, <2>2 DEF TypeOK
    <3> QED BY <2>1, <3>1, <3>2 DEF Reach, Next1
  <2>3. CASE d # c
    <3>1. last'[d] = last[d] /\ status'[d] = status[d]
      BY <1>1, <2>1, <2>3 DEF TypeOK
    <3> QED BY <1>5, <2>1, <3>1 DEF Live
  <2> QED BY <2>2, <2>3
<1>15. ASSUME NEW c \in Conn, Unauthorized(c) \/ AddCon(c) \/ MarkInitialized(c) \/ CloseConnection(c)
       PROVE  Coming(d)' \/ Reach(d)' = global'
  <2>1. /\ status[c] \in {"initializing", "registered", "serving"}
        /\ \E s \in Life : status' = [status EXCEPT ![c] = s]
        /\ UNCHANGED <<global, pusher, last, owed, underway, stale>>
    <3>1. {"registered", "serving", "closed"} \subseteq Life
      BY DEF Life
    <3>2. \E s \in {"registered", "serving", "closed"} : status' = [status EXCEPT ![c] = s]
      BY <1>15, Zenon DEF Unauthorized, AddCon, MarkInitialized, CloseConnection
    <3> QED BY <1>15, <3>1, <3>2 DEF Unauthorized, AddCon, MarkInitialized, CloseConnection
  <2>2. Live(d)
    BY <1>1, <2>1 DEF Live, TypeOK
  <2> QED BY <1>5, <2>1, <2>2
<1>16. ASSUME NEW c \in Conn, Dequeue(c) PROVE Coming(d)' \/ Reach(d)' = global'
  <2>1. /\ owed[c] # nil /\ underway[c] = nil
        /\ underway' = [underway EXCEPT ![c] = owed[c]] /\ owed' = [owed EXCEPT ![c] = nil]
        /\ UNCHANGED <<global, pusher, status, last, stale>>
    BY <1>16, Zenon DEF Dequeue
  <2>2. /\ underway'[c] = owed[c] /\ owed'[c] = nil
        /\ \A e \in Conn \ {c} : underway'[e] = underway[e] /\ owed'[e] = owed[e]
    BY <1>1, <2>1 DEF TypeOK
  <2>3. CASE d = c
    <3>1. Reach(d)' = Reach(d)
      BY <2>1, <2>2, <2>3 DEF Reach, Next1
    <3>2. Coming(d) => Coming(d)'
      BY <2>1 DEF Coming
    <3> QED BY <1>2, <2>1, <3>1, <3>2 DEF Live
  <2>4. CASE d # c
    BY <1>5, <2>1, <2>2, <2>4 DEF Live
  <2> QED BY <2>3, <2>4
<1>17. ASSUME NEW c \in Conn, PushConnection(c) PROVE Coming(d)' \/ Reach(d)' = global'
  <2>1. /\ status[c] = "serving" /\ underway[c] # nil /\ underway' = [underway EXCEPT ![c] = nil]
        /\ last' = IF underway[c].full THEN [last EXCEPT ![c] = underway[c].push] ELSE last
        /\ stale' = IF underway[c].full /\ underway[c].push = global /\ owed[c] = nil THEN stale \ {c} ELSE stale
        /\ UNCHANGED <<global, pusher, status, owed>>
    BY <1>17, Zenon DEF PushConnection
  <2>2. /\ underway'[c] = nil /\ last'[c] = Next1(c)
        /\ \A e \in Conn \ {c} : underway'[e] = underway[e] /\ last'[e] = last[e]
    BY <1>1, <2>1 DEF TypeOK, Next1
  <2>3. CASE d = c /\ d \in stale
    <3>1. underway[c].full /\ underway[c].push = global /\ owed[c] = nil
      BY <2>1, <2>3
    <3> QED BY <2>1, <2>2, <2>3, <3>1 DEF Reach, Next1
  <2>4. CASE d = c /\ d \notin stale
    <3>1. Reach(d)' = Reach(d)
      BY <2>1, <2>2, <2>4 DEF Reach, Next1
    <3>2. Coming(d) => Coming(d)'
      BY <2>1 DEF Coming
    <3> QED BY <1>2, <2>1, <2>4, <3>1, <3>2 DEF Live
  <2>5. CASE d # c
    <3>1. d \notin stale
      BY <2>1, <2>5
    <3> QED BY <1>5, <2>1, <2>2, <2>5, <3>1 DEF Live
  <2> QED BY <2>3, <2>4, <2>5
<1>18. ASSUME NEW c \in Conn, DropClosed(c) PROVE Coming(d)' \/ Reach(d)' = global'
  <2>1. /\ status[c] = "closed" /\ underway' = [underway EXCEPT ![c] = nil]
        /\ UNCHANGED <<global, pusher, status, last, owed, stale>>
    BY <1>18, Zenon DEF DropClosed
  <2>2. d # c
    BY <2>1 DEF Live
  <2>3. underway'[d] = underway[d]
    BY <1>1, <2>1, <2>2 DEF TypeOK
  <2> QED BY <1>5, <2>1, <2>3 DEF Live
<1> QED
  BY <1>6, <1>7, <1>8, <1>9, <1>10, <1>11, <1>12, <1>13, <1>14, <1>15, <1>16, <1>17, <1>18 DEF Next, PushStep

\* Both hold in every state.
LEMMA OrderlyCaught == Spec => [](Orderly /\ Caught)
<1>1. Init => Orderly /\ Caught
  <2> SUFFICES ASSUME Init PROVE Orderly /\ Caught
    OBVIOUS
  <2>1. TypeOK
    BY DEF Init, TypeOK, PusherState, Step, Life, Idle, NoContext
  <2>2. Pushes
    BY DEF Init, Pushes, Idle
  <2>3. Requests
    BY DEF Init, Requests, Idle
  <2>4. Latest
    BY PushContextsAssumption DEF Init, Latest, Idle
  <2>5. Caught
    BY DEF Init, Caught, Live
  <2> QED BY <2>1, <2>2, <2>3, <2>4, <2>5 DEF Orderly
<1> QED BY <1>1, OrderlyInductive, CaughtInductive, PTL DEF Spec

\* When nothing is left to do, every client that is served answers its
\* requests from the published context, which is built from the configuration
\* as it is - with or without debounced endpoint updates, and unless it is
\* one of the stale (DiscoveryServer.Push, pushConnection).
THEOREM QuietIsUpToDate == Spec => []UpToDateWhenQuiet
<1>1. Orderly /\ Caught => UpToDateWhenQuiet
  <2> SUFFICES ASSUME Orderly, Caught, Quiet, NEW c \in Conn \ stale, status[c] = "serving"
               PROVE  last[c] = global /\ built[last[c]] = store
    BY DEF UpToDateWhenQuiet
  <2>1. pusher[MainPusher].step = "idle" /\ owed[c] = nil /\ underway[c] = nil /\ unnotified = {}
    BY PushContextsAssumption DEF Quiet
  <2>2. last[c] = global
    BY <2>1 DEF Caught, Live, Coming, Reach, Next1
  <2> QED BY <2>1, <2>2 DEF Orderly, Latest
<1> QED BY <1>1, OrderlyCaught, PTL

-----------------------------------------------------------------------------
(* No request on its way to a client is older than what is before it.      *)

\* The chain of one client: what it was sent, its LastPushContext, the
\* request under way and the one that waits.
Chain(c) ==
  /\ lastSent[c] <= last[c]
  /\ underway[c] # nil => /\ last[c] <= underway[c].push
                          /\ ~underway[c].full => underway[c].push = last[c]
  /\ owed[c] # nil => /\ Next1(c) <= owed[c].push
                      /\ ~owed[c].full => owed[c].push = Next1(c)

\* With debounced endpoint updates one goroutine makes every push, with the
\* published context.
OnePusher ==
  /\ \A p \in Pushers \ {MainPusher} : pusher[p].step = "idle"
  /\ \A p \in Pushers : pusher[p].step \in {"list", "enqueue"} => pusher[p].push = global

Ascending ==
  enableEDSDebounce =>
    /\ OnePusher
    /\ \A c \in Conn \ stale : Live(c) => Chain(c)
    /\ \A c \in Conn : status[c] = "new" => lastSent[c] = NoContext

\* What a step does to a client's request, as far as the client is concerned.
LEMMA EnqueueChain ==
  ASSUME Orderly, NEW c \in Conn, NEW q \in PushRequest, q.push \in 1..global, Enqueue(c, q),
         UNCHANGED <<status, last, underway, lastSent>>, c \notin stale', Chain(c),
         q.full \/ Reach(c) = global
  PROVE  Chain(c)'
<1>1. TypeOK /\ Requests
  BY DEF Orderly
<1>2. /\ owed'[c] \in PushRequest /\ owed'[c] # nil /\ owed'[c].push = q.push
      /\ owed'[c].full <=> (q.full \/ (owed[c] # nil /\ owed[c].full))
      /\ c \notin stale' => q.push = global
  BY <1>1, EnqueueEffect, Zenon
<1>3. owed'[c].push = global
  BY <1>2
<1>4. Next1(c)' = Next1(c)
  BY DEF Next1
<1>5. Next1(c) <= global
  BY <1>1 DEF Next1, TypeOK, Requests
<1>6. ~owed'[c].full => Next1(c) = global
  BY <1>2 DEF Reach
<1> QED BY <1>2, <1>3, <1>4, <1>5, <1>6 DEF Chain

\* With one pusher at a time, what is owed to a client ascends.
LEMMA AscendingInductive ==
  Orderly /\ Orderly' /\ Caught /\ Ascending /\ [Next]_vars => Ascending'
<1> SUFFICES ASSUME Orderly, Orderly', Caught, Ascending, [Next]_vars, enableEDSDebounce'
             PROVE  /\ OnePusher'
                    /\ \A c \in Conn \ stale' : Live(c)' => Chain(c)'
                    /\ \A c \in Conn : status'[c] = "new" => lastSent'[c] = NoContext
  BY DEF Ascending
<1> USE DEF storeVars, queueVars, proxyVars
<1>1. TypeOK /\ Pushes /\ Requests /\ MainPusher \in Pushers
  BY PushContextsAssumption DEF Orderly
<1>2. enableEDSDebounce' = enableEDSDebounce
  BY Zenon DEF Next, PushStep, ConfigChange, EndpointChange, BuildContext, PublishContext, ReadContext, ListClients,
     EnqueueNext, PushEnds, ProxyUpdateRead, ProxyUpdateEnqueue, InitConnection, Unauthorized, AddCon,
     MarkInitialized, Dequeue, PushConnection, ProcessRequest, CloseConnection, DropClosed, vars
<1>3. /\ enableEDSDebounce /\ OnePusher
      /\ \A c \in Conn \ stale : Live(c) => Chain(c)
      /\ \A c \in Conn : status[c] = "new" => lastSent[c] = NoContext
  BY <1>2 DEF Ascending
<1>4. ASSUME UNCHANGED <<status, last, owed, underway, lastSent>>, stale \subseteq stale'
      PROVE  /\ \A c \in Conn \ stale' : Live(c)' => Chain(c)'
             /\ \A c \in Conn : status'[c] = "new" => lastSent'[c] = NoContext
  BY <1>3, <1>4 DEF Live, Chain, Next1
<1>5. ASSUME UNCHANGED <<pusher, global>> PROVE OnePusher'
  BY <1>3, <1>5 DEF OnePusher
<1>6. ASSUME NEW c \in Conn,
             \A e \in Conn \ {c} : /\ status'[e] = status[e] /\ last'[e] = last[e] /\ owed'[e] = owed[e]
                                   /\ underway'[e] = underway[e] /\ lastSent'[e] = lastSent[e]
                                   /\ e \in stale => e \in stale',
             (c \notin stale' /\ Live(c)') => Chain(c)',
             status'[c] = "new" => lastSent'[c] = NoContext
      PROVE  /\ \A e \in Conn \ stale' : Live(e)' => Chain(e)'
             /\ \A e \in Conn : status'[e] = "new" => lastSent'[e] = NoContext
  BY <1>3, <1>6, SMTT(60) DEF Live, Chain, Next1
<1>7. CASE ConfigChange \/ EndpointChange \/ UNCHANGED vars \/ \E c \in Conn : ProxyUpdateRead(c)
  <2>1. UNCHANGED <<global, pusher, status, last, owed, underway, lastSent, stale>>
    BY <1>7, Zenon DEF ConfigChange, EndpointChange, vars, ProxyUpdateRead
  <2> QED BY <1>4, <1>5, <2>1
<1>8. ASSUME NEW p \in Pushers, BuildContext(p) \/ PublishContext(p) \/ ReadContext(p) \/ PushEnds(p)
      PROVE  /\ OnePusher'
             /\ \A c \in Conn \ stale' : Live(c)' => Chain(c)'
             /\ \A c \in Conn : status'[c] = "new" => lastSent'[c] = NoContext
  <2>1. UNCHANGED <<status, last, owed, underway, lastSent, stale>>
    BY <1>8, Zenon DEF BuildContext, PublishContext, ReadContext, PushEnds
  <2>2. CASE BuildContext(p)
    <3>1. /\ p = MainPusher /\ global' = global
          /\ pusher' = [pusher EXCEPT ![p] =
               [step |-> "publish", full |-> TRUE, push |-> Len(built) + 1, todo |-> {}]]
      BY <2>2, Zenon DEF BuildContext
    <3>2. pusher'[p].step = "publish" /\ \A r \in Pushers \ {p} : pusher'[r] = pusher[r]
      BY <1>1, <3>1 DEF TypeOK
    <3> QED BY <1>3, <1>4, <2>1, <3>1, <3>2 DEF OnePusher
  <2>3. CASE PublishContext(p)
    <3>1. pusher[p].step = "publish" /\ global' = pusher[p].push /\ pusher' = [pusher EXCEPT ![p].step = "list"]
      BY <2>3, Zenon DEF PublishContext
    <3>2. p = MainPusher
      BY <1>1, <3>1 DEF Pushes
    <3>3. pusher'[p].push = pusher[p].push /\ \A r \in Pushers \ {p} : pusher'[r] = pusher[r]
      BY <1>1, <3>1 DEF TypeOK, PusherState
    <3> QED BY <1>3, <1>4, <2>1, <3>1, <3>2, <3>3 DEF OnePusher
  <2>4. CASE ReadContext(p)
    <3>1. /\ p = MainPusher /\ global' = global
          /\ pusher' = [pusher EXCEPT ![p] = [step |-> "list", full |-> FALSE, push |-> global, todo |-> {}]]
      BY <1>3, <2>4, Zenon DEF ReadContext
    <3>2. pusher'[p].push = global /\ \A r \in Pushers \ {p} : pusher'[r] = pusher[r]
      BY <1>1, <3>1 DEF TypeOK
    <3> QED BY <1>3, <1>4, <2>1, <3>1, <3>2 DEF OnePusher
  <2>5. CASE PushEnds(p)
    <3>1. pusher' = [pusher EXCEPT ![p] = Idle] /\ global' = global
      BY <2>5, Zenon DEF PushEnds
    <3>2. pusher'[p].step = "idle" /\ \A r \in Pushers \ {p} : pusher'[r] = pusher[r]
      BY <1>1, <3>1 DEF TypeOK, Idle
    <3> QED BY <1>3, <1>4, <2>1, <3>1, <3>2 DEF OnePusher
  <2> QED BY <1>8, <2>2, <2>3, <2>4, <2>5
<1>9. ASSUME NEW p \in Pushers, ListClients(p)
      PROVE  /\ OnePusher'
             /\ \A c \in Conn \ stale' : Live(c)' => Chain(c)'
             /\ \A c \in Conn : status'[c] = "new" => lastSent'[c] = NoContext
  <2>1. pusher[p].step = "list" /\ UNCHANGED <<global, status, last, owed, underway, lastSent>>
    BY <1>9, Zenon DEF ListClients
  <2>2. stale \subseteq stale'
    BY <1>9 DEF ListClients
  <2>3. PICK listed \in SUBSET Registered : pusher' = [pusher EXCEPT ![p].step = "enqueue", ![p].todo = listed]
    BY <1>9 DEF ListClients
  <2>4. pusher'[p].push = pusher[p].push /\ \A r \in Pushers \ {p} : pusher'[r] = pusher[r]
    BY <1>1, <2>3 DEF TypeOK, PusherState
  <2>5. p = MainPusher
    BY <1>3, <2>1 DEF OnePusher
  <2> QED BY <1>3, <1>4, <2>1, <2>2, <2>4, <2>5 DEF OnePusher
<1>10. ASSUME NEW p \in Pushers, NEW c \in Conn, EnqueueNext(p, c)
      PROVE  /\ OnePusher'
             /\ \A e \in Conn \ stale' : Live(e)' => Chain(e)'
             /\ \A e \in Conn : status'[e] = "new" => lastSent'[e] = NoContext
  <2>1. /\ pusher[p].step = "enqueue" /\ c \in pusher[p].todo
        /\ Enqueue(c, Request(pusher[p].full, FALSE, pusher[p].push))
        /\ pusher' = [pusher EXCEPT ![p].todo = @ \ {c}]
        /\ UNCHANGED <<global, status, last, underway, lastSent>>
    BY <1>10, Zenon DEF EnqueueNext
  <2>2. pusher[p].push \in 1..global /\ pusher[p].push \in Nat /\ pusher[p].full \in BOOLEAN
    BY <1>1, <2>1 DEF Pushes, TypeOK, PusherState
  <2> DEFINE q == Request(pusher[p].full, FALSE, pusher[p].push)
  <2>3. q \in PushRequest /\ q.push = pusher[p].push /\ (q.full <=> pusher[p].full)
    BY <2>2, RequestFields
  <2> HIDE DEF q
  <2>4. Enqueue(c, q) /\ q.push \in 1..global
    BY <2>1, <2>2, <2>3 DEF q
  <2>5. /\ \A e \in Conn \ {c} : owed'[e] = owed[e]
        /\ stale \subseteq stale'
    BY <1>1, <2>3, <2>4, EnqueueEffect, Zenon
  <2>6. /\ pusher'[p].step = pusher[p].step /\ pusher'[p].push = pusher[p].push
        /\ \A r \in Pushers \ {p} : pusher'[r] = pusher[r]
    BY <1>1, <2>1 DEF TypeOK, PusherState
  <2>7. p = MainPusher
    BY <1>3, <2>1 DEF OnePusher
  <2>8. (c \notin stale' /\ Live(c)') => Chain(c)'
    <3> SUFFICES ASSUME c \notin stale', Live(c)' PROVE Chain(c)'
      OBVIOUS
    <3>1. c \notin stale /\ Live(c)
      BY <2>1, <2>5 DEF Live
    <3>2. q.full \/ Reach(c) = global
      BY <2>3, <2>7, <3>1 DEF Caught, Coming
    <3>3. Chain(c) /\ UNCHANGED <<status, last, underway, lastSent>>
      BY <1>3, <2>1, <3>1
    <3> QED BY <2>3, <2>4, <3>2, <3>3, EnqueueChain, Zenon
  <2>9. OnePusher'
    BY <1>3, <2>1, <2>6, <2>7 DEF OnePusher
  <2>10. status'[c] = "new" => lastSent'[c] = NoContext
    BY <1>3, <2>1
  <2>11. \A e \in Conn \ {c} : /\ status'[e] = status[e] /\ last'[e] = last[e] /\ owed'[e] = owed[e]
                               /\ underway'[e] = underway[e] /\ lastSent'[e] = lastSent[e]
                               /\ e \in stale => e \in stale'
    BY <2>1, <2>5
  <2> QED BY <1>6, <2>8, <2>9, <2>10, <2>11
<1>11. CASE ProxyUpdateEnqueue
  <2>1. /\ updater # <<>> /\ Enqueue(updater[1], Request(TRUE, TRUE, updater[2]))
        /\ UNCHANGED <<global, pusher, status, last, underway, lastSent>>
    BY <1>11, Zenon DEF ProxyUpdateEnqueue
  <2>2. PICK c \in Conn : c = updater[1] /\ updater[2] \in 1..global /\ updater[2] \in Nat
    BY <1>1, <2>1, UpdaterRead
  <2> DEFINE q == Request(TRUE, TRUE, updater[2])
  <2>3. q \in PushRequest /\ q.push = updater[2] /\ q.full
    BY <2>2, RequestFields
  <2>4. Enqueue(c, q)
    BY <2>1, <2>2
  <2> HIDE DEF q
  <2>5. q.push \in 1..global
    BY <2>2, <2>3
  <2>6. /\ \A e \in Conn \ {c} : owed'[e] = owed[e]
        /\ stale \subseteq stale'
    BY <1>1, <2>2, <2>3, <2>4, <2>5, EnqueueEffect, Zenon
  <2>7. (c \notin stale' /\ Live(c)') => Chain(c)'
    <3> SUFFICES ASSUME c \notin stale', Live(c)' PROVE Chain(c)'
      OBVIOUS
    <3>1. c \notin stale /\ Live(c)
      BY <2>1, <2>6 DEF Live
    <3>2. Chain(c) /\ UNCHANGED <<status, last, underway, lastSent>>
      BY <1>3, <2>1, <2>2, <3>1
    <3> QED BY <2>2, <2>3, <2>4, <2>5, <3>2, EnqueueChain, Zenon
  <2>8. status'[c] = "new" => lastSent'[c] = NoContext
    BY <1>3, <2>1, <2>2
  <2>9. \A e \in Conn \ {c} : /\ status'[e] = status[e] /\ last'[e] = last[e] /\ owed'[e] = owed[e]
                              /\ underway'[e] = underway[e] /\ lastSent'[e] = lastSent[e]
                              /\ e \in stale => e \in stale'
    BY <2>1, <2>6
  <2> QED BY <1>5, <1>6, <2>1, <2>2, <2>7, <2>8, <2>9
<1>12. ASSUME NEW c \in Conn, InitConnection(c)
       PROVE  /\ OnePusher'
              /\ \A e \in Conn \ stale' : Live(e)' => Chain(e)'
              /\ \A e \in Conn : status'[e] = "new" => lastSent'[e] = NoContext
  <2>1. /\ status[c] = "new" /\ status' = [status EXCEPT ![c] = "initializing"]
        /\ last' = [last EXCEPT ![c] = global] /\ UNCHANGED <<global, pusher, owed, underway, lastSent, stale>>
    BY <1>12, Zenon DEF InitConnection
  <2>2. /\ status'[c] = "initializing" /\ last'[c] = global
        /\ \A e \in Conn \ {c} : status'[e] = status[e] /\ last'[e] = last[e]
    BY <1>1, <2>1 DEF TypeOK
  <2>3. owed[c] = nil /\ underway[c] = nil /\ lastSent[c] = 0
    BY <1>1, <1>3, <2>1 DEF Requests, NoContext
  <2>4. Chain(c)'
    BY <1>1, <2>1, <2>2, <2>3 DEF Chain, TypeOK
  <2> QED BY <1>5, <1>6, <2>1, <2>2, <2>4
<1>13. ASSUME NEW c \in Conn, Unauthorized(c) \/ AddCon(c) \/ MarkInitialized(c) \/ CloseConnection(c)
       PROVE  /\ OnePusher'
              /\ \A e \in Conn \ stale' : Live(e)' => Chain(e)'
              /\ \A e \in Conn : status'[e] = "new" => lastSent'[e] = NoContext
  <2>1. /\ \E s \in {"registered", "serving", "closed"} : status' = [status EXCEPT ![c] = s]
        /\ UNCHANGED <<global, pusher, last, owed, underway, lastSent, stale>>
    BY <1>13, Zenon DEF Unauthorized, AddCon, MarkInitialized, CloseConnection
  <2>2. Live(c)
    BY <1>13 DEF Unauthorized, AddCon, MarkInitialized, CloseConnection, Live
  <2>3. status'[c] # "new" /\ \A e \in Conn \ {c} : status'[e] = status[e]
    BY <1>1, <2>1 DEF TypeOK
  <2>4. c \notin stale' => Chain(c)'
    BY <1>3, <2>1, <2>2 DEF Chain, Next1
  <2> QED BY <1>5, <1>6, <2>1, <2>3, <2>4
<1>14. ASSUME NEW c \in Conn, Dequeue(c)
       PROVE  /\ OnePusher'
              /\ \A e \in Conn \ stale' : Live(e)' => Chain(e)'
              /\ \A e \in Conn : status'[e] = "new" => lastSent'[e] = NoContext
  <2>1. /\ owed[c] # nil /\ underway[c] = nil
        /\ underway' = [underway EXCEPT ![c] = owed[c]] /\ owed' = [owed EXCEPT ![c] = nil]
        /\ UNCHANGED <<global, pusher, status, last, lastSent, stale>>
    BY <1>14, Zenon DEF Dequeue
  <2>2. /\ underway'[c] = owed[c] /\ owed'[c] = nil
        /\ \A e \in Conn \ {c} : underway'[e] = underway[e] /\ owed'[e] = owed[e]
    BY <1>1, <2>1 DEF TypeOK
  <2>3. (c \notin stale' /\ Live(c)') => Chain(c)'
    BY <1>3, <2>1, <2>2 DEF Chain, Next1, Live
  <2> QED BY <1>3, <1>5, <1>6, <2>1, <2>2, <2>3
<1>15. ASSUME NEW c \in Conn, PushConnection(c)
       PROVE  /\ OnePusher'
              /\ \A e \in Conn \ stale' : Live(e)' => Chain(e)'
              /\ \A e \in Conn : status'[e] = "new" => lastSent'[e] = NoContext
  <2>1. /\ status[c] = "serving" /\ underway[c] # nil /\ underway' = [underway EXCEPT ![c] = nil]
        /\ last' = IF underway[c].full THEN [last EXCEPT ![c] = underway[c].push] ELSE last
        /\ lastSent' = [lastSent EXCEPT ![c] = underway[c].push]
        /\ stale' = IF underway[c].full /\ underway[c].push = global /\ owed[c] = nil THEN stale \ {c} ELSE stale
        /\ UNCHANGED <<global, pusher, status, owed>>
    BY <1>15, Zenon DEF PushConnection
  <2>2. /\ underway'[c] = nil /\ last'[c] = Next1(c) /\ lastSent'[c] = underway[c].push
        /\ \A e \in Conn \ {c} : underway'[e] = underway[e] /\ last'[e] = last[e] /\ lastSent'[e] = lastSent[e]
    BY <1>1, <2>1 DEF TypeOK, Next1
  <2>3. underway[c].push \in Nat
    BY <1>1, <2>1 DEF Requests
  <2>4. CASE c \in stale /\ c \notin stale'
    <3>1. underway[c].full /\ owed[c] = nil
      BY <2>1, <2>4
    <3>2. Chain(c)'
      BY <2>1, <2>2, <2>3, <3>1, SMTT(60) DEF Chain, Next1
    <3> QED BY <1>5, <1>6, <2>1, <2>2, <3>2
  <2>5. CASE ~(c \in stale /\ c \notin stale')
    <3>1. stale' = stale
      BY <2>1, <2>5
    <3>2. Next1(c)' = Next1(c)
      BY <2>2 DEF Next1
    <3>3. c \notin stale => Chain(c)
      BY <1>3, <2>1 DEF Live
    <3>4. c \notin stale' => Chain(c)'
      BY <2>1, <2>2, <2>3, <3>1, <3>2, <3>3, SMTT(60) DEF Chain, Next1
    <3> QED BY <1>5, <1>6, <2>1, <2>2, <3>1, <3>4
  <2> QED BY <2>4, <2>5
<1>16. ASSUME NEW c \in Conn, ProcessRequest(c)
       PROVE  /\ OnePusher'
              /\ \A e \in Conn \ stale' : Live(e)' => Chain(e)'
              /\ \A e \in Conn : status'[e] = "new" => lastSent'[e] = NoContext
  <2>1. /\ status[c] = "serving" /\ lastSent' = [lastSent EXCEPT ![c] = last[c]]
        /\ UNCHANGED <<global, pusher, status, last, owed, underway, stale>>
    BY <1>16, Zenon DEF ProcessRequest
  <2>2. lastSent'[c] = last[c] /\ last[c] \in Nat /\ \A e \in Conn \ {c} : lastSent'[e] = lastSent[e]
    BY <1>1, <2>1 DEF TypeOK
  <2>3. c \notin stale' => Chain(c)'
    BY <1>3, <2>1, <2>2, SMTT(60) DEF Chain, Next1, Live
  <2> QED BY <1>5, <1>6, <2>1, <2>2, <2>3
<1>17. ASSUME NEW c \in Conn, DropClosed(c)
       PROVE  /\ OnePusher'
              /\ \A e \in Conn \ stale' : Live(e)' => Chain(e)'
              /\ \A e \in Conn : status'[e] = "new" => lastSent'[e] = NoContext
  <2>1. /\ status[c] = "closed" /\ underway' = [underway EXCEPT ![c] = nil]
        /\ UNCHANGED <<global, pusher, status, last, owed, lastSent, stale>>
    BY <1>17, Zenon DEF DropClosed
  <2>2. ~Live(c)' /\ status'[c] # "new"
    BY <2>1 DEF Live
  <2>3. \A e \in Conn \ {c} : underway'[e] = underway[e]
    BY <1>1, <2>1 DEF TypeOK
  <2> QED BY <1>5, <1>6, <2>1, <2>2, <2>3
<1> QED
  BY <1>7, <1>8, <1>9, <1>10, <1>11, <1>12, <1>13, <1>14, <1>15, <1>16, <1>17 DEF Next, PushStep

\* A client is never sent a context older than one it was sent before, by
\* pushes and by answers to its own requests together, as long as endpoint
\* updates are debounced and it is not one of the stale.
THEOREM ContextsAscend == Spec => NeverBackwards
<1>1. Init => Ascending
  BY DEF Init, Ascending, OnePusher, Live, Idle
<1>2. Orderly /\ Ascending /\ [Next]_vars =>
        [enableEDSDebounce => \A c \in Conn \ stale : lastSent'[c] >= lastSent[c]]_vars
  <2> SUFFICES ASSUME Orderly, Ascending, [Next]_vars, enableEDSDebounce, NEW c \in Conn \ stale
               PROVE  lastSent'[c] >= lastSent[c]
    OBVIOUS
  <2>1. TypeOK /\ Requests /\ (Live(c) => Chain(c))
    BY DEF Orderly, Ascending
  <2>2. lastSent[c] \in Nat /\ last[c] \in Nat
    BY <2>1 DEF TypeOK
  <2>3. ASSUME lastSent' = lastSent PROVE lastSent'[c] >= lastSent[c]
    BY <2>2, <2>3
  <2>4. ASSUME NEW d \in Conn, PushConnection(d) PROVE lastSent'[c] >= lastSent[c]
    <3>1. status[d] = "serving" /\ underway[d] # nil /\ lastSent' = [lastSent EXCEPT ![d] = underway[d].push]
      BY <2>4, Zenon DEF PushConnection
    <3>2. CASE d = c
      <4>1. /\ lastSent[c] <= last[c] /\ last[c] <= underway[c].push /\ underway[c].push \in Nat
        BY <2>1, <3>1, <3>2, SMTT(60) DEF Live, Chain, Requests
      <4>2. lastSent'[c] = underway[c].push
        BY <2>1, <3>1, <3>2 DEF TypeOK
      <4> QED BY <2>2, <4>1, <4>2
    <3>3. CASE d # c
      BY <2>1, <2>2, <3>1, <3>3 DEF TypeOK
    <3> QED BY <3>2, <3>3
  <2>5. ASSUME NEW d \in Conn, ProcessRequest(d) PROVE lastSent'[c] >= lastSent[c]
    <3>1. status[d] = "serving" /\ lastSent' = [lastSent EXCEPT ![d] = last[d]]
      BY <2>5, Zenon DEF ProcessRequest
    <3> QED BY <2>1, <2>2, <3>1 DEF TypeOK, Live, Chain
  <2>6. CASE \/ ConfigChange \/ EndpointChange \/ ProxyUpdateEnqueue \/ UNCHANGED vars
             \/ \E p \in Pushers : PushStep(p)
             \/ \E d \in Conn : \/ ProxyUpdateRead(d) \/ InitConnection(d) \/ Unauthorized(d) \/ AddCon(d)
                                \/ MarkInitialized(d) \/ Dequeue(d) \/ CloseConnection(d) \/ DropClosed(d)
    <3>1. lastSent' = lastSent
      BY <2>6, Zenon DEF PushStep, ConfigChange, EndpointChange, BuildContext, PublishContext, ReadContext,
         ListClients, EnqueueNext, PushEnds, ProxyUpdateRead, ProxyUpdateEnqueue, InitConnection, Unauthorized,
         AddCon, MarkInitialized, Dequeue, CloseConnection, DropClosed, vars
    <3> QED BY <2>3, <3>1
  <2> QED BY <2>4, <2>5, <2>6 DEF Next
<1>3. Orderly /\ Orderly' /\ Caught /\ Ascending /\ [Next]_vars => Ascending'
  BY AscendingInductive
<1> QED BY <1>1, <1>2, <1>3, OrderlyCaught, PTL DEF Spec, NeverBackwards
=============================================================================
