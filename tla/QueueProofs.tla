---------------------------- MODULE QueueProofs ----------------------------
(***************************************************************************)
(* Proofs about the two places where updates wait for who is to have them. *)
(*                                                                         *)
(* The push queue, for every set of connections, every set of              *)
(* configuration keys and every set of incoming requests.                  *)
(*                                                                         *)
(* The notifications of a krt collection on their way to its handlers, for *)
(* any handlers and any number of events.  HandlersInv says what is queued *)
(* for a handler in each phase of its registration: nothing that carries   *)
(* an event before the initial state is sent, and from then on exactly     *)
(* what the handler has not seen, oldest first.                            *)
(***************************************************************************)
EXTENDS PushQueue, KrtHandlers, TLAPS

Elems(s) == {s[i] : i \in 1..Len(s)}

(***************************************************************************)
(* Two facts about the queue slice.                                        *)
(***************************************************************************)

\* Appending a connection that is not in the slice keeps it free of
\* duplicates and adds exactly that connection.
LEMMA AppendNew ==
  ASSUME NEW s \in Seq(Conn), NEW c \in Conn, Distinct(s), c \notin Elems(s)
  PROVE  /\ Append(s, c) \in Seq(Conn)
         /\ Distinct(Append(s, c))
         /\ Elems(Append(s, c)) = Elems(s) \union {c}
<1>1. /\ Append(s, c) \in Seq(Conn)
      /\ Len(Append(s, c)) = Len(s) + 1
      /\ Len(s) \in Nat
      /\ \A i \in 1..Len(s) : Append(s, c)[i] = s[i]
      /\ Append(s, c)[Len(s) + 1] = c
  OBVIOUS
<1>2. \A i \in 1..(Len(s) + 1) : i \in 1..Len(s) \/ i = Len(s) + 1
  BY <1>1
<1>3. \A i \in 1..Len(s) : s[i] # c
  BY DEF Elems
<1>4. Distinct(Append(s, c))
  BY <1>1, <1>2, <1>3 DEF Distinct
<1>5. Elems(Append(s, c)) \subseteq Elems(s) \union {c}
  BY <1>1, <1>2 DEF Elems
<1>6. ASSUME NEW x \in Elems(s) \union {c} PROVE x \in Elems(Append(s, c))
  <2>1. CASE x = c
    <3>1. Len(s) + 1 \in 1..Len(Append(s, c))
      BY <1>1
    <3> QED BY <1>1, <2>1, <3>1 DEF Elems
  <2>2. CASE x \in Elems(s)
    <3>1. PICK i \in 1..Len(s) : x = s[i]
      BY <2>2 DEF Elems
    <3>2. i \in 1..Len(Append(s, c)) /\ Append(s, c)[i] = x
      BY <1>1, <3>1
    <3> QED BY <3>2 DEF Elems
  <2> QED BY <1>6, <2>1, <2>2
<1> QED BY <1>1, <1>4, <1>5, <1>6

\* Dropping the head of a slice without duplicates removes exactly the head.
LEMMA DropHead ==
  ASSUME NEW s \in Seq(Conn), s # <<>>, Distinct(s)
  PROVE  /\ Head(s) \in Conn
         /\ Head(s) \in Elems(s)
         /\ Tail(s) \in Seq(Conn)
         /\ Distinct(Tail(s))
         /\ Elems(Tail(s)) = Elems(s) \ {Head(s)}
<1>1. /\ Len(s) \in Nat
      /\ Len(s) > 0
      /\ Head(s) = s[1]
      /\ Tail(s) \in Seq(Conn)
      /\ Len(Tail(s)) = Len(s) - 1
      /\ \A i \in 1..Len(Tail(s)) : Tail(s)[i] = s[i + 1]
  OBVIOUS
<1>2. 1 \in 1..Len(s)
  BY <1>1
<1>3. Head(s) \in Conn /\ Head(s) \in Elems(s)
  BY <1>1, <1>2 DEF Elems
<1>4. Distinct(Tail(s))
  BY <1>1 DEF Distinct
<1>5. Elems(Tail(s)) \subseteq Elems(s) \ {Head(s)}
  <2>1. SUFFICES ASSUME NEW i \in 1..Len(Tail(s))
                 PROVE  Tail(s)[i] \in Elems(s) \ {Head(s)}
    BY DEF Elems
  <2>2. i + 1 \in 1..Len(s) /\ i + 1 # 1
    BY <1>1
  <2>3. s[i + 1] # s[1]
    BY <1>2, <2>2 DEF Distinct
  <2> QED BY <1>1, <2>2, <2>3 DEF Elems
<1>6. ASSUME NEW x \in Elems(s) \ {Head(s)} PROVE x \in Elems(Tail(s))
  <2>1. PICK i \in 1..Len(s) : x = s[i]
    BY <1>6 DEF Elems
  <2>2. i - 1 \in 1..Len(Tail(s)) /\ Tail(s)[i - 1] = x
    BY <1>1, <1>6, <2>1
  <2> QED BY <2>2 DEF Elems
<1> QED BY <1>1, <1>3, <1>4, <1>5, <1>6

\* Merging keeps requests requests and unites what they name.
LEMMA MergeType ==
  ASSUME NEW p \in PushRequest \union {nil}, NEW r \in PushRequest
  PROVE  /\ CopyMerge(p, r) \in PushRequest
         /\ CopyMerge(p, r) # nil
         /\ CopyMerge(p, r).configs = ConfigsOf(p) \union r.configs
<1>1. CASE p = nil
  BY <1>1, NilAssumption DEF CopyMerge, Merge, ConfigsOf
<1>2. CASE p # nil
  <2>1. CopyMerge(p, r) = MergeFields(p, r)
    BY <1>2, NilAssumption DEF CopyMerge, Merge
  <2>2. MergeFields(p, r) \in PushRequest
    BY <1>2 DEF MergeFields, PushRequest
  <2>3. MergeFields(p, r).configs = p.configs \union r.configs
    BY DEF MergeFields
  <2> QED BY <1>2, <2>1, <2>2, <2>3, NilAssumption DEF ConfigsOf
<1> QED BY <1>1, <1>2

-----------------------------------------------------------------------------
(***************************************************************************)
(* The inductive invariant.  TypeOK alone is not inductive: that Dequeue   *)
(* finds a request for the head of the queue is QueueConsistent, and that  *)
(* MarkDone may put its connection back is OnePushPerConnection with the   *)
(* disjointness in QueueConsistent.                                        *)
(***************************************************************************)
IInv ==
  /\ TypeOK
  /\ QueueConsistent
  /\ OnePushPerConnection
  /\ NoUpdateLost

LEMMA InitInv == Init => IInv
<1> SUFFICES ASSUME Init PROVE IInv
  OBVIOUS
<1>1. TypeOK
  <2>1. shuttingDown \in BOOLEAN /\ stopped \in BOOLEAN
    BY Zenon DEF Init
  <2>2. queue \in Seq(Conn)
    BY DEF Init
  <2>3. /\ inflight \in [Conn -> PushRequest \union {nil}]
        /\ accepted \in [Conn -> SUBSET ConfigKey]
        /\ delivered \in [Conn -> SUBSET ConfigKey]
    BY DEF Init
  <2>4. DOMAIN pending = {} /\ DOMAIN processing = {}
    BY DEF Init
  <2> QED BY <2>1, <2>2, <2>3, <2>4 DEF TypeOK
<1>2. QueueConsistent
  BY DEF Init, QueueConsistent, Distinct, Waiting
<1>3. OnePushPerConnection
  BY DEF Init, OnePushPerConnection
<1>4. NoUpdateLost
  BY DEF Init, NoUpdateLost, ConfigsOf, PendingConfigs, ProcessingConfigs
<1> QED BY <1>1, <1>2, <1>3, <1>4 DEF IInv

LEMMA EnqueueInv ==
  ASSUME IInv, NEW c \in Conn, NEW r \in Incoming, Enqueue(c, r)
  PROVE  IInv'
<1> USE DEF IInv
<1>1. r \in PushRequest
  BY IncomingAssumption
<1>2. CASE EnqueueProcessing(c, r)
  <2>1. /\ CopyMerge(processing[c], r) \in PushRequest
        /\ CopyMerge(processing[c], r) # nil
        /\ CopyMerge(processing[c], r).configs = ConfigsOf(processing[c]) \union r.configs
    BY <1>1, <1>2, MergeType DEF EnqueueProcessing, TypeOK
  <2>2. /\ DOMAIN processing' = DOMAIN processing
        /\ processing'[c] = CopyMerge(processing[c], r)
        /\ \A k \in DOMAIN processing : k # c => processing'[k] = processing[k]
    BY <1>2 DEF EnqueueProcessing, With
  <2>3. TypeOK'
    BY <1>1, <1>2, <2>1, <2>2 DEF EnqueueProcessing, Enqueue, TypeOK, PushRequest
  <2>4. QueueConsistent'
    BY <1>2, <2>2 DEF EnqueueProcessing, QueueConsistent, Waiting, Distinct
  <2>5. OnePushPerConnection'
    BY <2>2 DEF Enqueue, OnePushPerConnection
  <2>6. NoUpdateLost'
    BY <1>2, <2>1, <2>2, NilAssumption
    DEF EnqueueProcessing, Enqueue, TypeOK, NoUpdateLost, ConfigsOf, PendingConfigs, ProcessingConfigs
  <2> QED BY <2>3, <2>4, <2>5, <2>6
<1>3. CASE EnqueuePending(c, r)
  <2>1. /\ CopyMerge(pending[c], r) \in PushRequest
        /\ CopyMerge(pending[c], r).configs = pending[c].configs \union r.configs
    BY <1>1, <1>3, MergeType, NilAssumption DEF EnqueuePending, TypeOK, ConfigsOf
  <2>2. /\ DOMAIN pending' = DOMAIN pending
        /\ pending'[c] = CopyMerge(pending[c], r)
        /\ \A k \in DOMAIN pending : k # c => pending'[k] = pending[k]
    BY <1>3 DEF EnqueuePending, With
  <2>3. TypeOK'
    BY <1>1, <1>3, <2>1, <2>2 DEF EnqueuePending, Enqueue, TypeOK, PushRequest
  <2>4. QueueConsistent'
    BY <1>3, <2>2 DEF EnqueuePending, QueueConsistent, Waiting, Distinct
  <2>5. OnePushPerConnection'
    BY <1>3 DEF EnqueuePending, Enqueue, OnePushPerConnection
  <2>6. NoUpdateLost'
    BY <1>3, <2>1, <2>2
    DEF EnqueuePending, Enqueue, TypeOK, NoUpdateLost, ConfigsOf, PendingConfigs, ProcessingConfigs
  <2> QED BY <2>3, <2>4, <2>5, <2>6
<1>4. CASE EnqueueNew(c, r)
  <2>1. c \notin Elems(queue)
    BY <1>4 DEF EnqueueNew, QueueConsistent, Waiting, Elems
  <2>2. /\ queue' \in Seq(Conn)
        /\ Distinct(queue')
        /\ Elems(queue') = Elems(queue) \union {c}
    BY <1>4, <2>1, AppendNew DEF EnqueueNew, QueueConsistent, TypeOK
  <2>3. /\ DOMAIN pending' = DOMAIN pending \union {c}
        /\ pending'[c] = r
        /\ \A k \in DOMAIN pending : k # c => pending'[k] = pending[k]
    BY <1>4 DEF EnqueueNew, With
  <2>4. TypeOK'
    BY <1>1, <1>4, <2>2, <2>3 DEF EnqueueNew, Enqueue, TypeOK, PushRequest
  <2>5. QueueConsistent'
    BY <1>4, <2>2, <2>3 DEF EnqueueNew, QueueConsistent, Waiting, Elems
  <2>6. OnePushPerConnection'
    BY <1>4 DEF EnqueueNew, Enqueue, OnePushPerConnection
  <2>7. NoUpdateLost'
    BY <1>4, <2>3
    DEF EnqueueNew, Enqueue, TypeOK, NoUpdateLost, ConfigsOf, PendingConfigs, ProcessingConfigs
  <2> QED BY <2>4, <2>5, <2>6, <2>7
<1> QED BY <1>2, <1>3, <1>4 DEF Enqueue

LEMMA DequeueInv == IInv /\ Dequeue => IInv'
<1> SUFFICES ASSUME IInv, Dequeue PROVE IInv'
  OBVIOUS
<1> USE DEF IInv
<1> DEFINE c == Head(queue)
<1>1. /\ c \in Conn
      /\ c \in Elems(queue)
      /\ queue' \in Seq(Conn)
      /\ Distinct(queue')
      /\ Elems(queue') = Elems(queue) \ {c}
  BY DropHead DEF Dequeue, TypeOK, QueueConsistent
<1>2. /\ c \in DOMAIN pending
      /\ c \notin DOMAIN processing
      /\ inflight[c] = nil
      /\ pending[c] \in PushRequest
      /\ pending[c] # nil
  BY <1>1, NilAssumption DEF QueueConsistent, OnePushPerConnection, TypeOK, Waiting, Elems
<1>3. /\ DOMAIN pending' = DOMAIN pending \ {c}
      /\ \A k \in DOMAIN pending' : pending'[k] = pending[k]
      /\ DOMAIN processing' = DOMAIN processing \union {c}
      /\ processing'[c] = nil
      /\ \A k \in DOMAIN processing : processing'[k] = processing[k]
  BY <1>2 DEF Dequeue, With, Without
<1>4. /\ inflight'[c] = pending[c]
      /\ \A k \in Conn : k # c => inflight'[k] = inflight[k]
      /\ inflight' \in [Conn -> PushRequest \union {nil}]
  BY <1>1, <1>2 DEF Dequeue, TypeOK
<1> HIDE DEF c
<1>5. TypeOK'
  BY <1>1, <1>2, <1>3, <1>4 DEF Dequeue, TypeOK
<1>6. QueueConsistent'
  BY <1>1, <1>2, <1>3 DEF QueueConsistent, Waiting, Elems
<1>7. OnePushPerConnection'
  BY <1>2, <1>3, <1>4 DEF OnePushPerConnection
<1>8. NoUpdateLost'
  BY <1>2, <1>3, <1>4
  DEF Dequeue, NoUpdateLost, ConfigsOf, PendingConfigs, ProcessingConfigs
<1> QED BY <1>5, <1>6, <1>7, <1>8

LEMMA MarkDoneInv ==
  ASSUME IInv, NEW c \in Conn, MarkDone(c)
  PROVE  IInv'
<1> USE DEF IInv
<1>1. /\ c \in DOMAIN processing
      /\ c \notin DOMAIN pending
      /\ inflight[c] \in PushRequest
      /\ processing[c] \in PushRequest \union {nil}
  BY DEF MarkDone, OnePushPerConnection, QueueConsistent, TypeOK
<1>2. /\ DOMAIN processing' = DOMAIN processing \ {c}
      /\ \A k \in DOMAIN processing' : processing'[k] = processing[k]
      /\ inflight' \in [Conn -> PushRequest \union {nil}]
      /\ inflight'[c] = nil
      /\ \A k \in Conn : k # c => inflight'[k] = inflight[k]
      /\ delivered' \in [Conn -> SUBSET ConfigKey]
      /\ delivered'[c] = delivered[c] \union ConfigsOf(inflight[c])
      /\ \A k \in Conn : k # c => delivered'[k] = delivered[k]
  BY <1>1, NilAssumption DEF MarkDone, Without, TypeOK, PushRequest, ConfigsOf
<1>3. OnePushPerConnection'
  BY <1>2 DEF OnePushPerConnection
<1>4. CASE processing[c] = nil
  <2>1. pending' = pending /\ queue' = queue
    BY <1>1, <1>4 DEF MarkDone
  <2>2. TypeOK'
    BY <1>2, <2>1 DEF MarkDone, TypeOK
  <2>3. QueueConsistent'
    BY <1>2, <2>1 DEF QueueConsistent, Waiting, Distinct
  <2>4. NoUpdateLost'
    BY <1>1, <1>2, <1>4, <2>1
    DEF MarkDone, NoUpdateLost, ConfigsOf, PendingConfigs, ProcessingConfigs
  <2> QED BY <1>3, <2>2, <2>3, <2>4
<1>5. CASE processing[c] # nil
  <2>1. c \notin Elems(queue)
    BY <1>1 DEF QueueConsistent, Waiting, Elems
  <2>2. pending' = With(pending, c, processing[c]) /\ queue' = Append(queue, c)
    BY <1>1, <1>5 DEF MarkDone
  <2>3. /\ queue' \in Seq(Conn)
        /\ Distinct(queue')
        /\ Elems(queue') = Elems(queue) \union {c}
    BY <2>1, <2>2, AppendNew DEF QueueConsistent, TypeOK
  <2>4. /\ DOMAIN pending' = DOMAIN pending \union {c}
        /\ pending'[c] = processing[c]
        /\ \A k \in DOMAIN pending : k # c => pending'[k] = pending[k]
    BY <2>2 DEF With
  <2>5. TypeOK'
    BY <1>1, <1>2, <1>5, <2>3, <2>4 DEF MarkDone, TypeOK
  <2>6. QueueConsistent'
    BY <1>2, <2>3, <2>4 DEF QueueConsistent, Waiting, Elems
  <2>7. NoUpdateLost'
    BY <1>1, <1>2, <1>5, <2>4
    DEF MarkDone, NoUpdateLost, ConfigsOf, PendingConfigs, ProcessingConfigs
  <2> QED BY <1>3, <2>5, <2>6, <2>7
<1> QED BY <1>4, <1>5

LEMMA NextInv == IInv /\ [Next]_vars => IInv'
<1> SUFFICES ASSUME IInv, [Next]_vars PROVE IInv'
  OBVIOUS
<1>1. CASE UNCHANGED vars
  BY <1>1 DEF IInv, vars, TypeOK, QueueConsistent, OnePushPerConnection, NoUpdateLost,
              Waiting, Distinct, ConfigsOf, PendingConfigs, ProcessingConfigs
<1>2. ASSUME NEW c \in Conn, NEW r \in Incoming, Enqueue(c, r) \/ EnqueueRefused(c, r)
      PROVE  IInv'
  BY <1>1, <1>2, EnqueueInv DEF EnqueueRefused
<1>3. CASE Dequeue
  BY <1>3, DequeueInv
<1>4. ASSUME NEW c \in Conn, MarkDone(c) PROVE IInv'
  BY <1>4, MarkDoneInv
<1>5. CASE CloseStop \/ ShutDown
  <2>1. /\ UNCHANGED <<pending, queue, processing, inflight, accepted, delivered>>
        /\ shuttingDown' \in BOOLEAN /\ stopped' \in BOOLEAN
    <3>1. shuttingDown \in BOOLEAN /\ stopped \in BOOLEAN
      BY DEF IInv, TypeOK
    <3> QED BY <1>5, <3>1, Zenon DEF CloseStop, ShutDown
  <2> QED BY <2>1 DEF IInv, TypeOK, QueueConsistent, OnePushPerConnection, NoUpdateLost,
                      Waiting, Distinct, ConfigsOf, PendingConfigs, ProcessingConfigs
<1> QED BY <1>1, <1>2, <1>3, <1>4, <1>5 DEF Next

LEMMA Invariance == Spec => []IInv
BY InitInv, NextInv, PTL DEF Spec

\* The push queue's variables keep their types: in particular Dequeue always
\* finds a request for the connection at the head of the queue.
THEOREM TypeCorrect == Spec => []TypeOK
BY Invariance, PTL DEF IInv

\* The queue slice lists exactly the pending connections, each once, and no
\* connection waits while it is being pushed to (Enqueue, Dequeue, MarkDone).
THEOREM Consistency == Spec => []QueueConsistent
BY Invariance, PTL DEF IInv

\* A connection is handed out by Dequeue at most once before its MarkDone.
THEOREM SinglePush == Spec => []OnePushPerConnection
BY Invariance, PTL DEF IInv

\* No accepted update is lost between Enqueue and MarkDone.
THEOREM Conservation == Spec => []NoUpdateLost
BY Invariance, PTL DEF IInv

-----------------------------------------------------------------------------
(***************************************************************************)
(* The queue implements the mailboxes.  Dequeue is Take, MarkDone is       *)
(* Finish whether or not it queues the connection again, and each of the   *)
(* three ways through Enqueue is Post.                                     *)
(***************************************************************************)
Owed == [c \in Conn |-> IF c \in DOMAIN pending THEN pending[c]
                        ELSE IF c \in DOMAIN processing THEN processing[c]
                        ELSE nil]

LEMMA RefineEnqueue ==
  ASSUME IInv, NEW c \in Conn, NEW r \in Incoming, Enqueue(c, r)
  PROVE  Mailbox!Post(c, r)
<1> USE DEF IInv
<1>1. Owed \in [Conn -> PushRequest \union {nil}]
  BY DEF Owed, TypeOK
<1>2. Owed' = [Owed EXCEPT ![c] = Merge(Owed[c], r)]
  <2>1. CASE EnqueueProcessing(c, r)
    BY <2>1 DEF EnqueueProcessing, With, Owed, QueueConsistent, CopyMerge
  <2>2. CASE EnqueuePending(c, r)
    BY <2>2 DEF EnqueuePending, With, Owed, QueueConsistent, CopyMerge
  <2>3. CASE EnqueueNew(c, r)
    <3>1. Owed[c] = nil /\ Merge(nil, r) = r
      BY <2>3 DEF EnqueueNew, Owed, Merge
    <3> QED BY <2>3, <3>1 DEF EnqueueNew, With, Owed
  <2> QED BY <2>1, <2>2, <2>3 DEF Enqueue
<1>3. Mailbox!Merge(Owed[c], r) = Merge(Owed[c], r)
  BY DEF Merge, MergeFields, NoContext, Mailbox!Merge, Mailbox!MergeFields, Mailbox!NoContext
<1> QED BY <1>2, <1>3 DEF Enqueue, Owed, Mailbox!Post

LEMMA RefineDequeue == IInv /\ Dequeue => \E c \in Conn : Mailbox!Take(c)
<1> SUFFICES ASSUME IInv, Dequeue PROVE \E c \in Conn : Mailbox!Take(c)
  OBVIOUS
<1> USE DEF IInv
<1> DEFINE c == Head(queue)
<1>1. c \in Conn /\ c \in Elems(queue)
  BY DropHead DEF Dequeue, TypeOK, QueueConsistent
<1>2. /\ c \in DOMAIN pending
      /\ c \notin DOMAIN processing
      /\ inflight[c] = nil
      /\ pending[c] # nil
  BY <1>1, NilAssumption DEF QueueConsistent, OnePushPerConnection, TypeOK, Waiting, Elems
<1>3. Owed[c] = pending[c]
  BY <1>1, <1>2 DEF Owed
<1>4. /\ pending' = Without(pending, c)
      /\ processing' = With(processing, c, nil)
      /\ inflight' = [inflight EXCEPT ![c] = pending[c]]
      /\ shuttingDown' = shuttingDown
  BY DEF Dequeue
<1> HIDE DEF c
<1>5. Owed' = [Owed EXCEPT ![c] = nil]
  BY <1>1, <1>2, <1>4 DEF Owed, With, Without
<1>6. Mailbox!Take(c)
  BY <1>2, <1>3, <1>4, <1>5 DEF Mailbox!Take, Owed
<1> QED BY <1>1, <1>6 DEF Mailbox!Take

LEMMA RefineMarkDone ==
  ASSUME IInv, NEW c \in Conn, MarkDone(c)
  PROVE  Mailbox!Finish(c)
<1> USE DEF IInv
<1>1. c \in DOMAIN processing /\ c \notin DOMAIN pending
  BY DEF MarkDone, OnePushPerConnection, QueueConsistent
<1>2. Owed' = Owed
  <2>1. CASE processing[c] = nil
    BY <1>1, <2>1 DEF MarkDone, Owed, Without
  <2>2. CASE processing[c] # nil
    BY <1>1, <2>2 DEF MarkDone, Owed, With, Without
  <2> QED BY <2>1, <2>2
<1> QED BY <1>2 DEF MarkDone, Mailbox!Finish, Owed

LEMMA RefineNext == IInv /\ [Next]_vars => [Mailbox!Next]_(Mailbox!vars)
<1> SUFFICES ASSUME IInv, [Next]_vars PROVE [Mailbox!Next]_(Mailbox!vars)
  OBVIOUS
<1>1. CASE UNCHANGED vars
  BY <1>1 DEF vars, Mailbox!vars
<1>2. ASSUME NEW c \in Conn, NEW r \in Incoming, Enqueue(c, r) \/ EnqueueRefused(c, r)
      PROVE  [Mailbox!Next]_(Mailbox!vars)
  <2>1. CASE Enqueue(c, r)
    BY <2>1, RefineEnqueue DEF Mailbox!Next
  <2>2. CASE EnqueueRefused(c, r)
    BY <1>1, <2>2 DEF EnqueueRefused
  <2> QED BY <1>2, <2>1, <2>2
<1>3. CASE Dequeue
  BY <1>3, RefineDequeue DEF Mailbox!Next
<1>4. ASSUME NEW c \in Conn, MarkDone(c) PROVE [Mailbox!Next]_(Mailbox!vars)
  BY <1>4, RefineMarkDone DEF Mailbox!Next
<1>5. CASE ShutDown
  BY <1>5 DEF ShutDown, Mailbox!Next, Mailbox!Close
<1>6. CASE CloseStop
  BY <1>6 DEF CloseStop, Mailbox!vars
<1> QED BY <1>1, <1>2, <1>3, <1>4, <1>5, <1>6 DEF Next

LEMMA RefineInit == Init => Mailbox!Init
BY DEF Init, Mailbox!Init

\* The push queue of pushqueue.go implements one mailbox per connection: every
\* Enqueue, Dequeue, MarkDone and ShutDown is a step of PushMailbox.
THEOREM Refinement == Spec => ImplementsMailbox
BY Invariance, RefineInit, RefineNext, PTL DEF Spec, ImplementsMailbox, Mailbox!Spec

---------------------------------------------------------------------------
(* The handlers of a krt collection. *)

Notes == [kind : {"events", "parentSynced"}, events : Seq(Nat), initialList : BOOLEAN]

HandlersTyped ==
  /\ object \in Nat /\ synced \in BOOLEAN /\ phase \in [Handler -> Phases]
  /\ initial \in [Handler -> Nat] /\ startedSynced \in [Handler -> BOOLEAN]
  /\ waiting \in [Handler -> BOOLEAN] /\ notifications \in [Handler -> Seq(Notes)]
  /\ seen \in [Handler -> Seq(Nat)] /\ closes \in [Handler -> Nat]
  /\ pendingSync \in [Handler -> BOOLEAN]

\* The notifications of q carry the events lo..hi, each once and in order.
Carried(q, lo, hi) ==
  /\ \A n \in DOMAIN q : q[n].events # <<>> => \E v \in lo..hi : q[n].events = <<v>>
  /\ \A v \in lo..hi : \E n \in DOMAIN q : q[n].events = <<v>>
  /\ \A m, n \in DOMAIN q : q[m].events # <<>> /\ q[n].events # <<>> /\ m < n =>
       q[m].events[1] < q[n].events[1]

\* What is queued for a handler is what it has not seen, oldest first.
Follows(h) ==
  /\ First(h) + Len(seen[h]) <= object + 1
  /\ \A n \in DOMAIN seen[h] : seen[h][n] = First(h) + n - 1
  /\ Carried(notifications[h], First(h) + Len(seen[h]), object)

\* A registration that has not sent the initial state yet has seen nothing, and
\* the collection is as it read it.
NotSent(h) ==
  /\ seen[h] = <<>> /\ initial[h] = object
  /\ \A n \in DOMAIN notifications[h] : notifications[h][n].events = <<>>

\* A handler that started on a synced collection with an object hears of no sync
\* before that object.
StartsSynced(h) ==
  startedSynced[h] = TRUE /\ initial[h] # 0 /\ seen[h] = <<>> =>
    /\ closes[h] = 0 /\ pendingSync[h] = FALSE /\ waiting[h] = FALSE
    /\ phase[h] \in {"inserted", "counted"} => notifications[h] = <<>>
    /\ phase[h] \in {"sent", "registered"} =>
         notifications[h] # <<>> /\ notifications[h][1] = EventSet(<<initial[h]>>, TRUE)

HandlerInv(h) ==
  /\ phase[h] = "none" => /\ seen[h] = <<>> /\ notifications[h] = <<>> /\ closes[h] = 0
                          /\ pendingSync[h] = FALSE /\ waiting[h] = FALSE
  /\ phase[h] \in {"inserted", "counted"} => NotSent(h)
  /\ phase[h] \in {"sent", "registered"} => Follows(h)
  /\ phase[h] # "none" /\ phase[h] # "removed" => StartsSynced(h)

HandlersInv == HandlersTyped /\ \A h \in Handler : HandlerInv(h)

\* A notification without an event changes nothing of what is carried.
LEMMA CarriedSilent ==
  ASSUME NEW q \in Seq(Notes), NEW note \in Notes, note.events = <<>>,
         NEW lo \in Int, NEW hi \in Int, Carried(q, lo, hi)
  PROVE  Carried(Append(q, note), lo, hi)
<1>1. PICK p : p = Append(q, note)
  OBVIOUS
<1>2. /\ Len(q) \in Nat /\ DOMAIN q = 1..Len(q) /\ DOMAIN p = 1..(Len(q) + 1)
      /\ p[Len(q) + 1] = note /\ \A n \in DOMAIN q : p[n] = q[n]
  BY <1>1
<1>3. \A n \in DOMAIN p : p[n].events # <<>> => n \in DOMAIN q /\ p[n] = q[n]
  BY <1>2
<1>4. \A n \in DOMAIN q : n \in DOMAIN p
  BY <1>2
<1>5. \A n \in DOMAIN p : p[n].events # <<>> => \E v \in lo..hi : p[n].events = <<v>>
  BY <1>3 DEF Carried
<1>6. \A v \in lo..hi : \E n \in DOMAIN p : p[n].events = <<v>>
  BY <1>2, <1>4 DEF Carried
<1>7. \A m, n \in DOMAIN p : p[m].events # <<>> /\ p[n].events # <<>> /\ m < n =>
        p[m].events[1] < p[n].events[1]
  BY <1>3 DEF Carried
<1> QED
  BY <1>1, <1>5, <1>6, <1>7 DEF Carried

\* The next event goes to the end.
LEMMA CarriedNext ==
  ASSUME NEW q \in Seq(Notes), NEW note \in Notes, NEW lo \in Int, NEW hi \in Int,
         note.events = <<hi + 1>>, lo <= hi + 1, Carried(q, lo, hi)
  PROVE  Carried(Append(q, note), lo, hi + 1)
<1>1. PICK p : p = Append(q, note)
  OBVIOUS
<1>2. /\ Len(q) \in Nat /\ DOMAIN q = 1..Len(q) /\ DOMAIN p = 1..(Len(q) + 1)
      /\ p[Len(q) + 1] = note /\ \A n \in DOMAIN q : p[n] = q[n]
  BY <1>1
<1>3. \A n \in DOMAIN p : (n \in DOMAIN q /\ p[n] = q[n]) \/ (n = Len(q) + 1 /\ p[n].events = <<hi + 1>>)
  BY <1>2
<1>4. \A n \in DOMAIN q : n \in DOMAIN p /\ n < Len(q) + 1
  BY <1>2
<1>5. \A v : v \in lo..(hi + 1) <=> v \in lo..hi \/ v = hi + 1
  OBVIOUS
<1>6. ASSUME NEW n \in DOMAIN p, p[n].events # <<>> PROVE \E v \in lo..(hi + 1) : p[n].events = <<v>>
  BY <1>3, <1>5, <1>6 DEF Carried
<1>7. ASSUME NEW v \in lo..(hi + 1) PROVE \E n \in DOMAIN p : p[n].events = <<v>>
  <2>1. CASE v = hi + 1
    <3>1. Len(q) + 1 \in DOMAIN p /\ p[Len(q) + 1].events = <<v>>
      BY <1>2, <2>1
    <3> QED BY <3>1
  <2>2. CASE v \in lo..hi
    <3>1. PICK n \in DOMAIN q : q[n].events = <<v>>
      BY <2>2 DEF Carried
    <3> QED BY <1>2, <1>4, <3>1
  <2> QED BY <1>5, <2>1, <2>2
<1>8. ASSUME NEW m \in DOMAIN p, NEW n \in DOMAIN p, p[m].events # <<>>, p[n].events # <<>>, m < n
      PROVE  p[m].events[1] < p[n].events[1]
  <2>1. m \in DOMAIN q /\ p[m] = q[m]
    BY <1>2, <1>3, <1>8
  <2>2. CASE n \in DOMAIN q /\ p[n] = q[n]
    BY <1>8, <2>1, <2>2 DEF Carried
  <2>3. CASE n = Len(q) + 1 /\ p[n].events = <<hi + 1>>
    <3>1. PICK v \in lo..hi : p[m].events = <<v>>
      BY <1>8, <2>1 DEF Carried
    <3>2. p[m].events[1] = v /\ p[n].events[1] = hi + 1
      BY <2>3, <3>1
    <3> QED BY <3>2
  <2> QED BY <1>3, <2>2, <2>3
<1> QED
  BY <1>1, <1>6, <1>7, <1>8 DEF Carried

\* A queue that carries nothing carries an empty range.
LEMMA CarriedNone ==
  ASSUME NEW q, NEW lo \in Int, NEW hi \in Int, hi < lo,
         \A n \in DOMAIN q : q[n].events = <<>>
  PROVE  Carried(q, lo, hi)
<1>1. lo..hi = {}
  OBVIOUS
<1> QED
  BY <1>1 DEF Carried

LEMMA OneIsNotNone == \A v : <<v>> # <<>>
OBVIOUS

\* The head of the queue is silent or carries the oldest event.
LEMMA CarriedTail ==
  ASSUME NEW q \in Seq(Notes), q # <<>>, NEW lo \in Int, NEW hi \in Int, Carried(q, lo, hi)
  PROVE  /\ Head(q).events = <<>> => Carried(Tail(q), lo, hi)
         /\ Head(q).events # <<>> => /\ Head(q).events = <<lo>> /\ lo <= hi
                                     /\ Carried(Tail(q), lo + 1, hi)
<1>1. PICK p : p = Tail(q)
  OBVIOUS
<1>2. /\ Len(q) \in Nat \ {0} /\ DOMAIN q = 1..Len(q) /\ DOMAIN p = 1..(Len(q) - 1)
      /\ Head(q) = q[1] /\ \A n \in DOMAIN p : p[n] = q[n + 1]
  BY <1>1
<1>3. 1 \in DOMAIN q /\ \A n \in DOMAIN p : n + 1 \in DOMAIN q /\ p[n] = q[n + 1] /\ 1 < n + 1
  BY <1>2
<1>4. \A n \in DOMAIN q : n = 1 \/ (n - 1 \in DOMAIN p /\ p[n - 1] = q[n] /\ 1 < n)
  BY <1>2
<1>5. \A m, n \in DOMAIN p : p[m].events # <<>> /\ p[n].events # <<>> /\ m < n =>
        p[m].events[1] < p[n].events[1]
  <2> SUFFICES ASSUME NEW m \in DOMAIN p, NEW n \in DOMAIN p, p[m].events # <<>>, p[n].events # <<>>, m < n
               PROVE  p[m].events[1] < p[n].events[1]
    OBVIOUS
  <2>1. m + 1 < n + 1
    BY <1>2
  <2> QED BY <1>3, <2>1 DEF Carried
<1>6. CASE Head(q).events = <<>>
  <2>1. \A n \in DOMAIN p : p[n].events # <<>> => \E v \in lo..hi : p[n].events = <<v>>
    BY <1>3 DEF Carried
  <2>2. ASSUME NEW v \in lo..hi PROVE \E n \in DOMAIN p : p[n].events = <<v>>
    <3>1. PICK n \in DOMAIN q : q[n].events = <<v>>
      BY DEF Carried
    <3>2. n # 1
      BY <1>2, <1>6, <3>1, OneIsNotNone
    <3> QED BY <1>4, <3>1, <3>2
  <2> QED BY <1>1, <1>5, <1>6, <2>1, <2>2 DEF Carried
<1>7. CASE Head(q).events # <<>>
  <2>1. PICK v \in lo..hi : q[1].events = <<v>>
    BY <1>2, <1>3, <1>7 DEF Carried
  <2>2. lo <= hi /\ lo \in lo..hi
    BY <2>1
  <2>3. \A n \in DOMAIN p : p[n].events # <<>> => \E w \in lo..hi : p[n].events = <<w>> /\ v < w
    <3> SUFFICES ASSUME NEW n \in DOMAIN p, p[n].events # <<>>
                 PROVE  \E w \in lo..hi : p[n].events = <<w>> /\ v < w
      OBVIOUS
    <3>1. PICK w \in lo..hi : p[n].events = <<w>>
      BY <1>3 DEF Carried
    <3>2. q[1].events[1] < q[n + 1].events[1]
      BY <1>2, <1>3, <1>7 DEF Carried
    <3>3. q[1].events[1] = v /\ q[n + 1].events[1] = w
      BY <1>3, <2>1, <3>1
    <3> QED BY <3>1, <3>2, <3>3
  <2>4. v = lo
    <3>1. PICK n \in DOMAIN q : q[n].events = <<lo>>
      BY <2>2 DEF Carried
    <3>2. CASE n = 1
      <4>1. <<lo>>[1] = <<v>>[1]
        BY <2>1, <3>1, <3>2
      <4> QED BY <4>1
    <3>3. CASE n # 1
      <4>1. n - 1 \in DOMAIN p /\ p[n - 1].events = <<lo>>
        BY <1>4, <3>1, <3>3
      <4>2. PICK w \in lo..hi : p[n - 1].events = <<w>> /\ v < w
        BY <2>3, <4>1, OneIsNotNone
      <4>3. <<lo>>[1] = <<w>>[1]
        BY <4>1, <4>2
      <4> QED BY <2>1, <4>2, <4>3
    <3> QED BY <3>2, <3>3
  <2>5. ASSUME NEW n \in DOMAIN p, p[n].events # <<>> PROVE \E w \in (lo + 1)..hi : p[n].events = <<w>>
    BY <2>3, <2>4, <2>5
  <2>6. ASSUME NEW w \in (lo + 1)..hi PROVE \E n \in DOMAIN p : p[n].events = <<w>>
    <3>1. w \in lo..hi /\ w # lo
      OBVIOUS
    <3>2. PICK n \in DOMAIN q : q[n].events = <<w>>
      BY <3>1 DEF Carried
    <3>3. n # 1
      <4>1. <<w>>[1] # <<v>>[1]
        BY <2>4, <3>1
      <4> QED BY <2>1, <3>2, <4>1
    <3> QED BY <1>4, <3>2, <3>3
  <2>7. Carried(p, lo + 1, hi)
    BY <1>5, <2>5, <2>6 DEF Carried
  <2> QED BY <1>1, <1>2, <1>7, <2>1, <2>2, <2>4, <2>7
<1> QED
  BY <1>6, <1>7

\* Nothing of a handler changes.
Same(h) ==
  /\ phase'[h] = phase[h] /\ initial'[h] = initial[h] /\ startedSynced'[h] = startedSynced[h]
  /\ waiting'[h] = waiting[h] /\ notifications'[h] = notifications[h] /\ seen'[h] = seen[h]
  /\ closes'[h] = closes[h] /\ pendingSync'[h] = pendingSync[h]

LEMMA HandlerKept ==
  ASSUME NEW h \in Handler, HandlerInv(h), object' = object, Same(h)
  PROVE  HandlerInv(h)'
<1>1. Follows(h)' <=> Follows(h)
  BY DEF Same, Follows, First
<1>2. NotSent(h)' <=> NotSent(h)
  BY DEF Same, NotSent
<1>3. StartsSynced(h)' <=> StartsSynced(h)
  BY DEF Same, StartsSynced
<1> QED
  BY <1>1, <1>2, <1>3 DEF HandlerInv, Same

\* The tracker of one handler moves.
LEMMA TrackerMoves ==
  ASSUME HandlersTyped, NEW h \in Handler, NEW n,
         \/ ParentSynced(h) \/ Finished(h, n) \/ Start(h, n) \/ UNCHANGED trackerVars
  PROVE  /\ closes' \in [Handler -> Nat] /\ pendingSync' \in [Handler -> BOOLEAN]
         /\ \A x \in Handler : x # h => closes'[x] = closes[x] /\ pendingSync'[x] = pendingSync[x]
<1>1. /\ closes \in [Handler -> Nat] /\ pendingSync \in [Handler -> BOOLEAN]
      /\ closes[h] + 1 \in Nat
  BY DEF HandlersTyped
<1>2. closes' = closes \/ closes' = [closes EXCEPT ![h] = closes[h] + 1]
  BY DEF ParentSynced, Finished, Start, trackerVars
<1>3. pendingSync' = pendingSync \/ pendingSync' = [pendingSync EXCEPT ![h] = TRUE]
  BY DEF ParentSynced, Finished, Start, trackerVars
<1> QED
  BY <1>1, <1>2, <1>3

LEMMA InitHandlersInv == HandlersInit => HandlersInv
<1> SUFFICES ASSUME HandlersInit PROVE HandlersInv
  OBVIOUS
<1>1. HandlersTyped
  <2>1. notifications \in [Handler -> Seq(Notes)] /\ seen \in [Handler -> Seq(Nat)]
    <3>1. <<>> \in Seq(Notes) /\ <<>> \in Seq(Nat)
      OBVIOUS
    <3> QED BY <3>1 DEF HandlersInit
  <2>2. /\ object \in Nat /\ phase \in [Handler -> Phases]
        /\ initial \in [Handler -> Nat] /\ closes \in [Handler -> Nat]
    BY DEF HandlersInit, Phases
  <2>3. /\ synced \in BOOLEAN /\ startedSynced \in [Handler -> BOOLEAN]
        /\ waiting \in [Handler -> BOOLEAN] /\ pendingSync \in [Handler -> BOOLEAN]
    BY DEF HandlersInit
  <2> QED BY <2>1, <2>2, <2>3 DEF HandlersTyped
<1>2. \A h \in Handler : HandlerInv(h)
  BY DEF HandlersInit, HandlerInv
<1> QED
  BY <1>1, <1>2 DEF HandlersInv

\* A handler registers.
LEMMA HandlerInserted ==
  ASSUME HandlersInv, NEW h \in Handler, Insert(h)
  PROVE  HandlersInv'
<1> USE DEF HandlersInv
<1>1. /\ UNCHANGED <<object, synced, notifications, seen>> /\ phase[h] = "none"
      /\ phase' = [phase EXCEPT ![h] = "inserted"] /\ initial' = [initial EXCEPT ![h] = object]
      /\ startedSynced' = [startedSynced EXCEPT ![h] = synced]
      /\ waiting' = [waiting EXCEPT ![h] = ~synced]
      /\ synced = TRUE /\ object # 0 => UNCHANGED <<closes, pendingSync>>
  BY DEF Insert, trackerVars
<1>2. ParentSynced(h) \/ UNCHANGED trackerVars
  BY DEF Insert
<1>3. /\ closes' \in [Handler -> Nat] /\ pendingSync' \in [Handler -> BOOLEAN]
      /\ \A x \in Handler : x # h => closes'[x] = closes[x] /\ pendingSync'[x] = pendingSync[x]
  BY <1>2, TrackerMoves
<1>4. (~synced) \in BOOLEAN
  OBVIOUS
<1>5. /\ phase' \in [Handler -> Phases] /\ initial' \in [Handler -> Nat]
      /\ phase'[h] = "inserted" /\ initial'[h] = object
      /\ \A x \in Handler : x # h => phase'[x] = phase[x] /\ initial'[x] = initial[x]
  BY <1>1 DEF HandlersTyped, Phases
<1>6. /\ startedSynced' \in [Handler -> BOOLEAN] /\ startedSynced'[h] = synced
      /\ \A x \in Handler : x # h => startedSynced'[x] = startedSynced[x]
  BY <1>1 DEF HandlersTyped
<1>7. /\ waiting' \in [Handler -> BOOLEAN] /\ (synced = TRUE => waiting'[h] = FALSE)
      /\ \A x \in Handler : x # h => waiting'[x] = waiting[x]
  BY <1>1, <1>4 DEF HandlersTyped
<1>8. HandlersTyped'
  BY <1>1, <1>3, <1>5, <1>6, <1>7 DEF HandlersTyped
<1>9. HandlerInv(h)'
  <2>1. /\ seen[h] = <<>> /\ notifications[h] = <<>> /\ closes[h] = 0 /\ pendingSync[h] = FALSE
    BY <1>1 DEF HandlerInv
  <2>2. NotSent(h)'
    BY <1>1, <1>5, <2>1 DEF NotSent
  <2>3. StartsSynced(h)'
    <3> SUFFICES ASSUME synced = TRUE, object # 0
                 PROVE  closes'[h] = 0 /\ pendingSync'[h] = FALSE /\ waiting'[h] = FALSE
      BY <1>1, <1>5, <1>6, <2>1 DEF StartsSynced
    <3> QED BY <1>1, <1>7, <2>1
  <2> QED BY <1>5, <2>2, <2>3 DEF HandlerInv
<1>10. \A x \in Handler : x # h => HandlerInv(x)'
  BY <1>1, <1>3, <1>5, <1>6, <1>7, HandlerKept DEF Same
<1> QED
  BY <1>8, <1>9, <1>10

\* A step of a registration that touches only its phase, its tracker's count and
\* its queue.
LEMMA HandlerSteps ==
  ASSUME HandlersInv, NEW h \in Handler, NEW p \in Phases, NEW q \in Seq(Notes),
         phase' = [phase EXCEPT ![h] = p], notifications' = [notifications EXCEPT ![h] = q],
         UNCHANGED <<object, synced, initial, startedSynced, waiting, closes, pendingSync, seen>>,
         HandlerInv(h)'
  PROVE  HandlersInv'
<1> USE DEF HandlersInv
<1>1. HandlersTyped'
  BY DEF HandlersTyped
<1>2. \A x \in Handler : x # h => phase'[x] = phase[x] /\ notifications'[x] = notifications[x]
  BY DEF HandlersTyped
<1>3. \A x \in Handler : x # h => HandlerInv(x)'
  BY <1>2, HandlerKept DEF Same
<1> QED
  BY <1>1, <1>3

\* The notification of a sync, and those of the initial state.
LEMMA NotesTyped ==
  /\ SyncedNotification \in Notes /\ SyncedNotification.events = <<>>
  /\ SyncedNotification.initialList = FALSE
  /\ \A e \in Seq(Nat), b \in BOOLEAN :
       EventSet(e, b) \in Notes /\ EventSet(e, b).events = e /\ EventSet(e, b).initialList = b
<1>1. <<>> \in Seq(Nat)
  OBVIOUS
<1> QED
  BY <1>1 DEF SyncedNotification, EventSet, Notes

\* A notification at the end leaves the head as it is.
LEMMA HeadKept ==
  ASSUME NEW q \in Seq(Notes), q # <<>>, NEW note \in Notes
  PROVE  Append(q, note) # <<>> /\ Append(q, note)[1] = q[1]
OBVIOUS

\* A sync is announced to a handler.
LEMMA SyncAppended ==
  ASSUME HandlersInv, NEW h \in Handler, phase[h] \notin {"none", "removed"},
         UNCHANGED <<object, initial, startedSynced, closes, pendingSync, seen>>,
         phase'[h] = phase[h] \/ (phase[h] = "sent" /\ phase'[h] = "registered"),
         waiting'[h] = waiting[h] \/ waiting[h] = TRUE,
         notifications'[h] = Append(notifications[h], SyncedNotification),
         phase[h] \in {"inserted", "counted"} => waiting[h] = TRUE
  PROVE  HandlerInv(h)'
<1> USE DEF HandlersInv
<1>1. notifications[h] \in Seq(Notes) /\ object \in Int /\ initial[h] \in Nat /\ seen[h] \in Seq(Nat)
  BY DEF HandlersTyped
<1>2. phase[h] \in Phases /\ phase'[h] \notin {"none", "removed"}
  BY DEF HandlersTyped
<1>3. CASE phase[h] \in {"inserted", "counted"}
  <2>1. NotSent(h) /\ StartsSynced(h) /\ phase'[h] = phase[h]
    BY <1>3 DEF HandlerInv
  <2>2. \A n \in DOMAIN notifications'[h] : notifications'[h][n].events = <<>>
    <3>1. \A n \in DOMAIN notifications'[h] :
            (n \in DOMAIN notifications[h] /\ notifications'[h][n] = notifications[h][n])
            \/ notifications'[h][n] = SyncedNotification
      BY <1>1
    <3> QED BY <2>1, <3>1, NotesTyped DEF NotSent
  <2>3. NotSent(h)'
    BY <2>1, <2>2 DEF NotSent
  <2>4. ~(startedSynced[h] = TRUE /\ initial[h] # 0 /\ seen[h] = <<>>)
    BY <1>3, <2>1 DEF StartsSynced
  <2>5. StartsSynced(h)'
    BY <2>4 DEF StartsSynced
  <2> QED BY <1>3, <2>1, <2>3, <2>5 DEF HandlerInv
<1>4. CASE phase[h] \in {"sent", "registered"}
  <2>1. Follows(h) /\ StartsSynced(h) /\ phase'[h] \in {"sent", "registered"}
    BY <1>4 DEF HandlerInv
  <2>2. First(h) \in Nat /\ First(h)' = First(h) /\ First(h) + Len(seen[h]) \in Int
    BY <1>1 DEF First
  <2>3. Follows(h)'
    <3>1. Carried(notifications[h], First(h) + Len(seen[h]), object)
      BY <2>1 DEF Follows
    <3>2. Carried(notifications'[h], First(h) + Len(seen[h]), object)
      BY <1>1, <2>2, <3>1, NotesTyped, CarriedSilent
    <3> QED BY <2>1, <2>2, <3>2 DEF Follows
  <2>4. StartsSynced(h)'
    <3> SUFFICES ASSUME startedSynced[h] = TRUE, initial[h] # 0, seen[h] = <<>>
                 PROVE  /\ closes'[h] = 0 /\ pendingSync'[h] = FALSE /\ waiting'[h] = FALSE
                        /\ notifications'[h] # <<>>
                        /\ notifications'[h][1] = EventSet(<<initial[h]>>, TRUE)
      BY <2>1 DEF StartsSynced
    <3>1. /\ closes[h] = 0 /\ pendingSync[h] = FALSE /\ waiting[h] = FALSE
          /\ notifications[h] # <<>> /\ notifications[h][1] = EventSet(<<initial[h]>>, TRUE)
      BY <1>4, <2>1 DEF StartsSynced
    <3>2. waiting'[h] = FALSE
      BY <3>1
    <3>3. notifications'[h] # <<>> /\ notifications'[h][1] = notifications[h][1]
      <4>1. SyncedNotification \in Notes
        BY NotesTyped
      <4>2. PICK q : q = notifications[h] /\ q \in Seq(Notes) /\ q # <<>>
        BY <1>1, <3>1
      <4>3. Append(q, SyncedNotification) # <<>> /\ Append(q, SyncedNotification)[1] = q[1]
        BY <4>1, <4>2, HeadKept
      <4> QED BY <4>2, <4>3
    <3> QED BY <3>1, <3>2, <3>3
  <2> QED BY <2>1, <2>3, <2>4 DEF HandlerInv
<1> QED
  BY <1>2, <1>3, <1>4 DEF Phases

\* The registration goes on.
LEMMA HandlerCounted ==
  ASSUME HandlersInv, NEW h \in Handler, CountInitial(h)
  PROVE  HandlersInv'
<1>1. /\ UNCHANGED <<object, synced, initial, startedSynced, waiting, notifications, closes, pendingSync, seen>>
      /\ phase[h] = "inserted" /\ phase' = [phase EXCEPT ![h] = "counted"]
  BY DEF CountInitial, Start
<1>2. /\ notifications' = [notifications EXCEPT ![h] = notifications[h]]
      /\ notifications[h] \in Seq(Notes) /\ "counted" \in Phases /\ phase'[h] = "counted"
  BY <1>1 DEF HandlersInv, HandlersTyped, Phases
<1>3. HandlerInv(h)'
  <2>1. NotSent(h) /\ StartsSynced(h)
    BY <1>1 DEF HandlersInv, HandlerInv
  <2>2. NotSent(h)'
    BY <1>1, <2>1 DEF NotSent
  <2>3. StartsSynced(h)'
    BY <1>1, <1>2, <2>1 DEF StartsSynced
  <2> QED BY <1>2, <2>2, <2>3 DEF HandlerInv
<1> QED
  BY <1>1, <1>2, <1>3, HandlerSteps

LEMMA InitialSent ==
  ASSUME HandlersInv, NEW h \in Handler, SendInitial(h)
  PROVE  HandlersInv'
<1> USE DEF HandlersInv
<1>1. PICK note : note = EventSet(InitialEvents(h), TRUE)
  OBVIOUS
<1>2. PICK q : q = Append(notifications[h], note)
  OBVIOUS
<1>3. /\ UNCHANGED <<object, synced, initial, startedSynced, waiting, closes, pendingSync, seen>>
      /\ phase[h] = "counted" /\ phase' = [phase EXCEPT ![h] = "sent"]
      /\ notifications' = [notifications EXCEPT ![h] = q]
  BY <1>1, <1>2 DEF SendInitial
<1>4. /\ notifications[h] \in Seq(Notes) /\ object \in Nat /\ initial[h] \in Nat
      /\ "sent" \in Phases /\ phase'[h] = "sent"
  BY <1>3 DEF HandlersTyped, Phases
<1>5. NotSent(h) /\ StartsSynced(h)
  BY <1>3 DEF HandlerInv
<1>6. /\ seen[h] = <<>> /\ Len(seen[h]) = 0 /\ DOMAIN seen[h] = {} /\ initial[h] = object
  BY <1>5 DEF NotSent
<1>7. InitialEvents(h) = IF object = 0 THEN <<>> ELSE <<object>>
  BY <1>6 DEF InitialEvents
<1>8. InitialEvents(h) \in Seq(Nat)
  BY <1>4, <1>7
<1>9. note \in Notes /\ note.events = InitialEvents(h)
  BY <1>1, <1>8, NotesTyped
<1>10. q \in Seq(Notes) /\ notifications'[h] = q
  BY <1>2, <1>3, <1>4, <1>9 DEF HandlersTyped
<1>11. Carried(q, First(h), object)
  <2>1. CASE object = 0
    <3>1. First(h) = 1 /\ note.events = <<>>
      BY <1>6, <1>7, <1>9, <2>1 DEF First
    <3>2. First(h) \in Int /\ object \in Int /\ object < First(h)
      BY <2>1, <3>1
    <3>3. Carried(notifications[h], First(h), object)
      BY <1>5, <3>2, CarriedNone DEF NotSent
    <3> QED BY <1>2, <1>4, <1>9, <3>1, <3>2, <3>3, CarriedSilent
  <2>2. CASE object # 0
    <3>1. PICK hi \in Int : hi = object - 1
      BY <1>4
    <3>2. Carried(notifications[h], hi + 1, hi)
      <4>1. hi + 1 \in Int /\ hi < hi + 1
        OBVIOUS
      <4> QED BY <1>5, <4>1, CarriedNone DEF NotSent
    <3>3. First(h) = hi + 1 /\ object = hi + 1 /\ note.events = <<hi + 1>> /\ hi + 1 \in Int
      BY <1>4, <1>6, <1>7, <1>9, <2>2, <3>1 DEF First
    <3>4. Carried(Append(notifications[h], note), hi + 1, hi + 1)
      BY <1>4, <1>9, <3>2, <3>3, CarriedNext
    <3> QED BY <1>2, <3>3, <3>4
  <2> QED BY <2>1, <2>2
<1>12. Follows(h)'
  <2>1. First(h) \in Nat /\ First(h)' = First(h) /\ First(h) + 0 = First(h) /\ First(h) <= object + 1
    BY <1>3, <1>4, <1>6 DEF First
  <2> QED BY <1>3, <1>6, <1>10, <1>11, <2>1 DEF Follows
<1>13. StartsSynced(h)'
  <2> SUFFICES ASSUME startedSynced[h] = TRUE, initial[h] # 0
               PROVE  /\ closes[h] = 0 /\ pendingSync[h] = FALSE /\ waiting[h] = FALSE
                      /\ q # <<>> /\ q[1] = EventSet(<<initial[h]>>, TRUE)
    BY <1>3, <1>4, <1>10 DEF StartsSynced
  <2>1. closes[h] = 0 /\ pendingSync[h] = FALSE /\ waiting[h] = FALSE /\ notifications[h] = <<>>
    BY <1>3, <1>5, <1>6 DEF StartsSynced
  <2>2. q = <<note>>
    BY <1>2, <2>1
  <2>3. note = EventSet(<<initial[h]>>, TRUE)
    BY <1>1, <1>6, <1>7
  <2> QED BY <2>1, <2>2, <2>3
<1>14. HandlerInv(h)'
  BY <1>4, <1>12, <1>13 DEF HandlerInv
<1> QED
  BY <1>3, <1>4, <1>10, <1>14, HandlerSteps

LEMMA InsertReturned ==
  ASSUME HandlersInv, NEW h \in Handler, InsertReturns(h)
  PROVE  HandlersInv'
<1> USE DEF HandlersInv
<1>1. /\ UNCHANGED <<object, synced, initial, startedSynced, waiting, closes, pendingSync, seen>>
      /\ phase[h] = "sent" /\ phase' = [phase EXCEPT ![h] = "registered"]
      /\ notifications' = SyncedAfterInitial(h)
  BY DEF InsertReturns
<1>2. notifications[h] \in Seq(Notes) /\ "registered" \in Phases /\ phase'[h] = "registered"
  BY <1>1 DEF HandlersTyped, Phases
<1>3. PICK q : /\ q = notifications[h] \/ q = Append(notifications[h], SyncedNotification)
               /\ notifications' = [notifications EXCEPT ![h] = q]
  BY <1>1 DEF SyncedAfterInitial
<1>4. q \in Seq(Notes) /\ notifications'[h] = q
  <2>1. SyncedNotification \in Notes
    BY NotesTyped
  <2>2. Append(notifications[h], SyncedNotification) \in Seq(Notes)
    BY <1>2, <2>1
  <2> QED BY <1>2, <1>3, <2>2 DEF HandlersTyped
<1>5. Follows(h) /\ StartsSynced(h)
  BY <1>1 DEF HandlerInv
<1>6. HandlerInv(h)'
  <2>1. CASE q = notifications[h]
    <3>1. Follows(h)'
      BY <1>1, <1>4, <1>5, <2>1 DEF Follows, First
    <3>2. StartsSynced(h)'
      BY <1>1, <1>2, <1>4, <1>5, <2>1 DEF StartsSynced
    <3> QED BY <1>2, <3>1, <3>2 DEF HandlerInv
  <2>2. CASE q = Append(notifications[h], SyncedNotification)
    BY <1>1, <1>2, <1>4, <2>2, SyncAppended
  <2> QED BY <1>3, <2>1, <2>2
<1> QED
  BY <1>1, <1>2, <1>3, <1>4, <1>6, HandlerSteps

\* The goroutine that waits for the collection.
LEMMA SyncNotified ==
  ASSUME HandlersInv, NEW h \in Handler, NotifySynced(h)
  PROVE  HandlersInv'
<1> USE DEF HandlersInv
<1>1. /\ UNCHANGED <<object, synced, phase, initial, startedSynced, closes, pendingSync, seen>>
      /\ waiting[h] /\ waiting' = [waiting EXCEPT ![h] = FALSE]
      /\ notifications' = IF phase[h] = "removed" THEN notifications
                          ELSE [notifications EXCEPT ![h] = Append(@, SyncedNotification)]
  BY DEF NotifySynced
<1>2. waiting \in [Handler -> BOOLEAN] /\ waiting[h] = TRUE
  BY <1>1 DEF HandlersTyped
<1>3. /\ waiting' \in [Handler -> BOOLEAN] /\ \A x \in Handler : x # h => waiting'[x] = waiting[x]
  BY <1>1, <1>2
<1>4. phase[h] # "none"
  BY <1>2 DEF HandlerInv
<1>5. /\ notifications \in [Handler -> Seq(Notes)]
      /\ Append(notifications[h], SyncedNotification) \in Seq(Notes)
  BY NotesTyped DEF HandlersTyped
<1>6. /\ notifications' \in [Handler -> Seq(Notes)]
      /\ \A x \in Handler : x # h => notifications'[x] = notifications[x]
  BY <1>1, <1>5
<1>7. HandlersTyped'
  BY <1>1, <1>3, <1>6 DEF HandlersTyped
<1>8. HandlerInv(h)'
  <2>1. CASE phase[h] = "removed"
    BY <1>1, <2>1 DEF HandlerInv
  <2>2. CASE phase[h] # "removed"
    <3>1. notifications'[h] = Append(notifications[h], SyncedNotification)
      BY <1>1, <1>5, <2>2
    <3> QED BY <1>1, <1>2, <1>4, <2>2, <3>1, SyncAppended
  <2> QED BY <2>1, <2>2
<1>9. \A x \in Handler : x # h => HandlerInv(x)'
  BY <1>1, <1>3, <1>6, HandlerKept DEF Same
<1> QED
  BY <1>7, <1>8, <1>9

LEMMA HandlerRemoved ==
  ASSUME HandlersInv, NEW h \in Handler, Remove(h)
  PROVE  HandlersInv'
<1>1. /\ UNCHANGED <<object, synced, initial, startedSynced, waiting, closes, pendingSync, seen>>
      /\ phase' = [phase EXCEPT ![h] = "removed"]
      /\ notifications' = [notifications EXCEPT ![h] = <<>>]
  BY DEF Remove
<1>2. <<>> \in Seq(Notes) /\ "removed" \in Phases /\ phase'[h] = "removed"
  BY <1>1 DEF HandlersInv, HandlersTyped, Phases
<1>3. HandlerInv(h)'
  BY <1>2 DEF HandlerInv
<1> QED
  BY <1>1, <1>2, <1>3, HandlerSteps

\* An event goes to every handler; none is between reading the collection and
\* sending its initial state.
LEMMA EventDistributed ==
  ASSUME HandlersInv, Distribute
  PROVE  HandlersInv'
<1> USE DEF HandlersInv
<1>1. PICK note : note = EventSet(<<object + 1>>, ~synced)
  OBVIOUS
<1>2. /\ UNCHANGED <<synced, phase, initial, startedSynced, waiting, closes, pendingSync, seen>>
      /\ object' = object + 1 /\ \A h \in Inserted : phase[h] = "registered"
      /\ notifications' = [h \in Handler |-> IF h \in Inserted THEN Append(notifications[h], note)
                                                              ELSE notifications[h]]
  BY <1>1 DEF Distribute
<1>3. object \in Nat /\ <<object + 1>> \in Seq(Nat)
  BY DEF HandlersTyped
<1>4. (~synced) \in BOOLEAN
  OBVIOUS
<1>5. note \in Notes /\ note.events = <<object + 1>>
  BY <1>1, <1>3, <1>4, NotesTyped
<1>6. \A h \in Handler : notifications'[h] = IF h \in Inserted THEN Append(notifications[h], note)
                                                               ELSE notifications[h]
  BY <1>2
<1>7. \A h \in Handler : notifications[h] \in Seq(Notes) /\ Append(notifications[h], note) \in Seq(Notes)
  BY <1>5 DEF HandlersTyped
<1>8. notifications' \in [Handler -> Seq(Notes)]
  BY <1>2, <1>7
<1>9. HandlersTyped'
  BY <1>2, <1>3, <1>8 DEF HandlersTyped
<1>10. ASSUME NEW h \in Handler PROVE HandlerInv(h)'
  <2>1. CASE h \in Inserted
    <3>1. phase[h] = "registered" /\ phase'[h] = "registered"
      BY <1>2, <2>1
    <3>2. Follows(h) /\ StartsSynced(h)
      BY <3>1 DEF HandlerInv
    <3>3. /\ initial[h] \in Nat /\ seen[h] \in Seq(Nat) /\ notifications[h] \in Seq(Notes)
          /\ notifications'[h] = Append(notifications[h], note)
      BY <1>6, <1>7, <2>1 DEF HandlersTyped
    <3>4. First(h) \in Nat /\ First(h)' = First(h) /\ Len(seen[h]) \in Nat
      BY <1>2, <3>3 DEF First
    <3>5. PICK lo \in Int : lo = First(h) + Len(seen[h])
      BY <3>4
    <3>6. lo <= object + 1 /\ Carried(notifications[h], lo, object)
      BY <3>2, <3>5 DEF Follows
    <3>7. Carried(notifications'[h], lo, object + 1)
      <4>1. object \in Int
        BY <1>3
      <4> QED BY <1>5, <3>3, <3>6, <4>1, CarriedNext
    <3>8. Follows(h)'
      BY <1>2, <1>3, <3>2, <3>4, <3>5, <3>6, <3>7 DEF Follows
    <3>9. StartsSynced(h)'
      <4> SUFFICES ASSUME startedSynced[h] = TRUE, initial[h] # 0, seen[h] = <<>>
                   PROVE  /\ closes[h] = 0 /\ pendingSync[h] = FALSE /\ waiting[h] = FALSE
                          /\ notifications'[h] # <<>>
                          /\ notifications'[h][1] = EventSet(<<initial[h]>>, TRUE)
        BY <1>2, <3>1 DEF StartsSynced
      <4>1. /\ closes[h] = 0 /\ pendingSync[h] = FALSE /\ waiting[h] = FALSE
            /\ notifications[h] # <<>> /\ notifications[h][1] = EventSet(<<initial[h]>>, TRUE)
        BY <3>1, <3>2 DEF StartsSynced
      <4>2. PICK q : q = notifications[h] /\ q \in Seq(Notes) /\ q # <<>>
        BY <3>3, <4>1
      <4>3. Append(q, note) # <<>> /\ Append(q, note)[1] = q[1]
        BY <1>5, <4>2, HeadKept
      <4> QED BY <3>3, <4>1, <4>2, <4>3
    <3> QED BY <3>1, <3>8, <3>9 DEF HandlerInv
  <2>2. CASE h \notin Inserted
    <3>1. phase[h] = "none" \/ phase[h] = "removed"
      BY <2>2 DEF Inserted
    <3>2. notifications'[h] = notifications[h]
      BY <1>6, <2>2
    <3> QED BY <1>2, <3>1, <3>2 DEF HandlerInv
  <2> QED BY <2>1, <2>2
<1> QED
  BY <1>9, <1>10

\* processorListener.run takes the next notification: the handler sees the oldest
\* event it has not seen, or none.
LEMMA NotificationRun ==
  ASSUME HandlersInv, NEW h \in Handler, Run(h)
  PROVE  HandlersInv'
<1> USE DEF HandlersInv
<1>1. PICK next : next = Head(notifications[h])
  OBVIOUS
<1>2. /\ UNCHANGED <<object, synced, phase, initial, startedSynced, waiting>>
      /\ notifications[h] # <<>>
      /\ notifications' = [notifications EXCEPT ![h] = Tail(@)]
      /\ seen' = [seen EXCEPT ![h] = @ \o next.events]
  BY <1>1 DEF Run
<1>3. PICK n : Finished(h, n) \/ ParentSynced(h)
  BY DEF Run
<1>4. /\ closes' \in [Handler -> Nat] /\ pendingSync' \in [Handler -> BOOLEAN]
      /\ \A x \in Handler : x # h => closes'[x] = closes[x] /\ pendingSync'[x] = pendingSync[x]
  BY <1>3, TrackerMoves
<1>5. /\ notifications \in [Handler -> Seq(Notes)] /\ seen \in [Handler -> Seq(Nat)]
      /\ object \in Nat /\ initial[h] \in Nat /\ phase[h] \in Phases
  BY DEF HandlersTyped
<1>6. next \in Notes /\ Tail(notifications[h]) \in Seq(Notes)
  BY <1>1, <1>2, <1>5
<1>7. seen[h] \o next.events \in Seq(Nat)
  BY <1>5, <1>6 DEF Notes
<1>8. /\ notifications' \in [Handler -> Seq(Notes)] /\ notifications'[h] = Tail(notifications[h])
      /\ seen' \in [Handler -> Seq(Nat)] /\ seen'[h] = seen[h] \o next.events
      /\ \A x \in Handler : x # h => notifications'[x] = notifications[x] /\ seen'[x] = seen[x]
  BY <1>2, <1>5, <1>6, <1>7
<1>9. HandlersTyped'
  BY <1>2, <1>4, <1>8 DEF HandlersTyped
<1>10. \A x \in Handler : x # h => HandlerInv(x)'
  BY <1>2, <1>4, <1>8, HandlerKept DEF Same
<1>11. seen[h] \in Seq(Nat) /\ notifications[h] \in Seq(Notes) /\ (next.events = <<>> => seen'[h] = seen[h])
  BY <1>5, <1>8
<1>12. HandlerInv(h)'
  <2>1. CASE phase[h] \in {"inserted", "counted"}
    <3>1. NotSent(h) /\ StartsSynced(h)
      BY <2>1 DEF HandlerInv
    <3>2. next.events = <<>>
      <4>1. 1 \in DOMAIN notifications[h] /\ next = notifications[h][1]
        BY <1>1, <1>2, <1>11
      <4> QED BY <3>1, <4>1 DEF NotSent
    <3>3. seen'[h] = <<>> /\ seen[h] = <<>>
      BY <1>11, <3>1, <3>2 DEF NotSent
    <3>4. \A k \in DOMAIN notifications'[h] : notifications'[h][k].events = <<>>
      <4>1. \A k \in DOMAIN notifications'[h] :
              k + 1 \in DOMAIN notifications[h] /\ notifications'[h][k] = notifications[h][k + 1]
        BY <1>2, <1>8, <1>11
      <4> QED BY <3>1, <4>1 DEF NotSent
    <3>5. NotSent(h)'
      BY <1>2, <3>1, <3>3, <3>4 DEF NotSent
    <3>6. ~(startedSynced[h] = TRUE /\ initial[h] # 0)
      BY <1>2, <2>1, <3>1, <3>3 DEF StartsSynced
    <3>7. StartsSynced(h)'
      BY <1>2, <3>6 DEF StartsSynced
    <3> QED BY <1>2, <2>1, <3>5, <3>7 DEF HandlerInv
  <2>2. CASE phase[h] \in {"sent", "registered"}
    <3>1. Follows(h) /\ StartsSynced(h)
      BY <2>2 DEF HandlerInv
    <3>2. First(h) \in Nat /\ First(h)' = First(h) /\ Len(seen[h]) \in Nat
      BY <1>2, <1>5, <1>11 DEF First
    <3>3. PICK lo \in Int : lo = First(h) + Len(seen[h])
      BY <3>2
    <3>4. Carried(notifications[h], lo, object)
      BY <3>1, <3>3 DEF Follows
    <3>5. /\ next.events = <<>> => Carried(notifications'[h], lo, object)
          /\ next.events # <<>> => /\ next.events = <<lo>> /\ lo <= object
                                   /\ Carried(notifications'[h], lo + 1, object)
      <4>1. object \in Int
        BY <1>5
      <4> QED BY <1>1, <1>2, <1>8, <1>11, <3>4, <4>1, CarriedTail
    <3>6. CASE next.events = <<>>
      <4>1. seen'[h] = seen[h]
        BY <1>11, <3>6
      <4>2. Follows(h)'
        BY <1>2, <3>1, <3>2, <3>3, <3>5, <3>6, <4>1 DEF Follows
      <4>3. ~(startedSynced[h] = TRUE /\ initial[h] # 0 /\ seen[h] = <<>>)
        <5> SUFFICES ASSUME startedSynced[h] = TRUE, initial[h] # 0, seen[h] = <<>> PROVE FALSE
          OBVIOUS
        <5>1. next = EventSet(<<initial[h]>>, TRUE)
          <6>1. notifications[h][1] = EventSet(<<initial[h]>>, TRUE)
            BY <2>2, <3>1 DEF StartsSynced
          <6>2. next = notifications[h][1]
            BY <1>1, <1>2, <1>11
          <6> QED BY <6>1, <6>2
        <5>2. next.events = <<initial[h]>>
          BY <5>1 DEF EventSet
        <5> QED BY <3>6, <5>2, OneIsNotNone
      <4>4. StartsSynced(h)'
        BY <1>2, <4>1, <4>3 DEF StartsSynced
      <4> QED BY <1>2, <2>2, <4>2, <4>4 DEF HandlerInv
    <3>7. CASE next.events # <<>>
      <4>1. /\ seen'[h] = seen[h] \o <<lo>> /\ lo \in Nat /\ lo <= object
            /\ Carried(notifications'[h], lo + 1, object)
        <5>1. lo \in Nat
          BY <3>2, <3>3
        <5>2. seen'[h] = seen[h] \o next.events
          BY <1>8
        <5>3. next.events = <<lo>> /\ lo <= object /\ Carried(notifications'[h], lo + 1, object)
          BY <3>5, <3>7
        <5> QED BY <5>1, <5>2, <5>3
      <4>2. /\ Len(seen'[h]) = Len(seen[h]) + 1 /\ DOMAIN seen'[h] = 1..(Len(seen[h]) + 1)
            /\ DOMAIN seen[h] = 1..Len(seen[h])
            /\ seen'[h][Len(seen[h]) + 1] = lo /\ \A k \in DOMAIN seen[h] : seen'[h][k] = seen[h][k]
        BY <1>11, <4>1
      <4>3. First(h) + Len(seen'[h]) = lo + 1 /\ lo + 1 <= object + 1
        <5>1. PICK a \in Nat, l \in Nat : a = First(h) /\ l = Len(seen[h])
          BY <3>2
        <5>2. First(h) + Len(seen'[h]) = a + (l + 1) /\ lo = a + l
          BY <3>3, <4>2, <5>1
        <5>3. lo + 1 <= object + 1
          BY <1>5, <4>1
        <5> QED BY <5>1, <5>2, <5>3
      <4>4. ASSUME NEW k \in DOMAIN seen'[h] PROVE seen'[h][k] = First(h) + k - 1
        <5>1. CASE k \in DOMAIN seen[h]
          BY <3>1, <4>2, <5>1 DEF Follows
        <5>2. CASE k = Len(seen[h]) + 1
          BY <3>2, <3>3, <4>2, <5>2
        <5> QED BY <3>2, <4>2, <5>1, <5>2
      <4>5. Follows(h)'
        BY <1>2, <3>2, <4>1, <4>3, <4>4 DEF Follows
      <4>6. seen'[h] # <<>>
        <5>1. Len(seen'[h]) # 0
          BY <3>2, <4>2
        <5> QED BY <5>1
      <4>7. StartsSynced(h)'
        BY <4>6 DEF StartsSynced
      <4> QED BY <1>2, <2>2, <4>5, <4>7 DEF HandlerInv
    <3> QED BY <3>6, <3>7
  <2>3. CASE phase[h] = "removed"
    BY <1>2, <2>3 DEF HandlerInv
  <2>4. phase[h] # "none"
    BY <1>2 DEF HandlerInv
  <2> QED BY <1>5, <2>1, <2>2, <2>3, <2>4 DEF Phases
<1> QED
  BY <1>9, <1>10, <1>12

LEMMA StepHandlersInv == HandlersInv /\ [HandlersNext]_handlersVars => HandlersInv'
<1> SUFFICES ASSUME HandlersInv, [HandlersNext]_handlersVars PROVE HandlersInv'
  OBVIOUS
<1>1. CASE CollectionSyncs \/ UNCHANGED handlersVars
  <2>1. /\ UNCHANGED <<object, phase, initial, startedSynced, waiting, notifications, closes, pendingSync, seen>>
        /\ synced' = synced \/ synced' = TRUE
    BY <1>1 DEF CollectionSyncs, handlersVars
  <2>2. synced' \in BOOLEAN
    BY <2>1 DEF HandlersInv, HandlersTyped
  <2>3. HandlersTyped'
    BY <2>1, <2>2 DEF HandlersInv, HandlersTyped
  <2>4. \A h \in Handler : HandlerInv(h)'
    BY <2>1, HandlerKept DEF HandlersInv, Same
  <2> QED BY <2>3, <2>4 DEF HandlersInv
<1> QED
  BY <1>1, EventDistributed, HandlerInserted, HandlerCounted, InitialSent, InsertReturned,
     SyncNotified, HandlerRemoved, NotificationRun DEF HandlersNext

LEMMA InvHandlersServed == HandlersInv => HandlersServed
<1> SUFFICES ASSUME HandlersInv PROVE HandlersServed
  OBVIOUS
<1> USE DEF HandlersInv
<1>1. EventsInOrder
  <2> SUFFICES ASSUME NEW h \in Handler, phase[h] \in {"sent", "registered"},
                      NEW q, q = notifications[h],
                      NEW C, C = {n \in DOMAIN q : q[n].events # <<>>},
                      NEW lo, lo = First(h) + Len(seen[h])
               PROVE  /\ \A n \in DOMAIN seen[h] : seen[h][n] = First(h) + n - 1
                      /\ {q[n].events : n \in C} = {<<v>> : v \in lo..object}
                      /\ \A m, n \in C : m < n => q[m].events[1] < q[n].events[1]
    BY DEF EventsInOrder
  <2>1. Follows(h)
    BY DEF HandlerInv
  <2>2. Carried(q, lo, object)
    BY <2>1 DEF Follows
  <2>3. \A n \in C : q[n].events \in {<<v>> : v \in lo..object}
    BY <2>2 DEF Carried
  <2>4. \A v \in lo..object : <<v>> \in {q[n].events : n \in C}
    BY <2>2, OneIsNotNone DEF Carried
  <2>5. \A m, n \in C : m < n => q[m].events[1] < q[n].events[1]
    BY <2>2 DEF Carried
  <2> QED BY <2>1, <2>3, <2>4, <2>5 DEF Follows
<1>2. SyncedAfterInitialState
  <2> SUFFICES ASSUME NEW h \in Handler, phase[h] = "registered", closes[h] > 0,
                      startedSynced[h], initial[h] # 0
               PROVE  seen[h] # <<>> /\ seen[h][1] = initial[h]
    BY DEF SyncedAfterInitialState, ReportsSynced, OvertakenAtStart
  <2>1. Follows(h) /\ StartsSynced(h) /\ startedSynced[h] = TRUE
    BY DEF HandlerInv, HandlersTyped
  <2>2. closes[h] # 0
    BY DEF HandlersTyped
  <2>3. seen[h] # <<>>
    BY <2>1, <2>2 DEF StartsSynced
  <2>4. seen[h] \in Seq(Nat) /\ initial[h] \in Nat
    BY DEF HandlersTyped
  <2>5. 1 \in DOMAIN seen[h]
    BY <2>3, <2>4
  <2>6. seen[h][1] = First(h) + 1 - 1
    BY <2>1, <2>5 DEF Follows
  <2> QED BY <2>3, <2>4, <2>6 DEF First
<1> QED
  BY <1>1, <1>2 DEF HandlersServed

\* Whenever it registers and whatever else registers, is removed or syncs at the
\* same time, a handler of a krt collection is called with its initial state and
\* then with every later event, in order and once, and one that registers on a
\* synced collection reports its sync only after the initial state
\* (handlerSet.Insert, Distribute, processorListener.run).
THEOREM HandlersHold == HandlersSpec => []HandlersServed
BY InitHandlersInv, StepHandlersInv, InvHandlersServed, PTL DEF HandlersSpec
===========================================================================
