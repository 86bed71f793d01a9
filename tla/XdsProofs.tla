----------------------------- MODULE XdsProofs ------------------------------
(***************************************************************************)
(* Proofs about three parts of the xDS server, for every value of their    *)
(* constants: the adapter for standard clients, the resource cache, and    *)
(* the goroutines between the push queue and the streams.                  *)
(***************************************************************************)
EXTENDS StandardStream, XdsCache, PushDelivery, FiniteSetTheorems, TLAPS

-----------------------------------------------------------------------------
(* StandardStream: every set of types and every number of responses.       *)

(***************************************************************************)
(* The order of the responses rests on what the writer lock protects: no   *)
(* response of a type waits while the type is watched, drained or written, *)
(* and what waits or is drained is not older than what was written.        *)
(***************************************************************************)
NothingWaits ==
  /\ \A t \in Type : watched[t] => pending[t] = None
  /\ recv.at = "drain" => pending[recv.type] = None
  /\ send.at = "writing" => pending[send.type] = None

Ordered ==
  /\ \A t \in Type : wire[t] <= made[t] /\ pending[t] <= made[t]
  /\ \A t \in Type : pending[t] # None => wire[t] <= pending[t]
  /\ (recv.at = "drain" /\ recv.held # None) =>
       wire[recv.type] <= recv.held /\ recv.held <= made[recv.type]

Subscribed ==
  /\ recv.at = "drain" => named[recv.type] \/ watched[recv.type]
  /\ send.at = "writing" => named[send.type] \/ watched[send.type]

\* The inductive invariant.
IInv ==
  /\ TypeOK /\ WriterHeld /\ NothingWaits /\ Ordered
  /\ LatestRetained /\ Subscribed /\ OnlySubscribed

LEMMA InitInv == Init => IInv
<1> SUFFICES ASSUME Init PROVE IInv
  OBVIOUS
<1>1. TypeOK
  BY DEF Init, TypeOK, RecvIdle, SendIdle, At, None
<1>2. WriterHeld /\ NothingWaits /\ Ordered /\ LatestRetained /\ Subscribed /\ OnlySubscribed
  BY StandardStreamAssumption DEF Init, RecvIdle, SendIdle, At, None, WriterHeld, NothingWaits, Ordered,
     LatestRetained, Subscribed, OnlySubscribed
<1> QED BY <1>1, <1>2 DEF IInv

LEMMA RecvInv ==
  ASSUME IInv, NEW t \in Type, NEW names \in BOOLEAN, Recv(t, names)
  PROVE  IInv'
<1> USE StandardStreamAssumption DEF None
<1>1. TypeOK'
  BY DEF Recv, IInv, TypeOK, RecvIdle, At
<1>2. WriterHeld'
  BY DEF Recv, IInv, TypeOK, WriterHeld, RecvIdle, At
<1>3. NothingWaits'
  BY DEF Recv, IInv, TypeOK, NothingWaits, RecvIdle, At
<1>4. Ordered'
  BY DEF Recv, IInv, TypeOK, Ordered, RecvIdle, At
<1>5. LatestRetained'
  BY DEF Recv, IInv, TypeOK, LatestRetained, RecvIdle, At
<1>6. Subscribed'
  BY DEF Recv, IInv, TypeOK, Subscribed, RecvIdle, At
<1>7. OnlySubscribed'
  BY DEF Recv, IInv, TypeOK, OnlySubscribed
<1> QED BY <1>1, <1>2, <1>3, <1>4, <1>5, <1>6, <1>7 DEF IInv

LEMMA SubscribeInv ==
  ASSUME IInv, Subscribe
  PROVE  IInv'
<1> USE StandardStreamAssumption DEF None
<1>1. TypeOK'
  BY DEF Subscribe, IInv, TypeOK, WriterHeld, RecvIdle, SendIdle, At
<1>2. WriterHeld'
  BY DEF Subscribe, IInv, TypeOK, WriterHeld, RecvIdle, SendIdle, At
<1>3. NothingWaits'
  BY DEF Subscribe, IInv, TypeOK, WriterHeld, NothingWaits, RecvIdle, SendIdle, At
<1>4. Ordered'
  BY DEF Subscribe, IInv, TypeOK, WriterHeld, NothingWaits, Ordered, RecvIdle, SendIdle, At
<1>5. LatestRetained'
  BY DEF Subscribe, IInv, TypeOK, WriterHeld, Ordered, LatestRetained, RecvIdle, SendIdle, At
<1>6. Subscribed'
  BY DEF Subscribe, IInv, TypeOK, WriterHeld, Subscribed, RecvIdle, SendIdle, At
<1>7. OnlySubscribed'
  BY DEF Subscribe, IInv, TypeOK, Subscribed, OnlySubscribed
<1> QED BY <1>1, <1>2, <1>3, <1>4, <1>5, <1>6, <1>7 DEF IInv

LEMMA DrainInv ==
  ASSUME IInv, Drain
  PROVE  IInv'
<1> USE StandardStreamAssumption DEF None
<1>1. TypeOK'
  BY DEF Drain, IInv, TypeOK, WriterHeld, RecvIdle, SendIdle, At
<1>2. WriterHeld'
  BY DEF Drain, IInv, TypeOK, WriterHeld, RecvIdle, SendIdle, At
<1>3. NothingWaits'
  BY DEF Drain, IInv, TypeOK, WriterHeld, NothingWaits, RecvIdle, SendIdle, At
<1>4. Ordered'
  BY DEF Drain, IInv, TypeOK, WriterHeld, NothingWaits, Ordered, RecvIdle, SendIdle, At
<1>5. LatestRetained'
  BY DEF Drain, IInv, TypeOK, WriterHeld, Ordered, LatestRetained, RecvIdle, SendIdle, At
<1>6. Subscribed'
  BY DEF Drain, IInv, TypeOK, WriterHeld, Subscribed, RecvIdle, SendIdle, At
<1>7. OnlySubscribed'
  BY DEF Drain, IInv, TypeOK, Subscribed, OnlySubscribed
<1> QED BY <1>1, <1>2, <1>3, <1>4, <1>5, <1>6, <1>7 DEF IInv

LEMMA RecvFailsInv ==
  ASSUME IInv, RecvFails
  PROVE  IInv'
<1> USE StandardStreamAssumption DEF None
<1>1. TypeOK'
  BY DEF RecvFails, IInv, TypeOK, WriterHeld, RecvIdle, SendIdle, At
<1>2. WriterHeld'
  BY DEF RecvFails, IInv, TypeOK, WriterHeld, RecvIdle, SendIdle, At
<1>3. NothingWaits'
  BY DEF RecvFails, IInv, TypeOK, WriterHeld, NothingWaits, RecvIdle, SendIdle, At
<1>4. Ordered'
  BY DEF RecvFails, IInv, TypeOK, WriterHeld, NothingWaits, Ordered, RecvIdle, SendIdle, At
<1>5. LatestRetained'
  BY DEF RecvFails, IInv, TypeOK, WriterHeld, Ordered, LatestRetained, RecvIdle, SendIdle, At
<1>6. Subscribed'
  BY DEF RecvFails, IInv, TypeOK, WriterHeld, Subscribed, RecvIdle, SendIdle, At
<1>7. OnlySubscribed'
  BY DEF RecvFails, IInv, TypeOK, Subscribed, OnlySubscribed
<1> QED BY <1>1, <1>2, <1>3, <1>4, <1>5, <1>6, <1>7 DEF IInv

LEMMA SendInv ==
  ASSUME IInv, NEW t \in Type, Send(t)
  PROVE  IInv'
<1> USE StandardStreamAssumption DEF None
<1>1. TypeOK'
  BY DEF Send, IInv, TypeOK, WriterHeld, RecvIdle, SendIdle, At
<1>2. WriterHeld'
  BY DEF Send, IInv, TypeOK, WriterHeld, RecvIdle, SendIdle, At
<1>3. NothingWaits'
  BY DEF Send, IInv, TypeOK, WriterHeld, NothingWaits, RecvIdle, SendIdle, At
<1>4. Ordered'
  BY DEF Send, IInv, TypeOK, WriterHeld, NothingWaits, Ordered, RecvIdle, SendIdle, At
<1>5. LatestRetained'
  BY DEF Send, IInv, TypeOK, WriterHeld, Ordered, LatestRetained, RecvIdle, SendIdle, At
<1>6. Subscribed'
  BY DEF Send, IInv, TypeOK, WriterHeld, Subscribed, RecvIdle, SendIdle, At
<1>7. OnlySubscribed'
  BY DEF Send, IInv, TypeOK, Subscribed, OnlySubscribed
<1> QED BY <1>1, <1>2, <1>3, <1>4, <1>5, <1>6, <1>7 DEF IInv

LEMMA LockInv ==
  ASSUME IInv, Lock
  PROVE  IInv'
<1> USE StandardStreamAssumption DEF None
<1>1. TypeOK'
  BY DEF Lock, IInv, TypeOK, WriterHeld, RecvIdle, SendIdle, At
<1>2. WriterHeld'
  BY DEF Lock, IInv, TypeOK, WriterHeld, RecvIdle, SendIdle, At
<1>3. NothingWaits'
  BY DEF Lock, IInv, TypeOK, WriterHeld, NothingWaits, RecvIdle, SendIdle, At
<1>4. Ordered'
  BY DEF Lock, IInv, TypeOK, WriterHeld, NothingWaits, Ordered, RecvIdle, SendIdle, At
<1>5. LatestRetained'
  BY DEF Lock, IInv, TypeOK, WriterHeld, Ordered, LatestRetained, RecvIdle, SendIdle, At
<1>6. Subscribed'
  BY DEF Lock, IInv, TypeOK, WriterHeld, Subscribed, RecvIdle, SendIdle, At
<1>7. OnlySubscribed'
  BY DEF Lock, IInv, TypeOK, Subscribed, OnlySubscribed
<1> QED BY <1>1, <1>2, <1>3, <1>4, <1>5, <1>6, <1>7 DEF IInv

LEMMA KeepInv ==
  ASSUME IInv, Keep
  PROVE  IInv'
<1> USE StandardStreamAssumption DEF None
<1>1. TypeOK'
  BY DEF Keep, IInv, TypeOK, WriterHeld, RecvIdle, SendIdle, At
<1>2. WriterHeld'
  BY DEF Keep, IInv, TypeOK, WriterHeld, RecvIdle, SendIdle, At
<1>3. NothingWaits'
  BY DEF Keep, IInv, TypeOK, WriterHeld, NothingWaits, RecvIdle, SendIdle, At
<1>4. Ordered'
  BY DEF Keep, IInv, TypeOK, WriterHeld, NothingWaits, Ordered, RecvIdle, SendIdle, At
<1>5. LatestRetained'
  BY DEF Keep, IInv, TypeOK, WriterHeld, Ordered, LatestRetained, RecvIdle, SendIdle, At
<1>6. Subscribed'
  BY DEF Keep, IInv, TypeOK, WriterHeld, Subscribed, RecvIdle, SendIdle, At
<1>7. OnlySubscribed'
  BY DEF Keep, IInv, TypeOK, Subscribed, OnlySubscribed
<1> QED BY <1>1, <1>2, <1>3, <1>4, <1>5, <1>6, <1>7 DEF IInv

LEMMA DecideInv ==
  ASSUME IInv, Decide
  PROVE  IInv'
<1> USE StandardStreamAssumption DEF None
<1>1. TypeOK'
  BY DEF Decide, IInv, TypeOK, WriterHeld, RecvIdle, SendIdle, At
<1>2. WriterHeld'
  BY DEF Decide, IInv, TypeOK, WriterHeld, RecvIdle, SendIdle, At
<1>3. NothingWaits'
  BY DEF Decide, IInv, TypeOK, WriterHeld, NothingWaits, RecvIdle, SendIdle, At
<1>4. Ordered'
  BY DEF Decide, IInv, TypeOK, WriterHeld, NothingWaits, Ordered, RecvIdle, SendIdle, At
<1>5. LatestRetained'
  BY DEF Decide, IInv, TypeOK, WriterHeld, Ordered, LatestRetained, RecvIdle, SendIdle, At
<1>6. Subscribed'
  BY DEF Decide, IInv, TypeOK, WriterHeld, Subscribed, RecvIdle, SendIdle, At
<1>7. OnlySubscribed'
  BY DEF Decide, IInv, TypeOK, Subscribed, OnlySubscribed
<1> QED BY <1>1, <1>2, <1>3, <1>4, <1>5, <1>6, <1>7 DEF IInv

LEMMA WriteInv ==
  ASSUME IInv, Write
  PROVE  IInv'
<1> USE StandardStreamAssumption DEF None
<1>1. TypeOK'
  BY DEF Write, IInv, TypeOK, WriterHeld, RecvIdle, SendIdle, At
<1>2. WriterHeld'
  BY DEF Write, IInv, TypeOK, WriterHeld, RecvIdle, SendIdle, At
<1>3. NothingWaits'
  BY DEF Write, IInv, TypeOK, WriterHeld, NothingWaits, RecvIdle, SendIdle, At
<1>4. Ordered'
  BY DEF Write, IInv, TypeOK, WriterHeld, NothingWaits, Ordered, RecvIdle, SendIdle, At
<1>5. LatestRetained'
  BY DEF Write, IInv, TypeOK, WriterHeld, Ordered, LatestRetained, RecvIdle, SendIdle, At
<1>6. Subscribed'
  BY DEF Write, IInv, TypeOK, WriterHeld, Subscribed, RecvIdle, SendIdle, At
<1>7. OnlySubscribed'
  BY DEF Write, IInv, TypeOK, Subscribed, OnlySubscribed
<1> QED BY <1>1, <1>2, <1>3, <1>4, <1>5, <1>6, <1>7 DEF IInv

LEMMA SendFailsInv ==
  ASSUME IInv, SendFails
  PROVE  IInv'
<1> USE StandardStreamAssumption DEF None
<1>1. TypeOK'
  BY DEF SendFails, IInv, TypeOK, WriterHeld, RecvIdle, SendIdle, At
<1>2. WriterHeld'
  BY DEF SendFails, IInv, TypeOK, WriterHeld, RecvIdle, SendIdle, At
<1>3. NothingWaits'
  BY DEF SendFails, IInv, TypeOK, WriterHeld, NothingWaits, RecvIdle, SendIdle, At
<1>4. Ordered'
  BY DEF SendFails, IInv, TypeOK, WriterHeld, NothingWaits, Ordered, RecvIdle, SendIdle, At
<1>5. LatestRetained'
  BY DEF SendFails, IInv, TypeOK, WriterHeld, Ordered, LatestRetained, RecvIdle, SendIdle, At
<1>6. Subscribed'
  BY DEF SendFails, IInv, TypeOK, WriterHeld, Subscribed, RecvIdle, SendIdle, At
<1>7. OnlySubscribed'
  BY DEF SendFails, IInv, TypeOK, Subscribed, OnlySubscribed
<1> QED BY <1>1, <1>2, <1>3, <1>4, <1>5, <1>6, <1>7 DEF IInv

LEMMA NextInv == IInv /\ [Next]_vars => IInv'
<1> SUFFICES ASSUME IInv, [Next]_vars PROVE IInv'
  OBVIOUS
<1>1. CASE UNCHANGED vars
  BY <1>1 DEF vars, IInv, TypeOK, WriterHeld, NothingWaits, Ordered, LatestRetained,
     Subscribed, OnlySubscribed
<1>2. CASE Next
  BY <1>2, RecvInv, SubscribeInv, DrainInv, RecvFailsInv, SendInv, LockInv, KeepInv,
     DecideInv, WriteInv, SendFailsInv DEF Next
<1> QED BY <1>1, <1>2

\* The maps, the lock and the two goroutines' places keep their types.
THEOREM StreamTypes == Spec => []TypeOK
<1>1. IInv => TypeOK
  BY DEF IInv
<1> QED BY <1>1, InitInv, NextInv, PTL DEF Spec

\* Recv and Send never write to the client at the same time.
THEOREM WritersExclude == Spec => []WriterHeld
<1>1. IInv => WriterHeld
  BY DEF IInv
<1> QED BY <1>1, InitInv, NextInv, PTL DEF Spec

\* A push never overtakes the response that Recv takes from the cache: the
\* responses of a type reach the client in the order they were made.
THEOREM NeverOvertaken == Spec => InOrder
<1>1. ASSUME IInv, [Next]_vars
      PROVE  [\A t \in Type : wire'[t] >= wire[t]]_vars
  <2>1. CASE UNCHANGED vars
    BY <2>1
  <2>2. CASE Drain
    <3>1. recv.type \in Type /\ recv.held \in Nat /\ wire \in [Type -> Nat]
      BY <1>1, <2>2 DEF Drain, IInv, TypeOK
    <3>2. CASE recv.held = None
      BY <2>2, <3>1, <3>2 DEF Drain
    <3>3. CASE recv.held # None
      <4>1. wire' = [wire EXCEPT ![recv.type] = recv.held] /\ wire[recv.type] <= recv.held
        BY <1>1, <2>2, <3>3 DEF Drain, IInv, Ordered
      <4> QED BY <3>1, <4>1
    <3> QED BY <3>2, <3>3
  <2>3. CASE Write
    <3>1. /\ wire' = [wire EXCEPT ![send.type] = made[send.type]]
          /\ send.type \in Type /\ wire \in [Type -> Nat] /\ made \in [Type -> Nat]
          /\ wire[send.type] <= made[send.type]
      BY <1>1, <2>3 DEF Write, IInv, TypeOK, Ordered
    <3> QED BY <3>1
  <2>4. CASE Next /\ ~Drain /\ ~Write
    <3>1. wire' = wire
      BY <2>4 DEF Next, Recv, Subscribe, RecvFails, Send, Lock, Keep, Decide, SendFails
    <3> QED BY <1>1, <3>1 DEF IInv, TypeOK
  <2> QED BY <1>1, <2>1, <2>2, <2>3, <2>4
<1> QED BY <1>1, InitInv, NextInv, PTL DEF Spec, InOrder

\* The newest response of a type is never lost between the cache, the drain
\* and the wire.
THEOREM NewestKept == Spec => []LatestRetained
<1>1. IInv => LatestRetained
  BY DEF IInv
<1> QED BY <1>1, InitInv, NextInv, PTL DEF Spec

\* A client that watches a type has its newest response between requests.
THEOREM WatchersCurrent == Spec => []WatchedIsCurrent
<1>1. IInv => WatchedIsCurrent
  <2> SUFFICES ASSUME IInv, NEW t \in Type, watched[t], recv.at = "idle",
                      send.at # "ended", send.type # t
               PROVE  wire[t] = made[t]
    BY DEF WatchedIsCurrent
  <2>1. pending[t] = made[t] \/ wire[t] = made[t]
    BY DEF IInv, LatestRetained
  <2>2. pending[t] = 0 /\ wire[t] <= made[t] /\ wire[t] \in Nat /\ made[t] \in Nat
    BY DEF IInv, NothingWaits, Ordered, TypeOK, None
  <2> QED BY <2>1, <2>2
<1> QED BY <1>1, InitInv, NextInv, PTL DEF Spec

\* Nothing prefetched is written before the client subscribes to its type.
THEOREM PrefetchHeldBack == Spec => []OnlySubscribed
<1>1. IInv => OnlySubscribed
  BY DEF IInv
<1> QED BY <1>1, InitInv, NextInv, PTL DEF Spec

-----------------------------------------------------------------------------
(* XdsCache: every set of keys and configurations, every capacity and every *)
(* bound.                                                                   *)

(***************************************************************************)
(* NoStaleEntry is not inductive: a builder may hold a resource that is    *)
(* out of date.  What saves the cache is that such a builder's push        *)
(* started before the clear, whose time is the token.                      *)
(***************************************************************************)
BuildsFresh ==
  \A b \in builds :
    /\ b.start <= clock
    /\ b.start >= token => \A c \in b.deps : b.seen[c] = version[c]

\* The inductive invariant.
LruInv ==
  /\ LruTypeOK
  /\ IndexComplete
  /\ NoIndexLeak
  /\ NoStaleEntry
  /\ BuildsFresh

LEMMA InitLruInv == LruInit => LruInv
  BY NilAssumption DEF LruInit, LruInv, LruTypeOK, IndexComplete, NoIndexLeak, NoStaleEntry,
     BuildsFresh, Stored

LEMMA StartPushInv == LruInv /\ StartPush => LruInv'
  BY DEF StartPush, LruInv, LruTypeOK, IndexComplete, NoIndexLeak, NoStaleEntry, BuildsFresh,
     Stored, Build

LEMMA BuildResourceInv ==
  ASSUME LruInv, NEW k \in Key, NEW start \in 0..clock, NEW deps \in SUBSET Config,
         BuildResource(k, start, deps)
  PROVE  LruInv'
<1> DEFINE b == [key |-> k, start |-> start, deps |-> deps, seen |-> version]
<1>1. b \in Build /\ b.start <= clock /\ b.seen = version
  BY DEF LruInv, LruTypeOK, Build
<1>2. builds' = builds \union {b}
      /\ UNCHANGED <<store, token, configIndex, evictQueue, clock, version>>
  BY DEF BuildResource
<1>3. LruTypeOK'
  BY <1>1, <1>2 DEF LruInv, LruTypeOK
<1>4. BuildsFresh'
  BY <1>1, <1>2 DEF LruInv, BuildsFresh
<1>5. IndexComplete' /\ NoIndexLeak' /\ NoStaleEntry'
  BY <1>2 DEF LruInv, IndexComplete, NoIndexLeak, NoStaleEntry, Stored
<1> QED BY <1>3, <1>4, <1>5 DEF LruInv

LEMMA AddInv ==
  ASSUME LruInv, NEW b \in builds, Add(b)
  PROVE  LruInv'
<1>1. /\ b \in Build /\ b.key \in Key /\ b.start \in Nat
      /\ b.deps \in SUBSET Config /\ b.seen \in [Config -> Nat]
  BY DEF LruInv, LruTypeOK, Build
<1>2. CASE Refused(b)
  <2>1. /\ builds' = builds \ {b}
        /\ UNCHANGED <<store, token, configIndex, evictQueue, clock, version>>
    BY <1>2 DEF Add
  <2> QED BY <2>1 DEF LruInv, LruTypeOK, IndexComplete, NoIndexLeak, NoStaleEntry,
             BuildsFresh, Stored
<1>3. CASE ~Refused(b)
  <2> DEFINE new == [token |-> b.start, deps |-> b.deps, seen |-> b.seen]
  <2>1. PICK out \in Victims(b.key) :
          /\ store' = [k \in Key |-> IF k = b.key THEN new
                                     ELSE IF k \in out THEN nil ELSE store[k]]
          /\ evictQueue' = evictQueue \union
               {Evicted(k) : k \in out \union (Stored \intersect {b.key})}
    BY <1>3 DEF Add
  <2>2. /\ builds' = builds \ {b} /\ token' = b.start
        /\ configIndex' = updateConfigIndex(b.key, b.deps)
        /\ UNCHANGED <<clock, version>>
    BY <1>3 DEF Add
  <2>3. out \subseteq Stored
    BY DEF Victims
  <2>4. b.start >= token /\ b.start <= clock /\ \A c \in b.deps : b.seen[c] = version[c]
    BY <1>1, <1>3 DEF Refused, LruInv, BuildsFresh, LruTypeOK
  <2>5. new \in cacheValue /\ new # nil
    BY <1>1, NilAssumption DEF cacheValue
  <2>6. /\ \A k \in Key : store'[k] = IF k = b.key THEN new
                                      ELSE IF k \in out THEN nil ELSE store[k]
        /\ \A k \in Key : k \in Stored => store[k] \in cacheValue
    BY <2>1 DEF Stored, LruInv, LruTypeOK
  <2>7. \A c \in Config : configIndex'[c] =
          IF c \in b.deps THEN configIndex[c] \union {b.key} ELSE configIndex[c]
    BY <2>2 DEF updateConfigIndex
  <2>8. \A k \in Stored : (k \in out \/ k = b.key) => Evicted(k) \in evictQueue'
    BY <2>1
  <2>9. \A k \in Stored : Evicted(k) \in evictKeyConfigs /\ Evicted(k).key = k
                          /\ Evicted(k).deps = store[k].deps
    BY <2>6 DEF Evicted, evictKeyConfigs, cacheValue, Stored
  <2>10. LruTypeOK'
    <3>1. store' \in [Key -> cacheValue \union {nil}]
      BY <2>1, <2>5 DEF LruInv, LruTypeOK
    <3>2. configIndex' \in [Config -> SUBSET Key]
      BY <1>1, <2>2 DEF updateConfigIndex, LruInv, LruTypeOK
    <3>3. evictQueue' \in SUBSET evictKeyConfigs
      BY <2>1, <2>3, <2>9 DEF LruInv, LruTypeOK
    <3> QED BY <1>1, <2>2, <2>4, <3>1, <3>2, <3>3 DEF LruInv, LruTypeOK
  <2>11. IndexComplete'
    <3> SUFFICES ASSUME NEW k \in Key, store'[k] # nil, NEW c \in store'[k].deps
                 PROVE  k \in configIndex'[c]
      BY DEF IndexComplete, Stored
    <3>1. CASE k = b.key
      <4>1. store'[k].deps = b.deps
        BY <2>6, <3>1
      <4> QED BY <1>1, <2>7, <3>1, <4>1
    <3>2. CASE k # b.key
      <4>1. store'[k] = store[k] /\ k \in Stored
        BY <2>6, <3>2 DEF Stored
      <4>2. c \in Config /\ k \in configIndex[c]
        BY <2>6, <4>1 DEF LruInv, IndexComplete, cacheValue
      <4> QED BY <2>7, <4>2
    <3> QED BY <3>1, <3>2
  <2>12. NoIndexLeak'
    <3> SUFFICES ASSUME NEW c \in Config, NEW k \in configIndex'[c],
                        ~(store'[k] # nil /\ c \in store'[k].deps)
                 PROVE  \E e \in evictQueue' : e.key = k /\ c \in e.deps
      BY DEF NoIndexLeak
    <3>0. new.deps = b.deps
      OBVIOUS
    <3>1. k \in Key /\ k \in configIndex[c]
      <4>1. k \in configIndex[c] \/ (k = b.key /\ c \in b.deps)
        BY <2>7
      <4>2. configIndex[c] \subseteq Key
        BY DEF LruInv, LruTypeOK
      <4>3. ~(k = b.key /\ c \in b.deps)
        BY <1>1, <2>5, <2>6, <3>0
      <4> QED BY <4>1, <4>2, <4>3
    <3>2. CASE store[k] # nil /\ c \in store[k].deps
      <4>1. k \in Stored /\ (k \in out \/ k = b.key)
        BY <2>6, <3>1, <3>2 DEF Stored
      <4> QED BY <2>8, <2>9, <3>2, <4>1
    <3>3. CASE ~(store[k] # nil /\ c \in store[k].deps)
      BY <2>1, <3>1, <3>3 DEF LruInv, NoIndexLeak
    <3> QED BY <3>2, <3>3
  <2>13. NoStaleEntry'
    <3> SUFFICES ASSUME NEW k \in Key, store'[k] # nil, NEW c \in store'[k].deps
                 PROVE  store'[k].seen[c] = version'[c]
      BY DEF NoStaleEntry, Stored
    <3>1. CASE k = b.key
      BY <2>2, <2>4, <2>6, <3>1
    <3>2. CASE k # b.key
      BY <2>2, <2>6, <3>2 DEF LruInv, NoStaleEntry, Stored
    <3> QED BY <3>1, <3>2
  <2>14. BuildsFresh'
    BY <1>1, <2>2, <2>4 DEF LruInv, BuildsFresh, LruTypeOK, Build
  <2> QED BY <2>10, <2>11, <2>12, <2>13, <2>14 DEF LruInv
<1> QED BY <1>2, <1>3

LEMMA ClearInv ==
  ASSUME LruInv, NEW cs \in SUBSET Config, Clear(cs)
  PROVE  LruInv'
<1> DEFINE removed == Stored \intersect UNION {configIndex[c] : c \in cs}
<1>1. /\ clock' = clock + 1 /\ token' = clock + 1
      /\ version' = [c \in Config |-> IF c \in cs THEN version[c] + 1 ELSE version[c]]
      /\ store' = [k \in Key |-> IF k \in removed THEN nil ELSE store[k]]
      /\ configIndex' = [c \in Config |-> IF c \in cs THEN {} ELSE configIndex[c]]
      /\ evictQueue' = evictQueue \union {Evicted(k) : k \in removed}
      /\ builds' = builds
  BY DEF Clear
<1>2. \A k \in Stored : /\ store[k] \in cacheValue
                        /\ Evicted(k) \in evictKeyConfigs
                        /\ Evicted(k).key = k /\ Evicted(k).deps = store[k].deps
  BY DEF Evicted, evictKeyConfigs, cacheValue, Stored, LruInv, LruTypeOK
<1>3. \A k \in Key : store'[k] # nil =>
        /\ k \in Stored /\ store'[k] = store[k]
        /\ \A c \in cs : k \notin configIndex[c]
  BY <1>1 DEF Stored
<1>4. \A k \in Key : store'[k] # nil => store[k].deps \intersect cs = {}
  BY <1>3 DEF LruInv, IndexComplete
<1>5. LruTypeOK'
  BY <1>1, <1>2 DEF LruInv, LruTypeOK
<1>6. IndexComplete'
  <2> SUFFICES ASSUME NEW k \in Key, store'[k] # nil, NEW c \in store'[k].deps
               PROVE  k \in configIndex'[c]
    BY DEF IndexComplete, Stored
  <2>1. c \in Config /\ c \notin cs /\ k \in configIndex[c]
    BY <1>2, <1>3, <1>4 DEF LruInv, IndexComplete, cacheValue
  <2> QED BY <1>1, <2>1
<1>7. NoIndexLeak'
  <2> SUFFICES ASSUME NEW c \in Config, NEW k \in configIndex'[c],
                      ~(store'[k] # nil /\ c \in store'[k].deps)
               PROVE  \E e \in evictQueue' : e.key = k /\ c \in e.deps
    BY DEF NoIndexLeak
  <2>1. k \in configIndex[c] /\ k \in Key
    BY <1>1 DEF LruInv, LruTypeOK
  <2>2. CASE store[k] # nil /\ c \in store[k].deps
    <3>1. k \in removed
      BY <1>1, <2>1, <2>2 DEF Stored
    <3>2. Evicted(k) \in evictQueue'
      BY <1>1, <3>1
    <3> QED BY <1>2, <2>2, <3>1, <3>2
  <2>3. CASE ~(store[k] # nil /\ c \in store[k].deps)
    BY <1>1, <2>1, <2>3 DEF LruInv, NoIndexLeak
  <2> QED BY <2>2, <2>3
<1>8. NoStaleEntry'
  <2> SUFFICES ASSUME NEW k \in Key, store'[k] # nil, NEW c \in store'[k].deps
               PROVE  store'[k].seen[c] = version'[c]
    BY DEF NoStaleEntry, Stored
  <2>1. c \in Config /\ c \notin cs /\ store[k].seen[c] = version[c]
    BY <1>2, <1>3, <1>4 DEF LruInv, NoStaleEntry, cacheValue
  <2> QED BY <1>1, <1>3, <2>1
<1>9. BuildsFresh'
  BY <1>1 DEF LruInv, BuildsFresh, LruTypeOK, Build
<1> QED BY <1>5, <1>6, <1>7, <1>8, <1>9 DEF LruInv

LEMMA ClearAllInv == LruInv /\ ClearAll => LruInv'
  BY DEF ClearAll, LruInv, LruTypeOK, IndexComplete, NoIndexLeak, NoStaleEntry, BuildsFresh,
     Stored, Build

LEMMA FlushInv ==
  ASSUME LruInv, Flush
  PROVE  LruInv'
<1>1. /\ configIndex' = [c \in Config |-> {k \in configIndex[c] : ~clearConfigIndex(k, c)}]
      /\ evictQueue' = {}
      /\ UNCHANGED <<store, token, clock, version, builds>>
  BY DEF Flush
<1>2. LruTypeOK'
  BY <1>1 DEF LruInv, LruTypeOK
<1>3. IndexComplete'
  <2> SUFFICES ASSUME NEW k \in Stored, NEW c \in store[k].deps
               PROVE  k \in configIndex'[c]
    BY <1>1 DEF IndexComplete, Stored
  <2>1. c \in Config /\ k \in configIndex[c] /\ store[k] # nil
    BY DEF LruInv, LruTypeOK, IndexComplete, Stored, cacheValue
  <2>2. ~clearConfigIndex(k, c)
    BY <2>1 DEF clearConfigIndex
  <2> QED BY <1>1, <2>1, <2>2
<1>4. NoIndexLeak'
  BY <1>1 DEF LruInv, NoIndexLeak, clearConfigIndex
<1>5. NoStaleEntry' /\ BuildsFresh'
  BY <1>1 DEF LruInv, NoStaleEntry, BuildsFresh, Stored
<1> QED BY <1>2, <1>3, <1>4, <1>5 DEF LruInv

LEMMA NextLruInv == LruInv /\ [LruNext]_lruVars => LruInv'
<1> SUFFICES ASSUME LruInv, [LruNext]_lruVars PROVE LruInv'
  OBVIOUS
<1>1. CASE UNCHANGED lruVars
  BY <1>1 DEF lruVars, LruInv, LruTypeOK, IndexComplete, NoIndexLeak, NoStaleEntry, BuildsFresh, Stored
<1>2. CASE LruNext
  BY <1>2, StartPushInv, BuildResourceInv, AddInv, ClearInv, ClearAllInv, FlushInv DEF LruNext
<1> QED BY <1>1, <1>2

\* The fields of the cache keep their types and the token never runs ahead of
\* the clock it is read from.
THEOREM CacheTypes == LruSpec => []LruTypeOK
<1>1. LruInv => LruTypeOK
  BY DEF LruInv
<1> QED BY <1>1, InitLruInv, NextLruInv, PTL DEF LruSpec

\* Clear misses no entry: the index names every entry under everything it
\* depends on, although Flush runs long after the changes it accounts for.
THEOREM ClearFindsEntries == LruSpec => []IndexComplete
<1>1. LruInv => IndexComplete
  BY DEF LruInv
<1> QED BY <1>1, InitLruInv, NextLruInv, PTL DEF LruSpec

\* The index maps do not leak: what the index holds beyond the stored entries
\* is queued for the next Flush.
THEOREM IndexDoesNotLeak == LruSpec => []NoIndexLeak
<1>1. LruInv => NoIndexLeak
  BY DEF LruInv
<1> QED BY <1>1, InitLruInv, NextLruInv, PTL DEF LruSpec

\* A stream that builds a resource before a change and adds it afterwards
\* cannot bring the old resource back into the cache.
THEOREM CacheIsFresh == LruSpec => []NoStaleEntry
<1>1. LruInv => NoStaleEntry
  BY DEF LruInv
<1> QED BY <1>1, InitLruInv, NextLruInv, PTL DEF LruSpec

-----------------------------------------------------------------------------
(***************************************************************************)
(* PushDelivery: any number of streams and any DUBBO_PUSH_THROTTLE.  The   *)
(* counts are kept by the steps together, never by one variable: a token   *)
(* moves from doSendPushes to the goroutine that offers the push, to the   *)
(* stream's loop and back, or, when the stream is gone, back from the      *)
(* goroutine.  Counted is the inductive invariant.                         *)
(***************************************************************************)

Place == {"waiting", "first", "second", "pushing", "pushed", "failed", "returned"}
Stage == {"receiving", "initializing", "added", "handing", "closing", "closed", "half",
          "ending", "ended"}

DeliveryTypeOK ==
  /\ sender \in {"top", "acquire", "dequeue", "returned"}
  /\ semaphore \in Nat /\ releasing \in Nat
  /\ offering \subseteq Conn /\ underway \subseteq Conn /\ registered \subseteq Conn
  /\ handler \in [Conn -> Place] /\ receiver \in [Conn -> Stage]

Counted ==
  /\ DeliveryTypeOK
  /\ SemaphoreAccounted /\ semaphore <= PushLimit
  /\ OneGoroutinePerPush
  /\ NoLeakedClient

\* A step of a stream's loop moves its stream alone.
LEMMA MoveHandler ==
  ASSUME DeliveryTypeOK, NEW c \in Conn, NEW place \in Place, Goto(c, place)
  PROVE  /\ handler' \in [Conn -> Place]
         /\ Pushing' = IF place = "pushing" THEN Pushing \union {c} ELSE Pushing \ {c}
         /\ Releasing' = IF place \in {"pushed", "failed"} THEN Releasing \union {c} ELSE Releasing \ {c}
<1>1. handler' = [handler EXCEPT ![c] = place] /\ handler \in [Conn -> Place]
  BY DEF Goto, DeliveryTypeOK
<1>2. handler'[c] = place /\ \A d \in Conn \ {c} : handler'[d] = handler[d]
  BY <1>1
<1>3. handler' \in [Conn -> Place]
  BY <1>1
<1> QED BY <1>2, <1>3 DEF Pushing, Releasing

\* So does a step of its receiving goroutine.
LEMMA MoveReceiver ==
  ASSUME DeliveryTypeOK, NEW c \in Conn, NEW from, NEW to \in Stage, ReceiverAt(c, from, to)
  PROVE  /\ receiver[c] = from /\ receiver' \in [Conn -> Stage]
         /\ receiver'[c] = to /\ \A d \in Conn \ {c} : receiver'[d] = receiver[d]
  BY DEF DeliveryTypeOK, ReceiverAt

\* The sets whose sizes are counted are finite.
LEMMA Finite ==
  ASSUME DeliveryTypeOK
  PROVE  /\ IsFiniteSet(offering) /\ IsFiniteSet(Pushing) /\ IsFiniteSet(Releasing)
         /\ Cardinality(offering) \in Nat /\ Cardinality(Pushing) \in Nat /\ Cardinality(Releasing) \in Nat
<1>1. offering \in SUBSET Conn /\ Pushing \in SUBSET Conn /\ Releasing \in SUBSET Conn
  BY DEF DeliveryTypeOK, Pushing, Releasing
<1>2. IsFiniteSet(offering) /\ IsFiniteSet(Pushing) /\ IsFiniteSet(Releasing)
  BY <1>1, FS_Subset, PushDeliveryAssumption
<1> QED BY <1>2, FS_CardinalityType

\* No step loses a token or a mark: doSendPushes, doneFunc and the loops.
LEMMA CountedInductive == Counted /\ [DeliveryNext]_deliveryVars => Counted'
<1> SUFFICES ASSUME Counted, [DeliveryNext]_deliveryVars PROVE Counted'
  OBVIOUS
<1> USE DEF queueVars, senderVars, chanVars, receiverVars
<1>1. DeliveryTypeOK /\ SemaphoreAccounted /\ semaphore <= PushLimit /\ OneGoroutinePerPush /\ NoLeakedClient
  BY DEF Counted
<1>2. PICK t \in (IF sender = "returned" THEN {0, 1} ELSE {IF sender = "dequeue" THEN 1 ELSE 0}) :
        semaphore = t + Cardinality(offering) + Cardinality(Pushing) + releasing + Cardinality(Releasing)
  BY <1>1 DEF SemaphoreAccounted
<1> DEFINE o == Cardinality(offering)
           p == Cardinality(Pushing)
           q == Cardinality(Releasing)
<1>3. /\ t \in {0, 1} /\ o \in Nat /\ p \in Nat /\ q \in Nat /\ releasing \in Nat /\ semaphore \in Nat
      /\ semaphore = t + o + p + releasing + q
      /\ IsFiniteSet(offering) /\ IsFiniteSet(Pushing) /\ IsFiniteSet(Releasing)
  BY <1>1, <1>2, Finite DEF DeliveryTypeOK
<1>4. PushLimit \in Nat
  BY PushDeliveryAssumption
<1>5. ASSUME UNCHANGED <<sender, semaphore, offering, releasing>>, Pushing' = Pushing, Releasing' = Releasing
      PROVE  SemaphoreAccounted'
  BY <1>1, <1>5 DEF SemaphoreAccounted
<1>6. ASSUME UNCHANGED <<sender, semaphore, offering, releasing, underway, handler>>
      PROVE  SemaphoreAccounted' /\ semaphore' <= PushLimit /\ OneGoroutinePerPush'
  <2>1. Pushing' = Pushing /\ Releasing' = Releasing
    BY <1>6 DEF Pushing, Releasing
  <2> QED BY <1>1, <1>5, <1>6, <2>1 DEF OneGoroutinePerPush
<1>7. ASSUME UNCHANGED <<receiver, registered>> PROVE NoLeakedClient'
  BY <1>1, <1>7 DEF NoLeakedClient
<1>8. ASSUME UNCHANGED <<sender, semaphore, offering, releasing, underway, handler, receiver, registered>>
      PROVE  Counted'
  BY <1>1, <1>6, <1>7, <1>8 DEF Counted, DeliveryTypeOK
<1>9. CASE CloseStop \/ ShutDown \/ UNCHANGED deliveryVars \/ \E c \in Conn : Enqueue(c) \/ Disconnect(c)
  BY <1>8, <1>9, Zenon DEF CloseStop, ShutDown, Enqueue, Disconnect, deliveryVars
<1>10. CASE CheckStop
  <2>1. sender = "top" /\ sender' \in {"returned", "acquire"}
    BY <1>10, Zenon DEF CheckStop
  <2>2. UNCHANGED <<semaphore, offering, releasing, underway, handler, receiver, registered>>
    BY <1>10, Zenon DEF CheckStop
  <2>3. t = 0
    BY <2>1
  <2>4. Pushing' = Pushing /\ Releasing' = Releasing
    BY <2>2 DEF Pushing, Releasing
  <2>5. SemaphoreAccounted'
    BY <1>2, <2>1, <2>2, <2>3, <2>4 DEF SemaphoreAccounted
  <2> QED BY <1>1, <1>7, <2>1, <2>2, <2>4, <2>5 DEF Counted, DeliveryTypeOK, OneGoroutinePerPush
<1>11. CASE Acquire
  <2>1. sender = "acquire" /\ sender' = "dequeue" /\ semaphore < PushLimit /\ semaphore' = semaphore + 1
    BY <1>11, Zenon DEF Acquire
  <2>2. UNCHANGED <<offering, releasing, underway, handler, receiver, registered>>
    BY <1>11, Zenon DEF Acquire
  <2>3. t = 0
    BY <2>1
  <2>4. Pushing' = Pushing /\ Releasing' = Releasing
    BY <2>2 DEF Pushing, Releasing
  <2>5. semaphore + 1 = 1 + o + p + releasing + q
    <3> HIDE DEF o, p, q
    <3> QED BY <1>3, <2>3
  <2>6. SemaphoreAccounted'
    BY <2>1, <2>2, <2>4, <2>5 DEF SemaphoreAccounted
  <2>7. semaphore + 1 \in Nat /\ semaphore + 1 <= PushLimit
    BY <1>3, <1>4, <2>1
  <2> QED BY <1>1, <1>7, <2>1, <2>2, <2>4, <2>6, <2>7 DEF Counted, DeliveryTypeOK, OneGoroutinePerPush
<1>12. CASE DequeueShutDown
  <2>1. sender = "dequeue" /\ sender' = "returned"
    BY <1>12, Zenon DEF DequeueShutDown
  <2>2. UNCHANGED <<semaphore, offering, releasing, underway, handler, receiver, registered>>
    BY <1>12, Zenon DEF DequeueShutDown
  <2>4. Pushing' = Pushing /\ Releasing' = Releasing
    BY <2>2 DEF Pushing, Releasing
  <2>5. SemaphoreAccounted'
    BY <1>2, <1>3, <2>1, <2>2, <2>4 DEF SemaphoreAccounted
  <2> QED BY <1>1, <1>7, <2>1, <2>2, <2>4, <2>5 DEF Counted, DeliveryTypeOK, OneGoroutinePerPush
<1>13. ASSUME NEW c \in Conn, Dequeue(c) PROVE Counted'
  <2>1. /\ sender = "dequeue" /\ sender' = "top" /\ c \notin underway
        /\ underway' = underway \union {c} /\ offering' = offering \union {c}
        /\ UNCHANGED <<semaphore, releasing, handler, receiver, registered>>
    BY <1>13 DEF Dequeue
  <2>2. Pushing' = Pushing /\ Releasing' = Releasing
    BY <2>1 DEF Pushing, Releasing
  <2>3. c \notin offering /\ c \notin Pushing
    BY <1>1, <2>1 DEF OneGoroutinePerPush
  <2>4. Cardinality(offering') = o + 1
    BY <1>3, <2>1, <2>3, FS_AddElement
  <2>5. t = 1
    BY <2>1
  <2>6. semaphore = 0 + (o + 1) + p + releasing + q
    <3> HIDE DEF o, p, q
    <3> QED BY <1>3, <2>5
  <2>7. SemaphoreAccounted'
    BY <2>1, <2>2, <2>4, <2>6 DEF SemaphoreAccounted
  <2>8. OneGoroutinePerPush'
    BY <1>1, <2>1, <2>2, <2>3 DEF OneGoroutinePerPush
  <2> QED BY <1>1, <1>7, <2>1, <2>7, <2>8 DEF Counted, DeliveryTypeOK
<1>14. ASSUME NEW c \in Conn, StreamClosed(c) PROVE Counted'
  <2>1. /\ c \in offering /\ offering' = offering \ {c} /\ underway' = underway \ {c}
        /\ releasing' = releasing + 1
        /\ UNCHANGED <<sender, semaphore, handler, receiver, registered>>
    BY <1>14 DEF StreamClosed
  <2>2. Pushing' = Pushing /\ Releasing' = Releasing
    BY <2>1 DEF Pushing, Releasing
  <2>3. Cardinality(offering') = o - 1
    BY <1>3, <2>1, FS_RemoveElement
  <2>4. semaphore = t + (o - 1) + p + (releasing + 1) + q
    <3> HIDE DEF o, p, q
    <3> QED BY <1>3
  <2>5. SemaphoreAccounted'
    BY <1>2, <2>1, <2>2, <2>3, <2>4 DEF SemaphoreAccounted
  <2>6. OneGoroutinePerPush'
    BY <1>1, <2>1, <2>2 DEF OneGoroutinePerPush
  <2> QED BY <1>1, <1>7, <2>1, <2>5, <2>6 DEF Counted, DeliveryTypeOK
<1>15. CASE ReleaseClosed
  <2>1. /\ releasing > 0 /\ releasing' = releasing - 1 /\ semaphore' = semaphore - 1
        /\ UNCHANGED <<sender, offering, underway, handler, receiver, registered>>
    BY <1>15 DEF ReleaseClosed
  <2>2. Pushing' = Pushing /\ Releasing' = Releasing
    BY <2>1 DEF Pushing, Releasing
  <2>3. /\ semaphore - 1 = t + o + p + (releasing - 1) + q
        /\ semaphore - 1 \in Nat /\ semaphore - 1 <= PushLimit /\ releasing - 1 \in Nat
    <3> HIDE DEF o, p, q
    <3> QED BY <1>1, <1>3, <1>4, <2>1
  <2>4. SemaphoreAccounted'
    BY <1>2, <2>1, <2>2, <2>3 DEF SemaphoreAccounted
  <2>5. OneGoroutinePerPush'
    BY <1>1, <2>1, <2>2 DEF OneGoroutinePerPush
  <2> QED BY <1>1, <1>7, <2>1, <2>3, <2>4, <2>5 DEF Counted, DeliveryTypeOK
<1>16. ASSUME NEW c \in Conn, Start(c) \/ Process(c) \/ ReturnError(c) \/ NoRequest(c) PROVE Counted'
  <2>1. /\ handler[c] \in {"waiting", "first", "second"}
        /\ Goto(c, "first") \/ Goto(c, "second") \/ Goto(c, "returned")
        /\ UNCHANGED <<sender, semaphore, offering, releasing, underway, receiver, registered>>
    BY <1>16, Zenon DEF Start, Process, ReturnError, NoRequest
  <2>2. c \notin Pushing /\ c \notin Releasing
    BY <2>1 DEF Pushing, Releasing
  <2>3. handler' \in [Conn -> Place] /\ Pushing' = Pushing /\ Releasing' = Releasing
    BY <1>1, <2>1, <2>2, MoveHandler DEF Place
  <2> QED BY <1>1, <1>5, <1>7, <2>1, <2>3 DEF Counted, DeliveryTypeOK, OneGoroutinePerPush
<1>17. ASSUME NEW c \in Conn, ReceivePush(c) PROVE Counted'
  <2>1. /\ handler[c] = "second" /\ c \in offering /\ offering' = offering \ {c} /\ Goto(c, "pushing")
        /\ UNCHANGED <<sender, semaphore, releasing, underway, receiver, registered>>
    BY <1>17, Zenon DEF ReceivePush
  <2>2. c \notin Pushing /\ c \notin Releasing
    BY <2>1 DEF Pushing, Releasing
  <2>3. handler' \in [Conn -> Place] /\ Pushing' = Pushing \union {c} /\ Releasing' = Releasing
    BY <1>1, <2>1, <2>2, MoveHandler DEF Place
  <2>4. Cardinality(offering') = o - 1 /\ Cardinality(Pushing') = p + 1
    BY <1>3, <2>1, <2>2, <2>3, FS_RemoveElement, FS_AddElement
  <2>5. semaphore = t + (o - 1) + (p + 1) + releasing + q
    <3> HIDE DEF o, p, q
    <3> QED BY <1>3
  <2>6. SemaphoreAccounted'
    BY <1>2, <2>1, <2>3, <2>4, <2>5 DEF SemaphoreAccounted
  <2>7. OneGoroutinePerPush'
    BY <1>1, <2>1, <2>3 DEF OneGoroutinePerPush
  <2> QED BY <1>1, <1>7, <2>1, <2>3, <2>6, <2>7 DEF Counted, DeliveryTypeOK
<1>18. ASSUME NEW c \in Conn, MarkDone(c) PROVE Counted'
  <2>1. /\ handler[c] = "pushing" /\ underway' = underway \ {c} /\ (Goto(c, "pushed") \/ Goto(c, "failed"))
        /\ UNCHANGED <<sender, semaphore, offering, releasing, receiver, registered>>
    BY <1>18, Zenon DEF MarkDone
  <2>2. c \in Pushing /\ c \notin Releasing /\ c \notin offering
    BY <1>1, <2>1 DEF Pushing, Releasing, OneGoroutinePerPush
  <2>3. handler' \in [Conn -> Place] /\ Pushing' = Pushing \ {c} /\ Releasing' = Releasing \union {c}
    BY <1>1, <2>1, MoveHandler DEF Place
  <2>4. Cardinality(Pushing') = p - 1 /\ Cardinality(Releasing') = q + 1
    BY <1>3, <2>2, <2>3, FS_RemoveElement, FS_AddElement
  <2>5. semaphore = t + o + (p - 1) + releasing + (q + 1)
    <3> HIDE DEF o, p, q
    <3> QED BY <1>3
  <2>6. SemaphoreAccounted'
    BY <1>2, <2>1, <2>4, <2>5 DEF SemaphoreAccounted
  <2>7. OneGoroutinePerPush'
    BY <1>1, <2>1, <2>2, <2>3 DEF OneGoroutinePerPush
  <2> QED BY <1>1, <1>7, <2>1, <2>3, <2>6, <2>7 DEF Counted, DeliveryTypeOK
<1>19. ASSUME NEW c \in Conn, Release(c) PROVE Counted'
  <2>1. /\ handler[c] \in {"pushed", "failed"} /\ semaphore' = semaphore - 1
        /\ Goto(c, "first") \/ Goto(c, "returned")
        /\ UNCHANGED <<sender, offering, releasing, underway, receiver, registered>>
    BY <1>19, Zenon DEF Release
  <2>2. c \notin Pushing /\ c \in Releasing
    BY <2>1 DEF Pushing, Releasing
  <2>3. handler' \in [Conn -> Place] /\ Pushing' = Pushing /\ Releasing' = Releasing \ {c}
    BY <1>1, <2>1, <2>2, MoveHandler DEF Place
  <2>4. Cardinality(Releasing') = q - 1 /\ q # 0
    BY <1>3, <2>2, <2>3, FS_RemoveElement, FS_EmptySet
  <2>5. /\ semaphore - 1 = t + o + p + releasing + (q - 1)
        /\ semaphore - 1 \in Nat /\ semaphore - 1 <= PushLimit
    <3> HIDE DEF o, p, q
    <3> QED BY <1>1, <1>3, <1>4, <2>4
  <2>6. SemaphoreAccounted'
    BY <1>2, <2>1, <2>3, <2>4, <2>5 DEF SemaphoreAccounted
  <2> QED BY <1>1, <1>7, <2>1, <2>3, <2>5, <2>6 DEF Counted, DeliveryTypeOK, OneGoroutinePerPush
<1>20. ASSUME NEW c \in Conn, Receive(c) \/ ReceiveFails(c) \/ ReceiverStep(c) PROVE Counted'
  <2> DEFINE Gone == {"closed", "half", "ending", "ended"}
  <2>1. UNCHANGED <<sender, semaphore, offering, releasing, underway, handler>>
    BY <1>20, Zenon DEF Receive, ReceiveFails, ReceiverStep, InitializeFails, AddCon, MarkInitialized, HandOver,
       HandOverAborted, CloseConnection, CloseFirst, CloseSecond, CloseInitialized
  <2>2. ASSUME NEW from \in Stage \ Gone, NEW to \in Stage \ Gone, ReceiverAt(c, from, to),
               registered' \in {registered, registered \union {c}}
        PROVE  Counted'
    <3>1. /\ receiver[c] = from /\ receiver' \in [Conn -> Stage]
          /\ receiver'[c] = to /\ \A d \in Conn \ {c} : receiver'[d] = receiver[d]
      BY <1>1, <2>2, MoveReceiver
    <3>2. NoLeakedClient'
      BY <1>1, <2>2, <3>1 DEF NoLeakedClient
    <3> QED BY <1>1, <1>6, <2>1, <2>2, <3>1, <3>2 DEF Counted, DeliveryTypeOK
  <2>3. ASSUME NEW from \in Stage, NEW to \in Gone, ReceiverAt(c, from, to),
               \/ registered' = registered \ {c}
               \/ from \in Gone /\ registered' = registered
        PROVE  Counted'
    <3>1. /\ receiver[c] = from /\ receiver' \in [Conn -> Stage]
          /\ receiver'[c] = to /\ \A d \in Conn \ {c} : receiver'[d] = receiver[d]
      BY <1>1, <2>3, MoveReceiver DEF Stage
    <3>2. NoLeakedClient'
      BY <1>1, <2>3, <3>1 DEF NoLeakedClient
    <3> QED BY <1>1, <1>6, <2>1, <2>3, <3>1, <3>2 DEF Counted, DeliveryTypeOK
  <2>4. CASE Receive(c)
    BY <2>2, <2>4 DEF Receive, Stage
  <2>5. CASE ReceiveFails(c) \/ InitializeFails(c) \/ AddCon(c) \/ MarkInitialized(c) \/ HandOver(c) \/ HandOverAborted(c)
    BY <2>2, <2>5 DEF ReceiveFails, InitializeFails, AddCon, MarkInitialized, HandOver, HandOverAborted, Stage
  <2>6. CASE CloseConnection(c) \/ CloseFirst(c) \/ CloseSecond(c) \/ CloseInitialized(c)
    BY <2>3, <2>6 DEF CloseConnection, CloseFirst, CloseSecond, CloseInitialized, Stage
  <2> QED BY <1>20, <2>4, <2>5, <2>6 DEF ReceiverStep
<1> QED
  BY <1>9, <1>10, <1>11, <1>12, <1>13, <1>14, <1>15, <1>16, <1>17, <1>18, <1>19, <1>20
     DEF DeliveryNext, SenderStep, HandlerStep

\* Every token taken from concurrentPushLimit is held by doSendPushes, by one
\* push that is offered or under way, or is about to be given back; the queue
\* marks exactly the connections with a goroutine; at most DUBBO_PUSH_THROTTLE
\* pushes are under way; and no ended stream is among adsClients - wherever
\* streams end, pushes fail and the server stops.
THEOREM AccountsHold == DeliverySpec => []PushesAccounted
<1>1. DeliveryInit => Counted
  <2> SUFFICES ASSUME DeliveryInit PROVE Counted
    OBVIOUS
  <2>1. DeliveryTypeOK /\ Pushing = {} /\ Releasing = {} /\ offering = {} /\ underway = {}
    BY DEF DeliveryInit, DeliveryTypeOK, Place, Stage, Pushing, Releasing
  <2>2. SemaphoreAccounted
    BY <2>1, FS_EmptySet DEF DeliveryInit, SemaphoreAccounted
  <2> QED BY <2>1, <2>2, PushDeliveryAssumption DEF DeliveryInit, Counted, OneGoroutinePerPush, NoLeakedClient
<1>2. Counted => PushesAccounted
  <2> SUFFICES ASSUME Counted PROVE PushesLimited
    BY DEF Counted, PushesAccounted
  <2> DEFINE o == Cardinality(offering)
             p == Cardinality(Pushing)
             q == Cardinality(Releasing)
  <2>1. PICK t \in {0, 1} : semaphore = t + o + p + releasing + q
    BY DEF Counted, SemaphoreAccounted
  <2>2. /\ IsFiniteSet(offering) /\ IsFiniteSet(Pushing)
        /\ o \in Nat /\ p \in Nat /\ q \in Nat /\ releasing \in Nat
    BY Finite DEF Counted, DeliveryTypeOK
  <2>3. Cardinality(underway) = o + p - Cardinality({})
    BY <2>2, FS_Union DEF Counted, OneGoroutinePerPush
  <2>4. Cardinality(underway) = o + p
    BY <2>2, <2>3, FS_EmptySet
  <2>5. semaphore <= PushLimit /\ PushLimit \in Nat
    BY PushDeliveryAssumption DEF Counted
  <2>6. o + p <= PushLimit
    <3> HIDE DEF o, p, q
    <3> QED BY <2>1, <2>2, <2>5
  <2> QED BY <2>4, <2>6 DEF PushesLimited
<1> QED BY <1>1, <1>2, CountedInductive, PTL DEF DeliverySpec
=============================================================================
