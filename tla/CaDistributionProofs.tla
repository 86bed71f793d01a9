------------------------ MODULE CaDistributionProofs ------------------------
(***************************************************************************)
(* When nothing is left to do, every object carries the current CA bundle. *)
(*                                                                         *)
(* The argument is one of debts: an object that should carry the current   *)
(* bundle and does not is owed something that will bring its key back to   *)
(* the reconciler (Owed).  The queue loses no key (QueueKeeps), the cache  *)
(* is what the API server has unless an event is on its way (CacheFollows), *)
(* and a write that will be refused has an event behind it (Overtaken).    *)
(***************************************************************************)
EXTENDS CaDistribution, FiniteSetTheorems, TLAPS

\* Zenon does the leaves; those about arithmetic, sequences or records cite SMT.
USE Zenon

KeysOf(n) == {<<"object", n>>, <<"other", n>>, <<"namespace", n>>}

\* The types of what the controllers, the cluster and the queue hold.
Typed ==
  /\ setup \in Setups /\ bundle \in 0 .. MaxBundle /\ version \in Nat /\ refusals \in Nat
  /\ token \in BOOLEAN /\ watching \in BOOLEAN
  /\ object \in [Name -> CaObject \cup {none}] /\ cache \in [Name -> CaObject \cup {none}]
  /\ namespace \subseteq Name /\ known \subseteq Name /\ gaveUp \subseteq Name
  /\ pending \subseteq Name /\ nsPending \subseteq Name
  /\ hand \in Hand \cup {none}
  /\ hand # none => worker \in KeysOf(hand.name)
  /\ hand # none /\ ~Namespaces => hand.version # 0

\* The queue loses no key: one that is to be processed waits in the sequence,
\* or is with the worker, who will put it back.  Nobody shuts the queue down.
QueueKeeps ==
  /\ ready \in Seq(Key \cup {SyncSignal}) /\ dirty \subseteq Key \cup {SyncSignal}
  /\ backoff \subseteq Key /\ requeues \in [Key -> Nat]
  /\ worker \in Key \cup {SyncSignal, NoKey} /\ ~shutDown
  /\ \A k \in Key : k \in processing <=> worker = k
  /\ \A k \in Key : k \in dirty /\ worker # k => \E i \in 1 .. Len(ready) : ready[i] = k
  /\ ~Namespaces => \A k \in Key : requeues[k] <= MaxRequeues \/ k \in backoff

\* Without an event on its way the cache is what the API server has, but for
\* the bundle a mutating configuration was given in the cache and which the
\* write under way takes to the API server.
Patched(n) ==
  /\ setup.controller = "mutating" /\ object[n] # none /\ cache[n] # none
  /\ cache[n].mine = object[n].mine
  /\ hand # none /\ hand.name = n /\ hand.version = object[n].version

CacheFollows ==
  /\ \A n \in Name \ pending : cache[n] = object[n] \/ Patched(n)
  /\ Namespaces => \A n \in Name \ nsPending : n \in known <=> n \in namespace

\* A write that will be refused has an event behind it.
Overtaken ==
  hand # none /\ Conflict(object[hand.name], hand.version) =>
    hand.name \in pending \/ <<"object", hand.name>> \in dirty

Due(n) ==
  \/ token \/ n \in pending \/ n \in nsPending
  \/ \E k \in KeysOf(n) : k \in dirty \/ k \in backoff \/ worker = k

\* An object without the bundle it should have is owed a reconciliation, or
\* its last write was refused for good.
Settled(n) == UpToDate(n) \/ Due(n) \/ n \in gaveUp
Owed == ~early => \A n \in Name : Wanted(n) => Settled(n)

Inv == Typed /\ QueueKeeps /\ CacheFollows /\ Overtaken /\ Owed

-----------------------------------------------------------------------------
(* The queue. *)

\* AddKey marks a key and loses none.
LEMMA KeyAdded ==
  ASSUME Configured, QueueKeeps, NEW k \in Key \cup {SyncSignal}, Q!AddKey(k),
         UNCHANGED <<processing, requeues, worker, shutDown, setup>>,
         backoff' \subseteq Key,
         ~Namespaces => \A x \in Key : requeues[x] <= MaxRequeues \/ x \in backoff'
  PROVE  QueueKeeps' /\ dirty' = dirty \cup {k}
<1>1. CASE k \in dirty
  BY <1>1 DEF QueueKeeps, Q!AddKey, Namespaces
<1>2. CASE k \notin dirty /\ k \in processing
  BY <1>2 DEF QueueKeeps, Q!AddKey, Namespaces
<1>3. CASE k \notin dirty /\ k \notin processing
  <2>1. dirty' = dirty \cup {k} /\ ready' = Append(ready, k) /\ ready \in Seq(Key \cup {SyncSignal})
    BY <1>3 DEF QueueKeeps, Q!AddKey
  <2>2. /\ ready' \in Seq(Key \cup {SyncSignal}) /\ Len(ready') = Len(ready) + 1
        /\ ready'[Len(ready) + 1] = k /\ \A i \in 1 .. Len(ready) : ready'[i] = ready[i]
    BY <2>1, SMT
  <2>3. \A x \in Key : x \in dirty' /\ worker' # x => \E i \in 1 .. Len(ready') : ready'[i] = x
    <3> SUFFICES ASSUME NEW x \in Key, x \in dirty', worker' # x
                 PROVE  \E i \in 1 .. Len(ready') : ready'[i] = x
      OBVIOUS
    <3>0. Len(ready) \in Nat
      BY <2>1, SMT
    <3>1. CASE x = k
      BY <3>0, <3>1, <2>2, SMT
    <3>2. CASE x # k
      <4>1. PICK i \in 1 .. Len(ready) : ready[i] = x
        BY <3>2, <2>1 DEF QueueKeeps
      <4> QED BY <4>1, <3>0, <2>2, SMT
    <3> QED BY <3>1, <3>2
  <2> QED BY <2>1, <2>2, <2>3 DEF QueueKeeps, Namespaces
<1> QED BY <1>1, <1>2, <1>3

\* So does AddAll, for a set of keys.
LEMMA KeysAdded ==
  ASSUME Configured, QueueKeeps, NEW ks \in SUBSET Key, Q!AddAll(ks),
         UNCHANGED <<processing, requeues, backoff, worker, shutDown, setup>>
  PROVE  QueueKeeps' /\ dirty' = dirty \cup ks
<1> DEFINE new == ks \ dirty
           free == new \ processing
<1>1. PICK l \in Q!Bijection(1 .. Q!Cardinality(free), free) : ready' = ready \o l
  BY DEF QueueKeeps, Q!AddAll
<1>2. dirty' = dirty \cup new
  BY DEF QueueKeeps, Q!AddAll
<1>3. /\ Len(l) \in Nat /\ l \in Seq(free)
      /\ \A x \in free : \E i \in 1 .. Len(l) : l[i] = x
  <2>1. IsFiniteSet({"object"})
    BY FS_Singleton
  <2>2. IsFiniteSet({"object"} \cup {"other"})
    BY <2>1, FS_AddElement
  <2>3. IsFiniteSet(({"object"} \cup {"other"}) \cup {"namespace"})
    BY <2>2, FS_AddElement
  <2>10. IsFiniteSet((({"object"} \cup {"other"}) \cup {"namespace"}) \X Name)
    BY <2>3, FS_Product DEF Configured
  <2>4. Key = (({"object"} \cup {"other"}) \cup {"namespace"}) \X Name
    BY DEF Key
  <2>5. IsFiniteSet(free)
    BY <2>10, <2>4, FS_Subset
  <2>6. Q!Cardinality(free) = Cardinality(free)
    BY DEF Q!Cardinality, Cardinality, Q!IsFiniteSet, IsFiniteSet
  <2>7. PICK m \in Nat : m = Q!Cardinality(free)
    BY <2>5, <2>6, FS_CardinalityType
  <2> HIDE DEF free
  <2>8. /\ l \in [1 .. m -> free]
        /\ \A x \in free : \E i \in 1 .. m : l[i] = x
    BY <1>1, <2>7 DEF Q!Bijection, Q!Surjection
  <2>9. l \in Seq(free) /\ Len(l) = m
    BY <2>8, SMT
  <2> QED BY <2>8, <2>9
<1> HIDE DEF free
<1>4. l \in Seq(Key \cup {SyncSignal}) /\ ready \in Seq(Key \cup {SyncSignal})
  BY <1>3, SMT DEF QueueKeeps, free
<1>5. /\ ready' \in Seq(Key \cup {SyncSignal}) /\ Len(ready') = Len(ready) + Len(l)
      /\ Len(l) \in Nat /\ Len(ready) \in Nat
      /\ \A i \in 1 .. Len(ready) : ready'[i] = ready[i]
      /\ \A i \in 1 .. Len(l) : ready'[Len(ready) + i] = l[i]
  BY <1>1, <1>4, SMT
<1>6. \A x \in Key : x \in dirty' /\ worker' # x => \E i \in 1 .. Len(ready') : ready'[i] = x
  <2> SUFFICES ASSUME NEW x \in Key, x \in dirty', worker' # x
               PROVE  \E i \in 1 .. Len(ready') : ready'[i] = x
    OBVIOUS
  <2>1. CASE x \in dirty
    <3>1. PICK i \in 1 .. Len(ready) : ready[i] = x
      BY <2>1 DEF QueueKeeps
    <3> QED BY <3>1, <1>5, SMT
  <2>2. CASE x \notin dirty
    <3>1. x \in free
      BY <2>2, <1>2 DEF QueueKeeps, free
    <3>2. PICK i \in 1 .. Len(l) : l[i] = x
      BY <3>1, <1>3
    <3>3. Len(ready) + i \in 1 .. Len(ready') /\ ready'[Len(ready) + i] = x
      BY <3>2, <1>5, SMT
    <3> QED BY <3>3
  <2> QED BY <2>1, <2>2
<1>7. dirty' = dirty \cup ks
  BY <1>2
<1> QED BY <1>5, <1>6, <1>7 DEF QueueKeeps, Namespaces

\* The end of a reconciliation: its key waits again if it was added meanwhile,
\* and one that failed is in its back-off, or this was the last try.
LEMMA KeyDone ==
  ASSUME Configured, Typed, QueueKeeps, NEW n \in Name, NEW ok \in BOOLEAN, NEW r \in Nat,
         worker \in KeysOf(n), EndWork(ok, r), UNCHANGED setup
  PROVE  /\ QueueKeeps' /\ worker' = NoKey /\ dirty' = dirty /\ backoff \subseteq backoff'
         /\ hand' = none /\ refusals' \in Nat
         /\ ok \/ worker \in backoff' \/ LastTry
<1>1. worker \in Key /\ worker # NoKey /\ worker # SyncSignal /\ NoKey \notin Key
  BY SMT DEF KeysOf, Key, Configured
<1>2. /\ dirty' = dirty /\ shutDown' = shutDown /\ worker' = NoKey
      /\ processing' = processing \ {worker}
      /\ ready' = IF worker \in dirty THEN Append(ready, worker) ELSE ready
  BY DEF EndWork, QN!Process, Q!Process, QN!Done, Q!Done
<1>3. /\ hand' = none /\ refusals' \in Nat
  <2>1. hand' = none /\ (refusals' = r \/ refusals' = r + 1)
    BY DEF EndWork
  <2> QED BY <2>1, SMT
<1>4. /\ ready' \in Seq(Key \cup {SyncSignal})
      /\ \A k \in Key : k \in dirty' /\ worker' # k => \E i \in 1 .. Len(ready') : ready'[i] = k
  <2>0. ready \in Seq(Key \cup {SyncSignal}) /\ Len(ready) \in Nat
    BY SMT DEF QueueKeeps
  <2>1. CASE worker \notin dirty
    <3>1. ready' = ready
      BY <2>1, <1>2
    <3> QED BY <2>0, <2>1, <3>1, <1>2 DEF QueueKeeps
  <2>2. CASE worker \in dirty
    <3>1. /\ ready' \in Seq(Key \cup {SyncSignal}) /\ Len(ready') = Len(ready) + 1
          /\ ready'[Len(ready) + 1] = worker /\ \A i \in 1 .. Len(ready) : ready'[i] = ready[i]
      BY <2>0, <2>2, <1>1, <1>2, SMT
    <3>2. ASSUME NEW k \in Key, k \in dirty
          PROVE  \E i \in 1 .. Len(ready') : ready'[i] = k
      <4>1. CASE k = worker
        BY <4>1, <3>1, <2>0, SMT
      <4>2. CASE k # worker
        <5>1. PICK i \in 1 .. Len(ready) : ready[i] = k
          BY <4>2, <3>2 DEF QueueKeeps
        <5> QED BY <5>1, <3>1, <2>0, SMT
      <4> QED BY <4>1, <4>2
    <3> QED BY <3>1, <3>2, <1>2
  <2> QED BY <2>1, <2>2
<1>5. \A k \in Key : k \in processing' <=> worker' = k
  BY <1>1, <1>2 DEF QueueKeeps
<1>6. /\ backoff' \subseteq Key /\ backoff \subseteq backoff' /\ requeues' \in [Key -> Nat]
      /\ ok \/ worker \in backoff' \/ LastTry
      /\ ~Namespaces => \A k \in Key : requeues'[k] <= MaxRequeues \/ k \in backoff'
  <2>0. requeues[worker] \in Nat /\ requeues \in [Key -> Nat] /\ backoff \subseteq Key
    BY <1>1 DEF QueueKeeps
  <2>1. CASE Namespaces
    <3>0. PICK p \in BOOLEAN : QN!Process(p) /\ (p => ok)
      BY <2>1 DEF EndWork
    <3>1. CASE ~p /\ requeues[worker] + 1 < maxRetries
      BY <2>0, <2>1, <3>0, <3>1, <1>1, SMT DEF QN!Process
    <3>2. CASE ~(~p /\ requeues[worker] + 1 < maxRetries)
      <4>1. ok \/ LastTry
        BY <2>0, <2>1, <3>0, <3>2, SMT DEF LastTry, Configured
      <4> QED BY <2>0, <2>1, <3>0, <3>2, <4>1, <1>1, SMT DEF QN!Process
    <3> QED BY <3>1, <3>2
  <2>2. CASE ~Namespaces
    <3>0. Q!Process(ok)
      BY <2>2 DEF EndWork
    <3>1. CASE ~ok /\ requeues[worker] + 1 < MaxRequeues + 2
      BY <2>0, <2>2, <3>0, <3>1, <1>1, SMT DEF Q!Process, QueueKeeps
    <3>2. CASE ~(~ok /\ requeues[worker] + 1 < MaxRequeues + 2)
      <4>1. backoff' = backoff /\ requeues' = [requeues EXCEPT ![worker] = 0]
        BY <3>0, <3>2 DEF Q!Process
      <4>2. ok \/ worker \in backoff
        BY <2>0, <2>2, <3>2, <1>1, SMT DEF QueueKeeps, Configured
      <4>3. \A k \in Key : requeues'[k] <= MaxRequeues \/ k \in backoff'
        BY <2>0, <2>2, <4>1, SMT DEF QueueKeeps, Configured
      <4> QED BY <2>0, <2>2, <4>1, <4>2, <4>3
    <3> QED BY <3>1, <3>2
  <2> QED BY <2>1, <2>2
<1> QED
  BY <1>1, <1>2, <1>3, <1>4, <1>5, <1>6 DEF QueueKeeps, Namespaces

\* A write that ends well clears its name, and one that was refused for good
\* marks it; other names keep their marks.
LEMMA NameDone ==
  ASSUME Configured, Typed, QueueKeeps, NEW n \in Name, NEW ok \in BOOLEAN,
         worker \in KeysOf(n), Done(n, ok) \/ WriteFails(n, ok), UNCHANGED setup
  PROVE  /\ QueueKeeps' /\ worker' = NoKey /\ dirty' = dirty /\ backoff \subseteq backoff'
         /\ hand' = none /\ refusals' \in Nat
         /\ gaveUp' \subseteq gaveUp \cup {n} /\ gaveUp \ {n} \subseteq gaveUp'
         /\ ok \/ worker \in backoff' \/ LastTry
<1>1. refusals \in Nat /\ refusals + 1 \in Nat
  BY SMT DEF Typed
<1>2. gaveUp' \subseteq gaveUp \cup {n} /\ gaveUp \ {n} \subseteq gaveUp'
  BY DEF Done, WriteFails, GivesUp
<1>3. CASE Done(n, ok)
  BY <1>1, <1>2, <1>3, KeyDone DEF Done
<1>4. CASE WriteFails(n, ok)
  BY <1>1, <1>2, <1>4, KeyDone DEF WriteFails
<1> QED BY <1>3, <1>4

-----------------------------------------------------------------------------
(* The worker. *)

\* A reconciliation that ends well without a write found the object in the
\* cache as it should be.
EndsWell(n, ok) ==
  /\ Done(n, ok) /\ cache' = cache
  /\ (ok \/ Namespaces) /\ Wanted(n) /\ n \notin pending => UpToDate(n)

\* A write starts from what is in the cache.
WriteStarts(n) ==
  /\ hand' = [name |-> n, ca |-> bundle, version |-> IF cache[n] = none THEN 0 ELSE cache[n].version]
  /\ ~Namespaces => cache[n] # none
  /\ \/ cache' = cache
     \/ /\ setup.controller = "mutating" /\ cache[n] # none
        /\ cache' = [cache EXCEPT ![n].ca = bundle]
  /\ QueueKeeps' /\ dirty \subseteq dirty'
  /\ UNCHANGED <<gaveUp, refusals, backoff, worker>>

\* The keys syncAll queues.
LEMMA SyncAllKeys ==
  ASSUME Configured, Typed
  PROVE  syncAll \in SUBSET Key
BY SMT DEF syncAll, Key, Typed

\* The key of the worker is that of one name.
LEMMA WorkerKey ==
  ASSUME QueueKeeps, Working
  PROVE  /\ worker[2] \in Name /\ worker \in KeysOf(worker[2]) /\ hand = none
BY SMT DEF Working, KeysOf, Key

\* Each of the three reconcilers does one or the other.
LEMMA Reconciled ==
  ASSUME Configured, Typed, QueueKeeps, CacheFollows,
         reconcileCACertAndCRL \/ patchMutatingWebhookConfig \/ Reconcile
  PROVE  /\ worker[2] \in Name /\ worker \in KeysOf(worker[2]) /\ hand = none
         /\ UNCHANGED <<setup, watcherVars, apiVars, known, changes>>
         /\ (\E ok \in BOOLEAN : EndsWell(worker[2], ok)) \/ WriteStarts(worker[2])
<1>0. Working
  BY DEF reconcileCACertAndCRL, patchMutatingWebhookConfig, Reconcile
<1>1. worker[2] \in Name /\ worker \in KeysOf(worker[2]) /\ hand = none
  BY <1>0, WorkerKey
<1>2. UNCHANGED <<setup, watcherVars, apiVars, known, changes>>
  BY DEF reconcileCACertAndCRL, patchMutatingWebhookConfig, Reconcile
<1> DEFINE n == worker[2]
<1>3. n \notin pending => cache[n] = object[n]
  BY <1>1 DEF CacheFollows, Patched
<1>4. ASSUME queueVars' = queueVars
      PROVE  QueueKeeps' /\ dirty \subseteq dirty' /\ backoff' = backoff /\ worker' = worker
  BY <1>2, <1>4, SMT DEF QueueKeeps, Namespaces, queueVars
<1>5. CASE reconcileCACertAndCRL
  <2>1. Namespaces /\ cache' = cache
    BY <1>5 DEF reconcileCACertAndCRL
  <2>2. CASE cache[n] # none /\ (IF cache[n] = none THEN FALSE ELSE cache[n].ca = bundle)
    <3>1. Done(n, TRUE)
      BY <1>5, <2>2 DEF reconcileCACertAndCRL
    <3>2. n \notin pending => UpToDate(n)
      BY <1>3, <2>1, <2>2 DEF UpToDate, Namespaces
    <3> QED BY <1>1, <1>2, <2>1, <3>1, <3>2 DEF EndsWell
  <2>3. CASE ~(cache[n] # none /\ (IF cache[n] = none THEN FALSE ELSE cache[n].ca = bundle))
    <3>1. StartWrite(n, cache[n])
      BY <1>5, <2>3 DEF reconcileCACertAndCRL
    <3> QED BY <1>1, <1>2, <1>4, <2>1, <3>1 DEF WriteStarts, StartWrite
  <2> QED BY <2>2, <2>3
<1>6. CASE patchMutatingWebhookConfig
  <2>1. setup.controller = "mutating" /\ ~Namespaces
    BY <1>6 DEF patchMutatingWebhookConfig, Namespaces
  <2>2. CASE cache[n] = none
    <3>1. Done(n, TRUE) /\ cache' = cache
      BY <1>6, <2>2 DEF patchMutatingWebhookConfig
    <3>2. n \notin pending => ~Wanted(n)
      BY <1>3, <2>1, <2>2 DEF Wanted
    <3> QED BY <1>1, <1>2, <3>1, <3>2 DEF EndsWell
  <2>3. CASE cache[n] # none /\ ~cache[n].mine
    <3>1. Done(n, TRUE) /\ cache' = cache
      BY <1>6, <2>3 DEF patchMutatingWebhookConfig
    <3>2. n \notin pending => ~Wanted(n)
      BY <1>3, <2>1, <2>3 DEF Wanted
    <3> QED BY <1>1, <1>2, <3>1, <3>2 DEF EndsWell
  <2>4. CASE cache[n] # none /\ cache[n].mine /\ bundle = 0
    <3>1. Done(n, FALSE) /\ cache' = cache
      BY <1>6, <2>4 DEF patchMutatingWebhookConfig
    <3> QED BY <1>1, <1>2, <2>1, <3>1 DEF EndsWell
  <2>5. CASE cache[n] # none /\ cache[n].mine /\ bundle # 0 /\ cache[n].ca = bundle
    <3>0. cache[n] \in CaObject /\ cache \in [Name -> CaObject \cup {none}]
      BY <1>1, <2>5 DEF Typed
    <3>1. Done(n, TRUE) /\ cache' = [cache EXCEPT ![n].ca = bundle]
      BY <1>6, <2>5 DEF patchMutatingWebhookConfig
    <3>2. cache' = cache
      BY <3>0, <3>1, <2>5 DEF CaObject
    <3>3. n \notin pending => UpToDate(n)
      BY <1>3, <2>1, <2>5 DEF UpToDate
    <3> QED BY <1>1, <1>2, <3>1, <3>2, <3>3 DEF EndsWell
  <2>6. CASE cache[n] # none /\ cache[n].mine /\ bundle # 0 /\ cache[n].ca # bundle
    <3>1. StartWrite(n, cache[n]) /\ cache' = [cache EXCEPT ![n].ca = bundle]
      BY <1>6, <2>6 DEF patchMutatingWebhookConfig
    <3> QED BY <1>1, <1>2, <1>4, <2>1, <2>6, <3>1 DEF WriteStarts, StartWrite
  <2> QED BY <2>2, <2>3, <2>4, <2>5, <2>6
<1>7. CASE Reconcile
  <2>1. setup.controller = "validating" /\ ~Namespaces /\ cache' = cache
    BY <1>7 DEF Reconcile, Namespaces
  <2>2. CASE cache[n] = none \/ bundle = 0
    <3>1. Done(n, TRUE)
      BY <1>7, <2>2 DEF Reconcile
    <3>2. n \notin pending => ~Wanted(n)
      BY <1>3, <2>1, <2>2, ZenonT(60) DEF Wanted
    <3> QED BY <1>1, <1>2, <2>1, <3>1, <3>2 DEF EndsWell
  <2>3. CASE cache[n] # none /\ bundle # 0 /\ ~cache[n].mine
    <3>1. Done(n, TRUE)
      BY <1>7, <2>3 DEF Reconcile
    <3>2. n \notin pending => ~Wanted(n)
      BY <1>3, <2>1, <2>3 DEF Wanted
    <3> QED BY <1>1, <1>2, <2>1, <3>1, <3>2 DEF EndsWell
  <2>4. CASE cache[n] # none /\ bundle # 0 /\ cache[n].mine
    <3>1. updateValidatingWebhookConfiguration(n, cache[n])
      BY <1>7, <2>4 DEF Reconcile
    <3>2. CASE cache[n].ca = bundle /\ ~cache[n].ignore
      <4>1. Done(n, TRUE)
        BY <3>1, <3>2 DEF updateValidatingWebhookConfiguration, caBundleUpdateRequired, failurePolicyIsIgnore
      <4>2. n \notin pending => UpToDate(n)
        BY <1>3, <2>4, <3>2 DEF UpToDate
      <4> QED BY <1>1, <1>2, <2>1, <4>1, <4>2 DEF EndsWell
    <3>3. CASE cache[n].ca # bundle /\ ~cache[n].ignore
      <4>1. StartWrite(n, cache[n])
        BY <3>1, <3>3 DEF updateValidatingWebhookConfiguration, caBundleUpdateRequired, failurePolicyIsIgnore
      <4> QED BY <1>1, <1>2, <1>4, <2>1, <2>4, <4>1 DEF WriteStarts, StartWrite
    <3>4. CASE cache[n].ignore
      <4>1. /\ hand' = [name |-> n, ca |-> bundle, version |-> cache[n].version]
            /\ Q!AddAll(syncAll)
            /\ UNCHANGED <<gaveUp, refusals, processing, requeues, backoff, worker, shutDown>>
        BY <3>1, <3>4 DEF updateValidatingWebhookConfiguration, failurePolicyIsIgnore
      <4>2. QueueKeeps' /\ dirty' = dirty \cup syncAll
        BY <1>2, <4>1, SyncAllKeys, KeysAdded
      <4> QED BY <1>1, <1>2, <2>1, <2>4, <4>1, <4>2 DEF WriteStarts
    <3> QED BY <3>2, <3>3, <3>4 DEF Typed, CaObject
  <2> QED BY <2>2, <2>3, <2>4
<1> QED BY <1>5, <1>6, <1>7

\* A write that is refused leaves the cluster alone.  It met a namespace that
\* is gone, or another version of the object.
WriteRefused(n) ==
  /\ \E ok \in BOOLEAN : Done(n, ok)
  /\ (Namespaces /\ n \notin namespace) \/ Conflict(object[n], hand.version)
  /\ UNCHANGED apiVars

\* One that succeeds makes an event.
WriteSucceeds(n) ==
  /\ Done(n, TRUE)
  /\ \E o \in CaObject : object' = [object EXCEPT ![n] = o]
  /\ pending' = pending \cup {n} /\ version' \in Nat
  /\ UNCHANGED <<namespace, nsPending>>

\* What WriteObject does: it is refused, or it makes the object and its event.
LEMMA Written ==
  ASSUME Configured, Typed, QueueKeeps, WriteObject
  PROVE  /\ hand # none /\ hand.name \in Name /\ worker \in KeysOf(hand.name)
         /\ UNCHANGED <<setup, watcherVars, cache, known, changes>>
         /\ WriteRefused(hand.name) \/ WriteSucceeds(hand.name)
<1>1. hand # none /\ UNCHANGED <<setup, watcherVars, cache, known, changes>>
  BY DEF WriteObject
<1>2. hand \in Hand /\ hand.name \in Name /\ hand.ca \in 0 .. MaxBundle /\ worker \in KeysOf(hand.name)
  BY <1>1 DEF Typed, Hand
<1> DEFINE n == hand.name
           missing == hand.version = 0 /\ n \notin namespace
           forgiven == hand.version = 0 \/ (setup.controller = "mutating" /\ object[n] = none)
<1>3. CASE missing \/ Conflict(object[n], hand.version)
  <2>1. Done(n, forgiven) /\ UNCHANGED apiVars
    BY <1>3 DEF WriteObject
  <2>2. forgiven \in BOOLEAN
    OBVIOUS
  <2>3. missing => Namespaces /\ n \notin namespace
    BY <1>1 DEF Typed
  <2>4. \E ok \in BOOLEAN : Done(n, ok)
    BY <2>1, <2>2
  <2> QED BY <1>1, <1>2, <1>3, <2>1, <2>3, <2>4 DEF WriteRefused
<1>4. CASE ~(missing \/ Conflict(object[n], hand.version))
  <2> DEFINE o == [ca |-> hand.ca, version |-> version + 1, ignore |-> FALSE,
                   mine |-> IF object[n] = none THEN TRUE ELSE object[n].mine]
  <2>1. /\ version' = version + 1 /\ SetObject(n, o) /\ Done(n, TRUE)
        /\ UNCHANGED <<namespace, nsPending>>
    BY <1>4 DEF WriteObject
  <2>2. version \in Nat /\ (object[n] # none => object[n].mine \in BOOLEAN)
    BY <1>2 DEF Typed, CaObject
  <2>3. PICK b \in BOOLEAN : b = IF object[n] = none THEN TRUE ELSE object[n].mine
    BY <2>2
  <2>4. o = [ca |-> hand.ca, version |-> version + 1, ignore |-> FALSE, mine |-> b]
    BY <2>3
  <2> HIDE DEF o
  <2>5. o \in CaObject /\ version + 1 \in Nat
    BY <1>2, <2>2, <2>4, SMT DEF CaObject
  <2> QED BY <1>1, <1>2, <2>1, <2>5 DEF WriteSucceeds, SetObject
<1> QED BY <1>3, <1>4

\* The API server does not take a call, or forbids it; not of the mutating
\* webhook patcher.
LEMMA Failed ==
  ASSUME Configured, Typed, CallFails \/ CreateForbidden
  PROVE  /\ hand # none /\ hand.name \in Name /\ worker \in KeysOf(hand.name)
         /\ setup.controller # "mutating" /\ \E ok \in BOOLEAN : WriteFails(hand.name, ok)
         /\ UNCHANGED <<setup, watcherVars, apiVars, cache, known, changes>>
<1>1. setup.errors \in Nat /\ (setup.controller = "mutating" => setup.errors = 0) /\ refusals \in Nat
  BY DEF Typed, Configured
<1>2. hand # none /\ refusals < setup.errors /\ \E ok \in BOOLEAN : WriteFails(hand.name, ok)
  BY DEF CallFails, CreateForbidden
<1>3. hand.name \in Name /\ worker \in KeysOf(hand.name)
  BY <1>2 DEF Typed, Hand
<1>4. setup.controller # "mutating"
  BY <1>1, <1>2, SMT
<1>5. UNCHANGED <<setup, watcherVars, apiVars, cache, known, changes>>
  BY DEF CallFails, CreateForbidden
<1> QED BY <1>2, <1>3, <1>4, <1>5

-----------------------------------------------------------------------------
(* Each part of the invariant is kept. *)

\* No step loses a key of the queue.
LEMMA QueueInductive ==
  ASSUME Configured, Typed, QueueKeeps, CacheFollows, [DistributionNext]_distributionVars
  PROVE  QueueKeeps'
<1>1. ASSUME UNCHANGED <<queueVars, setup>>
      PROVE  QueueKeeps'
  BY <1>1 DEF QueueKeeps, queueVars, Namespaces
<1>2. CASE UNCHANGED distributionVars
  BY <1>1, <1>2 DEF distributionVars
<1>3. CASE SetAndNotify \/ AddWatcher
  BY <1>1, <1>3 DEF SetAndNotify, AddWatcher
<1>4. CASE startCaBundleWatcher
  BY <1>4, SyncAllKeys, KeysAdded DEF startCaBundleWatcher
<1>5. ASSUME NEW n \in setup.names, ChangeObject(n) \/ ChangeNamespace(n)
      PROVE  QueueKeeps'
  BY <1>1, <1>5 DEF ChangeObject, ChangeNamespace
<1>6. ASSUME NEW n \in setup.names, ObserveObject(n) \/ ObserveNamespace(n) \/ ObserveOther(n)
      PROVE  QueueKeeps'
  <2>1. n \in Name
    BY <1>6 DEF Typed, Configured
  <2>2. PICK k \in Key : Q!Add(k)
    BY <1>6, <2>1 DEF ObserveObject, ObserveNamespace, ObserveOther, Key
  <2>3. UNCHANGED <<processing, requeues, backoff, worker, shutDown, setup>> /\ Q!AddKey(k)
    BY <1>6, <2>2 DEF ObserveObject, ObserveNamespace, ObserveOther, Q!Add
  <2>4. backoff' \subseteq Key /\ (~Namespaces => \A x \in Key : requeues[x] <= MaxRequeues \/ x \in backoff')
    BY <2>3 DEF QueueKeeps
  <2> QED BY <2>3, <2>4, KeyAdded
<1>7. CASE Run
  <2>1. UNCHANGED <<processing, requeues, backoff, worker, shutDown, setup>> /\ Q!AddKey(SyncSignal)
    BY <1>7 DEF Run, Q!Run
  <2>2. backoff' \subseteq Key /\ (~Namespaces => \A x \in Key : requeues[x] <= MaxRequeues \/ x \in backoff')
    BY <2>1 DEF QueueKeeps
  <2> QED BY <2>1, <2>2, KeyAdded
<1>8. CASE GetKey
  <2>1. /\ worker = NoKey /\ ready # <<>> /\ ready \in Seq(Key \cup {SyncSignal})
        /\ worker' = Head(ready) /\ ready' = Tail(ready) /\ dirty' = dirty \ {Head(ready)}
        /\ processing' = processing \cup {Head(ready)}
        /\ UNCHANGED <<requeues, backoff, shutDown, setup>>
    BY <1>8 DEF GetKey, Q!Get, QueueKeeps
  <2>2. /\ Len(ready) \in Nat /\ Len(ready) > 0 /\ Head(ready) = ready[1]
        /\ ready' \in Seq(Key \cup {SyncSignal}) /\ Len(ready') = Len(ready) - 1
        /\ worker' \in Key \cup {SyncSignal}
        /\ \A i \in 1 .. Len(ready') : ready'[i] = ready[i + 1]
    BY <2>1, SMT
  <2>3. \A k \in Key : k \in processing' <=> worker' = k
    BY <2>1 DEF QueueKeeps, Configured
  <2>4. \A k \in Key : k \in dirty' /\ worker' # k => \E i \in 1 .. Len(ready') : ready'[i] = k
    <3> SUFFICES ASSUME NEW k \in Key, k \in dirty', worker' # k
                 PROVE  \E i \in 1 .. Len(ready') : ready'[i] = k
      OBVIOUS
    <3>1. k \in dirty /\ worker # k
      BY <2>1 DEF Configured
    <3>2. PICK i \in 1 .. Len(ready) : ready[i] = k
      BY <3>1 DEF QueueKeeps
    <3>3. i # 1
      BY <3>2, <2>1, <2>2
    <3>4. i - 1 \in 1 .. Len(ready') /\ ready'[i - 1] = k
      BY <3>2, <3>3, <2>2, SMT
    <3> QED BY <3>4
  <2> QED BY <2>1, <2>2, <2>3, <2>4 DEF QueueKeeps, Namespaces
<1>9. CASE ProcessSignal
  BY <1>9 DEF ProcessSignal, Q!ProcessSignal, QueueKeeps, Namespaces, Configured
<1>10. ASSUME NEW k \in Key, BackoffEnds(k)
       PROVE  QueueKeeps'
  <2>1. /\ UNCHANGED <<processing, requeues, worker, shutDown, setup>> /\ Q!AddKey(k)
        /\ backoff' = backoff \ {k} /\ (Namespaces \/ requeues[k] <= MaxRequeues)
    BY <1>10 DEF BackoffEnds, Q!BackoffEnds
  <2>2. backoff' \subseteq Key /\ (~Namespaces => \A x \in Key : requeues[x] <= MaxRequeues \/ x \in backoff')
    BY <2>1 DEF QueueKeeps
  <2> QED BY <2>1, <2>2, KeyAdded
<1>11. CASE reconcileCACertAndCRL \/ patchMutatingWebhookConfig \/ Reconcile
  <2>1. /\ worker[2] \in Name /\ worker \in KeysOf(worker[2]) /\ setup' = setup
        /\ (\E ok \in BOOLEAN : EndsWell(worker[2], ok)) \/ WriteStarts(worker[2])
    BY <1>11, Reconciled
  <2>2. CASE WriteStarts(worker[2])
    BY <2>2 DEF WriteStarts
  <2>3. ASSUME NEW ok \in BOOLEAN, EndsWell(worker[2], ok)
        PROVE  QueueKeeps'
    BY <2>1, <2>3, NameDone DEF EndsWell
  <2> QED BY <2>1, <2>2, <2>3
<1>12. CASE WriteObject
  <2>1. /\ hand.name \in Name /\ worker \in KeysOf(hand.name) /\ setup' = setup
        /\ \E ok \in BOOLEAN : Done(hand.name, ok)
    BY <1>12, Written DEF WriteRefused, WriteSucceeds
  <2> QED BY <2>1, NameDone
<1>13. CASE CallFails \/ CreateForbidden
  <2>1. /\ hand.name \in Name /\ worker \in KeysOf(hand.name) /\ setup' = setup
        /\ \E ok \in BOOLEAN : WriteFails(hand.name, ok)
    BY <1>13, Failed
  <2> QED BY <2>1, NameDone
<1> QED
  BY <1>2, <1>3, <1>4, <1>5, <1>6, <1>7, <1>8, <1>9, <1>10, <1>11, <1>12, <1>13, ZenonT(60) DEF DistributionNext

\* Every step keeps the types.
LEMMA TypedInductive ==
  ASSUME Configured, Typed, QueueKeeps, CacheFollows, [DistributionNext]_distributionVars
  PROVE  Typed'
<1>0. NoKey \notin Key /\ SyncSignal \notin Key /\ none \notin Hand
  BY DEF Configured
<1>1. \A n \in Name : KeysOf(n) \subseteq Key
  BY SMT DEF KeysOf, Key
<1>2. CASE UNCHANGED distributionVars
  BY <1>2 DEF distributionVars, Typed, watcherVars, apiVars, bounds, queueVars, Namespaces
<1>3. CASE SetAndNotify
  BY <1>3, SMT DEF SetAndNotify, Typed, apiVars, bounds, queueVars, Namespaces, Configured
<1>4. CASE AddWatcher
  BY <1>4 DEF AddWatcher, Typed, apiVars, bounds, queueVars, Namespaces
<1>5. CASE startCaBundleWatcher
  BY <1>5 DEF startCaBundleWatcher, Typed, apiVars, bounds, Namespaces
<1>6. ASSUME NEW n \in setup.names, ChangeObject(n)
      PROVE  Typed'
  <2>1. /\ n \in Name /\ object \in [Name -> CaObject \cup {none}] /\ version \in Nat /\ 0 \in 0 .. MaxBundle
        /\ pending \subseteq Name
    BY <1>6, SMTT(60) DEF Typed, Configured
  <2>2. /\ UNCHANGED <<setup, watcherVars, namespace, nsPending, cache, known, hand, gaveUp, refusals, queueVars>>
        /\ version' = version + 1
    BY <1>6 DEF ChangeObject
  <2>3. \E o \in CaObject \cup {none} : SetObject(n, o)
    <3>1. CASE object[n] = none
      <4>1. SetObject(n, [ca |-> 0, mine |-> TRUE, ignore |-> TRUE, version |-> version + 1])
        BY <1>6, <3>1 DEF ChangeObject
      <4>2. [ca |-> 0, mine |-> TRUE, ignore |-> TRUE, version |-> version + 1] \in CaObject
        BY <2>1, SMT DEF CaObject
      <4> QED BY <4>1, <4>2
    <3>2. CASE object[n] # none
      <4>1. object[n] \in CaObject
        BY <2>1, <3>2
      <4>2. PICK o : o = object[n]
        OBVIOUS
      <4>4. PICK w \in Nat \ {0} : w = version + 1
        BY <2>1, SMT
      <4>5. PICK b \in BOOLEAN : b = ~o.mine
        OBVIOUS
      <4>6. /\ [[o EXCEPT !.ca = 0] EXCEPT !.version = w] \in CaObject
            /\ [[o EXCEPT !.mine = b] EXCEPT !.version = w] \in CaObject
        BY <2>1, <4>1, <4>2 DEF CaObject
      <4>3. \/ SetObject(n, none)
            \/ SetObject(n, [object[n] EXCEPT !.ca = 0, !.version = version + 1])
            \/ SetObject(n, [object[n] EXCEPT !.mine = ~@, !.version = version + 1])
        BY <1>6, <3>2 DEF ChangeObject
      <4> QED BY <4>2, <4>3, <4>4, <4>5, <4>6
    <3> QED BY <3>1, <3>2
  <2>4. object' \in [Name -> CaObject \cup {none}] /\ pending' \subseteq Name
    BY <2>1, <2>3 DEF SetObject
  <2> QED BY <2>1, <2>2, <2>4, SMT DEF Typed, watcherVars, queueVars, Namespaces
<1>7. ASSUME NEW n \in setup.names, ChangeNamespace(n)
      PROVE  Typed'
  <2>1. n \in Name /\ object \in [Name -> CaObject \cup {none}] /\ version \in Nat
    BY <1>7 DEF Typed, Configured
  <2>2. /\ UNCHANGED <<setup, watcherVars, cache, known, hand, gaveUp, refusals, queueVars>>
        /\ version' = version + 1 /\ nsPending' = nsPending \cup {n}
    BY <1>7 DEF ChangeNamespace
  <2>3. /\ object' \in [Name -> CaObject \cup {none}] /\ pending' \subseteq Name
        /\ namespace' \subseteq Name
    BY <1>7, <2>1 DEF ChangeNamespace, SetObject, Typed
  <2> QED BY <2>1, <2>2, <2>3, SMTT(60) DEF Typed, watcherVars, queueVars, Namespaces
<1>8. ASSUME NEW n \in setup.names, ObserveObject(n)
      PROVE  Typed'
  BY <1>8 DEF ObserveObject, Q!Add, Typed, watcherVars, bounds, Namespaces
<1>9. ASSUME NEW n \in setup.names, ObserveNamespace(n)
      PROVE  Typed'
  BY <1>9 DEF ObserveNamespace, Q!Add, Typed, watcherVars, bounds, Namespaces
<1>17. ASSUME NEW n \in setup.names, ObserveOther(n)
       PROVE  Typed'
  BY <1>17 DEF ObserveOther, Q!Add, Typed, watcherVars, apiVars, Namespaces
<1>10. CASE Run
  BY <1>10 DEF Run, Q!Run, Typed, watcherVars, apiVars, bounds, Namespaces
<1>11. CASE GetKey
  <2>1. hand = none
    BY <1>0, <1>1, <1>11 DEF GetKey, Q!Get, Typed, Hand
  <2> QED BY <1>11, <2>1 DEF GetKey, Typed, watcherVars, apiVars, bounds
<1>12. CASE ProcessSignal
  <2>1. hand = none
    BY <1>0, <1>1, <1>12 DEF ProcessSignal, Q!ProcessSignal, Typed, Hand
  <2> QED BY <1>12, <2>1 DEF ProcessSignal, Typed, watcherVars, apiVars, bounds
<1>13. ASSUME NEW k \in Key, BackoffEnds(k)
       PROVE  Typed'
  BY <1>13 DEF BackoffEnds, Q!BackoffEnds, Typed, watcherVars, apiVars, bounds, Namespaces
<1>14. CASE reconcileCACertAndCRL \/ patchMutatingWebhookConfig \/ Reconcile
  <2> DEFINE n == worker[2]
  <2>1. /\ n \in Name /\ worker \in KeysOf(n)
        /\ UNCHANGED <<setup, watcherVars, apiVars, known, changes>>
        /\ (\E ok \in BOOLEAN : EndsWell(n, ok)) \/ WriteStarts(n)
    BY <1>14, Reconciled
  <2>2. ASSUME NEW ok \in BOOLEAN, EndsWell(n, ok)
        PROVE  Typed'
    <3>1. hand' = none /\ refusals' \in Nat /\ gaveUp' \subseteq gaveUp \cup {n} /\ cache' = cache
      BY <2>1, <2>2, NameDone DEF EndsWell
    <3>2. gaveUp' \subseteq Name
      BY <2>1, <3>1 DEF Typed
    <3> HIDE DEF n
    <3> QED BY <2>1, <3>1, <3>2 DEF Typed, watcherVars, apiVars
  <2>3. CASE WriteStarts(n)
    <3>0. bundle \in 0 .. MaxBundle /\ cache \in [Name -> CaObject \cup {none}]
      BY DEF Typed
    <3>1. PICK v : v = IF cache[n] = none THEN 0 ELSE cache[n].version
      OBVIOUS
    <3>2. v \in Nat /\ (~Namespaces => v # 0)
      BY <2>1, <2>3, <3>0, <3>1 DEF WriteStarts, CaObject
    <3>3. hand' = [name |-> n, ca |-> bundle, version |-> v] /\ UNCHANGED <<worker, gaveUp, refusals>>
      BY <2>3, <3>1 DEF WriteStarts
    <3>4. cache' \in [Name -> CaObject \cup {none}]
      BY <2>1, <2>3, <3>0, SMT DEF WriteStarts, CaObject
    <3> HIDE DEF n
    <3>5. hand' \in Hand /\ hand'.name = n /\ hand'.version = v
      BY <2>1, <3>0, <3>2, <3>3 DEF Hand
    <3> QED BY <2>1, <3>2, <3>3, <3>4, <3>5 DEF Typed, watcherVars, apiVars, Namespaces
  <2> QED BY <2>1, <2>2, <2>3
<1>15. CASE WriteObject
  <2>1. /\ hand.name \in Name /\ worker \in KeysOf(hand.name)
        /\ UNCHANGED <<setup, watcherVars, cache, known, changes>>
        /\ WriteRefused(hand.name) \/ WriteSucceeds(hand.name)
    BY <1>15, Written
  <2>2. \E ok \in BOOLEAN : Done(hand.name, ok)
    BY <2>1 DEF WriteRefused, WriteSucceeds
  <2>3. hand' = none /\ refusals' \in Nat /\ gaveUp' \subseteq gaveUp \cup {hand.name}
    BY <2>1, <2>2, NameDone
  <2>4. gaveUp' \subseteq Name
    BY <2>1, <2>3 DEF Typed
  <2>5. /\ object' \in [Name -> CaObject \cup {none}] /\ pending' \subseteq Name /\ version' \in Nat
        /\ namespace' = namespace /\ nsPending' = nsPending
    BY <2>1, ZenonT(60) DEF WriteRefused, WriteSucceeds, Typed, apiVars
  <2> QED BY <2>1, <2>3, <2>4, <2>5 DEF Typed, watcherVars
<1>16. CASE CallFails \/ CreateForbidden
  <2>1. /\ hand.name \in Name /\ worker \in KeysOf(hand.name)
        /\ \E ok \in BOOLEAN : WriteFails(hand.name, ok)
        /\ UNCHANGED <<setup, watcherVars, apiVars, cache, known>>
    BY <1>16, Failed
  <2>2. hand' = none /\ refusals' \in Nat /\ gaveUp' \subseteq gaveUp \cup {hand.name}
    BY <2>1, NameDone
  <2>3. gaveUp' \subseteq Name
    BY <2>1, <2>2 DEF Typed
  <2> QED BY <2>1, <2>2, <2>3 DEF Typed, watcherVars, apiVars
<1> QED
  BY <1>2, <1>3, <1>4, <1>5, <1>6, <1>7, <1>8, <1>9, <1>10, <1>11, <1>12, <1>13, <1>14, <1>15, <1>16, <1>17, ZenonT(60) DEF DistributionNext

\* Without an event on its way, the cache follows the API server.
LEMMA CacheInductive ==
  ASSUME Configured, Typed, QueueKeeps, CacheFollows, Overtaken, [DistributionNext]_distributionVars
  PROVE  CacheFollows'
<1>1. ASSUME UNCHANGED <<setup, object, cache, pending, nsPending, known, namespace, hand>>
      PROVE  CacheFollows'
  BY <1>1 DEF CacheFollows, Patched, Namespaces
<1>2. CASE UNCHANGED distributionVars
  BY <1>1, <1>2 DEF distributionVars, apiVars
<1>3. CASE SetAndNotify \/ AddWatcher \/ startCaBundleWatcher \/ Run \/ GetKey \/ ProcessSignal
  BY <1>1, <1>3 DEF SetAndNotify, AddWatcher, startCaBundleWatcher, Run, GetKey, ProcessSignal, apiVars
<1>4. ASSUME NEW k \in Key, BackoffEnds(k)
      PROVE  CacheFollows'
  BY <1>1, <1>4 DEF BackoffEnds, apiVars
<1>13. ASSUME NEW n \in setup.names, ObserveOther(n)
       PROVE  CacheFollows'
  BY <1>1, <1>13 DEF ObserveOther, apiVars
\* An object that changes is pending.
<1>5. ASSUME NEW n \in Name, NEW o, object' = [object EXCEPT ![n] = o], pending' = pending \cup {n},
             UNCHANGED <<setup, cache>>,
             hand' = hand \/ (hand # none /\ hand.name = n)
      PROVE  \A m \in Name \ pending' : cache'[m] = object'[m] \/ Patched(m)'
  <2> SUFFICES ASSUME NEW m \in Name \ pending'
               PROVE  cache'[m] = object'[m] \/ Patched(m)'
    OBVIOUS
  <2>1. m # n /\ m \in Name \ pending /\ object'[m] = object[m]
    BY <1>5 DEF Typed
  <2> QED BY <1>5, <2>1 DEF CacheFollows, Patched
<1>6. ASSUME NEW n \in setup.names, ChangeObject(n)
      PROVE  CacheFollows'
  <2>1. n \in Name
    BY <1>6 DEF Typed, Configured
  <2>2. PICK o : SetObject(n, o)
    BY <1>6 DEF ChangeObject
  <2>3. UNCHANGED <<setup, cache, hand, nsPending, namespace, known>>
    BY <1>6 DEF ChangeObject
  <2>4. \A m \in Name \ pending' : cache'[m] = object'[m] \/ Patched(m)'
    BY <1>5, <2>1, <2>2, <2>3 DEF SetObject
  <2> QED BY <2>3, <2>4 DEF CacheFollows, Namespaces
<1>7. ASSUME NEW n \in setup.names, ChangeNamespace(n)
      PROVE  CacheFollows'
  <2>1. n \in Name
    BY <1>7 DEF Typed, Configured
  <2>2. UNCHANGED <<setup, cache, hand, known>> /\ nsPending' = nsPending \cup {n}
    BY <1>7 DEF ChangeNamespace
  <2>3. \A m \in Name \ pending' : cache'[m] = object'[m] \/ Patched(m)'
    <3>1. CASE UNCHANGED <<object, pending>>
      BY <3>1, <2>2 DEF CacheFollows, Patched
    <3>2. CASE SetObject(n, none)
      BY <3>2, <1>5, <2>1, <2>2 DEF SetObject
    <3> QED BY <3>1, <3>2, <1>7 DEF ChangeNamespace
  <2>4. Namespaces => \A m \in Name \ nsPending' : m \in known' <=> m \in namespace'
    BY <1>7, <2>2 DEF ChangeNamespace, CacheFollows
  <2> QED BY <2>2, <2>3, <2>4 DEF CacheFollows, Namespaces
<1>8. ASSUME NEW n \in setup.names, ObserveObject(n)
      PROVE  CacheFollows'
  <2>1. n \in Name /\ cache \in [Name -> CaObject \cup {none}]
    BY <1>8 DEF Typed, Configured
  <2>2. /\ UNCHANGED <<setup, object, hand, known, namespace, nsPending>>
        /\ pending' = pending \ {n} /\ cache' = [cache EXCEPT ![n] = object[n]]
    BY <1>8 DEF ObserveObject
  <2>3. \A m \in Name \ pending' : cache'[m] = object'[m] \/ Patched(m)'
    BY <2>1, <2>2 DEF CacheFollows, Patched
  <2> QED BY <2>2, <2>3 DEF CacheFollows, Namespaces
<1>9. ASSUME NEW n \in setup.names, ObserveNamespace(n)
      PROVE  CacheFollows'
  <2>1. /\ UNCHANGED <<setup, object, cache, pending, hand, namespace>>
        /\ nsPending' = nsPending \ {n}
        /\ known' = IF n \in namespace THEN known \cup {n} ELSE known \ {n}
    BY <1>9 DEF ObserveNamespace
  <2> QED BY <2>1 DEF CacheFollows, Patched, Namespaces
<1>10. CASE reconcileCACertAndCRL \/ patchMutatingWebhookConfig \/ Reconcile
  <2>0. PICK n : n = worker[2]
    OBVIOUS
  <2>1. /\ n \in Name /\ worker \in KeysOf(n) /\ hand = none
        /\ UNCHANGED <<setup, watcherVars, apiVars, known, changes>>
        /\ (\E ok \in BOOLEAN : EndsWell(n, ok)) \/ WriteStarts(n)
    BY <1>10, <2>0, Reconciled
  <2>2. UNCHANGED <<setup, object, namespace, pending, nsPending, known>>
    BY <2>1 DEF apiVars
  <2>3. \A m \in Name \ pending : cache[m] = object[m]
    BY <2>1 DEF CacheFollows, Patched
  <2>4. \A m \in Name \ pending' : cache'[m] = object'[m] \/ Patched(m)'
    <3>1. CASE cache' = cache
      BY <2>2, <2>3, <3>1
    <3>2. CASE WriteStarts(n) /\ cache' # cache
      <4>1. /\ setup.controller = "mutating" /\ cache[n] # none /\ cache' = [cache EXCEPT ![n].ca = bundle]
            /\ hand' = [name |-> n, ca |-> bundle, version |-> cache[n].version]
        BY <3>2 DEF WriteStarts
      <4>2. cache \in [Name -> CaObject \cup {none}] /\ cache[n] \in CaObject /\ bundle \in 0 .. MaxBundle
        BY <2>1, <4>1 DEF Typed
      <4>3. \A m \in Name : m # n => cache'[m] = cache[m]
        BY <4>1, <4>2
      <4>4. cache'[n] \in CaObject /\ cache'[n].mine = cache[n].mine
        BY <2>1, <4>1, <4>2 DEF CaObject
      <4>5. cache'[n] # none /\ hand' # none /\ hand'.name = n /\ hand'.version = cache[n].version
        <5>1. [name |-> n, ca |-> bundle, version |-> cache[n].version] \in Hand
          BY <2>1, <4>2 DEF Hand, CaObject
        <5> QED BY <4>1, <4>4, <5>1 DEF Configured
      <4>6. n \notin pending => Patched(n)'
        BY <2>1, <2>2, <2>3, <4>1, <4>4, <4>5 DEF Patched
      <4> QED BY <2>2, <2>3, <4>3, <4>6
    <3> QED BY <2>1, <3>1, <3>2 DEF EndsWell
  <2> QED BY <2>2, <2>4 DEF CacheFollows, Namespaces
<1>11. CASE WriteObject
  <2>1. /\ hand # none /\ hand.name \in Name /\ worker \in KeysOf(hand.name)
        /\ UNCHANGED <<setup, cache, known>>
        /\ WriteRefused(hand.name) \/ WriteSucceeds(hand.name)
    BY <1>11, Written
  <2>2. UNCHANGED <<namespace, nsPending>>
    BY <2>1 DEF WriteRefused, WriteSucceeds, apiVars
  <2>3. CASE WriteSucceeds(hand.name)
    <3>1. \A m \in Name \ pending' : cache'[m] = object'[m] \/ Patched(m)'
      BY <1>5, <2>1, <2>3 DEF WriteSucceeds
    <3> QED BY <2>1, <2>2, <3>1 DEF CacheFollows, Namespaces
  <2>4. CASE WriteRefused(hand.name)
    <3>1. UNCHANGED <<object, pending>>
      BY <2>4 DEF WriteRefused, apiVars
    <3>2. \A m \in Name \ pending : ~Patched(m)
      <4> SUFFICES ASSUME NEW m \in Name \ pending, Patched(m)
                   PROVE  FALSE
        OBVIOUS
      <4>1. /\ setup.controller = "mutating" /\ hand.name = m /\ object[m] # none
            /\ hand.version = object[m].version
        BY DEF Patched
      <4>2. hand.version # 0
        BY <2>1, <4>1 DEF Typed, Namespaces
      <4> QED BY <2>4, <4>1, <4>2 DEF WriteRefused, Conflict, Namespaces
    <3> QED BY <2>1, <2>2, <3>1, <3>2 DEF CacheFollows, Namespaces
  <2> QED BY <2>1, <2>3, <2>4
<1>12. CASE CallFails \/ CreateForbidden
  <2>1. setup.controller # "mutating" /\ UNCHANGED <<setup, apiVars, cache, known>>
    BY <1>12, Failed
  <2> QED BY <2>1 DEF CacheFollows, Patched, Namespaces, apiVars
<1> QED
  BY <1>2, <1>3, <1>4, <1>6, <1>7, <1>8, <1>9, <1>10, <1>11, <1>12, <1>13, ZenonT(60) DEF DistributionNext

\* No step of the queue but GetKey takes a mark away.
LEMMA MarksStay ==
  ASSUME \/ startCaBundleWatcher \/ Run \/ (\E k \in Key : BackoffEnds(k))
         \/ (\E n \in setup.names : ObserveObject(n) \/ ObserveNamespace(n) \/ ObserveOther(n))
  PROVE  dirty \subseteq dirty'
BY ZenonT(60) DEF startCaBundleWatcher, Run, BackoffEnds, ObserveObject, ObserveNamespace, ObserveOther, Q!AddAll, Q!Run,
       Q!BackoffEnds, Q!Add, Q!AddKey

\* What makes a write stale leaves an event behind it.
LEMMA OvertakenInductive ==
  ASSUME Configured, Typed, QueueKeeps, CacheFollows, Overtaken, [DistributionNext]_distributionVars
  PROVE  Overtaken'
<1>0. NoKey \notin Key /\ SyncSignal \notin Key /\ \A n \in Name : KeysOf(n) \subseteq Key
  BY SMT DEF Configured, KeysOf, Key
<1>1. ASSUME UNCHANGED <<hand, object>>, pending \subseteq pending', dirty \subseteq dirty'
      PROVE  Overtaken'
  BY <1>1 DEF Overtaken, Conflict
<1>2. ASSUME hand' = none
      PROVE  Overtaken'
  BY <1>2 DEF Overtaken
<1>3. ASSUME NEW n \in Name, NEW o, SetObject(n, o), UNCHANGED <<hand, dirty>>
      PROVE  Overtaken'
  <2>1. CASE hand = none
    BY <1>2, <1>3, <2>1
  <2>2. CASE hand # none /\ hand.name = n
    BY <1>3, <2>2 DEF Overtaken, SetObject
  <2>3. CASE hand # none /\ hand.name # n
    <3>1. object'[hand.name] = object[hand.name] /\ pending \subseteq pending'
      BY <1>3, <2>3 DEF SetObject, Typed, Hand
    <3> QED BY <1>3, <2>3, <3>1 DEF Overtaken, Conflict
  <2> QED BY <2>1, <2>2, <2>3
<1>4. CASE UNCHANGED distributionVars
  BY <1>1, <1>4 DEF distributionVars, apiVars, queueVars
<1>5. CASE SetAndNotify \/ AddWatcher
  BY <1>1, <1>5 DEF SetAndNotify, AddWatcher, apiVars, queueVars
<1>6. CASE startCaBundleWatcher \/ Run \/ \E k \in Key : BackoffEnds(k)
  <2>1. UNCHANGED <<hand, object, pending>>
    BY <1>6 DEF startCaBundleWatcher, Run, BackoffEnds, apiVars
  <2> QED BY <1>1, <1>6, <2>1, MarksStay
<1>7. ASSUME NEW n \in setup.names, ObserveNamespace(n) \/ ObserveOther(n)
      PROVE  Overtaken'
  <2>1. UNCHANGED <<hand, object, pending>>
    BY <1>7 DEF ObserveNamespace, ObserveOther, apiVars
  <2> QED BY <1>1, <1>7, <2>1, MarksStay
<1>8. ASSUME NEW n \in setup.names, ObserveObject(n)
      PROVE  Overtaken'
  <2>1. UNCHANGED <<hand, object>> /\ pending' = pending \ {n} /\ ~shutDown
    BY <1>8 DEF ObserveObject, QueueKeeps
  <2>2. <<"object", n>> \in dirty' /\ dirty \subseteq dirty'
    BY <1>8, <2>1 DEF ObserveObject, Q!Add, Q!AddKey
  <2> QED BY <2>1, <2>2 DEF Overtaken, Conflict
<1>9. ASSUME NEW n \in setup.names, ChangeObject(n)
      PROVE  Overtaken'
  <2>1. n \in Name /\ UNCHANGED <<hand, dirty>>
    BY <1>9 DEF Typed, Configured, ChangeObject, queueVars
  <2>2. PICK o : SetObject(n, o)
    BY <1>9 DEF ChangeObject
  <2> QED BY <1>3, <2>1, <2>2
<1>10. ASSUME NEW n \in setup.names, ChangeNamespace(n)
       PROVE  Overtaken'
  <2>1. n \in Name /\ UNCHANGED <<hand, dirty>>
    BY <1>10 DEF Typed, Configured, ChangeNamespace, queueVars
  <2>2. SetObject(n, none) \/ UNCHANGED <<object, pending>>
    BY <1>10 DEF ChangeNamespace
  <2> QED BY <1>1, <1>3, <2>1, <2>2
<1>11. CASE GetKey \/ ProcessSignal
  <2>1. hand = none
    BY <1>0, <1>11 DEF GetKey, Q!Get, ProcessSignal, Q!ProcessSignal, Typed, Hand
  <2> QED BY <1>2, <1>11, <2>1 DEF GetKey, ProcessSignal
<1>12. CASE reconcileCACertAndCRL \/ patchMutatingWebhookConfig \/ Reconcile
  <2>0. PICK n : n = worker[2]
    OBVIOUS
  <2>1. /\ n \in Name /\ worker \in KeysOf(n) /\ hand = none
        /\ UNCHANGED <<setup, watcherVars, apiVars, known, changes>>
        /\ (\E ok \in BOOLEAN : EndsWell(n, ok)) \/ WriteStarts(n)
    BY <1>12, <2>0, Reconciled
  <2>2. CASE \E ok \in BOOLEAN : EndsWell(n, ok)
    BY <1>2, <2>2 DEF EndsWell, Done, EndWork
  <2>3. CASE WriteStarts(n)
    <3>1. /\ hand'.name = n /\ hand'.version = (IF cache[n] = none THEN 0 ELSE cache[n].version)
          /\ UNCHANGED <<object, pending>>
      BY <2>1, <2>3 DEF WriteStarts, apiVars
    <3>2. n \notin pending => cache[n] = object[n]
      BY <2>1 DEF CacheFollows, Patched
    <3>3. object[n] # none => object[n].version # 0
      BY <2>1 DEF Typed, CaObject
    <3> QED BY <3>1, <3>2, <3>3 DEF Overtaken, Conflict
  <2> QED BY <2>1, <2>2, <2>3, ZenonT(60)
<1>13. CASE WriteObject
  BY <1>2, <1>13, Written DEF WriteRefused, WriteSucceeds, Done, EndWork
<1>14. CASE CallFails \/ CreateForbidden
  BY <1>2, <1>14 DEF CallFails, CreateForbidden, WriteFails, EndWork
<1> QED
  BY <1>4, <1>5, <1>6, <1>7, <1>8, <1>9, <1>10, <1>11, <1>12, <1>13, <1>14 DEF DistributionNext

\* A name that a step does not touch stays as it is, or owed.
LEMMA Undisturbed ==
  ASSUME Owed, ~early, NEW m \in Name, Wanted(m)',
         UNCHANGED <<setup, bundle>>, token => token', object'[m] = object[m],
         m \in namespace' => m \in namespace, m \in gaveUp => m \in gaveUp',
         m \in pending => m \in pending', m \in nsPending => m \in nsPending',
         \A k \in KeysOf(m) : k \in dirty \/ k \in backoff \/ worker = k
                            => k \in dirty' \/ k \in backoff' \/ worker' = k
  PROVE  Settled(m)'
<1>1. Wanted(m)
  BY DEF Wanted, Namespaces
<1>2. Settled(m)
  BY <1>1 DEF Owed
<1>3. CASE UpToDate(m)
  BY <1>3 DEF Settled, UpToDate
<1>4. CASE Due(m)
  BY <1>4 DEF Settled, Due
<1>5. CASE m \in gaveUp
  BY <1>5 DEF Settled
<1> QED BY <1>2, <1>3, <1>4, <1>5 DEF Settled

\* After the end of a reconciliation of n, the other names are undisturbed.
LEMMA OthersOwed ==
  ASSUME Configured, Typed, QueueKeeps, Owed, ~early, NEW n \in Name, NEW ok \in BOOLEAN,
         worker \in KeysOf(n), Done(n, ok) \/ WriteFails(n, ok),
         UNCHANGED <<setup, bundle, token, namespace, nsPending>>,
         pending \subseteq pending',
         NEW m \in Name, m # n, object'[m] = object[m], Wanted(m)'
  PROVE  Settled(m)'
<1>1. /\ dirty' = dirty /\ backoff \subseteq backoff' /\ gaveUp \ {n} \subseteq gaveUp'
  BY NameDone
<1>2. worker \notin KeysOf(m)
  BY SMT DEF KeysOf
<1>3. \A k \in KeysOf(m) : k \in dirty \/ k \in backoff \/ worker = k
                          => k \in dirty' \/ k \in backoff' \/ worker' = k
  BY <1>1, <1>2
<1> QED BY <1>1, <1>3, Undisturbed

\* A step that spoils an object, or takes away what it was owed, leaves it
\* something else that brings its key back.
LEMMA OwedInductive ==
  ASSUME Configured, Typed, QueueKeeps, CacheFollows, Overtaken, Owed, [DistributionNext]_distributionVars
  PROVE  Owed'
<1> SUFFICES ASSUME ~early', NEW m \in Name, Wanted(m)'
             PROVE  Settled(m)'
  BY DEF Owed
<1>0. NoKey \notin Key /\ SyncSignal \notin Key /\ ~shutDown /\ \A n \in Name : KeysOf(n) \subseteq Key
  BY SMT DEF Configured, KeysOf, Key, QueueKeeps
\* Steps that add to the queue or leave it alone.
<1>1. ASSUME UNCHANGED <<setup, bundle, token, early, object, namespace, gaveUp, pending, nsPending, worker>>,
             dirty \subseteq dirty', backoff \subseteq backoff'
      PROVE  Settled(m)'
  BY <1>1, Undisturbed
<1>2. CASE UNCHANGED distributionVars
  BY <1>1, <1>2 DEF distributionVars, watcherVars, apiVars, queueVars
<1>3. CASE SetAndNotify
  BY <1>3 DEF Settled, SetAndNotify, Due
<1>4. CASE AddWatcher
  BY <1>1, <1>4 DEF AddWatcher, apiVars, queueVars
<1>5. CASE startCaBundleWatcher
  <2>1. /\ UNCHANGED <<setup, bundle, object, namespace, gaveUp, pending, nsPending>>
        /\ dirty' = dirty \cup syncAll
    BY <1>5, SyncAllKeys, KeysAdded DEF startCaBundleWatcher, apiVars
  <2>2. CASE Namespaces
    <3>1. m \in namespace
      BY <2>1, <2>2 DEF Wanted, Namespaces
    <3>2. m \in nsPending \/ m \in known
      BY <2>2, <3>1 DEF CacheFollows
    <3>3. m \in known => <<"namespace", m>> \in syncAll
      BY <2>2 DEF syncAll
    <3> QED BY <2>1, <3>2, <3>3 DEF Settled, Due, KeysOf
  <2>3. CASE ~Namespaces
    <3>1. object[m] # none
      BY <2>1, <2>3 DEF Wanted, Namespaces
    <3>2. m \in pending \/ cache[m] # none
      BY <3>1 DEF CacheFollows, Patched
    <3>3. cache[m] # none => <<"object", m>> \in syncAll
      BY <2>3 DEF syncAll
    <3> QED BY <2>1, <3>2, <3>3 DEF Settled, Due, KeysOf
  <2> QED BY <2>2, <2>3
<1>6. ASSUME NEW n \in setup.names, ChangeObject(n)
      PROVE  Settled(m)'
  <2>1. /\ UNCHANGED <<setup, watcherVars, namespace, nsPending, gaveUp, queueVars>>
        /\ \E o : object' = [object EXCEPT ![n] = o] /\ pending' = pending \cup {n}
    BY <1>6 DEF ChangeObject, SetObject
  <2>2. CASE m = n
    BY <2>1, <2>2 DEF Settled, Due
  <2>3. CASE m # n
    <3>1. object'[m] = object[m] /\ pending \subseteq pending' /\ ~early
      BY <2>1, <2>3 DEF Typed, watcherVars
    <3> QED BY <2>1, <3>1, Undisturbed DEF watcherVars, queueVars
  <2> QED BY <2>2, <2>3
<1>7. ASSUME NEW n \in setup.names, ChangeNamespace(n)
      PROVE  Settled(m)'
  <2>1. /\ UNCHANGED <<setup, watcherVars, gaveUp, queueVars>> /\ nsPending' = nsPending \cup {n}
    BY <1>7 DEF ChangeNamespace
  <2>2. CASE m = n
    BY <2>1, <2>2 DEF Settled, Due
  <2>3. CASE m # n
    <3>1. object'[m] = object[m] /\ pending \subseteq pending' /\ (m \in namespace' => m \in namespace)
      BY <1>7, <2>3 DEF ChangeNamespace, SetObject, Typed
    <3>2. ~early
      BY <2>1 DEF watcherVars
    <3> QED BY <2>1, <3>1, <3>2, Undisturbed DEF watcherVars, queueVars
  <2> QED BY <2>2, <2>3
<1>8. ASSUME NEW n \in setup.names, ObserveObject(n)
      PROVE  Settled(m)'
  <2>1. /\ UNCHANGED <<setup, watcherVars, object, namespace, nsPending, gaveUp, backoff, worker>>
        /\ pending' = pending \ {n}
    BY <1>8 DEF ObserveObject, Q!Add
  <2>2. <<"object", n>> \in dirty' /\ dirty \subseteq dirty'
    BY <1>0, <1>8 DEF ObserveObject, Q!Add, Q!AddKey
  <2>3. CASE m = n
    BY <2>2, <2>3 DEF Settled, Due, KeysOf
  <2>4. CASE m # n
    BY <2>1, <2>2, <2>4, Undisturbed DEF watcherVars
  <2> QED BY <2>3, <2>4
<1>9. ASSUME NEW n \in setup.names, ObserveNamespace(n)
      PROVE  Settled(m)'
  <2>1. /\ UNCHANGED <<setup, watcherVars, object, namespace, pending, gaveUp, backoff, worker>>
        /\ nsPending' = nsPending \ {n}
    BY <1>9 DEF ObserveNamespace, Q!Add
  <2>2. <<"namespace", n>> \in dirty' /\ dirty \subseteq dirty'
    BY <1>0, <1>9 DEF ObserveNamespace, Q!Add, Q!AddKey
  <2>3. CASE m = n
    BY <2>2, <2>3 DEF Settled, Due, KeysOf
  <2>4. CASE m # n
    BY <2>1, <2>2, <2>4, Undisturbed DEF watcherVars
  <2> QED BY <2>3, <2>4
<1>16. ASSUME NEW n \in setup.names, ObserveOther(n)
       PROVE  Settled(m)'
  <2>1. UNCHANGED <<setup, watcherVars, apiVars, gaveUp, backoff, worker>>
    BY <1>16 DEF ObserveOther, Q!Add
  <2>2. dirty \subseteq dirty'
    BY <1>16, MarksStay
  <2> QED BY <1>1, <2>1, <2>2 DEF watcherVars, apiVars
<1>10. CASE Run
  <2>1. UNCHANGED <<setup, watcherVars, apiVars, gaveUp, backoff, worker>>
    BY <1>10 DEF Run, Q!Run
  <2>2. dirty \subseteq dirty'
    BY <1>10, MarksStay
  <2> QED BY <1>1, <2>1, <2>2 DEF watcherVars, apiVars
<1>11. CASE GetKey \/ ProcessSignal
  <2>1. UNCHANGED <<setup, watcherVars, apiVars, gaveUp, backoff>> /\ worker \notin Key
    BY <1>0, <1>11 DEF GetKey, ProcessSignal, Q!Get, Q!ProcessSignal
  <2>2. \A k \in Key : k \in dirty => k \in dirty' \/ worker' = k
    BY <1>11 DEF GetKey, ProcessSignal, Q!Get, Q!ProcessSignal
  <2>3. \A k \in KeysOf(m) : k \in dirty \/ k \in backoff \/ worker = k
                            => k \in dirty' \/ k \in backoff' \/ worker' = k
    BY <1>0, <2>1, <2>2
  <2> QED BY <2>1, <2>3, Undisturbed DEF watcherVars, apiVars
<1>12. ASSUME NEW k \in Key, BackoffEnds(k)
       PROVE  Settled(m)'
  <2>1. /\ UNCHANGED <<setup, watcherVars, apiVars, gaveUp, worker>> /\ backoff' = backoff \ {k}
    BY <1>12 DEF BackoffEnds, Q!BackoffEnds
  <2>2. k \in dirty' /\ dirty \subseteq dirty'
    BY <1>0, <1>12 DEF BackoffEnds, Q!BackoffEnds, Q!AddKey
  <2> QED BY <2>1, <2>2, Undisturbed DEF watcherVars, apiVars
<1>13. CASE reconcileCACertAndCRL \/ patchMutatingWebhookConfig \/ Reconcile
  <2>0. PICK n : n = worker[2]
    OBVIOUS
  <2>1. /\ n \in Name /\ worker \in KeysOf(n)
        /\ UNCHANGED <<setup, watcherVars, apiVars, known, changes>>
        /\ (\E ok \in BOOLEAN : EndsWell(n, ok)) \/ WriteStarts(n)
    BY <1>13, <2>0, Reconciled
  <2>2. UNCHANGED <<setup, bundle, token, early, object, namespace, pending, nsPending>>
    BY <2>1 DEF watcherVars, apiVars
  <2>3. CASE WriteStarts(n)
    BY <1>1, <2>2, <2>3 DEF WriteStarts
  <2>4. ASSUME NEW ok \in BOOLEAN, EndsWell(n, ok)
        PROVE  Settled(m)'
    <3>1. CASE m # n
      BY <2>1, <2>2, <2>4, <3>1, OthersOwed DEF EndsWell
    <3>2. CASE m = n /\ ok
      <4>1. Wanted(n)
        BY <2>2, <3>2 DEF Wanted, Wanted, Namespaces
      <4>2. n \in pending \/ UpToDate(n)
        BY <2>4, <3>2, <4>1 DEF EndsWell
      <4> QED BY <2>2, <3>2, <4>2 DEF Settled, UpToDate, Due
    <3>3. CASE m = n /\ ~ok
      <4>1. n \in pending \/ worker \in backoff' \/ UpToDate(n) \/ ~Wanted(n)
        BY <2>1, <2>4, <3>3, NameDone DEF EndsWell, LastTry
      <4> QED BY <2>1, <2>2, <3>3, <4>1 DEF Settled, Due, UpToDate, Wanted, Namespaces
    <3> QED BY <3>1, <3>2, <3>3
  <2> QED BY <2>1, <2>3, <2>4
<1>14. CASE WriteObject
  <2>0. PICK n : n = hand.name
    OBVIOUS
  <2>1. /\ n \in Name /\ worker \in KeysOf(n) /\ hand # none
        /\ UNCHANGED <<setup, watcherVars, cache, known, changes>>
        /\ WriteRefused(n) \/ WriteSucceeds(n)
    BY <1>14, <2>0, Written
  <2>2. UNCHANGED <<setup, bundle, token, early, namespace, nsPending>> /\ pending \subseteq pending'
    BY <2>1 DEF watcherVars, apiVars, WriteRefused, WriteSucceeds
  <2>3. CASE m # n
    <3>1. object'[m] = object[m]
      BY <2>1, <2>3 DEF WriteRefused, WriteSucceeds, apiVars, Typed
    <3>2. PICK ok \in BOOLEAN : Done(n, ok)
      BY <2>1 DEF WriteRefused, WriteSucceeds
    <3> QED BY <2>1, <2>2, <2>3, <3>1, <3>2, OthersOwed
  <2>4. CASE m = n /\ WriteSucceeds(n)
    BY <2>4 DEF Settled, WriteSucceeds, Due
  <2>5. CASE m = n /\ WriteRefused(n)
    <3>1. dirty' = dirty /\ pending' = pending
      BY <2>1, <2>5, NameDone DEF WriteRefused, apiVars
    <3>2. Conflict(object[n], hand.version)
      BY <2>2, <2>5 DEF WriteRefused, Wanted, Namespaces
    <3>3. n \in pending \/ <<"object", n>> \in dirty
      BY <2>0, <2>1, <3>2 DEF Overtaken
    <3> QED BY <2>5, <3>1, <3>3 DEF Settled, Due, KeysOf
  <2> QED BY <2>1, <2>3, <2>4, <2>5
<1>15. CASE CallFails \/ CreateForbidden
  <2>0. PICK n : n = hand.name
    OBVIOUS
  <2>1. /\ n \in Name /\ worker \in KeysOf(n) /\ \E ok \in BOOLEAN : WriteFails(n, ok)
        /\ UNCHANGED <<setup, watcherVars, apiVars, cache, known>>
    BY <1>15, <2>0, Failed
  <2>2. UNCHANGED <<setup, bundle, token, early, object, namespace, pending, nsPending>>
    BY <2>1 DEF watcherVars, apiVars
  <2>5. PICK ok \in BOOLEAN : WriteFails(n, ok)
    BY <2>1
  <2>3. CASE m # n
    BY <2>1, <2>2, <2>3, <2>5, OthersOwed
  <2>4. CASE m = n
    <3>1. worker \in backoff' \/ n \in gaveUp'
      BY <2>1, <2>5, NameDone DEF WriteFails, GivesUp
    <3> QED BY <2>1, <2>2, <2>4, <3>1 DEF Settled, Due
  <2> QED BY <2>3, <2>4
<1> QED
  BY <1>2, <1>3, <1>4, <1>5, <1>6, <1>7, <1>8, <1>9, <1>10, <1>11, <1>12, <1>13, <1>14, <1>15, <1>16, ZenonT(60) DEF DistributionNext

-----------------------------------------------------------------------------
\* At the start nothing is cached, and every object has an event.
LEMMA Initially ==
  ASSUME Configured, DistributionInit
  PROVE  Inv
<1>1. /\ setup \in Setups /\ bundle = setup.bundle /\ object = setup.objects /\ namespace = setup.names
      /\ cache = [n \in Name |-> none] /\ known = {} /\ hand = none /\ gaveUp = {}
      /\ token = FALSE /\ watching = FALSE /\ version = 1 /\ refusals = 0
      /\ pending = {n \in Name : object[n] # none} /\ nsPending = (IF Namespaces THEN setup.names ELSE {})
  BY DEF DistributionInit
<1>2. /\ ready = <<>> /\ dirty = {} /\ processing = {} /\ backoff = {}
      /\ requeues = [k \in Key |-> 0] /\ worker = NoKey /\ shutDown = FALSE
  BY DEF DistributionInit, Q!Init
<1>3. Typed
  BY <1>1 DEF Typed, Configured
<1>4. QueueKeeps
  BY <1>2, SMTT(60) DEF QueueKeeps, Configured
<1>5. CacheFollows
  BY <1>1 DEF CacheFollows
<1>6. Overtaken
  BY <1>1 DEF Overtaken
<1>7. Owed
  BY <1>1 DEF Owed, Settled, Due, Wanted
<1> QED BY <1>3, <1>4, <1>5, <1>6, <1>7 DEF Inv

\* The five parts together.
LEMMA Inductive ==
  ASSUME Configured, Inv, [DistributionNext]_distributionVars
  PROVE  Inv'
BY TypedInductive, QueueInductive, CacheInductive, OvertakenInductive, OwedInductive DEF Inv

\* When nothing is left to do, both ConfigMaps of every namespace, or every
\* webhook configuration of the revision, hold the current bundle: for any
\* number of names, whatever is edited, deleted or rotated, and whichever
\* writes of the namespace and the validation controller fail, but for a
\* namespace whose last write was refused and is not tried again, being a
\* create that is forbidden or the last of maxRetries (namespace_controller.go,
\* webhookpatch.go and the validation controller over controllers.Queue).
THEOREM BundlesArrive ==
  ASSUME Configured
  PROVE  DistributionSpec => []BundleDistributed
<1>1. DistributionInit => Inv
  BY Initially
<1>2. Inv /\ [DistributionNext]_distributionVars => Inv'
  BY Inductive
<1>3. Inv => BundleDistributed
  <2> SUFFICES ASSUME Inv, Quiet, ~early, NEW n \in Name, Wanted(n)
               PROVE  UpToDate(n) \/ n \in gaveUp
    BY DEF BundleDistributed
  <2>1. /\ ~token /\ pending = {} /\ nsPending = {} /\ worker = NoKey /\ ready = <<>> /\ backoff = {}
    BY DEF Quiet, Q!Drained
  <2>2. worker \notin KeysOf(n) /\ KeysOf(n) \subseteq Key
    BY <2>1, SMT DEF KeysOf, Key, Configured
  <2>3. \A k \in KeysOf(n) : k \notin dirty
    BY <2>1, <2>2, SMT DEF Inv, QueueKeeps
  <2>4. ~Due(n)
    BY <2>1, <2>2, <2>3 DEF Due
  <2> QED BY <2>4 DEF Inv, Owed, Settled
<1> QED
  BY <1>1, <1>2, <1>3, PTL DEF DistributionSpec
=============================================================================
