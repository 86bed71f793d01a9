------------------------------ MODULE XdsCache ------------------------------
(***************************************************************************)
(* The resource cache of the discovery server (lruCache in                 *)
(* dubbod/discovery/pkg/model/typed_xds_cache.go).  Streams build resources *)
(* for a push and add them; a change of a configuration clears what depends *)
(* on it; a ticker flushes the entries the index still names.              *)
(*                                                                         *)
(* Time is the number of clock readings so far: two readings never give    *)
(* the same nanosecond and never go back.  Which entry the LRU store       *)
(* evicts when it is full is left open.                                    *)
(***************************************************************************)
EXTENDS Naturals, FiniteSets

CONSTANTS
  Key,       \* cache keys
  Config,    \* hashes of configuration keys
  nil,
  Capacity,  \* features.XDSCacheMaxSize
  MaxTime, MaxBuilds  \* bounds on the clock readings and the builds at a time

ASSUME CacheAssumption == Capacity \in Nat \ {0} /\ MaxTime \in Nat /\ MaxBuilds \in Nat

VARIABLES
  store, token, configIndex, evictQueue,  \* the fields of lruCache
  clock,    \* the time of the last clock reading; 0 is the zero time
  version,  \* per configuration: how often it has changed
  builds    \* resources built and not yet added

lruVars == <<store, token, configIndex, evictQueue, clock, version, builds>>

cacheValue == [token : Nat, deps : SUBSET Config, seen : [Config -> Nat]]
Build == [key : Key, start : Nat, deps : SUBSET Config, seen : [Config -> Nat]]
evictKeyConfigs == [key : Key, deps : SUBSET Config]

ASSUME NilAssumption == nil \notin cacheValue

Stored == {k \in Key : store[k] # nil}
Evicted(k) == [key |-> k, deps |-> store[k].deps]

LruInit ==
  /\ store = [k \in Key |-> nil] /\ token = 0
  /\ configIndex = [c \in Config |-> {}] /\ evictQueue = {}
  /\ clock = 0 /\ version = [c \in Config |-> 0] /\ builds = {}

-----------------------------------------------------------------------------
(* Pushes *)

\* A push takes its start time.
StartPush ==
  /\ clock < MaxTime
  /\ clock' = clock + 1
  /\ UNCHANGED <<store, token, configIndex, evictQueue, version, builds>>

\* A generator reads what the resource depends on.  Its request may have been
\* merged with an earlier one or carry the connection's last push time, which
\* is the zero time before the first push.
BuildResource(k, start, deps) ==
  /\ Cardinality(builds) < MaxBuilds
  /\ builds' = builds \union
       {[key |-> k, start |-> start, deps |-> deps, seen |-> version]}
  /\ UNCHANGED <<store, token, configIndex, evictQueue, clock, version>>

\* Mutant: resources of pushes that started before the last clear are kept.
RefusedOnlyOlder(b) == b.start = 0 \/ (store[b.key] # nil /\ b.start <= store[b.key].token)

\* No push time, older than the last clear, or not newer than what is stored.
Refused(b) ==
  \/ b.start = 0
  \/ b.start < token
  \/ store[b.key] # nil /\ b.start <= store[b.key].token

\* The store makes room for a new key when it is full.
Victims(k) ==
  IF k \in Stored \/ Cardinality(Stored) < Capacity THEN {{}} ELSE {{v} : v \in Stored}

updateConfigIndex(k, deps) ==
  [c \in Config |-> IF c \in deps THEN configIndex[c] \union {k} ELSE configIndex[c]]

\* Mutant: what the overwritten entry depended on is not queued.
AddLeaks(b) ==
  /\ b \in builds
  /\ builds' = builds \ {b}
  /\ IF Refused(b) THEN UNCHANGED <<store, token, configIndex, evictQueue>>
     ELSE /\ \E out \in Victims(b.key) :
               /\ store' = [k \in Key |->
                    IF k = b.key THEN [token |-> b.start, deps |-> b.deps, seen |-> b.seen]
                    ELSE IF k \in out THEN nil ELSE store[k]]
               /\ evictQueue' = evictQueue \union {Evicted(k) : k \in out}
          /\ token' = b.start
          /\ configIndex' = updateConfigIndex(b.key, b.deps)
  /\ UNCHANGED <<clock, version>>

\* Evicted and overwritten entries are queued with what they depended on.
Add(b) ==
  /\ b \in builds
  /\ builds' = builds \ {b}
  /\ IF Refused(b) THEN UNCHANGED <<store, token, configIndex, evictQueue>>
     ELSE /\ \E out \in Victims(b.key) :
               /\ store' = [k \in Key |->
                    IF k = b.key THEN [token |-> b.start, deps |-> b.deps, seen |-> b.seen]
                    ELSE IF k \in out THEN nil ELSE store[k]]
               /\ evictQueue' = evictQueue \union
                    {Evicted(k) : k \in out \union (Stored \intersect {b.key})}
          /\ token' = b.start
          /\ configIndex' = updateConfigIndex(b.key, b.deps)
  /\ UNCHANGED <<clock, version>>

-----------------------------------------------------------------------------
(* Invalidation *)

\* Mutant: the token is a clock reading ahead of the clock.
ClearAhead(cs) ==
  LET removed == Stored \intersect UNION {configIndex[c] : c \in cs}
  IN /\ clock < MaxTime
     /\ clock' = clock /\ token' = clock + 1
     /\ version' = [c \in Config |-> IF c \in cs THEN version[c] + 1 ELSE version[c]]
     /\ store' = [k \in Key |-> IF k \in removed THEN nil ELSE store[k]]
     /\ configIndex' = [c \in Config |-> IF c \in cs THEN {} ELSE configIndex[c]]
     /\ evictQueue' = evictQueue \union {Evicted(k) : k \in removed}
     /\ UNCHANGED builds

\* Configurations change and what depends on them is cleared, under the lock
\* that a generator takes to read them (EndpointIndex.clearCacheForService).
Clear(cs) ==
  LET removed == Stored \intersect UNION {configIndex[c] : c \in cs}
  IN /\ clock < MaxTime
     /\ clock' = clock + 1 /\ token' = clock + 1
     /\ version' = [c \in Config |-> IF c \in cs THEN version[c] + 1 ELSE version[c]]
     /\ store' = [k \in Key |-> IF k \in removed THEN nil ELSE store[k]]
     /\ configIndex' = [c \in Config |-> IF c \in cs THEN {} ELSE configIndex[c]]
     /\ evictQueue' = evictQueue \union {Evicted(k) : k \in removed}
     /\ UNCHANGED builds

ClearAll ==
  /\ clock < MaxTime
  /\ clock' = clock + 1 /\ token' = clock + 1
  /\ version' = [c \in Config |-> version[c] + 1]
  /\ store' = [k \in Key |-> nil]
  /\ configIndex' = [c \in Config |-> {}] /\ evictQueue' = {}
  /\ UNCHANGED builds

\* Mutant: every queued pair leaves the index, a re-added key's too.
clearConfigIndexAll(k, c) == \E e \in evictQueue : e.key = k /\ c \in e.deps

\* A queued key leaves the index of what its stored entry does not depend on.
clearConfigIndex(k, c) ==
  /\ \E e \in evictQueue : e.key = k /\ c \in e.deps
  /\ ~(store[k] # nil /\ c \in store[k].deps)

Flush ==
  /\ configIndex' = [c \in Config |-> {k \in configIndex[c] : ~clearConfigIndex(k, c)}]
  /\ evictQueue' = {}
  /\ UNCHANGED <<store, token, clock, version, builds>>

-----------------------------------------------------------------------------
LruNext ==
  \/ StartPush
  \/ \E k \in Key, start \in 0..clock, deps \in SUBSET Config : BuildResource(k, start, deps)
  \/ \E b \in builds : Add(b)
  \/ \E cs \in SUBSET Config : Clear(cs)
  \/ ClearAll
  \/ Flush

LruSpec == LruInit /\ [][LruNext]_lruVars

-----------------------------------------------------------------------------
LruTypeOK ==
  /\ store \in [Key -> cacheValue \union {nil}]
  /\ clock \in Nat /\ token \in 0..clock
  /\ configIndex \in [Config -> SUBSET Key]
  /\ evictQueue \in SUBSET evictKeyConfigs
  /\ version \in [Config -> Nat]
  /\ builds \in SUBSET Build

\* Clear finds what it has to remove: an entry is indexed under everything it
\* depends on, whatever Add, Clear, eviction and the delayed Flush did between.
IndexComplete ==
  \A k \in Stored : \A c \in store[k].deps : k \in configIndex[c]

\* "to prevent leaking in the index maps": a key the index should no longer
\* hold is queued, so that the next Flush takes it out.
NoIndexLeak ==
  \A c \in Config : \A k \in configIndex[c] :
    \/ store[k] # nil /\ c \in store[k].deps
    \/ \E e \in evictQueue : e.key = k /\ c \in e.deps

\* "entry may be stale, we need to drop it": no entry was built before the
\* last change of anything it depends on, however late its builder adds it.
NoStaleEntry ==
  \A k \in Stored : \A c \in store[k].deps : store[k].seen[c] = version[c]
=============================================================================
