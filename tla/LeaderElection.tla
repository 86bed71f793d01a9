--------------------------- MODULE LeaderElection ---------------------------
(* Leader election (leaderelection.go and its copy of the client-go elector).

   Electors compete for one lock object of the API server.  A write carries
   the resource version of the last read or write and is refused when the
   object has changed since.  An elector that sees the object unchanged for
   LeaseDuration of its own clock takes the lock over; a leader that fails to
   renew it for RenewDeadline gives up.  OnStartedLeading runs in a goroutine
   of its own and starts the registered functions under a context that ends
   with the leadership.

   The clock counts retry periods.  It does not advance past a timer of an
   elector, nor while a goroutine or a release is pending: a process that
   stops for a whole period, or an answer that takes one, is outside the
   model, as the lease cannot exclude two leaders then.  *)
EXTENDS Naturals, FiniteSets, TLAPS

CONSTANTS Elector,
          MaxTime, MaxErrors, MaxStops, MaxCycles,
          nil

VARIABLES now,
          lock,       \* the object: holder and resource version, nil before it exists
          pc,
          seen,       \* the version Get or an update returned last (Lock's own copy)
          raw,        \* observedRawRecord, as the version it was read at
          holder,     \* observedRecord.HolderIdentity
          since,      \* observedTime
          timer,      \* the next poll, or the deadline of the running one
          cycle,
          starting,   \* cycles whose OnStartedLeading goroutine has not run
          fns,        \* the cycle whose run functions are alive, or nil
          enabled,
          errors, stops

elVars == <<now, lock, pc, seen, raw, holder, since, timer, cycle, starting, fns, enabled,
            errors, stops>>

\* The lock as the API server stores it.
Object == [holder : Elector \cup {nil}, version : Nat]

ASSUME LeaderElectionAssumption ==
  /\ MaxTime \in Nat /\ MaxErrors \in Nat /\ MaxStops \in Nat /\ MaxCycles \in Nat
  /\ nil \notin Elector /\ nil \notin Nat /\ nil \notin Object

\* create(): ttl, ttl / 2 and ttl / 4.
RetryPeriod == 1
LeaseDuration == 4 * RetryPeriod
RenewDeadline == 2 * RetryPeriod

\* NewLeaderElector accepts durations that leave time for another try, jittered
\* by a fifth, before the deadline, and for giving up before the lease ends.
NewLeaderElector == LeaseDuration > RenewDeadline /\ 5 * RenewDeadline > 6 * RetryPeriod

Leading == {"leading", "renew", "renewing"}

Init ==
  /\ now = 0 /\ lock = nil
  /\ pc = [e \in Elector |-> "cycle"]
  /\ seen = [e \in Elector |-> nil] /\ raw = [e \in Elector |-> nil]
  /\ holder = [e \in Elector |-> nil] /\ since = [e \in Elector |-> 0]
  /\ timer = [e \in Elector |-> 0] /\ cycle = [e \in Elector |-> 0]
  /\ starting = [e \in Elector |-> {}] /\ fns = [e \in Elector |-> nil]
  /\ enabled \in BOOLEAN
  /\ errors = 0 /\ stops = 0

Rest == <<now, cycle, starting, fns, enabled, errors, stops>>

IsLeader(e) == holder[e] = e

setObservedRecord(e, h) == holder' = [holder EXCEPT ![e] = h] /\ since' = [since EXCEPT ![e] = now]

\* Mutant: the lease of another is over when it must have renewed.
HeldToDeadline(e) == holder[e] # nil /\ since[e] + RenewDeadline > now /\ ~IsLeader(e)

\* A lock that is held and was seen to change within the lease belongs to
\* another elector.
Held(e) == holder[e] # nil /\ since[e] + LeaseDuration > now /\ ~IsLeader(e)

--------------------------------------------------------------------------
(* LeaderElection.Run: one cycle after another until it is stopped. *)

StartCycle(e) ==
  /\ pc[e] = "cycle" /\ enabled /\ cycle[e] < MaxCycles /\ NewLeaderElector
  /\ pc' = [pc EXCEPT ![e] = "acquire"]
  /\ cycle' = [cycle EXCEPT ![e] = @ + 1]
  /\ raw' = [raw EXCEPT ![e] = nil] /\ holder' = [holder EXCEPT ![e] = nil]
  /\ seen' = [seen EXCEPT ![e] = nil]
  /\ UNCHANGED <<now, lock, since, timer, starting, fns, enabled, errors, stops>>

\* Election disabled: the functions run until the process stops.
Bypass(e) ==
  /\ pc[e] = "cycle" /\ ~enabled
  /\ pc' = [pc EXCEPT ![e] = "bypass"]
  /\ fns' = [fns EXCEPT ![e] = 0]
  /\ UNCHANGED <<now, lock, seen, raw, holder, since, timer, cycle, starting, enabled, errors, stops>>

\* The callback goroutine: it cancels the functions of an earlier leadership
\* and starts new ones under the context of its own cycle.
OnStartedLeading(e, c) ==
  /\ c \in starting[e]
  /\ starting' = [starting EXCEPT ![e] = @ \ {c}]
  /\ fns' = [fns EXCEPT ![e] = IF c = cycle[e] /\ pc[e] \in Leading \cup {"release"} THEN c ELSE nil]
  /\ UNCHANGED <<now, lock, pc, seen, raw, holder, since, timer, cycle, enabled, errors, stops>>

--------------------------------------------------------------------------
(* tryAcquireOrRenew: Get, then Create or Update. *)

Version == IF lock = nil THEN nil ELSE lock.version

\* The object once h has written itself, or nil on a release, into it.
Written(h) == [holder |-> h, version |-> IF lock = nil THEN 1 ELSE lock.version + 1]

\* The step after a successful or failed attempt.  renew starts the first renewal
\* at once.
Succeeded(e) ==
  /\ pc' = [pc EXCEPT ![e] = "leading"]
  /\ timer' = [timer EXCEPT ![e] = IF pc[e] = "acquiring" THEN now ELSE now + RetryPeriod]
  /\ starting' = [starting EXCEPT ![e] = IF pc[e] = "acquiring" THEN @ \cup {cycle[e]} ELSE @]

Failed(e) ==
  /\ pc' = [pc EXCEPT ![e] = IF @ \in {"acquire", "acquiring"} THEN "acquire" ELSE "renew"]
  /\ UNCHANGED <<timer, starting>>

\* A renewal is polled at once and then every period until its deadline.
Due(e) == pc[e] = "acquire" \/ (pc[e] = "renew" /\ now < timer[e])

Get(e) ==
  /\ Due(e)
  /\ seen' = [seen EXCEPT ![e] = Version]
  /\ IF lock = nil \/ raw[e] = lock.version
     THEN UNCHANGED <<raw, holder, since>>
     ELSE setObservedRecord(e, lock.holder) /\ raw' = [raw EXCEPT ![e] = lock.version]
  /\ pc' = [pc EXCEPT ![e] = IF @ = "acquire" THEN "acquiring" ELSE "renewing"]
  /\ UNCHANGED <<lock, timer, Rest>>

\* The lock is held by another and has not expired.
Refused(e) ==
  /\ pc[e] \in {"acquiring", "renewing"}
  /\ seen[e] # nil /\ Held(e)
  /\ Failed(e)
  /\ UNCHANGED <<now, lock, seen, raw, holder, since, cycle, fns, enabled, errors, stops>>

\* Create or Update with the version that was read.
Write(e) ==
  /\ pc[e] \in {"acquiring", "renewing"}
  /\ seen[e] = nil \/ ~Held(e)
  /\ IF seen[e] = Version
     THEN /\ lock' = Written(e) /\ seen' = [seen EXCEPT ![e] = lock'.version]
          /\ setObservedRecord(e, e)
          /\ Succeeded(e)
     ELSE Failed(e) /\ UNCHANGED <<lock, seen, holder, since>>
  /\ UNCHANGED <<now, raw, cycle, fns, enabled, errors, stops>>

\* The API server answers with an error; the write may have been applied.
ApiError(e) ==
  /\ errors < MaxErrors /\ errors' = errors + 1
  /\ pc[e] \in {"acquiring", "renewing"}
  /\ lock' \in {lock} \cup (IF (seen[e] = nil \/ ~Held(e)) /\ seen[e] = Version THEN {Written(e)} ELSE {})
  /\ Failed(e)
  /\ UNCHANGED <<now, seen, raw, holder, since, cycle, fns, enabled, stops>>

--------------------------------------------------------------------------
(* renew and release. *)

\* wait.Until: the next renewal starts a period after the last one ended.
StartRenewal(e) ==
  /\ pc[e] = "leading" /\ now >= timer[e]
  /\ pc' = [pc EXCEPT ![e] = "renew"]
  /\ timer' = [timer EXCEPT ![e] = now + RenewDeadline]
  /\ UNCHANGED <<lock, seen, raw, holder, since, Rest>>

\* The deadline passes, or stop is closed: the leader gives the lock up.
GiveUp(e) ==
  /\ \/ pc[e] \in {"renew", "renewing"} /\ now >= timer[e]
     \/ pc[e] \in Leading /\ stops < MaxStops
  /\ stops' = IF pc[e] \in {"renew", "renewing"} /\ now >= timer[e] THEN stops ELSE stops + 1
  /\ pc' = [pc EXCEPT ![e] = "release"]
  /\ timer' = [timer EXCEPT ![e] = IF stops' # stops THEN MaxTime + 1 ELSE now]
  /\ UNCHANGED <<now, lock, seen, raw, holder, since, cycle, starting, fns, enabled, errors>>

\* Stop is closed before the lock was acquired.
StopAcquiring(e) ==
  /\ pc[e] \in {"acquire", "acquiring"} /\ stops < MaxStops
  /\ stops' = stops + 1
  /\ pc' = [pc EXCEPT ![e] = "stopped"]
  /\ timer' = [timer EXCEPT ![e] = MaxTime + 1]
  /\ UNCHANGED <<now, lock, seen, raw, holder, since, cycle, starting, fns, enabled, errors>>

\* release writes an empty holder with the version it holds; then the
\* contexts end, OnStoppedLeading runs and the next cycle starts, or none
\* when stop was closed.
release(e, written) ==
  /\ pc[e] = "release"
  /\ IF IsLeader(e) /\ written /\ seen[e] = Version
     THEN lock' = Written(nil)
     ELSE UNCHANGED lock
  /\ pc' = [pc EXCEPT ![e] = "stopped"]
  /\ UNCHANGED <<seen, raw, holder, since, timer, Rest>>

OnStoppedLeading(e) ==
  /\ pc[e] = "stopped"
  /\ fns' = [fns EXCEPT ![e] = nil]
  /\ pc' = [pc EXCEPT ![e] = IF timer[e] > MaxTime THEN "done" ELSE "cycle"]
  /\ UNCHANGED <<now, lock, seen, raw, holder, since, timer, cycle, starting, enabled, errors, stops>>

\* The process dies and is restarted in the same pod, under the same identity.
Restart(e) ==
  /\ stops < MaxStops /\ stops' = stops + 1
  /\ pc[e] # "cycle"
  /\ pc' = [pc EXCEPT ![e] = "cycle"]
  /\ fns' = [fns EXCEPT ![e] = nil] /\ starting' = [starting EXCEPT ![e] = {}]
  /\ timer' = [timer EXCEPT ![e] = 0]
  /\ UNCHANGED <<now, lock, seen, raw, holder, since, cycle, enabled, errors>>

\* Attempts to acquire are made at most a jittered period apart, so time may
\* pass between them; nothing else is left waiting.
Tick ==
  /\ now < MaxTime
  /\ \A e \in Elector :
       /\ pc[e] \in {"leading", "renew", "renewing"} => now < timer[e]
       /\ pc[e] \notin {"release", "stopped"}
       /\ starting[e] = {}
  /\ now' = now + 1
  /\ UNCHANGED <<lock, pc, seen, raw, holder, since, timer, cycle, starting, fns, enabled, errors, stops>>

Next ==
  \/ Tick
  \/ \E e \in Elector :
       \/ StartCycle(e) \/ Bypass(e) \/ Get(e) \/ Refused(e) \/ Write(e) \/ ApiError(e)
       \/ StartRenewal(e) \/ StopAcquiring(e) \/ GiveUp(e) \/ release(e, TRUE) \/ release(e, FALSE)
       \/ OnStoppedLeading(e) \/ Restart(e)
       \/ \E c \in 1..MaxCycles : OnStartedLeading(e, c)

Spec == Init /\ [][Next]_elVars

--------------------------------------------------------------------------
TypeOK ==
  /\ now \in Nat /\ lock \in Object \cup {nil}
  /\ pc \in [Elector -> {"cycle", "bypass", "acquire", "acquiring", "release", "stopped", "done"} \cup Leading]
  /\ seen \in [Elector -> Nat \cup {nil}] /\ raw \in [Elector -> Nat \cup {nil}]
  /\ holder \in [Elector -> Elector \cup {nil}] /\ since \in [Elector -> Nat]
  /\ timer \in [Elector -> Nat] /\ cycle \in [Elector -> Nat]
  /\ starting \in [Elector -> SUBSET Nat] /\ fns \in [Elector -> Nat \cup {nil}]
  /\ enabled \in BOOLEAN /\ errors \in Nat /\ stops \in Nat

Works(e) == fns[e] # nil /\ pc[e] \in Leading

\* At most one elector leads at a time, whatever calls fail and whoever
\* restarts; a leader whose callback has run has its functions running, and
\* functions run only between the acquisition and the end of the cycle
\* (acquire, renew and release with the three durations of create).
OneLeader ==
  enabled =>
    /\ \A e, f \in Elector : pc[e] \in Leading /\ pc[f] \in Leading => e = f
    /\ \A e \in Elector :
         /\ pc[e] \in Leading /\ cycle[e] \notin starting[e] => Works(e)
         /\ fns[e] # nil => pc[e] \in Leading \cup {"release", "stopped"}

--------------------------------------------------------------------------
(* OneLeader holds for every set of electors and every bound.

   The lock names its holder, so it is enough that a leader is the holder it
   names.  Another elector writes the lock only after it has seen one version
   of it for a lease, and the leader that wrote that version gives up before:
   Until(e) is the time by which it does.  *)

\* The time by which a leader that does not renew has given up: it starts to
\* renew at its timer, and then its timer is the deadline.
Until(e) == IF pc[e] = "leading" THEN timer[e] + RenewDeadline ELSE timer[e]

\* What an elector has read or written is not ahead of the lock, and tells its
\* holder while the lock has not changed.
Observed ==
  \A f \in Elector :
    /\ raw[f] # nil => lock # nil /\ raw[f] <= lock.version
    /\ seen[f] # nil => lock # nil /\ seen[f] <= lock.version
    /\ lock # nil /\ raw[f] = lock.version => holder[f] = lock.holder
    /\ lock # nil /\ seen[f] = lock.version => holder[f] = lock.holder
    /\ pc[f] \in {"acquiring", "renewing"} => seen[f] = raw[f]

\* A leader is the holder that the lock names, and keeps its times.
LeaderHolds ==
  \A e \in Elector : pc[e] \in Leading =>
    /\ lock # nil /\ lock.holder = e
    /\ now <= timer[e]
    /\ timer[e] <= now + (IF pc[e] = "leading" THEN RetryPeriod ELSE RenewDeadline)

\* An elector that has seen the lock as it is waits longer than its leader
\* leads.
LeaseOutlasts ==
  \A e, f \in Elector :
    pc[e] \in Leading /\ e # f /\ lock # nil /\ raw[f] = lock.version => since[f] + LeaseDuration > Until(e)

\* The callback of a cycle runs before time passes, or after the elector was
\* stopped for good.
Callbacks ==
  \A e \in Elector :
    /\ starting[e] \subseteq {cycle[e]}
    /\ starting[e] # {} => \/ pc[e] = "leading"
                           \/ pc[e] \in {"renew", "renewing"} /\ now < timer[e]
                           \/ pc[e] \in {"release", "stopped"} /\ timer[e] > MaxTime
                           \/ pc[e] = "done"
    /\ enabled /\ pc[e] \in Leading /\ cycle[e] \notin starting[e] => fns[e] # nil
    /\ enabled /\ fns[e] # nil => pc[e] \in Leading \cup {"release", "stopped"}

Inv == TypeOK /\ Observed /\ LeaderHolds /\ LeaseOutlasts /\ Callbacks

--------------------------------------------------------------------------
\* The durations of create, as numbers.
LEMMA Durations ==
  /\ RetryPeriod = 1 /\ LeaseDuration = 4 /\ RenewDeadline = 2
BY DEF RetryPeriod, LeaseDuration, RenewDeadline

\* While an elector leads no other one gets past the checks of
\* tryAcquireOrRenew: it has seen the lock as it is for less than a lease.
LEMMA NoUsurper ==
  ASSUME Inv, NEW e \in Elector, NEW f \in Elector, e # f, pc[e] \in Leading,
         pc[f] \in {"acquiring", "renewing"}, seen[f] = nil \/ ~Held(f), seen[f] = Version
  PROVE  FALSE
<1>1. lock # nil /\ lock.holder = e /\ lock \in Object
  BY DEF Inv, LeaderHolds, TypeOK
<1>2. seen[f] = lock.version /\ seen[f] \in Nat /\ seen[f] # nil
  BY <1>1, LeaderElectionAssumption DEF Version, Object
<1>3. raw[f] = lock.version /\ holder[f] = e
  BY <1>1, <1>2 DEF Inv, Observed
<1>4. since[f] + LeaseDuration > Until(e)
  BY <1>1, <1>3 DEF Inv, LeaseOutlasts
<1>5. Until(e) >= now
  BY Durations DEF Inv, LeaderHolds, Until, TypeOK
<1>6. since[f] + LeaseDuration > now
  BY <1>4, <1>5, Durations DEF Inv, TypeOK, Until
<1> QED BY <1>2, <1>3, <1>6, LeaderElectionAssumption DEF Held, IsLeader

\* The same for release: an elector that gives up leaves the lock alone once
\* another one leads.
LEMMA NoForeignRelease ==
  ASSUME Inv, NEW e \in Elector, NEW f \in Elector, e # f, pc[e] \in Leading,
         IsLeader(f), seen[f] = Version
  PROVE  FALSE
<1>1. lock # nil /\ lock.holder = e /\ lock \in Object
  BY DEF Inv, LeaderHolds, TypeOK
<1> QED BY <1>1 DEF Inv, Observed, Version, IsLeader

\* What a write leaves in the lock.
LEMMA WrittenObject ==
  ASSUME TypeOK, NEW h \in Elector \cup {nil}
  PROVE  /\ Written(h) \in Object /\ Written(h) # nil
         /\ Written(h).holder = h /\ Written(h).version \in Nat
         /\ lock # nil => Written(h).version = lock.version + 1
BY LeaderElectionAssumption DEF TypeOK, Object, Written

\* Every action changes the entries of one elector and keeps the types.
LEMMA TypeInductive == TypeOK /\ [Next]_elVars => TypeOK'
<1> SUFFICES ASSUME TypeOK, [Next]_elVars PROVE TypeOK'
  OBVIOUS
<1> USE DEF TypeOK
<1>1. CASE UNCHANGED elVars BY <1>1 DEF elVars
<1>2. CASE Tick BY <1>2 DEF Tick
<1>3. ASSUME NEW e \in Elector, StartCycle(e) PROVE TypeOK'
  BY <1>3 DEF StartCycle, Leading
<1>4. ASSUME NEW e \in Elector, Bypass(e) PROVE TypeOK'
  BY <1>4 DEF Bypass, Leading
<1>5. ASSUME NEW e \in Elector, Get(e) PROVE TypeOK'
  BY <1>5, Durations DEF Get, Version, setObservedRecord, Rest, Object, Leading
<1>6. ASSUME NEW e \in Elector, Refused(e) PROVE TypeOK'
  BY <1>6 DEF Refused, Failed, Leading
<1>7. ASSUME NEW e \in Elector, Write(e) PROVE TypeOK'
  BY <1>7, WrittenObject, LeaderElectionAssumption, Durations
  DEF Write, Failed, Succeeded, setObservedRecord, Leading
<1>8. ASSUME NEW e \in Elector, ApiError(e) PROVE TypeOK'
  BY <1>8, WrittenObject, LeaderElectionAssumption DEF ApiError, Failed, Leading
<1>9. ASSUME NEW e \in Elector, StartRenewal(e) PROVE TypeOK'
  BY <1>9, Durations DEF StartRenewal, Rest, Leading
<1>10. ASSUME NEW e \in Elector, StopAcquiring(e) PROVE TypeOK'
  BY <1>10, LeaderElectionAssumption DEF StopAcquiring, Leading
<1>11. ASSUME NEW e \in Elector, GiveUp(e) PROVE TypeOK'
  BY <1>11, LeaderElectionAssumption DEF GiveUp, Leading
<1>12. ASSUME NEW e \in Elector, OnStoppedLeading(e) PROVE TypeOK'
  BY <1>12 DEF OnStoppedLeading, Leading
<1>13. ASSUME NEW e \in Elector, Restart(e) PROVE TypeOK'
  BY <1>13 DEF Restart, Leading
<1>14. ASSUME NEW e \in Elector, NEW w \in BOOLEAN, release(e, w) PROVE TypeOK'
  BY <1>14, WrittenObject DEF release, Rest
<1>15. ASSUME NEW e \in Elector, NEW c \in 1..MaxCycles, OnStartedLeading(e, c) PROVE TypeOK'
  BY <1>15, LeaderElectionAssumption DEF OnStartedLeading
<1> QED BY <1>1, <1>2, <1>3, <1>4, <1>5, <1>6, <1>7, <1>8, <1>9, <1>10, <1>11, <1>12, <1>13, <1>14, <1>15 DEF Next

\* What an elector knows of the lock stays true: versions only grow, and an
\* elector that writes knows what it wrote.
LEMMA ObservedInductive == Inv /\ TypeOK' /\ [Next]_elVars => Observed'
<1> SUFFICES ASSUME Inv, TypeOK', [Next]_elVars PROVE Observed'
  OBVIOUS
<1> USE DEF Inv, TypeOK
<1>1. CASE UNCHANGED elVars BY <1>1 DEF elVars, Observed
<1>2. CASE Tick BY <1>2 DEF Tick, Observed
<1>3. ASSUME NEW e \in Elector, StartCycle(e) PROVE Observed'
  BY <1>3, LeaderElectionAssumption DEF StartCycle, Observed, Object
<1>4. ASSUME NEW e \in Elector, Bypass(e) PROVE Observed'
  BY <1>4 DEF Bypass, Observed
<1>5. ASSUME NEW e \in Elector, Get(e) PROVE Observed'
  BY <1>5, LeaderElectionAssumption DEF Get, Version, setObservedRecord, Rest, Object, Due, Observed
<1>6. ASSUME NEW e \in Elector, Refused(e) PROVE Observed'
  BY <1>6 DEF Refused, Failed, Observed
<1>7. ASSUME NEW e \in Elector, Write(e) PROVE Observed'
  BY <1>7, WrittenObject, LeaderElectionAssumption
  DEF Write, Failed, Succeeded, setObservedRecord, Version, Object, Observed
<1>8. ASSUME NEW e \in Elector, ApiError(e) PROVE Observed'
  BY <1>8, WrittenObject, LeaderElectionAssumption DEF ApiError, Failed, Version, Object, Observed
<1>9. ASSUME NEW e \in Elector, StartRenewal(e) PROVE Observed'
  BY <1>9 DEF StartRenewal, Rest, Observed
<1>10. ASSUME NEW e \in Elector, StopAcquiring(e) PROVE Observed'
  BY <1>10 DEF StopAcquiring, Observed
<1>11. ASSUME NEW e \in Elector, GiveUp(e) PROVE Observed'
  BY <1>11 DEF GiveUp, Observed
<1>12. ASSUME NEW e \in Elector, OnStoppedLeading(e) PROVE Observed'
  BY <1>12 DEF OnStoppedLeading, Observed
<1>13. ASSUME NEW e \in Elector, Restart(e) PROVE Observed'
  BY <1>13 DEF Restart, Observed
<1>14. ASSUME NEW e \in Elector, NEW w \in BOOLEAN, release(e, w) PROVE Observed'
  BY <1>14, WrittenObject, LeaderElectionAssumption DEF release, Rest, Observed, Object
<1>15. ASSUME NEW e \in Elector, NEW c \in 1..MaxCycles, OnStartedLeading(e, c) PROVE Observed'
  BY <1>15, LeaderElectionAssumption DEF OnStartedLeading, Observed
<1> QED BY <1>1, <1>2, <1>3, <1>4, <1>5, <1>6, <1>7, <1>8, <1>9, <1>10, <1>11, <1>12, <1>13, <1>14, <1>15 DEF Next

\* Nobody but the leader writes the lock while it leads, and it does not lead
\* past its timer.
LEMMA HoldsInductive == Inv /\ TypeOK' /\ [Next]_elVars => LeaderHolds'
<1> SUFFICES ASSUME Inv, TypeOK', [Next]_elVars PROVE LeaderHolds'
  OBVIOUS
<1> USE DEF Inv, TypeOK
<1>1. CASE UNCHANGED elVars BY <1>1 DEF elVars, LeaderHolds
<1>2. CASE Tick BY <1>2, Durations DEF Tick, LeaderHolds, Leading
<1>3. ASSUME NEW e \in Elector, StartCycle(e) PROVE LeaderHolds'
  BY <1>3, LeaderElectionAssumption DEF StartCycle, LeaderHolds, Leading
<1>4. ASSUME NEW e \in Elector, Bypass(e) PROVE LeaderHolds'
  BY <1>4 DEF Bypass, LeaderHolds, Leading
<1>5. ASSUME NEW e \in Elector, Get(e) PROVE LeaderHolds'
  BY <1>5, LeaderElectionAssumption, Durations
  DEF Get, Version, setObservedRecord, Rest, Object, Due, LeaderHolds, Leading
<1>6. ASSUME NEW e \in Elector, Refused(e) PROVE LeaderHolds'
  BY <1>6 DEF Refused, Failed, LeaderHolds, Leading
<1>7. ASSUME NEW e \in Elector, Write(e) PROVE LeaderHolds'
  BY <1>7, WrittenObject, NoUsurper, LeaderElectionAssumption, Durations
  DEF Write, Failed, Succeeded, setObservedRecord, Version, Object, LeaderHolds, Leading
<1>8. ASSUME NEW e \in Elector, ApiError(e) PROVE LeaderHolds'
  BY <1>8, WrittenObject, NoUsurper, LeaderElectionAssumption
  DEF ApiError, Failed, Version, Object, LeaderHolds, Leading
<1>9. ASSUME NEW e \in Elector, StartRenewal(e) PROVE LeaderHolds'
  BY <1>9, Durations DEF StartRenewal, Rest, LeaderHolds, Leading
<1>10. ASSUME NEW e \in Elector, StopAcquiring(e) PROVE LeaderHolds'
  BY <1>10 DEF StopAcquiring, LeaderHolds, Leading
<1>11. ASSUME NEW e \in Elector, GiveUp(e) PROVE LeaderHolds'
  BY <1>11 DEF GiveUp, LeaderHolds, Leading
<1>12. ASSUME NEW e \in Elector, OnStoppedLeading(e) PROVE LeaderHolds'
  BY <1>12 DEF OnStoppedLeading, LeaderHolds, Leading
<1>13. ASSUME NEW e \in Elector, Restart(e) PROVE LeaderHolds'
  BY <1>13 DEF Restart, LeaderHolds, Leading
<1>14. ASSUME NEW e \in Elector, NEW w \in BOOLEAN, release(e, w) PROVE LeaderHolds'
  BY <1>14, WrittenObject, NoForeignRelease, LeaderElectionAssumption
  DEF release, Rest, LeaderHolds, Leading, Object
<1>15. ASSUME NEW e \in Elector, NEW c \in 1..MaxCycles, OnStartedLeading(e, c) PROVE LeaderHolds'
  BY <1>15, LeaderElectionAssumption DEF OnStartedLeading, LeaderHolds, Leading
<1> QED BY <1>1, <1>2, <1>3, <1>4, <1>5, <1>6, <1>7, <1>8, <1>9, <1>10, <1>11, <1>12, <1>13, <1>14, <1>15 DEF Next

\* An elector that reads the lock while another one leads waits a whole lease
\* from then on, and a leader that renews has written a version nobody has read.
LEMMA LeaseInductive == Inv /\ TypeOK' /\ [Next]_elVars => LeaseOutlasts'
<1> SUFFICES ASSUME Inv, TypeOK', [Next]_elVars PROVE LeaseOutlasts'
  OBVIOUS
<1> USE DEF Inv, TypeOK
<1>1. CASE UNCHANGED elVars BY <1>1 DEF elVars, LeaseOutlasts, Until
<1>2. CASE Tick BY <1>2 DEF Tick, LeaseOutlasts, Until
<1>3. ASSUME NEW e \in Elector, StartCycle(e) PROVE LeaseOutlasts'
  BY <1>3, LeaderElectionAssumption DEF StartCycle, LeaseOutlasts, Until, Leading, Object
<1>4. ASSUME NEW e \in Elector, Bypass(e) PROVE LeaseOutlasts'
  BY <1>4 DEF Bypass, LeaseOutlasts, LeaderHolds, Until, Leading
<1>5. ASSUME NEW e \in Elector, Get(e) PROVE LeaseOutlasts'
  BY <1>5, LeaderElectionAssumption, Durations
  DEF Get, Version, setObservedRecord, Rest, Object, Due, LeaseOutlasts, LeaderHolds, Until, Leading
<1>6. ASSUME NEW e \in Elector, Refused(e) PROVE LeaseOutlasts'
  BY <1>6 DEF Refused, Failed, LeaseOutlasts, LeaderHolds, Until, Leading
<1>7. ASSUME NEW e \in Elector, Write(e) PROVE LeaseOutlasts'
  BY <1>7, WrittenObject, NoUsurper, LeaderElectionAssumption, Durations, SMTT(60)
  DEF Write, Failed, Succeeded, setObservedRecord, Version, Object, LeaseOutlasts, LeaderHolds, Observed, Until, Leading
<1>8. ASSUME NEW e \in Elector, ApiError(e) PROVE LeaseOutlasts'
  BY <1>8, WrittenObject, NoUsurper, LeaderElectionAssumption
  DEF ApiError, Failed, Version, Object, LeaseOutlasts, LeaderHolds, Observed, Until, Leading
<1>9. ASSUME NEW e \in Elector, StartRenewal(e) PROVE LeaseOutlasts'
  BY <1>9, Durations DEF StartRenewal, Rest, LeaseOutlasts, LeaderHolds, Until, Leading
<1>10. ASSUME NEW e \in Elector, StopAcquiring(e) PROVE LeaseOutlasts'
  BY <1>10 DEF StopAcquiring, LeaseOutlasts, LeaderHolds, Until, Leading
<1>11. ASSUME NEW e \in Elector, GiveUp(e) PROVE LeaseOutlasts'
  BY <1>11 DEF GiveUp, LeaseOutlasts, LeaderHolds, Until, Leading
<1>12. ASSUME NEW e \in Elector, OnStoppedLeading(e) PROVE LeaseOutlasts'
  BY <1>12 DEF OnStoppedLeading, LeaseOutlasts, LeaderHolds, Until, Leading
<1>13. ASSUME NEW e \in Elector, Restart(e) PROVE LeaseOutlasts'
  BY <1>13 DEF Restart, LeaseOutlasts, LeaderHolds, Until, Leading
<1>14. ASSUME NEW e \in Elector, NEW w \in BOOLEAN, release(e, w) PROVE LeaseOutlasts'
  BY <1>14, WrittenObject, NoForeignRelease, LeaderElectionAssumption, SMTT(60)
  DEF release, Rest, LeaseOutlasts, LeaderHolds, Observed, Until, Leading, Object
<1>15. ASSUME NEW e \in Elector, NEW c \in 1..MaxCycles, OnStartedLeading(e, c) PROVE LeaseOutlasts'
  BY <1>15, LeaderElectionAssumption
  DEF OnStartedLeading, LeaseOutlasts, LeaderHolds, Until, Leading
<1> QED BY <1>1, <1>2, <1>3, <1>4, <1>5, <1>6, <1>7, <1>8, <1>9, <1>10, <1>11, <1>12, <1>13, <1>14, <1>15 DEF Next

\* A cycle ends with its callback run, unless the elector was stopped.
LEMMA CallbacksInductive == Inv /\ TypeOK' /\ [Next]_elVars => Callbacks'
<1> SUFFICES ASSUME Inv, TypeOK', [Next]_elVars PROVE Callbacks'
  OBVIOUS
<1> USE DEF Inv, TypeOK
<1>1. CASE UNCHANGED elVars BY <1>1 DEF elVars, Callbacks
<1>2. CASE Tick BY <1>2 DEF Tick, Callbacks
<1>3. ASSUME NEW e \in Elector, StartCycle(e) PROVE Callbacks'
  BY <1>3, LeaderElectionAssumption DEF StartCycle, Callbacks, Leading
<1>4. ASSUME NEW e \in Elector, Bypass(e) PROVE Callbacks'
  BY <1>4 DEF Bypass, Callbacks, Leading
<1>5. ASSUME NEW e \in Elector, Get(e) PROVE Callbacks'
  BY <1>5, LeaderElectionAssumption, Durations
  DEF Get, setObservedRecord, Rest, Due, Callbacks, Leading
<1>6. ASSUME NEW e \in Elector, Refused(e) PROVE Callbacks'
  BY <1>6 DEF Refused, Failed, Callbacks, Leading
<1>7. ASSUME NEW e \in Elector, Write(e) PROVE Callbacks'
  BY <1>7, LeaderElectionAssumption, Durations
  DEF Write, Failed, Succeeded, setObservedRecord, Callbacks, Leading
<1>8. ASSUME NEW e \in Elector, ApiError(e) PROVE Callbacks'
  BY <1>8, LeaderElectionAssumption DEF ApiError, Failed, Callbacks, Leading
<1>9. ASSUME NEW e \in Elector, StartRenewal(e) PROVE Callbacks'
  BY <1>9, Durations DEF StartRenewal, Rest, Callbacks, LeaderHolds, Leading
<1>10. ASSUME NEW e \in Elector, StopAcquiring(e) PROVE Callbacks'
  BY <1>10, LeaderElectionAssumption DEF StopAcquiring, Callbacks, Leading
<1>11. ASSUME NEW e \in Elector, GiveUp(e) PROVE Callbacks'
  BY <1>11, LeaderElectionAssumption DEF GiveUp, Callbacks, Leading
<1>12. ASSUME NEW e \in Elector, OnStoppedLeading(e) PROVE Callbacks'
  BY <1>12 DEF OnStoppedLeading, Callbacks, Leading
<1>13. ASSUME NEW e \in Elector, Restart(e) PROVE Callbacks'
  BY <1>13 DEF Restart, Callbacks, Leading
<1>14. ASSUME NEW e \in Elector, NEW w \in BOOLEAN, release(e, w) PROVE Callbacks'
  BY <1>14, LeaderElectionAssumption DEF release, Rest, Callbacks, Leading
<1>15. ASSUME NEW e \in Elector, NEW c \in 1..MaxCycles, OnStartedLeading(e, c) PROVE Callbacks'
  BY <1>15, LeaderElectionAssumption DEF OnStartedLeading, Callbacks, Leading
<1> QED BY <1>1, <1>2, <1>3, <1>4, <1>5, <1>6, <1>7, <1>8, <1>9, <1>10, <1>11, <1>12, <1>13, <1>14, <1>15 DEF Next

\* The parts together: an invariant of the electors and the lock.
LEMMA Inductive == Spec => []Inv
<1>1. Init => Inv
  BY LeaderElectionAssumption
  DEF Init, Inv, TypeOK, Observed, LeaderHolds, LeaseOutlasts, Callbacks, Leading
<1>2. Inv /\ [Next]_elVars => Inv'
  BY TypeInductive, ObservedInductive, HoldsInductive, LeaseInductive, CallbacksInductive DEF Inv
<1> QED BY <1>1, <1>2, PTL DEF Spec

\* Any number of electors that share a lock, whichever calls fail, whoever
\* stops or restarts: no two of them lead at the same time, and the functions
\* of an elector run while it leads and end with the cycle (acquire, renew,
\* release and tryAcquireOrRenew with the durations of create).
THEOREM LeaderUnique == Spec => []OneLeader
<1>1. Inv => OneLeader
  BY DEF Inv, LeaderHolds, Callbacks, OneLeader, Works
<1> QED BY <1>1, Inductive, PTL
============================================================================
