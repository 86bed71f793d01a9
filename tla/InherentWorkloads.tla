------------------------- MODULE InherentWorkloads -------------------------
(***************************************************************************)
(* The credentials controller of bootstrap/inherent_xds_controller.go:     *)
(* every managed Pod has a Secret of its own with a workload certificate,  *)
(* its root and the xDS bootstrap, kept current over changes of the Pod,   *)
(* of the Secret, of the CA's root and of the configuration, and rotated   *)
(* before the certificate expires.                                         *)
(*                                                                         *)
(* The API server is `pods` and `secrets`; the controller sees Pods        *)
(* through an informer (`cache`) and reads and writes                      *)
(* Secrets directly, each with a step of its own.  A write that carries    *)
(* the version it read fails when the Secret changed in between.  Another  *)
(* dubbod replica runs the same controller (PeerWrites).  One time unit is *)
(* a fifth of workloadCertTTL; delays are rounded down to whole units.     *)
(***************************************************************************)
EXTENDS Naturals, FiniteSets

CONSTANTS
  Setups,       \* [keys, uids, mounts, fields, rotations, errors, deletions, peers, restarts, configs, horizon]
  maxAttempts,  \* WithMaxAttempts
  SyncSignal, NoKey, nil

VARIABLES
  setup, left,  \* the scenario and what its bounds leave
  now,
  pods,         \* Pod name -> nil or [uid, managed, deleting, ip, mount]
  secrets,      \* Pod name -> nil or [owner, ip, cert, root, expire]
  root,         \* the root certificate of the active authority
  published,    \* the root whose publication reached the bundle watchers
  cache,        \* the Pod informer's view
  secretEvents, \* outstanding Secret events: <<Pod name, owner UID>>
  up,           \* "off", "started" (caches synced, watching the bundle) or "running"
  token,        \* bundleWatcherCh holds an element
  batch,        \* keys watchBundleChanges has still to add
  hand,         \* reconcile in progress: nil or [step, pod, secret, cert, root, expire]
  stale,        \* the Secret in hand changed since it was read
  rotations,    \* Pod name -> time, 0 when none is scheduled
  nextRotation, \* the time the rotation timer is set to, 0 for no timer
  gaveUp,       \* history: keys whose last reconcile was the last attempt, and failed
  crossed,      \* history: Pods whose certificate was signed before and stored after a root change
  harmed,       \* history: owners whose Secret was replaced or deleted on behalf of another Pod
  ready, dirty, processing, requeues, backoff, worker, running, shutDown, synced

Key == UNION {s.keys : s \in Setups}
Q == INSTANCE ControllerQueue
queueVars == <<ready, dirty, processing, requeues, backoff, worker, running, shutDown, synced>>
apiVars == <<pods, secrets, secretEvents>>
workVars == <<hand, stale, crossed, harmed, gaveUp>>
timerVars == <<rotations, nextRotation>>
rootVars == <<root, published, token, batch>>
vars == <<setup, left, now, apiVars, rootVars, cache, up, workVars, timerVars, queueVars>>

TTL == 5
Fifth == TTL \div 5

shouldManageInherentXDSPod(p) == p # nil /\ p.managed
workloadSecretOwnedByPod(s, p) == s.owner = p.uid
ManagedIn(ps) == {k \in setup.keys : shouldManageInherentXDSPod(ps[k])}
managedPodKeys == ManagedIn(cache)

Init ==
  /\ setup \in Setups
  /\ left = [uid |-> 0, errors |-> setup.errors, deletions |-> setup.deletions, peers |-> setup.peers,
             restarts |-> setup.restarts, configs |-> setup.configs, rotations |-> setup.rotations]
  /\ now = 1
  /\ pods = [k \in Key |-> nil] /\ secrets = pods /\ cache = pods
  /\ secretEvents = {}
  /\ root = 1 /\ published = 1 /\ token = FALSE /\ batch = {}
  /\ up = "off" /\ hand = nil /\ stale = FALSE
  /\ gaveUp = {} /\ crossed = {} /\ harmed = {}
  /\ rotations = [k \in Key |-> 0] /\ nextRotation = 0
  /\ Q!Init

Spend(f) == left[f] > 0 /\ left' = [left EXCEPT ![f] = @ - 1]

\* A change of the Secret of k: the version in hand is outdated, its event is queued.
SecretSet(k, s) ==
  /\ secrets' = [secrets EXCEPT ![k] = s]
  /\ secretEvents' = secretEvents \cup {<<k, x.owner>> : x \in {secrets[k], s} \ {nil}}

(***************************************************************************)
(* The cluster.                                                            *)
(***************************************************************************)
PodVars == <<setup, now, secrets, secretEvents, rootVars, cache, up, workVars, timerVars, queueVars>>

\* Admission gave the Pod a mount of its own Secret; "shared" is a Pod admitted by an older release.
CreatePod(k, mount) ==
  /\ k \in setup.keys /\ mount \in setup.mounts /\ pods[k] = nil /\ left.uid < setup.uids
  /\ left' = [left EXCEPT !.uid = @ + 1]
  /\ pods' = [pods EXCEPT ![k] = [uid |-> left.uid + 1, managed |-> TRUE, deleting |-> FALSE, ip |-> 0, mount |-> mount]]
  /\ UNCHANGED PodVars

\* The Pod gets its address, loses the template annotation, or is being deleted.
ChangePod(k, f, v) ==
  /\ f \in setup.fields /\ pods[k] # nil /\ pods[k][f] # v
  /\ pods' = [pods EXCEPT ![k][f] = v]
  /\ UNCHANGED <<left, PodVars>>

RemovePod(k) ==
  /\ pods[k] # nil /\ pods[k].deleting
  /\ pods' = [pods EXCEPT ![k] = nil]
  /\ UNCHANGED <<left, PodVars>>

StaleWhen(k) == stale' = (stale \/ (hand # nil /\ worker = k))
SecretVars == <<setup, now, pods, rootVars, cache, up, hand, crossed, harmed, gaveUp, timerVars, queueVars>>

Orphan(k) == secrets[k] # nil /\ ~ (pods[k] # nil /\ pods[k].uid = secrets[k].owner)

\* Kubernetes removes a Secret whose owner is gone.
CollectGarbage(k) ==
  /\ Orphan(k) /\ SecretSet(k, nil) /\ StaleWhen(k)
  /\ UNCHANGED <<left, SecretVars>>

\* Somebody removes a Secret.
DeleteSecret(k) ==
  /\ secrets[k] # nil /\ Spend("deletions") /\ SecretSet(k, nil) /\ StaleWhen(k)
  /\ UNCHANGED SecretVars

\* Another replica creates the Secret of the Pod.
PeerWrites(k) ==
  /\ shouldManageInherentXDSPod(pods[k]) /\ ~pods[k].deleting /\ pods[k].mount = "own"
  /\ secrets[k] = nil /\ Spend("peers") /\ StaleWhen(k)
  /\ SecretSet(k, [owner |-> pods[k].uid, ip |-> pods[k].ip, cert |-> root, root |-> root, expire |-> now + TTL])
  /\ UNCHANGED SecretVars

RootVars == <<setup, now, apiVars, cache, up, workVars, timerVars, queueVars, batch>>

\* The CA installs another bundle, and then publishes it to the watchers.
CaRotates ==
  /\ Spend("rotations") /\ root' = root + 1
  /\ UNCHANGED <<RootVars, published, token>>

NotifyWatchers ==
  /\ published # root /\ published' = root
  /\ token' = (up # "off")
  /\ UNCHANGED <<RootVars, left, root>>

(***************************************************************************)
(* Informers and handlers.                                                 *)
(***************************************************************************)
\* The informer catches up; FilteredObjectSpecHandler looks at the old and the new object.
UpdateCache(k) ==
  /\ up # "off" /\ cache[k] # pods[k]
  /\ cache' = [cache EXCEPT ![k] = pods[k]]
  /\ IF shouldManageInherentXDSPod(pods[k]) \/ shouldManageInherentXDSPod(cache[k]) THEN Q!Add(k) ELSE UNCHANGED queueVars
  /\ UNCHANGED <<setup, left, now, apiVars, rootVars, up, workVars, timerVars>>

\* The handler of the Secrets; ProxyUpdate only asks for a push to the connection of the Pod.
HandleSecret(e) ==
  /\ up # "off" /\ e \in secretEvents /\ secretEvents' = secretEvents \ {e}
  /\ IF cache[e[1]] # nil /\ cache[e[1]].uid = e[2] THEN Q!Add(e[1]) ELSE UNCHANGED queueVars
  /\ UNCHANGED <<setup, left, now, pods, secrets, rootVars, cache, up, workVars, timerVars>>

\* inherentXDSWorkloadConfigNeedsUpdate holds of the change.
handleWorkloadConfigUpdate ==
  /\ Spend("configs") /\ up # "off"
  /\ Q!AddAll(managedPodKeys)
  /\ UNCHANGED <<processing, requeues, backoff, worker, running, shutDown, synced>>
  /\ UNCHANGED <<setup, now, apiVars, rootVars, cache, up, workVars, timerVars>>

\* The caches are filled and the bundle is watched; a Secret whose handler ran
\* before its Pod was in the cache was ignored ...
Start(ignored) ==
  /\ up = "off" /\ up' = "started"
  /\ cache' = pods
  /\ Q!AddAll(ManagedIn(pods)) /\ UNCHANGED <<processing, requeues, backoff, worker, running, shutDown, synced>>
  /\ secretEvents' = {<<k, secrets[k].owner>> : k \in {x \in Key : secrets[x] # nil} \ ignored}
  /\ UNCHANGED <<setup, left, now, pods, secrets, rootVars, workVars, timerVars>>

\* ... before the Pods are queued and the queue runs.
Run ==
  /\ up = "started" /\ up' = "running" /\ running' = TRUE
  /\ Q!AddAll(managedPodKeys \cup {SyncSignal})
  /\ UNCHANGED <<processing, requeues, backoff, worker, shutDown, synced>>
  /\ UNCHANGED <<setup, left, now, apiVars, rootVars, cache, workVars, timerVars>>

\* The process dies, or stops and Run clears the timers (stopAllTimers): either
\* way all but the API server's objects goes.
Crash ==
  /\ up # "off" /\ Spend("restarts") /\ up' = "off"
  /\ ready' = <<>> /\ dirty' = {} /\ processing' = {} /\ backoff' = {} /\ requeues' = [k \in Key |-> 0]
  /\ worker' = NoKey /\ running' = FALSE /\ shutDown' = FALSE /\ synced' = FALSE
  /\ hand' = nil /\ stale' = FALSE /\ gaveUp' = {} /\ token' = FALSE /\ batch' = {}
  /\ rotations' = [k \in Key |-> 0] /\ nextRotation' = 0
  /\ cache' = [k \in Key |-> nil] /\ secretEvents' = {}
  /\ UNCHANGED <<setup, now, pods, secrets, root, published, crossed, harmed>>

\* watchBundleChanges takes the notification and lists the managed Pods,
watchBundleChanges ==
  /\ up = "running" /\ token /\ batch = {}
  /\ token' = FALSE /\ batch' = managedPodKeys
  /\ UNCHANGED <<setup, left, now, apiVars, root, published, cache, up, workVars, timerVars, queueVars>>

\* which are queued in batches with a pause after each (here of one Pod).
enqueueManagedPodsBatched(k) ==
  /\ k \in batch /\ batch' = batch \ {k}
  /\ Q!Add(k)
  /\ UNCHANGED <<setup, left, now, apiVars, root, published, token, cache, up, workVars, timerVars>>

(***************************************************************************)
(* Rotation.                                                               *)
(***************************************************************************)
Scheduled(r) == {r[k] : k \in Key} \ {0}
nextRotationTime(r) == IF Scheduled(r) = {} THEN 0 ELSE CHOOSE t \in Scheduled(r) : \A u \in Scheduled(r) : t <= u

\* Mutant: the whole life of the certificate.
RotateAtExpiry(expireAt) == IF expireAt <= now THEN 1 ELSE expireAt - now

workloadRotationDelay(expireAt) == IF expireAt <= now THEN 1 ELSE ((expireAt - now) * 4) \div 5

scheduleRotation(k, expireAt) ==
  LET rotateAt == now + workloadRotationDelay(expireAt)
      r == [rotations EXCEPT ![k] = rotateAt]
  IN /\ rotations' = r
     /\ nextRotation' = IF nextRotation = 0 \/ rotateAt < nextRotation \/ rotations[k] = nextRotation
                        THEN nextRotationTime(r) ELSE nextRotation

clearRotation(k) ==
  LET r == [rotations EXCEPT ![k] = 0]
  IN /\ rotations' = r
     /\ nextRotation' = IF rotations[k] # 0 /\ rotations[k] = nextRotation THEN nextRotationTime(r) ELSE nextRotation

\* The timer fires; due keys leave the schedule and are queued.
flushDueRotations ==
  LET due == {k \in Key : rotations[k] # 0 /\ rotations[k] <= now}
      r == [k \in Key |-> IF k \in due THEN 0 ELSE rotations[k]]
  IN /\ nextRotation # 0 /\ nextRotation <= now
     /\ rotations' = r /\ nextRotation' = nextRotationTime(r)
     /\ Q!AddAll(due)
     /\ UNCHANGED <<processing, requeues, backoff, worker, running, shutDown, synced>>
     /\ UNCHANGED <<setup, left, now, apiVars, rootVars, cache, up, workVars>>

(***************************************************************************)
(* The worker.                                                             *)
(***************************************************************************)
Surroundings == <<setup, now, pods, rootVars, cache, up>>

GetKey ==
  /\ Q!Get
  /\ UNCHANGED <<Surroundings, left, secrets, secretEvents, workVars, timerVars>>

ProcessSignal ==
  /\ Q!ProcessSignal
  /\ UNCHANGED <<Surroundings, left, secrets, secretEvents, workVars, timerVars>>

BackoffEnds(k) ==
  /\ Q!BackoffEnds(k)
  /\ UNCHANGED <<Surroundings, left, secrets, secretEvents, workVars, timerVars>>

\* reconcile returns.
Return(ok) ==
  /\ Q!Process(ok) /\ hand' = nil /\ stale' = FALSE
  /\ gaveUp' = IF ok THEN gaveUp \ {worker}
               ELSE IF requeues[worker] + 1 < maxAttempts THEN gaveUp ELSE gaveUp \cup {worker}

FailVars == <<Surroundings, secrets, secretEvents, crossed, harmed>>
Fail == Return(FALSE) /\ UNCHANGED <<FailVars, timerVars>>

Unwanted(p) == ~shouldManageInherentXDSPod(p) \/ p.deleting

\* An API call or the signature fails; the rotation of a Pod that is not wanted
\* is cleared before the first call.
CallFails ==
  /\ worker \in Key /\ (hand = nil => cache[worker] # nil) /\ Spend("errors") /\ Return(FALSE)
  /\ IF hand = nil /\ Unwanted(cache[worker]) THEN clearRotation(worker) ELSE UNCHANGED timerVars
  /\ UNCHANGED FailVars

\* The Pod is gone from the cache: only its rotation is cleared.
reconcileGone ==
  /\ worker \in Key /\ hand = nil /\ cache[worker] = nil
  /\ clearRotation(worker) /\ Return(TRUE)
  /\ UNCHANGED <<Surroundings, left, secrets, secretEvents, crossed, harmed>>

\* deleteSecretForPod reads the Secret of a Pod that is going or no longer managed ...
GetUnwanted ==
  LET p == cache[worker] IN
  /\ worker \in Key /\ hand = nil /\ p # nil /\ Unwanted(p)
  /\ clearRotation(worker)
  /\ IF secrets[worker] = nil \/ ~workloadSecretOwnedByPod(secrets[worker], p)
     THEN Return(TRUE)
     ELSE /\ hand' = [step |-> "delete", pod |-> p] /\ stale' = FALSE
          /\ UNCHANGED <<gaveUp, queueVars>>
  /\ UNCHANGED <<Surroundings, left, secrets, secretEvents, crossed, harmed>>

\* A write on behalf of the Pod p.
WriteSecret(p, s) ==
  /\ SecretSet(worker, s)
  /\ harmed' = IF secrets[worker] # nil /\ ~workloadSecretOwnedByPod(secrets[worker], p)
               THEN harmed \cup {secrets[worker].owner} ELSE harmed

\* Mutant: the deletion is by name only.
DeleteByName ==
  /\ worker \in Key /\ hand # nil /\ hand.step = "delete"
  /\ WriteSecret(hand.pod, nil) /\ Return(TRUE)
  /\ UNCHANGED <<Surroundings, left, crossed, timerVars>>

\* ... and deletes it with the UID and version it read as preconditions.
deleteSecretForPod ==
  /\ worker \in Key /\ hand # nil /\ hand.step = "delete"
  /\ IF stale THEN Return(secrets[worker] = nil) /\ UNCHANGED <<secrets, secretEvents, harmed>>
              ELSE Return(TRUE) /\ WriteSecret(hand.pod, nil)
  /\ UNCHANGED <<Surroundings, left, crossed, timerVars>>

\* A managed Pod: the legacy volume, the Secret as it is, and whose it is.
GetSecret ==
  LET p == cache[worker] IN
  /\ worker \in Key /\ hand = nil /\ p # nil /\ ~Unwanted(p)
  /\ IF p.mount # "own" \/ (secrets[worker] # nil /\ ~workloadSecretOwnedByPod(secrets[worker], p))
     THEN Fail
     ELSE /\ hand' = [step |-> "build", pod |-> p, secret |-> secrets[worker]] /\ stale' = FALSE
          /\ UNCHANGED <<Surroundings, secrets, secretEvents, timerVars, crossed, harmed, gaveUp, queueVars>>
  /\ UNCHANGED left

reusableWorkloadCertificate(s) == s # nil /\ s.root = root /\ s.expire > now + Fifth

\* Of what the bootstrap is made of, the address is what changes while a Pod lives.
buildWorkloadContext(p) == p.ip
Desired(p, cert, r, expire) == [owner |-> p.uid, ip |-> buildWorkloadContext(p), cert |-> cert, root |-> r, expire |-> expire]
WorkOn(h) == hand' = h /\ UNCHANGED <<Surroundings, left, secrets, secretEvents, timerVars, stale, crossed, harmed, gaveUp, queueVars>>

\* buildSecret: reuse the certificate or have a new one signed,
buildSecret ==
  /\ hand # nil /\ hand.step = "build"
  /\ LET s == hand.secret IN
     WorkOn(IF reusableWorkloadCertificate(s)
            THEN [step |-> "write", pod |-> hand.pod, secret |-> s, desired |-> Desired(hand.pod, s.cert, s.root, s.expire)]
            ELSE [step |-> "signed", pod |-> hand.pod, secret |-> s, cert |-> root, expire |-> now + TTL])

\* and read the root to store beside it from the authority's bundle.
issueWorkloadCertificate ==
  /\ hand # nil /\ hand.step = "signed"
  /\ WorkOn([step |-> "write", pod |-> hand.pod, secret |-> hand.secret,
             desired |-> Desired(hand.pod, hand.cert, root, hand.expire)])

\* The Secret is created, updated when it differs, or left alone; then the rotation is scheduled.
reconcile ==
  LET same == hand.secret # nil /\ hand.secret = hand.desired
  IN /\ hand # nil /\ hand.step = "write"
     /\ IF stale /\ ~same /\ (hand.secret # nil \/ secrets[worker] # nil)
        THEN Return(FALSE) /\ UNCHANGED <<secrets, secretEvents, timerVars, crossed, harmed>>
        ELSE /\ IF same THEN UNCHANGED <<secrets, secretEvents, crossed, harmed>>
                ELSE /\ WriteSecret(hand.pod, hand.desired)
                     /\ crossed' = IF hand.desired.cert = hand.desired.root THEN crossed \ {worker} ELSE crossed \cup {worker}
             /\ scheduleRotation(worker, hand.desired.expire) /\ Return(TRUE)
     /\ UNCHANGED <<Surroundings, left>>

\* Time passes while nothing is under way: handlers, reconciliation and
\* retries take far less than a fifth of the certificates' lifetime.
Tick ==
  /\ now < setup.horizon
  /\ up # "off" => /\ up = "running" /\ Q!Drained /\ hand = nil /\ secretEvents = {}
                   /\ ~token /\ batch = {} /\ cache = pods /\ (nextRotation = 0 \/ nextRotation > now)
  /\ now' = now + 1
  /\ UNCHANGED <<setup, left, apiVars, rootVars, cache, up, workVars, timerVars, queueVars>>

Next ==
  \/ \E k \in Key : \/ \E m \in {"own", "shared"} : CreatePod(k, m)
                    \/ ChangePod(k, "ip", 1) \/ ChangePod(k, "managed", FALSE) \/ ChangePod(k, "deleting", TRUE)
                    \/ RemovePod(k) \/ CollectGarbage(k) \/ DeleteSecret(k) \/ PeerWrites(k)
                    \/ UpdateCache(k) \/ enqueueManagedPodsBatched(k) \/ BackoffEnds(k)
  \/ CaRotates \/ NotifyWatchers \/ handleWorkloadConfigUpdate \/ (\E ignored \in SUBSET Key : Start(ignored)) \/ Run \/ Crash \/ watchBundleChanges
  \/ \E e \in secretEvents : HandleSecret(e)
  \/ flushDueRotations \/ GetKey \/ ProcessSignal \/ CallFails \/ reconcileGone \/ GetUnwanted \/ deleteSecretForPod
  \/ GetSecret \/ buildSecret \/ issueWorkloadCertificate \/ reconcile \/ Tick

Spec == Init /\ [][Next]_vars

TypeOK ==
  /\ up \in {"off", "started", "running"} /\ batch \subseteq Key
  /\ gaveUp \subseteq Key /\ crossed \subseteq Key /\ token \in BOOLEAN /\ stale \in BOOLEAN
  /\ now \in 1..setup.horizon /\ \A k \in Key : rotations[k] \in 0..(setup.horizon + TTL)

Settled ==
  /\ up = "running" /\ Q!Drained /\ hand = nil /\ secretEvents = {} /\ ~token /\ batch = {}
  /\ cache = pods /\ published = root /\ ~ \E k \in Key : Orphan(k)
  /\ nextRotation = 0 \/ nextRotation > now

(* CredentialsServed: once the controller has caught up (reconcile), every   *)
(* managed Pod has a Secret of its own under the authority's current root    *)
(* with its address in the bootstrap and a certificate that has not expired, *)
(* whose rotation is scheduled before it does; a managed Pod that is being   *)
(* deleted has none.  This survives replaced Pods, lost      *)
(* Secrets, root changes, restarts and failed calls.  Excepted are the keys  *)
(* the queue gave up on, and the signature of a certificate whose root was   *)
(* replaced between its signing and the reading of the root.                 *)
CredentialsServed ==
  Settled => \A k \in setup.keys \ gaveUp : pods[k] # nil =>
    LET p == pods[k]
        s == secrets[k]
    IN IF Unwanted(p) THEN p.managed => s = nil
       ELSE /\ s # nil /\ s.owner = p.uid /\ s.ip = p.ip /\ s.root = root
            /\ s.cert = s.root \/ k \in crossed
            /\ rotations[k] > now /\ rotations[k] < s.expire

(* ForeignCredentialsKept: the controller never replaces or deletes the      *)
(* Secret of a Pod other than the one it works for (the ownership check of   *)
(* reconcile and the preconditions of deleteSecretForPod), even when its     *)
(* cache still has the Pod's predecessor of the same name.                   *)
ForeignCredentialsKept == harmed = {}
=============================================================================
