---------------------------- MODULE SecretCache ----------------------------
(***************************************************************************)
(* The node agent: the secret manager (nodeagent/cache/secretcache.go)     *)
(* that keeps one workload certificate, rotates it and reads file mounted  *)
(* certificates, and the SDS service (nodeagent/sds/sdsservice.go) that    *)
(* streams the secrets to its clients with the delta protocol.             *)
(*                                                                         *)
(* A certificate is its serial number and its root, a trust anchor is a    *)
(* pair of its origin and a version, a response is what it carries for     *)
(* each name.  The key output directory is empty (its default), so nothing *)
(* is written to disk.  Delays are not counted: a rotation may fire at any *)
(* time after it was scheduled.                                            *)
(***************************************************************************)
EXTENDS Naturals, Sequences

CONSTANTS
    Client,      \* SDS clients
    warm,        \* the goroutine of newSDSService that warms the cache
    Setups,      \* [names, rootFile, fileMounted]: how the agent is configured, with
                 \* the bounds of its scenario: certificates signed (serial), CA
                 \* roots, trust bundles, contents of the mounted file (file),
                 \* failing calls of the CA
    MaxRequests, \* requests of one client
    nil

VARIABLES
    setup,
    caRoot,    \* the CA's present root
    workload,  \* cache.workload: nil or [serial, root]
    certRoot,  \* cache.certRoot: the root last announced
    tasks,     \* serials with a scheduled rotation
    signed,    \* certificates signed so far
    failures,
    bundle,    \* configTrustBundle's version, 0 is empty
    mutex,     \* holder of generateMutex
    job,       \* a stream's or the warm-up's GenerateSecret calls in progress
    open,      \* clients in sdsservice.clients
    watch,     \* nil or the names of the stream's WatchedResource
    held,      \* what each client was last sent for each name
    pushes,    \* goroutines of push blocked on a client's push channel
    req,       \* the request a client has sent and the stream not yet taken
    asked,     \* requests sent by a client
    file,      \* the mounted file: [version, made], version 0 when absent
    known,     \* fileCerts has the file
    watched,   \* fsnotify watches the file
    events,    \* fsnotify events not yet handled
    missed     \* history: the file changed between its read and its watch

caVars == <<caRoot, signed, failures>>
cacheVars == <<workload, certRoot, tasks>>
fileVars == <<file, known, watched, events, missed>>
clientVars == <<open, watch, held, req, asked>>
vars == <<setup, caVars, cacheVars, bundle, mutex, job, clientVars, pushes, fileVars>>

Actor == Client \cup {warm}
SecretName == {"default", "ROOTCA", "file"}
Anchor(origin, version) == <<origin, version>>
Nothing == [n \in SecretName |-> 0]

Job(names) ==
    [todo |-> names, cur |-> nil, at |-> "idle", got |-> [n \in {} |-> 0], item |-> nil]

\* NewSecretManagerClient and newSDSService: nothing cached; the warm-up asks for
\* both certificates unless all of them are files.
Init ==
    /\ setup \in Setups
    /\ caRoot = 1 /\ signed = 0 /\ failures = 0
    /\ workload = nil /\ certRoot = nil /\ tasks = {}
    /\ bundle = 0 /\ mutex = nil
    /\ job = [a \in Actor |-> IF a = warm /\ ~setup.fileMounted
                              THEN Job({"default", "ROOTCA"}) ELSE nil]
    /\ open = {}
    /\ watch = [c \in Client |-> nil]
    /\ held = [c \in Client |-> [n \in {} |-> 0]]
    /\ pushes = [c \in Client |-> Nothing]
    /\ req = [c \in Client |-> nil]
    /\ asked = [c \in Client |-> 0]
    /\ file = [version |-> 1, made |-> 1]
    /\ known = FALSE /\ watched = FALSE /\ events = <<>> /\ missed = FALSE

---------------------------------------------------------------------------
(* Pushes. *)

\* sdsservice.push, reached through OnSecretUpdate: one goroutine per client
Pushed(names) ==
    [c \in Client |-> [n \in SecretName |-> pushes[c][n] + (IF c \in open /\ n \in names THEN 1 ELSE 0)]]

\* the number of goroutines is capped by one more than a client can need
PushesBounded == \A c \in Client, n \in SecretName : pushes[c][n] <= 2

---------------------------------------------------------------------------
(* GenerateSecret. *)

\* mergeTrustAnchorBytes: the certificates together with the configured bundle
mergeConfigTrustBundle(anchors) ==
    anchors \cup (IF bundle = 0 THEN {} ELSE {Anchor("bundle", bundle)})

\* getCachedSecret with a workload certificate in the cache
getCachedSecret(n) ==
    IF n = "ROOTCA"
    THEN [anchors |-> mergeConfigTrustBundle({workload.root}), rootless |-> FALSE]
    ELSE [serial |-> workload.serial]

\* generateFileSecret's switch: the root of a well known path is served while its
\* file is there, a resource that names a file always comes from the file
FromFile(n) == n = "file" \/ (n = "ROOTCA" /\ setup.rootFile /\ file.version # 0)

Got(a, n, value) ==
    job' = [job EXCEPT ![a] = [@ EXCEPT !.todo = @ \ {n}, !.cur = nil, !.at = "idle", !.item = nil,
                                       !.got = [m \in DOMAIN @ \cup {n} |-> IF m = n THEN value ELSE @[m]]]]

At(a, step) == job' = [job EXCEPT ![a].at = step]

\* The stream returns: Context.Close takes it out of the clients, what it was sent
\* is gone with the client's stream.
StreamGone(c) ==
    /\ open' = open \ {c}
    /\ watch' = [watch EXCEPT ![c] = nil]
    /\ held' = [held EXCEPT ![c] = [n \in {} |-> 0]]
    /\ req' = [req EXCEPT ![c] = nil]
    /\ pushes' = [pushes EXCEPT ![c] = Nothing]
    /\ job' = [job EXCEPT ![c] = nil]
    /\ asked' = asked

\* An error of GenerateSecret ends the client's stream; the warm-up retries from
\* its first certificate.
Failed(a) ==
    IF a = warm
    THEN job' = [job EXCEPT ![a] = Job({"default", "ROOTCA"})] /\ UNCHANGED <<clientVars, pushes>>
    ELSE StreamGone(a)

\* One call begins: a file is read, the cache is consulted, or the lock awaited.
StartGenerate(a, n) ==
    /\ job[a] # nil /\ job[a].cur = nil /\ n \in job[a].todo
    /\ a = warm /\ n = "ROOTCA" => "default" \notin job[a].todo
    /\ \/ /\ FromFile(n)
          /\ file.version # 0
          /\ job' = [job EXCEPT ![a].cur = n, ![a].at = "watch", ![a].item = [serial |-> file.version]]
          /\ certRoot' = IF n = "ROOTCA" THEN Anchor("file", file.version) ELSE certRoot
       \/ /\ ~FromFile(n) /\ workload # nil
          /\ Got(a, n, getCachedSecret(n))
          /\ UNCHANGED certRoot
       \/ /\ ~FromFile(n) /\ workload = nil
          /\ job' = [job EXCEPT ![a].cur = n, ![a].at = "lock"]
          /\ UNCHANGED certRoot
    /\ UNCHANGED <<setup, caVars, workload, tasks, bundle, mutex, clientVars, pushes, fileVars>>

\* generateRootCertFromExistingFile gives up after totalTimeout
FileTimeout(a) ==
    /\ job[a] # nil /\ job[a].cur = nil /\ "file" \in job[a].todo
    /\ file.version = 0
    /\ Failed(a)
    /\ UNCHANGED <<setup, caVars, cacheVars, bundle, mutex, fileVars>>

\* addFileWatcher after the read.  tryAddFileWatcher enters the file in fileCerts
\* before it asks fsnotify: when that fails the retry finds the file "already
\* watched" and does nothing.
addFileWatcher(a) ==
    /\ job[a] # nil /\ job[a].at = "watch"
    /\ known' = TRUE
    /\ watched' = IF known THEN watched ELSE file.version # 0
    /\ LET read == job[a].item.serial IN
       Got(a, job[a].cur,
           IF job[a].cur = "ROOTCA"
           THEN [anchors |-> mergeConfigTrustBundle({Anchor("file", read)}), rootless |-> FALSE]
           ELSE [serial |-> read])
    /\ UNCHANGED <<setup, caVars, cacheVars, bundle, mutex, clientVars, pushes, file, events, missed>>

\* The mutex is taken and the cache looked at again.  A root without a workload
\* certificate comes from the CA client, whose bundle is empty (GetRootCertBundle
\* of the aegis client).
LockGenerate(a) ==
    /\ job[a] # nil /\ job[a].at = "lock" /\ mutex = nil
    /\ LET n == job[a].cur IN
       \/ /\ workload # nil
          /\ Got(a, n, getCachedSecret(n))
          /\ UNCHANGED mutex
       \/ /\ workload = nil /\ n = "ROOTCA"
          /\ Got(a, n, [anchors |-> mergeConfigTrustBundle({}), rootless |-> TRUE])
          /\ UNCHANGED mutex
       \/ /\ workload = nil /\ n # "ROOTCA"
          /\ At(a, "sign")
          /\ mutex' = a
    /\ UNCHANGED <<setup, caVars, cacheVars, bundle, clientVars, pushes, fileVars>>

\* generateNewSecret: the CA signs, the root is the last of the returned chain
generateNewSecret(a) ==
    /\ job[a] # nil /\ job[a].at = "sign"
    /\ signed' = signed + 1
    /\ job' = [job EXCEPT ![a].at = "register",
                          ![a].item = [serial |-> signed + 1, root |-> Anchor("ca", caRoot)]]
    /\ UNCHANGED <<setup, caRoot, failures, cacheVars, bundle, mutex, clientVars, pushes, fileVars>>

SignFails(a) ==
    /\ job[a] # nil /\ job[a].at = "sign" /\ failures < setup.failures
    /\ failures' = failures + 1
    /\ mutex' = nil
    /\ Failed(a)
    /\ UNCHANGED <<setup, caRoot, signed, cacheVars, bundle, fileVars>>

\* the rotation is scheduled only the first time the process registers one
RegisterOnce(a) ==
    /\ job[a] # nil /\ job[a].at = "register"
    /\ workload' = IF workload = nil THEN job[a].item ELSE workload
    /\ tasks' = IF workload = nil /\ job[a].item.serial = 1 THEN {1} ELSE tasks
    /\ At(a, "announce")
    /\ UNCHANGED <<setup, caVars, certRoot, bundle, mutex, clientVars, pushes, fileVars>>

\* registerSecret: cached and scheduled for rotation unless one is cached already
registerSecret(a) ==
    /\ job[a] # nil /\ job[a].at = "register"
    /\ workload' = IF workload = nil THEN job[a].item ELSE workload
    /\ tasks' = IF workload = nil THEN tasks \cup {job[a].item.serial} ELSE tasks
    /\ At(a, "announce")
    /\ UNCHANGED <<setup, caVars, certRoot, bundle, mutex, clientVars, pushes, fileVars>>

\* the root of a new certificate is compared with the cached certificate's, which is itself
AnnounceIfNotCached(a) ==
    /\ job[a] # nil /\ job[a].at = "announce"
    /\ certRoot' = job[a].item.root
    /\ pushes' = IF workload = nil \/ workload.root # job[a].item.root THEN Pushed({"ROOTCA"}) ELSE pushes
    /\ mutex' = nil
    /\ Got(a, job[a].cur, [serial |-> job[a].item.serial])
    /\ UNCHANGED <<setup, caVars, workload, tasks, bundle, clientVars, fileVars>>

\* The end of GenerateSecret: a root that differs from the one last announced is
\* remembered and pushed; the mutex is released.
AnnounceRoot(a) ==
    /\ job[a] # nil /\ job[a].at = "announce"
    /\ certRoot' = job[a].item.root
    /\ pushes' = IF certRoot # job[a].item.root THEN Pushed({"ROOTCA"}) ELSE pushes
    /\ mutex' = nil
    /\ Got(a, job[a].cur, [serial |-> job[a].item.serial])
    /\ UNCHANGED <<setup, caVars, workload, tasks, bundle, clientVars, fileVars>>

\* the warm-up's two certificates are there
WarmUpDone ==
    /\ job[warm] # nil /\ job[warm].todo = {} /\ job[warm].cur = nil
    /\ job' = [job EXCEPT ![warm] = nil]
    /\ UNCHANGED <<setup, caVars, cacheVars, bundle, mutex, clientVars, pushes, fileVars>>

---------------------------------------------------------------------------
(* Rotation, the CA and the trust bundle. *)

\* The delayed task of registerSecret.  The last certificate of the bound is not
\* rotated.
Rotate(s) ==
    /\ s \in tasks /\ signed < setup.serial /\ PushesBounded
    /\ tasks' = tasks \ {s}
    /\ IF workload # nil /\ workload.serial = s
       THEN workload' = nil /\ pushes' = Pushed({"default"})
       ELSE UNCHANGED <<workload, pushes>>
    /\ UNCHANGED <<setup, caVars, certRoot, bundle, mutex, job, clientVars, fileVars>>

\* the CA changes its root
CaRotates ==
    /\ caRoot < setup.root
    /\ caRoot' = caRoot + 1
    /\ UNCHANGED <<setup, signed, failures, cacheVars, bundle, mutex, job, clientVars, pushes, fileVars>>

UpdateConfigTrustBundle ==
    /\ bundle < setup.bundle /\ PushesBounded
    /\ bundle' = bundle + 1
    /\ pushes' = Pushed({"ROOTCA", "default"})
    /\ UNCHANGED <<setup, caVars, cacheVars, mutex, job, clientVars, fileVars>>

---------------------------------------------------------------------------
(* The mounted file and its watch. *)

\* history: some call has read the file and not yet watched it, or the watch failed
Unwatched == ~watched /\ (known \/ \E a \in Actor : job[a] # nil /\ job[a].at = "watch")

Changed(version, op) ==
    /\ file.made < setup.file
    /\ file' = [version |-> version, made |-> IF version = 0 THEN file.made ELSE version]
    /\ events' = IF watched THEN Append(events, op) ELSE events
    /\ watched' = (watched /\ version # 0)
    /\ missed' = (missed \/ Unwatched)
    /\ UNCHANGED <<setup, caVars, cacheVars, bundle, mutex, job, clientVars, pushes, known>>

WriteFile == file.version # 0 /\ Changed(file.made + 1, "write")
RemoveFile == file.version # 0 /\ Changed(0, "remove")
CreateFile == file.version = 0 /\ Changed(file.made + 1, "create")

\* handleFileWatch: the file's resource is looked up, a removed file leaves
\* fileCerts so that it can be watched again, and the resource is pushed.
handleFileWatch ==
    /\ events # <<>> /\ PushesBounded
    /\ events' = Tail(events)
    /\ known' = (known /\ Head(events) # "remove")
    /\ pushes' = IF known THEN Pushed({IF setup.rootFile THEN "ROOTCA" ELSE "file"}) ELSE pushes
    /\ UNCHANGED <<setup, caVars, cacheVars, bundle, mutex, job, clientVars, file, watched, missed>>

---------------------------------------------------------------------------
(* The delta stream of a client. *)

\* A client subscribes, unsubscribes or rejects what it got.  The nonce is empty,
\* or that of the response it holds.
SendRequest(c, sub, unsub, nack, nonce) ==
    /\ req[c] = nil /\ asked[c] < MaxRequests
    /\ nonce = "current" => DOMAIN held[c] # {}
    /\ nack => nonce = "current" /\ sub = {} /\ unsub = {}
    /\ req' = [req EXCEPT ![c] = [sub |-> sub, unsub |-> unsub, nack |-> nack, nonce |-> nonce]]
    /\ asked' = [asked EXCEPT ![c] = @ + 1]
    /\ UNCHANGED <<setup, caVars, cacheVars, bundle, mutex, job, open, watch, held, pushes, fileVars>>

\* deltaWatchedSecrets
deltaWatchedSecrets(names, r) == (names \cup r.sub) \ r.unsub

\* deltaResourceNames: what a response to a change carries
deltaResourceNames(names, subscribed, unsubscribed) ==
    IF subscribed # {} THEN subscribed
    ELSE IF unsubscribed # {} THEN {} ELSE names

\* shouldRespondDelta: the new watch and, in "send", the names of the response;
\* no response when the set is nil
shouldRespondDelta(w, r) ==
    LET old == IF w = nil THEN {} ELSE w
        new == deltaWatchedSecrets(old, r)
    IN  IF r.nack THEN [watch |-> old, send |-> nil]
        ELSE IF w # nil /\ r.nonce = "stale" THEN [watch |-> w, send |-> nil]
        ELSE IF w # nil /\ new = old THEN [watch |-> w, send |-> nil]
        ELSE [watch |-> new, send |-> deltaResourceNames(new, new \ old, r.unsub)]

\* DeltaSecrets takes a request: the first one initialises the connection.
Process(c) ==
    /\ req[c] # nil /\ job[c] = nil
    /\ LET d == shouldRespondDelta(watch[c], req[c]) IN
       /\ watch' = [watch EXCEPT ![c] = d.watch]
       /\ job' = [job EXCEPT ![c] = IF d.send = nil THEN nil ELSE Job(d.send)]
    /\ open' = open \cup {c}
    /\ req' = [req EXCEPT ![c] = nil]
    /\ UNCHANGED <<setup, caVars, cacheVars, bundle, mutex, held, asked, pushes, fileVars>>

\* DeltaSecrets takes a push: a name the client does not watch is dropped.
TakePush(c, n) ==
    /\ c \in open /\ job[c] = nil /\ pushes[c][n] > 0
    /\ pushes' = [pushes EXCEPT ![c][n] = @ - 1]
    /\ job' = [job EXCEPT ![c] = IF watch[c] # nil /\ n \in watch[c] THEN Job({n}) ELSE nil]
    /\ UNCHANGED <<setup, caVars, cacheVars, bundle, mutex, clientVars, fileVars>>

\* sendDelta: the response is sent and its nonce recorded, which makes the nonce of
\* a request on its way an expired one
sendDelta(c) ==
    /\ job[c] # nil /\ job[c].todo = {} /\ job[c].cur = nil
    /\ held' = [held EXCEPT ![c] = [n \in DOMAIN job[c].got \cup (DOMAIN @ \cap watch[c]) |->
                                    IF n \in DOMAIN job[c].got THEN job[c].got[n] ELSE @[n]]]
    /\ req' = [req EXCEPT ![c] = IF @ # nil /\ @.nonce = "current" THEN [@ EXCEPT !.nonce = "stale"] ELSE @]
    /\ job' = [job EXCEPT ![c] = nil]
    /\ UNCHANGED <<setup, caVars, cacheVars, bundle, mutex, open, watch, asked, pushes, fileVars>>

\* the client goes away
Disconnect(c) ==
    /\ c \in open /\ job[c] = nil
    /\ asked[c] < MaxRequests
    /\ StreamGone(c)
    /\ UNCHANGED <<setup, caVars, cacheVars, bundle, mutex, fileVars>>

Subscriptions == {names \in SUBSET setup.names : names # {}}

Next ==
    \/ \E a \in Actor, n \in SecretName : StartGenerate(a, n)
    \/ \E a \in Actor : \/ FileTimeout(a) \/ addFileWatcher(a) \/ LockGenerate(a)
                        \/ generateNewSecret(a) \/ SignFails(a) \/ registerSecret(a) \/ AnnounceRoot(a)
    \/ WarmUpDone
    \/ \E s \in 1..setup.serial : Rotate(s)
    \/ CaRotates \/ UpdateConfigTrustBundle
    \/ WriteFile \/ RemoveFile \/ CreateFile \/ handleFileWatch
    \/ \E c \in Client : \/ \E sub \in Subscriptions, nonce \in {"none", "current"} :
                               SendRequest(c, sub, {}, FALSE, nonce)
                         \/ \E unsub \in Subscriptions : SendRequest(c, {}, unsub, FALSE, "current")
                         \/ SendRequest(c, {}, {}, TRUE, "current")
                         \/ Process(c) \/ sendDelta(c) \/ Disconnect(c)
                         \/ \E n \in SecretName : TakePush(c, n)

Spec == Init /\ [][Next]_vars

---------------------------------------------------------------------------
(* Properties. *)

TypeOK ==
    /\ workload = nil \/ workload \in [serial : 1..setup.serial, root : {"ca"} \X (1..setup.root)]
    /\ tasks \subseteq 1..setup.serial
    /\ open \subseteq Client
    /\ mutex \in Actor \cup {nil}
    /\ \A c \in Client : watch[c] = nil \/ watch[c] \subseteq SecretName

Quiet ==
    /\ \A a \in Actor : job[a] = nil
    /\ \A c \in Client, n \in SecretName : pushes[c][n] = 0
    /\ events = <<>>

Current(n, value) ==
    CASE n = "default" -> workload # nil /\ value.serial = workload.serial
      [] n = "file" -> missed \/ value.serial = file.version
      [] n = "ROOTCA" ->
            /\ bundle # 0 => Anchor("bundle", bundle) \in value.anchors
            /\ \A v \in 1..setup.file : Anchor("file", v) \in value.anchors => missed \/ v = file.version
            /\ ~setup.rootFile /\ workload # nil => value.rootless \/ workload.root \in value.anchors

\* Once every generation, push and file event has been handled, each connected
\* client holds, for every name it watches, what the secret manager would give it
\* now (GenerateSecret): the cached workload certificate, never one that was
\* rotated away; the trust anchors of that certificate's root and of the
\* configured bundle; the file's content.  And a cached certificate has its
\* rotation scheduled (registerSecret).  Exempt are a root that was generated
\* while no workload certificate was cached, a change of the file between its read
\* and its watch, and a root file that appears after the root was served without.
SecretsServed ==
    /\ Quiet => \A c \in open : watch[c] # nil =>
                    \A n \in watch[c] : n \in DOMAIN held[c] /\ Current(n, held[c][n])
    /\ workload # nil => workload.serial \in tasks

\* A client that watches the trust anchors ends up with the root of the workload
\* certificate in use (getCachedSecret, AnnounceRoot).
RootsServed ==
    Quiet /\ workload # nil /\ ~setup.rootFile =>
        \A c \in open : watch[c] # nil /\ "ROOTCA" \in watch[c] => workload.root \in held[c]["ROOTCA"].anchors
=============================================================================
