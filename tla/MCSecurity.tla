----------------------------- MODULE MCSecurity -----------------------------
(*****************************************************************************)
(* The components that issue, rotate and distribute certificates, elect a    *)
(* leader and start the server, each on a small instance of its own: a       *)
(* behaviour picks one of them and only its variables move.                  *)
(*****************************************************************************)
EXTENDS LeaderElection, ServerLifecycle, CaDistribution, Integers, Sequences, TLC

CONSTANTS
  r1, r2, p1, p2, n1, n2, c1, w1, warm


(* SecretCache: what an agent is asked for, and how much may change *)

SecretSetups ==
  {[names |-> {"default", "ROOTCA"}, rootFile |-> FALSE, fileMounted |-> FALSE,
    serial |-> 2, root |-> 2, bundle |-> 0, file |-> 1, failures |-> 0],
   [names |-> {"default", "ROOTCA"}, rootFile |-> FALSE, fileMounted |-> FALSE,
    serial |-> 1, root |-> 2, bundle |-> 0, file |-> 1, failures |-> 1],
   [names |-> {"default", "ROOTCA"}, rootFile |-> FALSE, fileMounted |-> FALSE,
    serial |-> 1, root |-> 2, bundle |-> 1, file |-> 1, failures |-> 0],
   [names |-> {"file"}, rootFile |-> FALSE, fileMounted |-> TRUE,
    serial |-> 1, root |-> 1, bundle |-> 0, file |-> 3, failures |-> 0],
   [names |-> {"ROOTCA"}, rootFile |-> TRUE, fileMounted |-> FALSE,
    serial |-> 1, root |-> 1, bundle |-> 1, file |-> 2, failures |-> 0]}

(* CertAuthority: the replicas and what they find when they start *)

Signed(i, r) == [id |-> i, root |-> r]
Mounted(c, roots, crl, by) == [cert |-> c, key |-> c.id, roots |-> roots, crl |-> crl, crlBy |-> by]
Mounts == << Mounted(Signed(11, 1), <<1>>, 0, {}), Mounted(Signed(12, 2), <<1, 2>>, 0, {}),
             Mounted(Signed(12, 2), <<1, 2>>, 1, {12}), Mounted(Signed(13, 2), <<2>>, 2, {12}),
             Mounted(Signed(14, 4), <<4>>, 0, {}) >>
SelfSigning == [replicas |-> {r1, r2}, files |-> <<>>, complete |-> TRUE, generated |-> FALSE,
                secret |-> nil, useCacerts |-> FALSE, writable |-> TRUE, crl |-> FALSE,
                errors |-> 0, crashes |-> 0, requests |-> 0]
AuthorityStarts ==
  { [SelfSigning EXCEPT !.errors = 1, !.crashes = 1],
    [SelfSigning EXCEPT !.useCacerts = TRUE, !.crashes = 1, !.requests = 1],
    [SelfSigning EXCEPT !.useCacerts = TRUE, !.secret = [name |-> "dubbo-ca-secret", cert |-> Signed(9, 9)]],
    [SelfSigning EXCEPT !.writable = FALSE],
    [SelfSigning EXCEPT !.files = Mounts, !.complete = FALSE],
    [SelfSigning EXCEPT !.files = <<Mounted(Signed(9, 9), <<9>>, 0, {})>>, !.generated = TRUE, !.useCacerts = TRUE,
                        !.secret = [name |-> "cacerts", cert |-> Signed(9, 9)]],
    [SelfSigning EXCEPT !.replicas = {r1}, !.files = Mounts, !.crl = TRUE, !.crashes = 1, !.requests = 1] }

(* Certificates: signing bundles over time and the requests they answer *)

Issuer(k, i, f, t) ==
  [key |-> k, issuer |-> i, ca |-> TRUE, usage |-> {"certSign"}, eku |-> {}, san |-> <<>>, cn |-> nil,
   from |-> f, to |-> t]
root1 == Issuer(101, 101, 0, 6)
root2 == Issuer(102, 102, 0, 9)
int1 == Issuer(111, 101, 0, 4)
int2 == Issuer(112, 101, 1, 6)
int3 == Issuer(113, 102, 0, 5)
Self(r) == [cert |-> r, chain |-> <<>>, roots |-> {r}]
PluggedIn(c, r) == [cert |-> c, chain |-> <<c>>, roots |-> r]
Host(t, f) == [text |-> t, form |-> f, long |-> t = "long"]
Request(h, w, ttl, c, ca, d) == [hosts |-> h, wants |-> w, ttl |-> ttl, check |-> c, ca |-> ca, dualUse |-> d]
web == Request(<<Host("spiffe-a", "spiffe")>>, <<Host("spiffe-a", "spiffe")>>, 0, TRUE, FALSE, FALSE)
dual == Request(<<Host("a.svc", "name"), Host("10.0.0.1", "ip")>>, <<Host("b.svc", "name")>>, 2, TRUE, FALSE, TRUE)
longer == Request(<<Host("long", "name")>>, <<Host("long", "name")>>, 5, FALSE, FALSE, TRUE)
much == [longer EXCEPT !.check = TRUE]
subordinate == Request(<<Host("a.svc", "name")>>, <<Host("a.svc", "name")>>, -1, TRUE, TRUE, FALSE)
SigningSetups ==
  {[bundles |-> <<Self(root1), PluggedIn(int3, {root1, root2})>>, default |-> 3, max |-> 4,
    requests |-> {web, dual, longer}, issues |-> 2],
   [bundles |-> <<PluggedIn(int1, {root1}), PluggedIn(int2, {root1}), PluggedIn(int3, {root2})>>,
    default |-> 5, max |-> 4, requests |-> {web, subordinate, much}, issues |-> 2]}

(* InherentWorkloads: the pods, and how often each thing may go wrong *)

OnePod == [keys |-> {p1}, uids |-> 1, mounts |-> {"own"}, fields |-> {}, rotations |-> 0, errors |-> 0,
           deletions |-> 0, peers |-> 0, restarts |-> 0, configs |-> 0, horizon |-> 1]
WorkloadSetups ==
  { [OnePod EXCEPT !.uids = 2, !.fields = {"deleting"}, !.errors = 1, !.peers = 1],
    [OnePod EXCEPT !.mounts = {"own", "shared"}, !.fields = {"ip", "managed"}, !.rotations = 1, !.restarts = 1],
    [OnePod EXCEPT !.keys = {p1, p2}, !.uids = 2, !.horizon = 6],
    [OnePod EXCEPT !.fields = {"ip"}, !.errors = 1, !.deletions = 1, !.configs = 1, !.horizon = 6],
    [OnePod EXCEPT !.errors = 1, !.restarts = 1, !.horizon = 6] }

(* CaDistribution: one controller and the objects that carry its bundle *)

Carrier(ca, mine, ignore) == [ca |-> ca, mine |-> mine, ignore |-> ignore, version |-> 1]
NoObject == [n \in {n1, n2} |-> none]
Webhook == [NoObject EXCEPT ![n1] = Carrier(0, TRUE, TRUE)]
Distribution(c, ns, b, o, ch, e) ==
  [controller |-> c, names |-> ns, bundle |-> b, objects |-> o, changes |-> ch, errors |-> e]
DistributionSetups ==
  { Distribution("root", {n1}, 2, NoObject, 2, 0), Distribution("root", {n1}, 1, NoObject, 1, 2),
    Distribution("crl", {n1}, 1, Webhook, 1, 0), Distribution("root", {n1, n2}, 1, NoObject, 0, 0),
    Distribution("mutating", {n1}, 1, Webhook, 2, 0), Distribution("mutating", {n1}, 0, Webhook, 1, 0),
    Distribution("validating", {n1}, 0, Webhook, 1, 1),
    Distribution("validating", {n1, n2}, 1, [n \in {n1, n2} |-> Carrier(1, TRUE, FALSE)], 0, 1) }

(* ServerLifecycle: the ways a control plane is set up *)

InCluster == [kubeConfig |-> TRUE, kubeRegistry |-> TRUE, fileDir |-> FALSE, gatewayAPI |-> TRUE,
              legacyLeader |-> TRUE, leader |-> TRUE, caServer |-> TRUE, k8sSigner |-> FALSE,
              certProvider |-> "dubbod", tlsFiles |-> "absent", secureAddr |-> TRUE, template |-> TRUE]
FromFiles == [InCluster EXCEPT !.kubeConfig = FALSE, !.kubeRegistry = FALSE, !.fileDir = TRUE, !.gatewayAPI = FALSE,
              !.legacyLeader = FALSE, !.leader = FALSE, !.tlsFiles = "unusable", !.template = FALSE]
ServerArgs ==
  { InCluster,
    [InCluster EXCEPT !.gatewayAPI = FALSE, !.legacyLeader = FALSE, !.leader = FALSE, !.k8sSigner = TRUE,
                      !.certProvider = "signer"],
    [InCluster EXCEPT !.legacyLeader = FALSE, !.leader = FALSE, !.certProvider = "none", !.tlsFiles = "usable",
                      !.secureAddr = FALSE],
    FromFiles,
    [InCluster EXCEPT !.fileDir = TRUE, !.gatewayAPI = FALSE, !.legacyLeader = FALSE, !.leader = FALSE,
                      !.template = FALSE],
    [FromFiles EXCEPT !.caServer = FALSE, !.certProvider = "none", !.tlsFiles = "absent"] }

-----------------------------------------------------------------------------
VARIABLES
  part,  \* the component this behaviour is about; the others are not there
  agentSetup, caRoot, workload, certRoot, tasks, signed, failures, agentBundle, mutex, job,
  open, watch, held, pushes, agentReq, asked, file, agentKnown, watched, events, missed,
  start, secret, disk, made, left, authorityPc, fresh, authorityBundle, event,
  authorityTimer, authorityHand, pub, loader, authorityToken, got, call, answer,
  authorityEarly, gap, signerRoot, raMesh, roots, raKeys, raErrors, rooted, raPc, csr,
  raSeen, result, told, signingSetup, signingNow, current, defaultTTL, answers, keys,
  podsSetup, podsNow, pods, secrets, root, published, podsCache, secretEvents, up,
  podsToken, batch, podsHand, stale, rotations, nextRotation, podsGaveUp, crossed, harmed,
  podsReady, podsDirty, podsProcessing, podsRequeues, podsBackoff, podsWorker, podsRunning,
  podsShutDown, podsSynced

allVars == <<part, agentSetup, caRoot, workload, certRoot, tasks, signed, failures, agentBundle,
             mutex, job, open, watch, held, pushes, agentReq, asked, file, agentKnown,
             watched, events, missed, start, secret, disk, made, left, authorityPc, fresh,
             authorityBundle, event, authorityTimer, authorityHand, pub, loader,
             authorityToken, got, call, answer, authorityEarly, gap, signerRoot, raMesh,
             roots, raKeys, raErrors, rooted, raPc, csr, raSeen, result, told, signingSetup,
             signingNow, current, defaultTTL, answers, keys, podsSetup, podsNow, pods,
             secrets, root, published, podsCache, secretEvents, up, podsToken, batch,
             podsHand, stale, rotations, nextRotation, podsGaveUp, crossed, harmed,
             podsReady, podsDirty, podsProcessing, podsRequeues, podsBackoff, podsWorker,
             podsRunning, podsShutDown, podsSynced, setup, bundle, token, watching, object,
             namespace, cache, known, pending, nsPending, hand, gaveUp, early, version,
             changes, refusals, ready, dirty, processing, requeues, backoff, worker,
             running, shutDown, synced, now, lock, pc, seen, raw, holder, since, timer,
             cycle, starting, fns, enabled, errors, stops, args, phase, comps, started,
             required, stopping, done, syncedCaches, store, configCache, snapshot,
             pushChannel, req, pushing, inbound, committed, expected, reports, serverReady,
             handlers, status, mesh, meshHandled, draining>>

Agent == INSTANCE SecretCache WITH Client <- {c1}, Setups <- SecretSetups, MaxRequests <- 2,
  setup <- agentSetup, bundle <- agentBundle, req <- agentReq, known <- agentKnown
Authority == INSTANCE CertAuthority WITH Replica <- {r1, r2}, Starts <- AuthorityStarts, pc
  <- authorityPc, bundle <- authorityBundle, timer <- authorityTimer, hand <- authorityHand,
  token <- authorityToken, early <- authorityEarly
Signing == INSTANCE Certificates WITH Setups <- SigningSetups, MaxTime <- 7, setup <-
  signingSetup, now <- signingNow, Workload <- {w1}, MaxRoot <- 2, MaxKey <- 2, MaxErrors <-
  1, mesh <- raMesh, errors <- raErrors, pc <- raPc, seen <- raSeen
Pods == INSTANCE InherentWorkloads WITH Setups <- WorkloadSetups, maxAttempts <- 2, setup <-
  podsSetup, now <- podsNow, cache <- podsCache, token <- podsToken, hand <- podsHand,
  gaveUp <- podsGaveUp, ready <- podsReady, dirty <- podsDirty, processing <-
  podsProcessing, requeues <- podsRequeues, backoff <- podsBackoff, worker <- podsWorker,
  running <- podsRunning, shutDown <- podsShutDown, synced <- podsSynced

\* What the theorem about CaDistribution assumes of its constants.
ASSUME BundleConfigured == Configured

-----------------------------------------------------------------------------
(* SecretCache *)

agentRest == <<start, secret, disk, made, left, authorityPc, fresh, authorityBundle, event,
             authorityTimer, authorityHand, pub, loader, authorityToken, got, call, answer,
             authorityEarly, gap, signerRoot, raMesh, roots, raKeys, raErrors, rooted, raPc,
             csr, raSeen, result, told, signingSetup, signingNow, current, defaultTTL,
             answers, keys, podsSetup, podsNow, pods, secrets, root, published, podsCache,
             secretEvents, up, podsToken, batch, podsHand, stale, rotations, nextRotation,
             podsGaveUp, crossed, harmed, podsReady, podsDirty, podsProcessing,
             podsRequeues, podsBackoff, podsWorker, podsRunning, podsShutDown, podsSynced,
             setup, bundle, token, watching, object, namespace, cache, known, pending,
             nsPending, hand, gaveUp, early, version, changes, refusals, ready, dirty,
             processing, requeues, backoff, worker, running, shutDown, synced, now, lock,
             pc, seen, raw, holder, since, timer, cycle, starting, fns, enabled, errors,
             stops, args, phase, comps, started, required, stopping, done, syncedCaches,
             store, configCache, snapshot, pushChannel, req, pushing, inbound, committed,
             expected, reports, serverReady, handlers, status, mesh, meshHandled, draining>>
AgentInit ==
  /\ part = "agent" /\ Agent!Init
  /\ DistributionInit /\ setup = (CHOOSE s \in Setups : TRUE) /\ Init /\ enabled
  /\ LifecycleInit /\ args = (CHOOSE s \in Args : TRUE) /\ start = 0 /\ secret = 0
  /\ disk = 0 /\ made = 0 /\ left = 0 /\ authorityPc = 0 /\ fresh = 0
  /\ authorityBundle = 0 /\ event = 0 /\ authorityTimer = 0 /\ authorityHand = 0 /\ pub = 0
  /\ loader = 0 /\ authorityToken = 0 /\ got = 0 /\ call = 0 /\ answer = 0
  /\ authorityEarly = 0 /\ gap = 0 /\ signerRoot = 0 /\ raMesh = 0 /\ roots = 0
  /\ raKeys = 0 /\ raErrors = 0 /\ rooted = 0 /\ raPc = 0 /\ csr = 0 /\ raSeen = 0
  /\ result = 0 /\ told = 0 /\ signingSetup = 0 /\ signingNow = 0 /\ current = 0
  /\ defaultTTL = 0 /\ answers = 0 /\ keys = 0 /\ podsSetup = 0 /\ podsNow = 0 /\ pods = 0
  /\ secrets = 0 /\ root = 0 /\ published = 0 /\ podsCache = 0 /\ secretEvents = 0
  /\ up = 0 /\ podsToken = 0 /\ batch = 0 /\ podsHand = 0 /\ stale = 0 /\ rotations = 0
  /\ nextRotation = 0 /\ podsGaveUp = 0 /\ crossed = 0 /\ harmed = 0 /\ podsReady = 0
  /\ podsDirty = 0 /\ podsProcessing = 0 /\ podsRequeues = 0 /\ podsBackoff = 0
  /\ podsWorker = 0 /\ podsRunning = 0 /\ podsShutDown = 0 /\ podsSynced = 0
InAgent == part = "agent"
OnlyAgent == UNCHANGED <<part, agentRest>>
AgentStartGenerate == InAgent /\ (\E a \in {c1, warm}, n \in Agent!SecretName : Agent!StartGenerate(a, n)) /\ OnlyAgent
AgentFileTimeout == InAgent /\ (\E a \in {c1, warm} : Agent!FileTimeout(a)) /\ OnlyAgent
AgentAddFileWatcher == InAgent /\ (\E a \in {c1, warm} : Agent!addFileWatcher(a)) /\ OnlyAgent
AgentLockGenerate == InAgent /\ (\E a \in {c1, warm} : Agent!LockGenerate(a)) /\ OnlyAgent
AgentGenerateNewSecret == InAgent /\ (\E a \in {c1, warm} : Agent!generateNewSecret(a)) /\ OnlyAgent
AgentSignFails == InAgent /\ (\E a \in {c1, warm} : Agent!SignFails(a)) /\ OnlyAgent
AgentRegisterSecret == InAgent /\ (\E a \in {c1, warm} : Agent!registerSecret(a)) /\ OnlyAgent
AgentAnnounceRoot == InAgent /\ (\E a \in {c1, warm} : Agent!AnnounceRoot(a)) /\ OnlyAgent
AgentWarmUpDone == InAgent /\ Agent!WarmUpDone /\ OnlyAgent
AgentRotate == InAgent /\ (\E s \in 1..agentSetup.serial : Agent!Rotate(s)) /\ OnlyAgent
AgentCaRotates == InAgent /\ Agent!CaRotates /\ OnlyAgent
AgentUpdateConfigTrustBundle == InAgent /\ Agent!UpdateConfigTrustBundle /\ OnlyAgent
AgentWriteFile == InAgent /\ Agent!WriteFile /\ OnlyAgent
AgentRemoveFile == InAgent /\ Agent!RemoveFile /\ OnlyAgent
AgentCreateFile == InAgent /\ Agent!CreateFile /\ OnlyAgent
AgentHandleFileWatch == InAgent /\ Agent!handleFileWatch /\ OnlyAgent
AgentSubscribe == InAgent /\ (\E sub \in Agent!Subscriptions, nonce \in {"none", "current"} : Agent!SendRequest(c1, sub, {}, FALSE, nonce)) /\ OnlyAgent
AgentUnsubscribe == InAgent /\ (\E unsub \in Agent!Subscriptions : Agent!SendRequest(c1, {}, unsub, FALSE, "current")) /\ OnlyAgent
AgentNack == InAgent /\ Agent!SendRequest(c1, {}, {}, TRUE, "current") /\ OnlyAgent
AgentProcess == InAgent /\ Agent!Process(c1) /\ OnlyAgent
AgentSendDelta == InAgent /\ Agent!sendDelta(c1) /\ OnlyAgent
AgentDisconnect == InAgent /\ Agent!Disconnect(c1) /\ OnlyAgent
AgentTakePush == InAgent /\ (\E n \in Agent!SecretName : Agent!TakePush(c1, n)) /\ OnlyAgent
AgentNext ==
  \/ AgentStartGenerate \/ AgentFileTimeout \/ AgentAddFileWatcher \/ AgentLockGenerate
  \/ AgentGenerateNewSecret \/ AgentSignFails \/ AgentRegisterSecret \/ AgentAnnounceRoot
  \/ AgentWarmUpDone \/ AgentRotate \/ AgentCaRotates \/ AgentUpdateConfigTrustBundle
  \/ AgentWriteFile \/ AgentRemoveFile \/ AgentCreateFile \/ AgentHandleFileWatch
  \/ AgentSubscribe \/ AgentUnsubscribe \/ AgentNack \/ AgentProcess \/ AgentSendDelta
  \/ AgentDisconnect \/ AgentTakePush

-----------------------------------------------------------------------------
(* CertAuthority *)

authorityRest == <<agentSetup, caRoot, workload, certRoot, tasks, signed, failures,
                 agentBundle, mutex, job, open, watch, held, pushes, agentReq, asked, file,
                 agentKnown, watched, events, missed, signerRoot, raMesh, roots, raKeys,
                 raErrors, rooted, raPc, csr, raSeen, result, told, signingSetup,
                 signingNow, current, defaultTTL, answers, keys, podsSetup, podsNow, pods,
                 secrets, root, published, podsCache, secretEvents, up, podsToken, batch,
                 podsHand, stale, rotations, nextRotation, podsGaveUp, crossed, harmed,
                 podsReady, podsDirty, podsProcessing, podsRequeues, podsBackoff,
                 podsWorker, podsRunning, podsShutDown, podsSynced, setup, bundle, token,
                 watching, object, namespace, cache, known, pending, nsPending, hand,
                 gaveUp, early, version, changes, refusals, ready, dirty, processing,
                 requeues, backoff, worker, running, shutDown, synced, now, lock, pc, seen,
                 raw, holder, since, timer, cycle, starting, fns, enabled, errors, stops,
                 args, phase, comps, started, required, stopping, done, syncedCaches, store,
                 configCache, snapshot, pushChannel, req, pushing, inbound, committed,
                 expected, reports, serverReady, handlers, status, mesh, meshHandled,
                 draining>>
AuthorityInit ==
  /\ part = "authority" /\ Authority!Init
  /\ DistributionInit /\ setup = (CHOOSE s \in Setups : TRUE) /\ Init /\ enabled
  /\ LifecycleInit /\ args = (CHOOSE s \in Args : TRUE) /\ agentSetup = 0 /\ caRoot = 0
  /\ workload = 0 /\ certRoot = 0 /\ tasks = 0 /\ signed = 0 /\ failures = 0
  /\ agentBundle = 0 /\ mutex = 0 /\ job = 0 /\ open = 0 /\ watch = 0 /\ held = 0
  /\ pushes = 0 /\ agentReq = 0 /\ asked = 0 /\ file = 0 /\ agentKnown = 0 /\ watched = 0
  /\ events = 0 /\ missed = 0 /\ signerRoot = 0 /\ raMesh = 0 /\ roots = 0 /\ raKeys = 0
  /\ raErrors = 0 /\ rooted = 0 /\ raPc = 0 /\ csr = 0 /\ raSeen = 0 /\ result = 0
  /\ told = 0 /\ signingSetup = 0 /\ signingNow = 0 /\ current = 0 /\ defaultTTL = 0
  /\ answers = 0 /\ keys = 0 /\ podsSetup = 0 /\ podsNow = 0 /\ pods = 0 /\ secrets = 0
  /\ root = 0 /\ published = 0 /\ podsCache = 0 /\ secretEvents = 0 /\ up = 0
  /\ podsToken = 0 /\ batch = 0 /\ podsHand = 0 /\ stale = 0 /\ rotations = 0
  /\ nextRotation = 0 /\ podsGaveUp = 0 /\ crossed = 0 /\ harmed = 0 /\ podsReady = 0
  /\ podsDirty = 0 /\ podsProcessing = 0 /\ podsRequeues = 0 /\ podsBackoff = 0
  /\ podsWorker = 0 /\ podsRunning = 0 /\ podsShutDown = 0 /\ podsSynced = 0
InAuthority == part = "authority"
OnlyAuthority == UNCHANGED <<part, authorityRest>>
AuthorityChangeFiles == InAuthority /\ Authority!ChangeFiles /\ OnlyAuthority
AuthorityCreateDubboCA == InAuthority /\ (\E r \in {r1, r2} : Authority!createDubboCA(r)) /\ OnlyAuthority
AuthorityInitCACertsAndCRLWatcher == InAuthority /\ (\E r \in {r1, r2} : Authority!initCACertsAndCRLWatcher(r)) /\ OnlyAuthority
AuthorityMaybeCreateCA == InAuthority /\ (\E r \in {r1, r2} : Authority!maybeCreateCA(r)) /\ OnlyAuthority
AuthorityGetCASecret == InAuthority /\ (\E r \in {r1, r2} : Authority!GetCASecret(r)) /\ OnlyAuthority
AuthorityGetCACerts == InAuthority /\ (\E r \in {r1, r2} : Authority!GetCACerts(r)) /\ OnlyAuthority
AuthorityCreateSecret == InAuthority /\ (\E r \in {r1, r2} : Authority!CreateSecret(r)) /\ OnlyAuthority
AuthorityApiError == InAuthority /\ (\E r \in {r1, r2} : Authority!ApiError(r)) /\ OnlyAuthority
AuthorityGenKeyCert == InAuthority /\ (\E r \in {r1, r2} : Authority!GenKeyCert(r)) /\ OnlyAuthority
AuthorityInitDNSCertsDubbod == InAuthority /\ (\E r \in {r1, r2} : Authority!initDNSCertsDubbod(r)) /\ OnlyAuthority
AuthorityFirstLoad == InAuthority /\ (\E r \in {r1, r2} : Authority!FirstLoad(r)) /\ OnlyAuthority
AuthorityAddWatcher == InAuthority /\ (\E r \in {r1, r2} : Authority!AddWatcher(r)) /\ OnlyAuthority
AuthorityReloadDubbodCert == InAuthority /\ (\E r \in {r1, r2} : Authority!reloadDubbodCert(r)) /\ OnlyAuthority
AuthorityLoadDubbodCert == InAuthority /\ (\E r \in {r1, r2} : Authority!loadDubbodCert(r)) /\ OnlyAuthority
AuthorityLoaded == InAuthority /\ (\E r \in {r1, r2} : Authority!Loaded(r)) /\ OnlyAuthority
AuthorityHandleCACertsFileWatch == InAuthority /\ (\E r \in {r1, r2} : Authority!handleCACertsFileWatch(r)) /\ OnlyAuthority
AuthorityHandleEvent == InAuthority /\ (\E r \in {r1, r2} : Authority!handleEvent(r)) /\ OnlyAuthority
AuthorityNilCA == InAuthority /\ (\E r \in {r1, r2} : Authority!NilCA(r)) /\ OnlyAuthority
AuthorityReadSigningCert == InAuthority /\ (\E r \in {r1, r2} : Authority!ReadSigningCert(r)) /\ OnlyAuthority
AuthorityReadSigningKey == InAuthority /\ (\E r \in {r1, r2} : Authority!ReadSigningKey(r)) /\ OnlyAuthority
AuthorityUpdateVerifiedKeyCertBundleFromFile == InAuthority /\ (\E r \in {r1, r2} : Authority!UpdateVerifiedKeyCertBundleFromFile(r)) /\ OnlyAuthority
AuthoritySetAndNotifyCACRL == InAuthority /\ (\E r \in {r1, r2} : Authority!SetAndNotifyCACRL(r)) /\ OnlyAuthority
AuthorityUpdateRootCertAndGenKeyCert == InAuthority /\ (\E r \in {r1, r2} : Authority!updateRootCertAndGenKeyCert(r)) /\ OnlyAuthority
AuthorityCreateCertificate == InAuthority /\ (\E r \in {r1, r2} : Authority!CreateCertificate(r)) /\ OnlyAuthority
AuthoritySign == InAuthority /\ (\E r \in {r1, r2} : Authority!Sign(r)) /\ OnlyAuthority
AuthorityCrash == InAuthority /\ (\E r \in {r1, r2} : Authority!Crash(r)) /\ OnlyAuthority
AuthorityNext ==
  \/ AuthorityChangeFiles \/ AuthorityCreateDubboCA \/ AuthorityInitCACertsAndCRLWatcher
  \/ AuthorityMaybeCreateCA \/ AuthorityGetCASecret \/ AuthorityGetCACerts
  \/ AuthorityCreateSecret \/ AuthorityApiError \/ AuthorityGenKeyCert
  \/ AuthorityInitDNSCertsDubbod \/ AuthorityFirstLoad \/ AuthorityAddWatcher
  \/ AuthorityReloadDubbodCert \/ AuthorityLoadDubbodCert \/ AuthorityLoaded
  \/ AuthorityHandleCACertsFileWatch \/ AuthorityHandleEvent \/ AuthorityNilCA
  \/ AuthorityReadSigningCert \/ AuthorityReadSigningKey
  \/ AuthorityUpdateVerifiedKeyCertBundleFromFile \/ AuthoritySetAndNotifyCACRL
  \/ AuthorityUpdateRootCertAndGenKeyCert \/ AuthorityCreateCertificate \/ AuthoritySign
  \/ AuthorityCrash

-----------------------------------------------------------------------------
(* Certificates, its second machine *)

raRest == <<agentSetup, caRoot, workload, certRoot, tasks, signed, failures, agentBundle,
          mutex, job, open, watch, held, pushes, agentReq, asked, file, agentKnown, watched,
          events, missed, start, secret, disk, made, authorityPc, fresh, authorityBundle,
          event, authorityTimer, authorityHand, loader, authorityToken, got, call, answer,
          authorityEarly, gap, signingSetup, signingNow, current, defaultTTL, answers, keys,
          podsSetup, podsNow, pods, secrets, root, published, podsCache, secretEvents, up,
          podsToken, batch, podsHand, stale, rotations, nextRotation, podsGaveUp, crossed,
          harmed, podsReady, podsDirty, podsProcessing, podsRequeues, podsBackoff,
          podsWorker, podsRunning, podsShutDown, podsSynced, setup, bundle, token, watching,
          object, namespace, cache, known, pending, nsPending, hand, gaveUp, early, version,
          changes, refusals, ready, dirty, processing, requeues, backoff, worker, running,
          shutDown, synced, now, lock, pc, seen, raw, holder, since, timer, cycle, starting,
          fns, enabled, errors, stops, args, phase, comps, started, required, stopping,
          done, syncedCaches, store, configCache, snapshot, pushChannel, req, pushing,
          inbound, committed, expected, reports, serverReady, handlers, status, mesh,
          meshHandled, draining>>
RaInit ==
  /\ part = "ra" /\ Signing!RaInit
  /\ DistributionInit /\ setup = (CHOOSE s \in Setups : TRUE) /\ Init /\ enabled
  /\ LifecycleInit /\ args = (CHOOSE s \in Args : TRUE) /\ agentSetup = 0 /\ caRoot = 0
  /\ workload = 0 /\ certRoot = 0 /\ tasks = 0 /\ signed = 0 /\ failures = 0
  /\ agentBundle = 0 /\ mutex = 0 /\ job = 0 /\ open = 0 /\ watch = 0 /\ held = 0
  /\ pushes = 0 /\ agentReq = 0 /\ asked = 0 /\ file = 0 /\ agentKnown = 0 /\ watched = 0
  /\ events = 0 /\ missed = 0 /\ start = 0 /\ secret = 0 /\ disk = 0 /\ made = 0
  /\ authorityPc = 0 /\ fresh = 0 /\ authorityBundle = 0 /\ event = 0 /\ authorityTimer = 0
  /\ authorityHand = 0 /\ loader = 0 /\ authorityToken = 0 /\ got = 0 /\ call = 0
  /\ answer = 0 /\ authorityEarly = 0 /\ gap = 0 /\ signingSetup = 0 /\ signingNow = 0
  /\ current = 0 /\ defaultTTL = 0 /\ answers = 0 /\ keys = 0 /\ podsSetup = 0
  /\ podsNow = 0 /\ pods = 0 /\ secrets = 0 /\ root = 0 /\ published = 0 /\ podsCache = 0
  /\ secretEvents = 0 /\ up = 0 /\ podsToken = 0 /\ batch = 0 /\ podsHand = 0 /\ stale = 0
  /\ rotations = 0 /\ nextRotation = 0 /\ podsGaveUp = 0 /\ crossed = 0 /\ harmed = 0
  /\ podsReady = 0 /\ podsDirty = 0 /\ podsProcessing = 0 /\ podsRequeues = 0
  /\ podsBackoff = 0 /\ podsWorker = 0 /\ podsRunning = 0 /\ podsShutDown = 0
  /\ podsSynced = 0
InRa == part = "ra"
OnlyRa == UNCHANGED <<part, raRest>>
RaSubmitCSR == InRa /\ (\E c \in Signing!Caller : Signing!submitCSR(c)) /\ OnlyRa
RaApproveCSR == InRa /\ (\E c \in Signing!Caller : Signing!approveCSR(c)) /\ OnlyRa
RaListCsr == InRa /\ (\E c \in Signing!Caller : Signing!ListCsr(c)) /\ OnlyRa
RaWatchCsr == InRa /\ (\E c \in Signing!Caller : Signing!WatchCsr(c)) /\ OnlyRa
RaReadSignedCsr == InRa /\ (\E c \in Signing!Caller : Signing!readSignedCsr(c)) /\ OnlyRa
RaWatchEnds == InRa /\ (\E c \in Signing!Caller : Signing!WatchEnds(c)) /\ OnlyRa
RaCallFails == InRa /\ (\E c \in Signing!Caller : Signing!CallFails(c)) /\ OnlyRa
RaSubmitFails == InRa /\ (\E c \in Signing!Caller : Signing!SubmitFails(c)) /\ OnlyRa
RaCleanupCSR == InRa /\ (\E c \in Signing!Caller : Signing!cleanupCSR(c)) /\ OnlyRa
RaSignerIssues == InRa /\ (\E c \in Signing!Caller : Signing!SignerIssues(c)) /\ OnlyRa
RaSignRequest == InRa /\ (\E k \in Signing!CsrKind : Signing!SignRequest(w1, k)) /\ OnlyRa
RaSignWithCertChain == InRa /\ Signing!SignWithCertChain(w1) /\ OnlyRa
RaInitDNSCertsK8SRA == InRa /\ Signing!initDNSCertsK8SRA /\ OnlyRa
RaRotateDNSCertForK8sCA == InRa /\ Signing!RotateDNSCertForK8sCA /\ OnlyRa
RaRotated == InRa /\ Signing!Rotated /\ OnlyRa
RaChangeMesh == InRa /\ Signing!ChangeMesh /\ OnlyRa
RaSetCACertificatesFromMeshConfig == InRa /\ Signing!SetCACertificatesFromMeshConfig /\ OnlyRa
RaHandlerPublishes == InRa /\ Signing!HandlerPublishes /\ OnlyRa
RaSignerRotates == InRa /\ Signing!SignerRotates /\ OnlyRa
RaNext ==
  \/ RaSubmitCSR \/ RaApproveCSR \/ RaListCsr \/ RaWatchCsr \/ RaReadSignedCsr
  \/ RaWatchEnds \/ RaCallFails \/ RaSubmitFails \/ RaCleanupCSR \/ RaSignerIssues
  \/ RaSignRequest \/ RaSignWithCertChain \/ RaInitDNSCertsK8SRA \/ RaRotateDNSCertForK8sCA
  \/ RaRotated \/ RaChangeMesh \/ RaSetCACertificatesFromMeshConfig \/ RaHandlerPublishes
  \/ RaSignerRotates

-----------------------------------------------------------------------------
(* Certificates *)

signingRest == <<agentSetup, caRoot, workload, certRoot, tasks, failures, agentBundle, mutex,
               job, open, watch, held, pushes, agentReq, asked, file, agentKnown, watched,
               events, missed, start, secret, disk, made, left, authorityPc, fresh,
               authorityBundle, event, authorityTimer, authorityHand, pub, loader,
               authorityToken, got, call, answer, authorityEarly, gap, signerRoot, raMesh,
               roots, raKeys, raErrors, rooted, raPc, csr, raSeen, result, told, podsSetup,
               podsNow, pods, secrets, root, published, podsCache, secretEvents, up,
               podsToken, batch, podsHand, stale, rotations, nextRotation, podsGaveUp,
               crossed, harmed, podsReady, podsDirty, podsProcessing, podsRequeues,
               podsBackoff, podsWorker, podsRunning, podsShutDown, podsSynced, setup,
               bundle, token, watching, object, namespace, cache, known, pending, nsPending,
               hand, gaveUp, early, version, changes, refusals, ready, dirty, processing,
               requeues, backoff, worker, running, shutDown, synced, now, lock, pc, seen,
               raw, holder, since, timer, cycle, starting, fns, enabled, errors, stops,
               args, phase, comps, started, required, stopping, done, syncedCaches, store,
               configCache, snapshot, pushChannel, req, pushing, inbound, committed,
               expected, reports, serverReady, handlers, status, mesh, meshHandled, draining>>
SigningInit ==
  /\ part = "signing" /\ Signing!Init
  /\ DistributionInit /\ setup = (CHOOSE s \in Setups : TRUE) /\ Init /\ enabled
  /\ LifecycleInit /\ args = (CHOOSE s \in Args : TRUE) /\ agentSetup = 0 /\ caRoot = 0
  /\ workload = 0 /\ certRoot = 0 /\ tasks = 0 /\ failures = 0 /\ agentBundle = 0
  /\ mutex = 0 /\ job = 0 /\ open = 0 /\ watch = 0 /\ held = 0 /\ pushes = 0
  /\ agentReq = 0 /\ asked = 0 /\ file = 0 /\ agentKnown = 0 /\ watched = 0 /\ events = 0
  /\ missed = 0 /\ start = 0 /\ secret = 0 /\ disk = 0 /\ made = 0 /\ left = 0
  /\ authorityPc = 0 /\ fresh = 0 /\ authorityBundle = 0 /\ event = 0 /\ authorityTimer = 0
  /\ authorityHand = 0 /\ pub = 0 /\ loader = 0 /\ authorityToken = 0 /\ got = 0
  /\ call = 0 /\ answer = 0 /\ authorityEarly = 0 /\ gap = 0 /\ signerRoot = 0
  /\ raMesh = 0 /\ roots = 0 /\ raKeys = 0 /\ raErrors = 0 /\ rooted = 0 /\ raPc = 0
  /\ csr = 0 /\ raSeen = 0 /\ result = 0 /\ told = 0 /\ podsSetup = 0 /\ podsNow = 0
  /\ pods = 0 /\ secrets = 0 /\ root = 0 /\ published = 0 /\ podsCache = 0
  /\ secretEvents = 0 /\ up = 0 /\ podsToken = 0 /\ batch = 0 /\ podsHand = 0 /\ stale = 0
  /\ rotations = 0 /\ nextRotation = 0 /\ podsGaveUp = 0 /\ crossed = 0 /\ harmed = 0
  /\ podsReady = 0 /\ podsDirty = 0 /\ podsProcessing = 0 /\ podsRequeues = 0
  /\ podsBackoff = 0 /\ podsWorker = 0 /\ podsRunning = 0 /\ podsShutDown = 0
  /\ podsSynced = 0
InSigning == part = "signing"
OnlySigning == UNCHANGED <<part, signingRest>>
SigningNewDubboCA == InSigning /\ Signing!NewDubboCA /\ OnlySigning
SigningSign == InSigning /\ (\E q \in signingSetup.requests : Signing!sign(q)) /\ OnlySigning
SigningSignWithCertChain == InSigning /\ Signing!signWithCertChain /\ OnlySigning
SigningUpdateBundle == InSigning /\ Signing!UpdateBundle /\ OnlySigning
SigningTick == InSigning /\ Signing!Tick /\ OnlySigning
SigningNext ==
  \/ SigningNewDubboCA \/ SigningSign \/ SigningSignWithCertChain \/ SigningUpdateBundle
  \/ SigningTick

-----------------------------------------------------------------------------
(* InherentWorkloads *)

podsRest == <<agentSetup, caRoot, workload, certRoot, tasks, signed, failures, agentBundle,
            mutex, job, open, watch, held, pushes, agentReq, asked, file, agentKnown,
            watched, events, missed, start, secret, disk, made, authorityPc, fresh,
            authorityBundle, event, authorityTimer, authorityHand, pub, loader,
            authorityToken, got, call, answer, authorityEarly, gap, signerRoot, raMesh,
            roots, raKeys, raErrors, rooted, raPc, csr, raSeen, result, told, signingSetup,
            signingNow, current, defaultTTL, answers, keys, setup, bundle, token, watching,
            object, namespace, cache, known, pending, nsPending, hand, gaveUp, early,
            version, changes, refusals, ready, dirty, processing, requeues, backoff, worker,
            running, shutDown, synced, now, lock, pc, seen, raw, holder, since, timer,
            cycle, starting, fns, enabled, errors, stops, args, phase, comps, started,
            required, stopping, done, syncedCaches, store, configCache, snapshot,
            pushChannel, req, pushing, inbound, committed, expected, reports, serverReady,
            handlers, status, mesh, meshHandled, draining>>
PodsInit ==
  /\ part = "pods" /\ Pods!Init
  /\ DistributionInit /\ setup = (CHOOSE s \in Setups : TRUE) /\ Init /\ enabled
  /\ LifecycleInit /\ args = (CHOOSE s \in Args : TRUE) /\ agentSetup = 0 /\ caRoot = 0
  /\ workload = 0 /\ certRoot = 0 /\ tasks = 0 /\ signed = 0 /\ failures = 0
  /\ agentBundle = 0 /\ mutex = 0 /\ job = 0 /\ open = 0 /\ watch = 0 /\ held = 0
  /\ pushes = 0 /\ agentReq = 0 /\ asked = 0 /\ file = 0 /\ agentKnown = 0 /\ watched = 0
  /\ events = 0 /\ missed = 0 /\ start = 0 /\ secret = 0 /\ disk = 0 /\ made = 0
  /\ authorityPc = 0 /\ fresh = 0 /\ authorityBundle = 0 /\ event = 0 /\ authorityTimer = 0
  /\ authorityHand = 0 /\ pub = 0 /\ loader = 0 /\ authorityToken = 0 /\ got = 0
  /\ call = 0 /\ answer = 0 /\ authorityEarly = 0 /\ gap = 0 /\ signerRoot = 0
  /\ raMesh = 0 /\ roots = 0 /\ raKeys = 0 /\ raErrors = 0 /\ rooted = 0 /\ raPc = 0
  /\ csr = 0 /\ raSeen = 0 /\ result = 0 /\ told = 0 /\ signingSetup = 0 /\ signingNow = 0
  /\ current = 0 /\ defaultTTL = 0 /\ answers = 0 /\ keys = 0
InPods == part = "pods"
OnlyPods == UNCHANGED <<part, podsRest>>
PodsCreatePod == InPods /\ (\E k \in {p1, p2}, m \in {"own", "shared"} : Pods!CreatePod(k, m)) /\ OnlyPods
PodsMovePod == InPods /\ (\E k \in {p1, p2} : Pods!ChangePod(k, "ip", 1)) /\ OnlyPods
PodsReleasePod == InPods /\ (\E k \in {p1, p2} : Pods!ChangePod(k, "managed", FALSE)) /\ OnlyPods
PodsDeletePod == InPods /\ (\E k \in {p1, p2} : Pods!ChangePod(k, "deleting", TRUE)) /\ OnlyPods
PodsRemovePod == InPods /\ (\E k \in {p1, p2} : Pods!RemovePod(k)) /\ OnlyPods
PodsCollectGarbage == InPods /\ (\E k \in {p1, p2} : Pods!CollectGarbage(k)) /\ OnlyPods
PodsDeleteSecret == InPods /\ (\E k \in {p1, p2} : Pods!DeleteSecret(k)) /\ OnlyPods
PodsPeerWrites == InPods /\ (\E k \in {p1, p2} : Pods!PeerWrites(k)) /\ OnlyPods
PodsUpdateCache == InPods /\ (\E k \in {p1, p2} : Pods!UpdateCache(k)) /\ OnlyPods
PodsEnqueueManagedPodsBatched == InPods /\ (\E k \in {p1, p2} : Pods!enqueueManagedPodsBatched(k)) /\ OnlyPods
PodsBackoffEnds == InPods /\ (\E k \in {p1, p2} : Pods!BackoffEnds(k)) /\ OnlyPods
PodsCaRotates == InPods /\ Pods!CaRotates /\ OnlyPods
PodsNotifyWatchers == InPods /\ Pods!NotifyWatchers /\ OnlyPods
PodsHandleWorkloadConfigUpdate == InPods /\ Pods!handleWorkloadConfigUpdate /\ OnlyPods
PodsStart == InPods /\ (\E ignored \in SUBSET {p1, p2} : Pods!Start(ignored)) /\ OnlyPods
PodsRun == InPods /\ Pods!Run /\ OnlyPods
PodsCrash == InPods /\ Pods!Crash /\ OnlyPods
PodsWatchBundleChanges == InPods /\ Pods!watchBundleChanges /\ OnlyPods
PodsHandleSecret == InPods /\ (\E e \in secretEvents : Pods!HandleSecret(e)) /\ OnlyPods
PodsFlushDueRotations == InPods /\ Pods!flushDueRotations /\ OnlyPods
PodsGetKey == InPods /\ Pods!GetKey /\ OnlyPods
PodsProcessSignal == InPods /\ Pods!ProcessSignal /\ OnlyPods
PodsCallFails == InPods /\ Pods!CallFails /\ OnlyPods
PodsReconcileGone == InPods /\ Pods!reconcileGone /\ OnlyPods
PodsGetUnwanted == InPods /\ Pods!GetUnwanted /\ OnlyPods
PodsDeleteSecretForPod == InPods /\ Pods!deleteSecretForPod /\ OnlyPods
PodsGetSecret == InPods /\ Pods!GetSecret /\ OnlyPods
PodsBuildSecret == InPods /\ Pods!buildSecret /\ OnlyPods
PodsIssueWorkloadCertificate == InPods /\ Pods!issueWorkloadCertificate /\ OnlyPods
PodsReconcile == InPods /\ Pods!reconcile /\ OnlyPods
PodsTick == InPods /\ Pods!Tick /\ OnlyPods
PodsNext ==
  \/ PodsCreatePod \/ PodsMovePod \/ PodsReleasePod \/ PodsDeletePod \/ PodsRemovePod
  \/ PodsCollectGarbage \/ PodsDeleteSecret \/ PodsPeerWrites \/ PodsUpdateCache
  \/ PodsEnqueueManagedPodsBatched \/ PodsBackoffEnds \/ PodsCaRotates \/ PodsNotifyWatchers
  \/ PodsHandleWorkloadConfigUpdate \/ PodsStart \/ PodsRun \/ PodsCrash
  \/ PodsWatchBundleChanges \/ PodsHandleSecret \/ PodsFlushDueRotations \/ PodsGetKey
  \/ PodsProcessSignal \/ PodsCallFails \/ PodsReconcileGone \/ PodsGetUnwanted
  \/ PodsDeleteSecretForPod \/ PodsGetSecret \/ PodsBuildSecret
  \/ PodsIssueWorkloadCertificate \/ PodsReconcile \/ PodsTick

-----------------------------------------------------------------------------
(* CaDistribution *)

bundleRest == <<agentSetup, caRoot, workload, certRoot, tasks, signed, failures, agentBundle,
              mutex, job, open, watch, held, pushes, agentReq, asked, file, agentKnown,
              watched, events, missed, start, secret, disk, made, left, authorityPc, fresh,
              authorityBundle, event, authorityTimer, authorityHand, pub, loader,
              authorityToken, got, call, answer, authorityEarly, gap, signerRoot, raMesh,
              roots, raKeys, raErrors, rooted, raPc, csr, raSeen, result, told,
              signingSetup, signingNow, current, defaultTTL, answers, keys, podsSetup,
              podsNow, pods, secrets, root, published, podsCache, secretEvents, up,
              podsToken, batch, podsHand, stale, rotations, nextRotation, podsGaveUp,
              crossed, harmed, podsReady, podsDirty, podsProcessing, podsRequeues,
              podsBackoff, podsWorker, podsRunning, podsShutDown, podsSynced, now, lock, pc,
              seen, raw, holder, since, timer, cycle, starting, fns, enabled, errors, stops,
              args, phase, comps, started, required, stopping, done, syncedCaches, store,
              configCache, snapshot, pushChannel, req, pushing, inbound, committed,
              expected, reports, serverReady, handlers, status, mesh, meshHandled, draining>>
BundleInit ==
  /\ part = "bundle" /\ DistributionInit
  /\ Init /\ enabled /\ LifecycleInit /\ args = (CHOOSE s \in Args : TRUE)
  /\ agentSetup = 0 /\ caRoot = 0 /\ workload = 0 /\ certRoot = 0 /\ tasks = 0
  /\ signed = 0 /\ failures = 0 /\ agentBundle = 0 /\ mutex = 0 /\ job = 0 /\ open = 0
  /\ watch = 0 /\ held = 0 /\ pushes = 0 /\ agentReq = 0 /\ asked = 0 /\ file = 0
  /\ agentKnown = 0 /\ watched = 0 /\ events = 0 /\ missed = 0 /\ start = 0 /\ secret = 0
  /\ disk = 0 /\ made = 0 /\ left = 0 /\ authorityPc = 0 /\ fresh = 0
  /\ authorityBundle = 0 /\ event = 0 /\ authorityTimer = 0 /\ authorityHand = 0 /\ pub = 0
  /\ loader = 0 /\ authorityToken = 0 /\ got = 0 /\ call = 0 /\ answer = 0
  /\ authorityEarly = 0 /\ gap = 0 /\ signerRoot = 0 /\ raMesh = 0 /\ roots = 0
  /\ raKeys = 0 /\ raErrors = 0 /\ rooted = 0 /\ raPc = 0 /\ csr = 0 /\ raSeen = 0
  /\ result = 0 /\ told = 0 /\ signingSetup = 0 /\ signingNow = 0 /\ current = 0
  /\ defaultTTL = 0 /\ answers = 0 /\ keys = 0 /\ podsSetup = 0 /\ podsNow = 0 /\ pods = 0
  /\ secrets = 0 /\ root = 0 /\ published = 0 /\ podsCache = 0 /\ secretEvents = 0
  /\ up = 0 /\ podsToken = 0 /\ batch = 0 /\ podsHand = 0 /\ stale = 0 /\ rotations = 0
  /\ nextRotation = 0 /\ podsGaveUp = 0 /\ crossed = 0 /\ harmed = 0 /\ podsReady = 0
  /\ podsDirty = 0 /\ podsProcessing = 0 /\ podsRequeues = 0 /\ podsBackoff = 0
  /\ podsWorker = 0 /\ podsRunning = 0 /\ podsShutDown = 0 /\ podsSynced = 0
InBundle == part = "bundle"
OnlyBundle == UNCHANGED <<part, bundleRest>>
BundleSetAndNotify == InBundle /\ SetAndNotify /\ OnlyBundle
BundleAddWatcher == InBundle /\ AddWatcher /\ OnlyBundle
BundleStartCaBundleWatcher == InBundle /\ startCaBundleWatcher /\ OnlyBundle
BundleChangeObject == InBundle /\ (\E n \in setup.names : ChangeObject(n)) /\ OnlyBundle
BundleChangeNamespace == InBundle /\ (\E n \in setup.names : ChangeNamespace(n)) /\ OnlyBundle
BundleObserveObject == InBundle /\ (\E n \in setup.names : ObserveObject(n)) /\ OnlyBundle
BundleObserveNamespace == InBundle /\ (\E n \in setup.names : ObserveNamespace(n)) /\ OnlyBundle
BundleObserveOther == InBundle /\ (\E n \in setup.names : ObserveOther(n)) /\ OnlyBundle
BundleRun == InBundle /\ Run /\ OnlyBundle
BundleGetKey == InBundle /\ GetKey /\ OnlyBundle
BundleProcessSignal == InBundle /\ ProcessSignal /\ OnlyBundle
BundleBackoffEnds == InBundle /\ (\E k \in Key : BackoffEnds(k)) /\ OnlyBundle
BundleReconcileCACertAndCRL == InBundle /\ reconcileCACertAndCRL /\ OnlyBundle
BundlePatchMutatingWebhookConfig == InBundle /\ patchMutatingWebhookConfig /\ OnlyBundle
BundleReconcile == InBundle /\ Reconcile /\ OnlyBundle
BundleWriteObject == InBundle /\ WriteObject /\ OnlyBundle
BundleCallFails == InBundle /\ CallFails /\ OnlyBundle
BundleCreateForbidden == InBundle /\ CreateForbidden /\ OnlyBundle
BundleNext ==
  \/ BundleSetAndNotify \/ BundleAddWatcher \/ BundleStartCaBundleWatcher
  \/ BundleChangeObject \/ BundleChangeNamespace \/ BundleObserveObject
  \/ BundleObserveNamespace \/ BundleObserveOther \/ BundleRun \/ BundleGetKey
  \/ BundleProcessSignal \/ BundleBackoffEnds \/ BundleReconcileCACertAndCRL
  \/ BundlePatchMutatingWebhookConfig \/ BundleReconcile \/ BundleWriteObject
  \/ BundleCallFails \/ BundleCreateForbidden

-----------------------------------------------------------------------------
(* LeaderElection *)

leaderRest == <<agentSetup, caRoot, workload, certRoot, tasks, signed, failures, agentBundle,
              mutex, job, open, watch, held, pushes, agentReq, asked, file, agentKnown,
              watched, events, missed, start, secret, disk, made, left, authorityPc, fresh,
              authorityBundle, event, authorityTimer, authorityHand, pub, loader,
              authorityToken, got, call, answer, authorityEarly, gap, signerRoot, raMesh,
              roots, raKeys, raErrors, rooted, raPc, csr, raSeen, result, told,
              signingSetup, signingNow, current, defaultTTL, answers, keys, podsSetup,
              podsNow, pods, secrets, root, published, podsCache, secretEvents, up,
              podsToken, batch, podsHand, stale, rotations, nextRotation, podsGaveUp,
              crossed, harmed, podsReady, podsDirty, podsProcessing, podsRequeues,
              podsBackoff, podsWorker, podsRunning, podsShutDown, podsSynced, setup, bundle,
              token, watching, object, namespace, cache, known, pending, nsPending, hand,
              gaveUp, early, version, changes, refusals, ready, dirty, processing, requeues,
              backoff, worker, running, shutDown, synced, args, phase, comps, started,
              required, stopping, done, syncedCaches, store, configCache, snapshot,
              pushChannel, req, pushing, inbound, committed, expected, reports, serverReady,
              handlers, status, mesh, meshHandled, draining>>
LeaderInit ==
  /\ part = "leader" /\ Init
  /\ DistributionInit /\ setup = (CHOOSE s \in Setups : TRUE) /\ LifecycleInit /\ args = (CHOOSE s \in Args : TRUE)
  /\ agentSetup = 0 /\ caRoot = 0 /\ workload = 0 /\ certRoot = 0 /\ tasks = 0
  /\ signed = 0 /\ failures = 0 /\ agentBundle = 0 /\ mutex = 0 /\ job = 0 /\ open = 0
  /\ watch = 0 /\ held = 0 /\ pushes = 0 /\ agentReq = 0 /\ asked = 0 /\ file = 0
  /\ agentKnown = 0 /\ watched = 0 /\ events = 0 /\ missed = 0 /\ start = 0 /\ secret = 0
  /\ disk = 0 /\ made = 0 /\ left = 0 /\ authorityPc = 0 /\ fresh = 0
  /\ authorityBundle = 0 /\ event = 0 /\ authorityTimer = 0 /\ authorityHand = 0 /\ pub = 0
  /\ loader = 0 /\ authorityToken = 0 /\ got = 0 /\ call = 0 /\ answer = 0
  /\ authorityEarly = 0 /\ gap = 0 /\ signerRoot = 0 /\ raMesh = 0 /\ roots = 0
  /\ raKeys = 0 /\ raErrors = 0 /\ rooted = 0 /\ raPc = 0 /\ csr = 0 /\ raSeen = 0
  /\ result = 0 /\ told = 0 /\ signingSetup = 0 /\ signingNow = 0 /\ current = 0
  /\ defaultTTL = 0 /\ answers = 0 /\ keys = 0 /\ podsSetup = 0 /\ podsNow = 0 /\ pods = 0
  /\ secrets = 0 /\ root = 0 /\ published = 0 /\ podsCache = 0 /\ secretEvents = 0
  /\ up = 0 /\ podsToken = 0 /\ batch = 0 /\ podsHand = 0 /\ stale = 0 /\ rotations = 0
  /\ nextRotation = 0 /\ podsGaveUp = 0 /\ crossed = 0 /\ harmed = 0 /\ podsReady = 0
  /\ podsDirty = 0 /\ podsProcessing = 0 /\ podsRequeues = 0 /\ podsBackoff = 0
  /\ podsWorker = 0 /\ podsRunning = 0 /\ podsShutDown = 0 /\ podsSynced = 0
InLeader == part = "leader"
OnlyLeader == UNCHANGED <<part, leaderRest>>
LeaderTick == InLeader /\ Tick /\ OnlyLeader
LeaderStartCycle == InLeader /\ (\E e \in Elector : StartCycle(e)) /\ OnlyLeader
LeaderBypass == InLeader /\ (\E e \in Elector : Bypass(e)) /\ OnlyLeader
LeaderGet == InLeader /\ (\E e \in Elector : Get(e)) /\ OnlyLeader
LeaderRefused == InLeader /\ (\E e \in Elector : Refused(e)) /\ OnlyLeader
LeaderWrite == InLeader /\ (\E e \in Elector : Write(e)) /\ OnlyLeader
LeaderApiError == InLeader /\ (\E e \in Elector : ApiError(e)) /\ OnlyLeader
LeaderStartRenewal == InLeader /\ (\E e \in Elector : StartRenewal(e)) /\ OnlyLeader
LeaderStopAcquiring == InLeader /\ (\E e \in Elector : StopAcquiring(e)) /\ OnlyLeader
LeaderGiveUp == InLeader /\ (\E e \in Elector : GiveUp(e)) /\ OnlyLeader
LeaderOnStoppedLeading == InLeader /\ (\E e \in Elector : OnStoppedLeading(e)) /\ OnlyLeader
LeaderRestart == InLeader /\ (\E e \in Elector : Restart(e)) /\ OnlyLeader
LeaderReleased == InLeader /\ (\E e \in Elector : release(e, TRUE)) /\ OnlyLeader
LeaderReleaseFails == InLeader /\ (\E e \in Elector : release(e, FALSE)) /\ OnlyLeader
LeaderOnStartedLeading == InLeader /\ (\E e \in Elector, c \in 1..MaxCycles : OnStartedLeading(e, c)) /\ OnlyLeader
LeaderNext ==
  \/ LeaderTick \/ LeaderStartCycle \/ LeaderBypass \/ LeaderGet \/ LeaderRefused
  \/ LeaderWrite \/ LeaderApiError \/ LeaderStartRenewal \/ LeaderStopAcquiring
  \/ LeaderGiveUp \/ LeaderOnStoppedLeading \/ LeaderRestart \/ LeaderReleased
  \/ LeaderReleaseFails \/ LeaderOnStartedLeading

-----------------------------------------------------------------------------
(* ServerLifecycle *)

serverRest == <<agentSetup, caRoot, workload, certRoot, tasks, signed, failures, agentBundle,
              mutex, job, open, watch, held, pushes, agentReq, asked, file, agentKnown,
              watched, events, missed, start, secret, disk, made, left, authorityPc, fresh,
              authorityBundle, event, authorityTimer, authorityHand, pub, loader,
              authorityToken, got, call, answer, authorityEarly, gap, signerRoot, raMesh,
              roots, raKeys, raErrors, rooted, raPc, csr, raSeen, result, told,
              signingSetup, signingNow, current, defaultTTL, answers, keys, podsSetup,
              podsNow, pods, secrets, root, published, podsCache, secretEvents, up,
              podsToken, batch, podsHand, stale, rotations, nextRotation, podsGaveUp,
              crossed, harmed, podsReady, podsDirty, podsProcessing, podsRequeues,
              podsBackoff, podsWorker, podsRunning, podsShutDown, podsSynced, setup, bundle,
              token, watching, object, namespace, cache, known, pending, nsPending, hand,
              gaveUp, early, version, changes, refusals, ready, dirty, processing, requeues,
              backoff, worker, running, shutDown, synced, now, lock, pc, seen, raw, holder,
              since, timer, cycle, starting, fns, enabled, errors, stops>>
ServerInit ==
  /\ part = "server" /\ LifecycleInit
  /\ DistributionInit /\ setup = (CHOOSE s \in Setups : TRUE) /\ Init /\ enabled
  /\ agentSetup = 0 /\ caRoot = 0 /\ workload = 0 /\ certRoot = 0 /\ tasks = 0
  /\ signed = 0 /\ failures = 0 /\ agentBundle = 0 /\ mutex = 0 /\ job = 0 /\ open = 0
  /\ watch = 0 /\ held = 0 /\ pushes = 0 /\ agentReq = 0 /\ asked = 0 /\ file = 0
  /\ agentKnown = 0 /\ watched = 0 /\ events = 0 /\ missed = 0 /\ start = 0 /\ secret = 0
  /\ disk = 0 /\ made = 0 /\ left = 0 /\ authorityPc = 0 /\ fresh = 0
  /\ authorityBundle = 0 /\ event = 0 /\ authorityTimer = 0 /\ authorityHand = 0 /\ pub = 0
  /\ loader = 0 /\ authorityToken = 0 /\ got = 0 /\ call = 0 /\ answer = 0
  /\ authorityEarly = 0 /\ gap = 0 /\ signerRoot = 0 /\ raMesh = 0 /\ roots = 0
  /\ raKeys = 0 /\ raErrors = 0 /\ rooted = 0 /\ raPc = 0 /\ csr = 0 /\ raSeen = 0
  /\ result = 0 /\ told = 0 /\ signingSetup = 0 /\ signingNow = 0 /\ current = 0
  /\ defaultTTL = 0 /\ answers = 0 /\ keys = 0 /\ podsSetup = 0 /\ podsNow = 0 /\ pods = 0
  /\ secrets = 0 /\ root = 0 /\ published = 0 /\ podsCache = 0 /\ secretEvents = 0
  /\ up = 0 /\ podsToken = 0 /\ batch = 0 /\ podsHand = 0 /\ stale = 0 /\ rotations = 0
  /\ nextRotation = 0 /\ podsGaveUp = 0 /\ crossed = 0 /\ harmed = 0 /\ podsReady = 0
  /\ podsDirty = 0 /\ podsProcessing = 0 /\ podsRequeues = 0 /\ podsBackoff = 0
  /\ podsWorker = 0 /\ podsRunning = 0 /\ podsShutDown = 0 /\ podsSynced = 0
InServer == part = "server"
OnlyServer == UNCHANGED <<part, serverRest>>
ServerCreate == InServer /\ Create /\ OnlyServer
ServerRunComponent == InServer /\ RunComponent /\ OnlyServer
ServerRunAndWait == InServer /\ RunAndWait /\ OnlyServer
ServerMonitoringFails == InServer /\ MonitoringFails /\ OnlyServer
ServerStartupDone == InServer /\ StartupDone /\ OnlyServer
ServerSyncCache == InServer /\ (\E c \in {"services", "config", "inherent"} : SyncCache(c)) /\ OnlyServer
ServerEDSUpdate == InServer /\ (\E u \in {"endpoints", "service"} : EDSUpdate(u)) /\ OnlyServer
ServerCountInbound == InServer /\ CountInbound /\ OnlyServer
ServerMarkReady == InServer /\ MarkReady /\ OnlyServer
ServerInitRegistryEventHandlers == InServer /\ initRegistryEventHandlers /\ OnlyServer
ServerServe == InServer /\ Serve(TRUE) /\ OnlyServer
ServerServeFails == InServer /\ Serve(FALSE) /\ OnlyServer
ServerWaitSignal == InServer /\ WaitSignal /\ OnlyServer
ServerTerminate == InServer /\ (\E c \in Terminating : Terminate(c)) /\ OnlyServer
ServerCloseDone == InServer /\ CloseDone /\ OnlyServer
ServerDrain == InServer /\ Drain /\ OnlyServer
ServerExit == InServer /\ Exit /\ OnlyServer
ServerChangeConfig == InServer /\ ChangeConfig /\ OnlyServer
ServerDeliverConfig == InServer /\ DeliverConfig /\ OnlyServer
ServerStatusWriter == InServer /\ StatusWriter /\ OnlyServer
ServerActivate == InServer /\ Activate /\ OnlyServer
ServerReceive == InServer /\ (\E u \in Updates : Receive(u)) /\ OnlyServer
ServerStartPush == InServer /\ StartPush /\ OnlyServer
ServerFinishPush == InServer /\ FinishPush /\ OnlyServer
ServerChangeMesh == InServer /\ ChangeMesh /\ OnlyServer
ServerHandleMesh == InServer /\ HandleMesh /\ OnlyServer
ServerNext ==
  \/ ServerCreate \/ ServerRunComponent \/ ServerRunAndWait \/ ServerMonitoringFails
  \/ ServerStartupDone \/ ServerSyncCache \/ ServerEDSUpdate \/ ServerCountInbound
  \/ ServerMarkReady \/ ServerInitRegistryEventHandlers \/ ServerServe \/ ServerServeFails
  \/ ServerWaitSignal \/ ServerTerminate \/ ServerCloseDone \/ ServerDrain \/ ServerExit
  \/ ServerChangeConfig \/ ServerDeliverConfig \/ ServerStatusWriter \/ ServerActivate
  \/ ServerReceive \/ ServerStartPush \/ ServerFinishPush \/ ServerChangeMesh
  \/ ServerHandleMesh

-----------------------------------------------------------------------------
AllInit == AgentInit \/ AuthorityInit \/ RaInit \/ SigningInit \/ PodsInit \/ BundleInit \/ LeaderInit \/ ServerInit
AllNext == AgentNext \/ AuthorityNext \/ RaNext \/ SigningNext \/ PodsNext \/ BundleNext \/ LeaderNext \/ ServerNext
AllSpec == AllInit /\ [][AllNext]_allVars

\* Every certificate that is handed out verifies: the one dubbod serves
\* against the roots it publishes, with the newest loaded once nothing is
\* left to do; every answer of the signing CA against its roots for the
\* lifetime it states, with the names asked for; the replicas that keep their
\* CA in a Secret all sign with the same one; and a certificate signing
\* request outlives the call that made it only if its own deletion failed.
IssuedVerifies ==
  /\ part = "authority" => Authority!PublishedVerifies
  /\ part = "authority" => Authority!LoaderCurrent
  /\ part = "authority" => Authority!ReplicasAgree
  /\ part = "signing" => Signing!AnswersAccepted
  /\ part = "ra" => Signing!RequestsSettled

\* Once nothing is left to do, every consumer of a credential has the newest
\* one: the proxies of an agent what it has generated or read from file, and
\* each managed Pod a Secret signed for it by the current root; and Secrets
\* of other owners are never touched.
CredentialsServed ==
  /\ part = "agent" => Agent!SecretsServed
  /\ part = "pods" => Pods!CredentialsServed
  /\ part = "pods" => Pods!ForeignCredentialsKept

=============================================================================
