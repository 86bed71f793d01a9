--------------------------- MODULE CertAuthority ---------------------------
(***************************************************************************)
(* dubbod's certificate authority: how a replica gets its signing key      *)
(* (bootstrap/dubbo_ca.go, pki/ca/ca.go), how it reloads a plugged-in      *)
(* bundle whose files change (handleCACertsFileWatch, handleEvent), how    *)
(* dubbod's own certificate and the trust anchors are published to their   *)
(* watchers (cert_controller.go, keycertbundle/watcher.go) and how a       *)
(* workload's request is signed (server/ca/server.go).                     *)
(*                                                                         *)
(* A CA certificate is [id, root]; its key is its id; a root bundle is the *)
(* sequence of the roots in the PEM file.  Lifetimes and the subject's     *)
(* names are left out.  A file is read at the instant of the read, so two  *)
(* files of one bundle may come from two generations of the mount.         *)
(***************************************************************************)
EXTENDS Naturals, Sequences

CONSTANTS
    Replica,
    Starts, \* [replicas, files, complete, generated, secret, useCacerts, writable, crl, errors, crashes,
            \* requests]: the replicas that start, the generations of the mounted bundle (none if
            \* nothing is mounted), whether all its files are there and whether dubbo-generated is
            \* among them, the stored secret, UseCacertsForSelfSignedCA, whether the API server
            \* supports creating secrets, EnableCACRL, and the scenario's bounds
    nil

VARIABLES
    start,
    secret,  \* the CA secret: nil or [name, cert]
    disk,    \* the generation mounted, 0 when no file is
    made,    \* self-signed certificates made
    left,    \* what the bounds leave: [errors, crashes, requests]
    pc,      \* where the replica is in its start
    fresh,   \* the certificate it is about to store, or to publish one of
    bundle,  \* CA.keyCertBundle: nil or [cert, roots, crl]
    event,   \* an fsnotify event is pending
    timer,   \* timerC of handleCACertsFileWatch
    hand,    \* handleEvent in progress: nil or what it has read
    pub,     \* the watcher's bundle: [leaf, ca, crl]
    loader,  \* reloadDubbodCert: "none", "loaded", "idle", "loading" or "parsing"
    token,   \* its channel, of capacity one
    got,     \* what it loaded
    call,    \* CreateCertificate in progress: the chain and roots it took
    answer,  \* the last response: [leaf, roots]
    early,   \* history: the files changed while the replica was starting
    gap      \* history: a publication between the first load and AddWatcher

watchVars == <<event, timer, hand, early>>
pubVars == <<pub, loader, token, got, gap>>
callVars == <<call, answer>>
storeVars == <<secret, made, fresh>>
vars == <<start, disk, left, pc, bundle, storeVars, watchVars, pubVars, callVars>>

CASecret == "dubbo-ca-secret"
CACertsSecret == "cacerts"
SelfSigned(n) == [id |-> n, root |-> n]
Unset == [leaf |-> nil, ca |-> <<>>, crl |-> 0]
Mounted == disk > 0
Plugged == Mounted /\ ~(start.useCacerts /\ start.generated)
File == start.files[disk]
Subscribed == {"idle", "loading", "parsing"}
Has(roots, r) == \E i \in 1..Len(roots) : roots[i] = r
Down(f, r, v) == [f EXCEPT ![r] = v]

Init ==
    /\ start \in Starts
    /\ secret = start.secret
    /\ disk = IF start.files = <<>> THEN 0 ELSE 1
    /\ made = 0
    /\ left = [errors |-> start.errors, crashes |-> start.crashes, requests |-> start.requests]
    /\ pc = [r \in Replica |-> IF r \in start.replicas THEN "detect" ELSE "failed"]
    /\ fresh = [r \in Replica |-> nil]
    /\ bundle = [r \in Replica |-> nil]
    /\ event = [r \in Replica |-> FALSE]
    /\ timer = [r \in Replica |-> FALSE]
    /\ hand = [r \in Replica |-> nil]
    /\ pub = [r \in Replica |-> Unset]
    /\ loader = [r \in Replica |-> "none"]
    /\ token = [r \in Replica |-> FALSE]
    /\ got = [r \in Replica |-> Unset]
    /\ call = [r \in Replica |-> nil]
    /\ answer = [r \in Replica |-> nil]
    /\ early = [r \in Replica |-> FALSE]
    /\ gap = [r \in Replica |-> FALSE]

-----------------------------------------------------------------------------
(* Starting: a complete bundle on disk is plugged in, unless it is the one
   that dubbod itself stored as cacerts; otherwise the CA is self-signed and
   its key is kept in a secret.  An incomplete bundle is an error.           *)

(* A key that does not belong to the certificate, or a root that does not
   sign it, or a CRL no certificate of the chain signed, is refused.         *)
Verify(cert, key, roots, crlBy) ==
    /\ Has(roots, cert.root)
    /\ key = cert.id
    /\ crlBy = {} \/ cert.id \in crlBy

createDubboCA(r) ==
    /\ pc[r] = "detect"
    /\ IF ~Plugged \/ ~start.complete
       THEN /\ pc' = [pc EXCEPT ![r] = IF start.complete THEN "get" ELSE "failed"]
            /\ UNCHANGED <<bundle, pubVars>>
       ELSE LET f == File IN
            IF Verify(f.cert, f.key, f.roots, f.crlBy)
            THEN /\ bundle' = [bundle EXCEPT ![r] = [cert |-> f.cert, roots |-> f.roots, crl |-> f.crl]]
                 /\ pub' = [pub EXCEPT ![r].crl = IF start.crl THEN f.crl ELSE 0]
                 /\ pc' = [pc EXCEPT ![r] = "watch"]
                 /\ UNCHANGED <<loader, token, got, gap>>
            ELSE /\ pc' = [pc EXCEPT ![r] = "failed"]
                 /\ UNCHANGED <<bundle, pubVars>>
    /\ UNCHANGED <<start, disk, left, storeVars, watchVars, callVars>>

(* The goroutine of the watcher starts before s.CA is set. *)
initCACertsAndCRLWatcher(r) ==
    /\ pc[r] = "watch"
    /\ pc' = [pc EXCEPT ![r] = "new"]
    /\ UNCHANGED <<start, disk, left, bundle, storeVars, watchVars, pubVars, callVars>>

maybeCreateCA(r) ==
    /\ pc[r] = "new"
    /\ pc' = [pc EXCEPT ![r] = "dns"]
    /\ UNCHANGED <<start, disk, left, bundle, storeVars, watchVars, pubVars, callVars>>

(* A secret found is the CA; one not found is looked for under the other
   name when UseCacertsForSelfSignedCA is set, and made when it is nowhere.
   The roots of a root file that is there are appended.                      *)
Load(r, cert) ==
    /\ bundle' = [bundle EXCEPT ![r] = [cert |-> cert, crl |-> 0,
                                        roots |-> <<cert.root>> \o (IF Mounted THEN File.roots ELSE <<>>)]]
    /\ pc' = [pc EXCEPT ![r] = "dns"]

loadSelfSignedCaSecret(r, at, name, missing) ==
    /\ pc[r] = at
    /\ IF secret # nil /\ secret.name = name
       THEN /\ Load(r, secret.cert)
            /\ UNCHANGED <<made, fresh>>
       ELSE /\ pc' = [pc EXCEPT ![r] = missing]
            /\ made' = IF missing = "create" THEN made + 1 ELSE made
            /\ fresh' = IF missing = "create" THEN [fresh EXCEPT ![r] = SelfSigned(made')] ELSE fresh
            /\ UNCHANGED bundle
    /\ UNCHANGED <<start, disk, left, secret, watchVars, pubVars, callVars>>

GetCASecret(r) ==
    loadSelfSignedCaSecret(r, "get", CASecret, IF start.useCacerts THEN "fallback" ELSE "create")

GetCACerts(r) == loadSelfSignedCaSecret(r, "fallback", CACertsSecret, "create")

(* The replica that finds the secret taken keeps its own key. *)
CreateIgnoresConflict(r) ==
    /\ pc[r] = "create"
    /\ Load(r, fresh[r])
    /\ secret' = IF secret = nil
                 THEN [name |-> IF start.useCacerts THEN CACertsSecret ELSE CASecret, cert |-> fresh[r]]
                 ELSE secret
    /\ fresh' = [fresh EXCEPT ![r] = nil]
    /\ UNCHANGED <<start, disk, left, made, watchVars, pubVars, callVars>>

(* Create fails when another replica was first; the retry then loads it. *)
CreateSecret(r) ==
    /\ pc[r] = "create"
    /\ fresh' = [fresh EXCEPT ![r] = nil]
    /\ CASE ~start.writable ->
              Load(r, fresh[r]) /\ UNCHANGED secret
         [] start.writable /\ secret # nil ->
              pc' = [pc EXCEPT ![r] = "get"] /\ UNCHANGED <<secret, bundle>>
         [] OTHER ->
              /\ Load(r, fresh[r])
              /\ secret' = [name |-> IF start.useCacerts THEN CACertsSecret ELSE CASecret,
                            cert |-> fresh[r]]
    /\ UNCHANGED <<start, disk, left, made, watchVars, pubVars, callVars>>

(* Any other error of the API server is retried until the context ends. *)
ApiError(r) ==
    /\ pc[r] \in {"get", "fallback", "create"}
    /\ left.errors > 0
    /\ left' = [left EXCEPT !.errors = @ - 1]
    /\ \E p \in {"get", "failed"} : pc' = [pc EXCEPT ![r] = p]
    /\ fresh' = [fresh EXCEPT ![r] = nil]
    /\ UNCHANGED <<start, disk, bundle, secret, made, watchVars, pubVars, callVars>>

-----------------------------------------------------------------------------
(* Publishing dubbod's certificate and the trust anchors. *)

(* A notification is dropped while the loader is busy with the last one. *)
NotifyOnlyIdle(r, leaf, ca) ==
    /\ pub' = [pub EXCEPT ![r].leaf = leaf, ![r].ca = ca]
    /\ token' = [token EXCEPT ![r] = @ \/ loader[r] = "idle"]
    /\ gap' = [gap EXCEPT ![r] = @ \/ loader[r] = "loaded"]
    /\ UNCHANGED <<loader, got>>

SetAndNotify(r, leaf, ca) ==
    /\ pub' = [pub EXCEPT ![r].leaf = leaf, ![r].ca = ca]
    /\ token' = [token EXCEPT ![r] = @ \/ loader[r] \in Subscribed]
    /\ gap' = [gap EXCEPT ![r] = @ \/ loader[r] = "loaded"]
    /\ UNCHANGED <<loader, got>>

(* initDNSCertsDubbod signs dubbod's certificate first.  The anchors come
   from the root file of a plugged-in bundle, and from the CA's own bundle
   otherwise.                                                                *)
GenKeyCert(r) ==
    /\ pc[r] = "dns"
    /\ pc' = [pc EXCEPT ![r] = "publish"]
    /\ fresh' = [fresh EXCEPT ![r] = bundle[r].cert]
    /\ UNCHANGED <<start, disk, left, bundle, secret, made, watchVars, pubVars, callVars>>

initDNSCertsDubbod(r) ==
    /\ pc[r] = "publish"
    /\ SetAndNotify(r, fresh[r], IF Plugged THEN File.roots ELSE bundle[r].roots)
    /\ fresh' = [fresh EXCEPT ![r] = nil]
    /\ pc' = [pc EXCEPT ![r] = "run"]
    /\ UNCHANGED <<start, disk, left, bundle, secret, made, watchVars, callVars>>

(* initDubbodCertLoader loads the certificate first and subscribes after. *)
FirstLoad(r) ==
    /\ pc[r] = "run" /\ loader[r] = "none"
    /\ loader' = [loader EXCEPT ![r] = "loaded"]
    /\ got' = [got EXCEPT ![r] = pub[r]]
    /\ UNCHANGED <<start, disk, left, pc, bundle, storeVars, watchVars, pub, token, gap, callVars>>

AddWatcher(r) ==
    /\ loader[r] = "loaded"
    /\ loader' = [loader EXCEPT ![r] = "idle"]
    /\ UNCHANGED <<start, disk, left, pc, bundle, storeVars, watchVars, pub, token, got, gap, callVars>>

reloadDubbodCert(r) ==
    /\ loader[r] = "idle" /\ token[r]
    /\ loader' = [loader EXCEPT ![r] = "loading"]
    /\ token' = [token EXCEPT ![r] = FALSE]
    /\ UNCHANGED <<start, disk, left, pc, bundle, storeVars, watchVars, pub, got, gap, callVars>>

loadDubbodCert(r) ==
    /\ loader[r] = "loading"
    /\ loader' = [loader EXCEPT ![r] = "parsing"]
    /\ got' = [got EXCEPT ![r] = pub[r]]
    /\ UNCHANGED <<start, disk, left, pc, bundle, storeVars, watchVars, pub, token, gap, callVars>>

Loaded(r) ==
    /\ loader[r] = "parsing"
    /\ loader' = [loader EXCEPT ![r] = "idle"]
    /\ UNCHANGED <<start, disk, left, pc, bundle, storeVars, watchVars, pub, token, got, gap, callVars>>

-----------------------------------------------------------------------------
(* The files of a plugged-in bundle change. *)

Starting == {"watch", "new", "dns", "publish"}
Watching(r) == Plugged /\ pc[r] \in {"new", "dns", "publish", "run"}

ChangeFiles ==
    /\ Plugged
    /\ \E n \in disk+1..Len(start.files) : disk' = n
    /\ event' = [r \in Replica |-> event[r] \/ Watching(r)]
    /\ early' = [r \in Replica |-> early[r] \/ pc[r] \in Starting]
    /\ UNCHANGED <<start, left, pc, bundle, storeVars, timer, hand, pubVars, callVars>>

(* Events are gathered for 100 ms; none is taken while handleEvent runs. *)
handleCACertsFileWatch(r) ==
    /\ Watching(r) /\ event[r] /\ hand[r] = nil
    /\ event' = [event EXCEPT ![r] = FALSE]
    /\ timer' = [timer EXCEPT ![r] = TRUE]
    /\ UNCHANGED <<start, disk, left, pc, bundle, storeVars, hand, early, pubVars, callVars>>

(* The replica ends and starts again: all but the secret and the files goes. *)
Restarted(r) ==
    /\ pc' = Down(pc, r, "detect") /\ fresh' = Down(fresh, r, nil)
    /\ bundle' = Down(bundle, r, nil) /\ hand' = Down(hand, r, nil)
    /\ event' = Down(event, r, FALSE) /\ timer' = Down(timer, r, FALSE)
    /\ early' = Down(early, r, FALSE) /\ gap' = Down(gap, r, FALSE)
    /\ pub' = Down(pub, r, Unset) /\ got' = Down(got, r, Unset)
    /\ loader' = Down(loader, r, "none") /\ token' = Down(token, r, FALSE)
    /\ call' = Down(call, r, nil) /\ answer' = Down(answer, r, nil)
    /\ UNCHANGED <<start, disk, secret, made>>

(* The timer fires while s.CA is nil, which ends the process. *)
NilCA(r) ==
    /\ timer[r] /\ pc[r] = "new"
    /\ Restarted(r)
    /\ UNCHANGED left

Within(a, b) == \E i \in 0..Len(b) - Len(a) : SubSeq(b, i + 1, i + Len(a)) = a
CRLFile(f) == start.crl /\ f.crl > 0

(* The timer fires: only a root bundle that extends or shortens the present
   one is taken; a change of neither roots nor CRL is skipped.               *)
handleEvent(r) ==
    /\ timer[r] /\ hand[r] = nil /\ pc[r] # "new"
    /\ timer' = [timer EXCEPT ![r] = FALSE]
    /\ LET f == File
           current == bundle[r]
           updateRootCA == current.roots # f.roots
           updateCRL == CRLFile(f) /\ current.crl # f.crl
           supported == updateRootCA => Within(current.roots, f.roots) \/ Within(f.roots, current.roots)
       IN  hand' = IF supported /\ (updateRootCA \/ updateCRL)
                   THEN [hand EXCEPT ![r] = [at |-> "cert", crl |-> updateCRL, cert |-> nil, key |-> nil]]
                   ELSE hand
    /\ UNCHANGED <<start, disk, left, pc, bundle, storeVars, event, early, pubVars, callVars>>

ReadSigningCert(r) ==
    /\ hand[r] # nil /\ hand[r].at = "cert"
    /\ hand' = [hand EXCEPT ![r].at = "key", ![r].cert = File.cert]
    /\ UNCHANGED <<start, disk, left, pc, bundle, storeVars, event, timer, early, pubVars, callVars>>

ReadSigningKey(r) ==
    /\ hand[r] # nil /\ hand[r].at = "key"
    /\ hand' = [hand EXCEPT ![r].at = "root", ![r].key = File.key]
    /\ UNCHANGED <<start, disk, left, pc, bundle, storeVars, event, timer, early, pubVars, callVars>>

(* The files are installed as they were read. *)
InstallUnverified(r) ==
    /\ hand[r] # nil /\ hand[r].at = "root"
    /\ bundle' = [bundle EXCEPT ![r] = [cert |-> hand[r].cert, roots |-> File.roots,
                                        crl |-> IF File.crl > 0 THEN File.crl ELSE @.crl]]
    /\ hand' = [hand EXCEPT ![r].at = "publish"]
    /\ UNCHANGED <<start, disk, left, pc, storeVars, event, timer, early, pubVars, callVars>>

(* Roots and CRL are read last; nothing is installed unless all agree.  An
   absent CRL leaves the old one.                                            *)
UpdateVerifiedKeyCertBundleFromFile(r) ==
    /\ hand[r] # nil /\ hand[r].at = "root"
    /\ LET f == File IN
       IF Verify(hand[r].cert, hand[r].key, f.roots, f.crlBy)
       THEN LET crl == IF f.crl > 0 THEN f.crl ELSE bundle[r].crl IN
            /\ bundle' = [bundle EXCEPT ![r] = [cert |-> hand[r].cert, roots |-> f.roots, crl |-> crl]]
            /\ hand' = [hand EXCEPT ![r].at = "publish"]
       ELSE /\ hand' = [hand EXCEPT ![r] = nil]
            /\ UNCHANGED bundle
    /\ UNCHANGED <<start, disk, left, pc, storeVars, event, timer, early, pubVars, callVars>>

SetAndNotifyCACRL(r) ==
    /\ hand[r] # nil /\ hand[r].at = "publish" /\ hand[r].crl
    /\ hand' = [hand EXCEPT ![r].crl = FALSE]
    /\ pub' = [pub EXCEPT ![r].crl = bundle[r].crl]
    /\ token' = [token EXCEPT ![r] = @ \/ loader[r] \in Subscribed]
    /\ gap' = [gap EXCEPT ![r] = @ \/ loader[r] = "loaded"]
    /\ UNCHANGED <<start, disk, left, pc, bundle, storeVars, event, timer, early, loader, got, callVars>>

updateRootCertAndGenKeyCert(r) ==
    /\ hand[r] # nil /\ hand[r].at = "publish" /\ ~hand[r].crl
    /\ SetAndNotify(r, bundle[r].cert, bundle[r].roots)
    /\ hand' = [hand EXCEPT ![r] = nil]
    /\ UNCHANGED <<start, disk, left, pc, bundle, storeVars, event, timer, early, callVars>>

-----------------------------------------------------------------------------
(* CreateCertificate: the chain and the roots are taken from the bundle
   before Sign takes the key from it.                                        *)

CreateCertificate(r) ==
    /\ pc[r] = "run" /\ call[r] = nil /\ left.requests > 0
    /\ left' = [left EXCEPT !.requests = @ - 1]
    /\ call' = [call EXCEPT ![r] = [roots |-> bundle[r].roots]]
    /\ UNCHANGED <<start, disk, pc, bundle, storeVars, watchVars, pubVars, answer>>

Sign(r) ==
    /\ call[r] # nil
    /\ answer' = [answer EXCEPT ![r] = [leaf |-> bundle[r].cert, roots |-> call[r].roots]]
    /\ call' = [call EXCEPT ![r] = nil]
    /\ UNCHANGED <<start, disk, left, pc, bundle, storeVars, watchVars, pubVars>>

Crash(r) ==
    /\ left.crashes > 0 /\ r \in start.replicas /\ pc[r] # "detect"
    /\ left' = [left EXCEPT !.crashes = @ - 1]
    /\ Restarted(r)

Step(r) ==
    \/ createDubboCA(r) \/ initCACertsAndCRLWatcher(r) \/ maybeCreateCA(r)
    \/ GetCASecret(r) \/ GetCACerts(r) \/ CreateSecret(r) \/ ApiError(r)
    \/ GenKeyCert(r) \/ initDNSCertsDubbod(r) \/ FirstLoad(r) \/ AddWatcher(r)
    \/ reloadDubbodCert(r) \/ loadDubbodCert(r) \/ Loaded(r)
    \/ handleCACertsFileWatch(r) \/ handleEvent(r) \/ NilCA(r) \/ ReadSigningCert(r) \/ ReadSigningKey(r)
    \/ UpdateVerifiedKeyCertBundleFromFile(r) \/ SetAndNotifyCACRL(r) \/ updateRootCertAndGenKeyCert(r)
    \/ CreateCertificate(r) \/ Sign(r) \/ Crash(r)

Next == ChangeFiles \/ \E r \in Replica : Step(r)

Spec == Init /\ [][Next]_vars

-----------------------------------------------------------------------------
(* NewSelfSignedDubboCAOptions: whichever replica was first, and whatever
   failed and was retried, every replica that serves signs with the stored
   key, so each accepts the certificates of the others.                      *)
ReplicasAgree ==
    ~Plugged /\ start.writable =>
        \A r \in Replica : pc[r] \in {"dns", "publish", "run"} => secret # nil /\ bundle[r].cert = secret.cert

(* handleEvent and updateRootCertAndGenKeyCert: the certificate dubbod serves
   is signed by an anchor published with it, and once the watcher is quiet
   the CA holds the roots that are mounted, unless they do not verify or
   share nothing with the old ones.  A replica whose files changed between
   their load and the first publication is exempt.                           *)
PublishedVerifies ==
    \A r \in Replica : pc[r] = "run" /\ ~early[r] =>
        /\ Has(pub[r].ca, pub[r].leaf.root)
        /\ Plugged /\ ~event[r] /\ ~timer[r] /\ hand[r] = nil =>
              LET f == File IN
              \/ bundle[r].roots = f.roots /\ pub[r].ca = f.roots
              \/ ~Verify(f.cert, f.key, f.roots, f.crlBy)
              \/ ~Within(bundle[r].roots, f.roots) /\ ~Within(f.roots, bundle[r].roots)

(* Watcher.SetAndNotify with channels of capacity one: a loader that waits
   and has no token has loaded the bundle last published, although it may
   have been busy during any number of publications.  A publication between
   the first load and AddWatcher is missed.                                  *)
LoaderCurrent ==
    \A r \in Replica : loader[r] = "idle" /\ ~token[r] /\ ~gap[r] => got[r] = pub[r]

(* CreateCertificate: the workload's certificate is signed by an anchor of
   the same response.                                                        *)
AnswersVerify ==
    \A r \in Replica : answer[r] # nil => Has(answer[r].roots, answer[r].leaf.root)

TypeOK ==
    /\ disk \in 0..Len(start.files)
    /\ \A r \in Replica :
          /\ pc[r] \in {"detect", "get", "fallback", "create", "run", "failed"} \cup Starting
          /\ loader[r] \in {"none", "loaded"} \cup Subscribed
          /\ bundle[r] = nil <=> pc[r] \in {"detect", "get", "fallback", "create", "failed"}
=============================================================================
