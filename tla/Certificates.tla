---------------------------- MODULE Certificates ----------------------------
(***************************************************************************)
(* What the certificate authority issues (security/pkg/pki): key and CSR   *)
(* generation, the certificate templates, the lifetime rules of            *)
(* DubboCA.sign, the chain that is appended to an answer, and the          *)
(* verification the other side runs.                                       *)
(*                                                                         *)
(* A key is a number; a certificate is the record of the fields that       *)
(* matter; signatures are taken to be perfect.  Time is counted in units   *)
(* of ClockSkewGracePeriod.  The CA's bundle may be replaced by the next   *)
(* one of "bundles" at any moment (CertAuthority models how).              *)
(***************************************************************************)
EXTENDS Integers, Sequences, FiniteSets

CONSTANTS
    Setups,  \* [bundles, default, max, requests, issues: bound on the answers]
    MaxTime, \* bound on the clock
    nil

VARIABLES
    setup,
    now,
    current,     \* which bundle the CA holds
    defaultTTL,  \* defaultCertTTL, nil before NewDubboCA and 0 when it fails
    signed,      \* the certificate sign has made, before the chain is added
    answers,     \* what has been answered: [request, chain, roots, bundle, at]
    keys         \* keys generated so far

vars == <<setup, now, current, defaultTTL, signed, answers, keys>>

ClockSkewGracePeriod == 1
Bundle == setup.bundles[current]

-----------------------------------------------------------------------------
(* Identities. *)

\* A host is a text and what it parses as: an IP address, a SPIFFE id or a
\* DNS name; the SAN of an address holds its bytes.
San(host) ==
    IF host.form = "ip" THEN [type |-> "IP", value |-> <<"bytes", host.text>>]
    ELSE [type |-> IF host.form = "spiffe" THEN "URI" ELSE "DNS", value |-> <<"text", host.text>>]

BuildSubjectAltNameExtension(hosts) == [i \in DOMAIN hosts |-> San(hosts[i])]

ExtractIDs(cert) == {cert.san[i].value : i \in DOMAIN cert.san}

\* The common name of a dual-use certificate is the first host, when it fits.
DualUseCommonName(hosts) == IF hosts[1].long THEN nil ELSE hosts[1].text

\* A CSR carries the new key, and the name its sender would like.
GenCSR(key, request) ==
    [key |-> key, hosts |-> request.wants,
     cn |-> IF request.dualUse THEN DualUseCommonName(request.wants) ELSE nil]

-----------------------------------------------------------------------------
(* Templates. *)

KeyUsage(isCA) == IF isCA THEN {"certSign"} ELSE {"digitalSignature", "keyEncipherment"}

\* A mutant: the identities the CSR asks for are used.
TemplateOfWishes(csr, hosts, ttl, isCA) ==
    [key |-> csr.key, ca |-> isCA, usage |-> KeyUsage(isCA),
     eku |-> IF isCA THEN {} ELSE {"server", "client"},
     san |-> BuildSubjectAltNameExtension(csr.hosts), cn |-> csr.cn,
     from |-> now - ClockSkewGracePeriod, to |-> now + ttl]

\* The identities are those the CA has authenticated; the CSR contributes its
\* key, and whether there is to be a common name.
genCertTemplateFromCSR(csr, hosts, ttl, isCA) ==
    [key |-> csr.key, ca |-> isCA, usage |-> KeyUsage(isCA),
     eku |-> IF isCA THEN {} ELSE {"server", "client"},
     san |-> BuildSubjectAltNameExtension(hosts),
     cn |-> IF csr.cn = nil THEN nil ELSE DualUseCommonName(hosts),
     from |-> now - ClockSkewGracePeriod, to |-> now + ttl]

GenCertFromCSR(csr, signer, hosts, ttl, isCA) ==
    LET t == genCertTemplateFromCSR(csr, hosts, ttl, isCA)
    IN  [key |-> t.key, issuer |-> signer.key, ca |-> t.ca, usage |-> t.usage, eku |-> t.eku,
         san |-> t.san, cn |-> t.cn, from |-> t.from, to |-> t.to]

-----------------------------------------------------------------------------
(* Verification at a time. *)

ValidAt(c, t) == c.from <= t /\ t <= c.to
Signs(p, c) == p.key = c.issuer /\ p.ca /\ "certSign" \in p.usage

\* A chain of valid signers from a certificate to a root, at most two of them
\* intermediates.
Verifies(cert, intermediates, roots, t) ==
    LET Roots == {r \in roots : ValidAt(r, t)}
        One == {c \in intermediates : ValidAt(c, t) /\ \E r \in Roots : Signs(r, c)}
        Two == {c \in intermediates : ValidAt(c, t) /\ \E r \in One : Signs(r, c)}
    IN  ValidAt(cert, t) /\ (cert \in roots \/ \E p \in Roots \cup One \cup Two : Signs(p, cert))

\* VerifyCertificate with the private key of the CSR and the fields expected
\* of a workload certificate.
VerifyCertificate(key, chain, roots, t, expected) ==
    /\ chain # <<>>
    /\ Verifies(chain[1], {chain[i] : i \in DOMAIN chain}, roots, t)
    /\ chain[1].key = key
    /\ \A h \in expected.hosts : <<"text", h>> \in ExtractIDs(chain[1])
    /\ chain[1].ca = expected.ca
    /\ chain[1].usage = KeyUsage(expected.ca)
    /\ chain[1].eku = (IF expected.ca THEN {} ELSE {"server", "client"})

\* What a bundle has to satisfy to be installed.
Verify(b, t) == Verifies(b.cert, {b.chain[i] : i \in DOMAIN b.chain}, b.roots, t)

-----------------------------------------------------------------------------
TypeOK ==
    /\ now \in 0..MaxTime /\ current \in DOMAIN setup.bundles
    /\ Cardinality(answers) <= setup.issues

Init ==
    /\ setup \in Setups
    /\ now = 0
    /\ current = 1
    /\ defaultTTL = nil
    /\ signed = nil
    /\ answers = {}
    /\ keys = 0

\* The default lifetime is capped by what is left of the chain's first
\* certificate; a CA without a chain does not cap it.
minTTL(default) ==
    IF Bundle.chain = <<>> THEN default
    ELSE LET left == Bundle.chain[1].to - now
         IN  IF left <= 0 THEN 0 ELSE IF default > left THEN left ELSE default

NewDubboCA ==
    /\ defaultTTL = nil
    /\ defaultTTL' = minTTL(setup.default)
    /\ UNCHANGED <<setup, now, current, signed, answers, keys>>

\* sign: a lifetime that is not positive means the default, one above the
\* maximum is refused.
Lifetime(request) == IF request.ttl <= 0 THEN defaultTTL ELSE request.ttl
Refused(request) == request.check /\ request.ttl > setup.max

sign(request) ==
    /\ defaultTTL # nil /\ defaultTTL # 0 /\ signed = nil
    /\ Cardinality(answers) < setup.issues
    /\ ~Refused(request)
    /\ keys' = keys + 1
    /\ signed' = [request |-> request,
                  cert |-> GenCertFromCSR(GenCSR(keys + 1, request), Bundle.cert,
                                          request.hosts, Lifetime(request), request.ca),
                  bundle |-> current, at |-> now]
    /\ UNCHANGED <<setup, now, current, defaultTTL, answers>>

\* A mutant: the answer is the certificate alone.
NoChain(cert) == <<cert>>

WithChain(cert) == <<cert>> \o Bundle.chain

\* signWithCertChain: the chain is read after the certificate was signed.
signWithCertChain ==
    /\ signed # nil
    /\ signed' = nil
    /\ answers' = answers \cup
           {[request |-> signed.request, key |-> signed.cert.key, chain |-> WithChain(signed.cert),
             bundle |-> signed.bundle, consistent |-> signed.bundle = current, at |-> signed.at]}
    /\ UNCHANGED <<setup, now, current, defaultTTL, keys>>

\* The bundle is replaced by the next one that verifies.
UpdateBundle ==
    /\ current < Len(setup.bundles)
    /\ Verify(setup.bundles[current + 1], now)
    /\ current' = current + 1
    /\ UNCHANGED <<setup, now, defaultTTL, signed, answers, keys>>

Tick ==
    /\ now < MaxTime
    /\ now' = now + 1
    /\ UNCHANGED <<setup, current, defaultTTL, signed, answers, keys>>

Next ==
    \/ NewDubboCA
    \/ \E request \in setup.requests : sign(request)
    \/ signWithCertChain
    \/ UpdateBundle
    \/ Tick

Spec == Init /\ [][Next]_vars

-----------------------------------------------------------------------------
\* An answer is a certificate for the identities the CA authenticated and no
\* others, whatever its CSR asks for, and it is accepted by VerifyCertificate
\* against the roots of the bundle that signed it for as long as it and the
\* CA's own certificates are valid, also after the CA has moved on to another
\* bundle (unless the bundle changed between signing and reading the chain).
AnswersAccepted ==
    \A a \in answers :
        LET b == setup.bundles[a.bundle]
            leaf == a.chain[1]
        IN  /\ ExtractIDs(leaf) = {San(a.request.hosts[i]).value : i \in DOMAIN a.request.hosts}
            /\ (a.consistent /\ ValidAt(leaf, now) /\ Verify(b, now)) =>
                   VerifyCertificate(a.key, a.chain, b.roots, now,
                       [hosts |-> {a.request.hosts[i].text : i \in
                            {j \in DOMAIN a.request.hosts : a.request.hosts[j].form # "ip"}},
                        ca |-> a.request.ca])

\* A certificate issued with the default lifetime does not outlive the
\* certificate that signed it: NewDubboCA bounds the default by the lifetime
\* of the chain.
DefaultWithinCA ==
    \A a \in answers : a.request.ttl <= 0 => a.chain[1].to <= setup.bundles[a.bundle].cert.to

-----------------------------------------------------------------------------
(* Certificates signed by a Kubernetes signer: the registration authority  *)
(* (pki/ra) for workloads and dubbod's own certificate (initDNSCertsK8SRA, *)
(* RotateDNSCertForK8sCA), all through a CertificateSigningRequest that is *)
(* submitted, approved, read back and deleted (k8s/chiron/utils.go).       *)
(*                                                                         *)
(* A certificate is the key it is for and the root its signer had; what a  *)
(* workload's CSR says is one of the reasons preSign refuses it for, or    *)
(* "good".  That a mesh change also ends the process (initMeshHandlers,    *)
(* see ServerLifecycle) is left out here: the handlers run.                *)

CONSTANTS
    Workload,  \* workload requests
    MaxRoot,   \* roots of the signer
    MaxKey,    \* keys dubbod generates
    MaxErrors  \* failing calls of the API server

VARIABLES
    signerRoot, \* the signer's root
    mesh,       \* the root of the mesh config's caCertificates
    roots,      \* caCertificatesFromMeshConfig
    raKeys,       \* keys generated so far
    errors,
    rooted,     \* the RA's bundle has a root, from its CA file
    left,       \* keys of CSR objects whose deletion failed
    pc,         \* where each caller is in SignCSRK8s
    csr,        \* its CSR object: nil or [key, state, cert]
    seen,       \* an event with the certificate is in its watch
    result,     \* what readSignedCsr returned
    told,       \* mesh handlers still to run for the last change
    pub         \* dubbod's published [key, cert, ca]

callVars == <<pc, csr, seen, result>>
raVars == <<signerRoot, mesh, roots, raKeys, errors, rooted, left, callVars, told, pub>>

Dubbod == {"start", "rotate", "handler"}
Caller == Dubbod \cup Workload
CsrKind == {"good", "notCsr", "otherIds", "moreFields", "tooLong", "forCA"}
Calling == {"submitted", "approved", "listed", "watching", "read", "failed"}
Set(f, c, v) == [f EXCEPT ![c] = v]

RaInit ==
    /\ signerRoot = 1 /\ mesh = 1 /\ roots = 1 /\ raKeys = 0 /\ errors = 0
    /\ rooted \in BOOLEAN /\ left = {}
    /\ pc = [c \in Caller |-> IF c = "start" THEN "ready" ELSE "idle"]
    /\ csr = [c \in Caller |-> nil]
    /\ seen = [c \in Caller |-> FALSE]
    /\ result = [c \in Caller |-> nil]
    /\ told = {}
    /\ pub = [key |-> 0, cert |-> nil, ca |-> 0]

-----------------------------------------------------------------------------
(* A call fails once a CSR exists: the deferred cleanup still follows. *)
Fails(c) ==
    /\ errors < MaxErrors
    /\ errors' = errors + 1
    /\ pc' = Set(pc, c, "failed")
    /\ UNCHANGED <<rooted, left, signerRoot, mesh, roots, raKeys, csr, seen, result, told, pub>>

(* preSign refuses a request for a CA, one whose CSR does not parse or names
   an identity its caller does not have or carries other fields, and one for
   more than the longest lifetime.                                           *)
preSign(kind) == kind = "good"

SignRequest(w, kind) ==
    /\ w \in Workload /\ pc[w] = "idle"
    /\ pc' = Set(pc, w, IF preSign(kind) THEN "ready" ELSE "ended")
    /\ result' = Set(result, w, nil)
    /\ UNCHANGED <<rooted, left, signerRoot, mesh, roots, raKeys, errors, csr, seen, told, pub>>

submitCSR(c) ==
    /\ pc[c] = "ready"
    /\ raKeys < MaxKey
    /\ raKeys' = raKeys + 1
    /\ csr' = Set(csr, c, [key |-> raKeys', state |-> "pending", cert |-> nil])
    /\ pc' = Set(pc, c, "submitted")
    /\ result' = Set(result, c, nil)
    /\ seen' = Set(seen, c, FALSE)
    /\ UNCHANGED <<rooted, left, signerRoot, mesh, roots, errors, told, pub>>

approveCSR(c) ==
    /\ pc[c] = "submitted"
    /\ csr' = [csr EXCEPT ![c].state = "approved"]
    /\ pc' = Set(pc, c, "approved")
    /\ UNCHANGED <<rooted, left, signerRoot, mesh, roots, raKeys, errors, seen, result, told, pub>>

(* List: a certificate issued already is taken at once. *)
ListCsr(c) ==
    /\ pc[c] = "approved"
    /\ IF csr[c].state = "signed"
       THEN /\ result' = Set(result, c, csr[c].cert)
            /\ pc' = Set(pc, c, "read")
       ELSE /\ pc' = Set(pc, c, "listed")
            /\ UNCHANGED result
    /\ UNCHANGED <<rooted, left, signerRoot, mesh, roots, raKeys, errors, csr, seen, told, pub>>

(* The watch begins at the present state instead of the list's version. *)
WatchFromNow(c) ==
    /\ pc[c] = "listed"
    /\ pc' = Set(pc, c, "watching")
    /\ UNCHANGED <<rooted, left, signerRoot, mesh, roots, raKeys, errors, csr, seen, result, told, pub>>

(* Watch from the version listed: what was signed since is replayed. *)
WatchCsr(c) ==
    /\ pc[c] = "listed"
    /\ pc' = Set(pc, c, "watching")
    /\ seen' = Set(seen, c, csr[c].state = "signed")
    /\ UNCHANGED <<rooted, left, signerRoot, mesh, roots, raKeys, errors, csr, result, told, pub>>

readSignedCsr(c) ==
    /\ pc[c] = "watching" /\ seen[c]
    /\ result' = Set(result, c, csr[c].cert)
    /\ pc' = Set(pc, c, "read")
    /\ UNCHANGED <<rooted, left, signerRoot, mesh, roots, raKeys, errors, csr, seen, told, pub>>

(* The timer fires, or the watch is closed and the nil object it yields is
   not a CSR: a panic, whose deferred calls run.                             *)
WatchEnds(c) == pc[c] = "watching" /\ Fails(c)

CallFails(c) == pc[c] \in {"submitted", "listed"} /\ Fails(c)

(* No CSR was created; GenKeyCertK8sCA returns its key with the error. *)
SubmitFails(c) ==
    /\ pc[c] = "ready" /\ errors < MaxErrors /\ raKeys < MaxKey
    /\ errors' = errors + 1 /\ raKeys' = raKeys + 1
    /\ pc' = Set(pc, c, "ended")
    /\ result' = Set(result, c, [key |-> raKeys', root |-> 0])
    /\ UNCHANGED <<rooted, left, signerRoot, mesh, roots, csr, seen, told, pub>>

(* The deferred cleanup: the CSR is deleted whatever the outcome was.  A
   deletion that fails is logged; the call returns what it would have.       *)
CleanupOnSuccess(c) ==
    /\ pc[c] \in {"read", "failed"}
    /\ csr' = IF pc[c] = "read" THEN Set(csr, c, nil) ELSE csr
    /\ pc' = Set(pc, c, "ended")
    /\ UNCHANGED <<rooted, left, signerRoot, mesh, roots, raKeys, errors, seen, result, told, pub>>

cleanupCSR(c) ==
    /\ pc[c] \in {"read", "failed"}
    /\ \/ UNCHANGED <<errors, left>>
       \/ errors < MaxErrors /\ errors' = errors + 1 /\ left' = left \cup {csr[c].key}
    /\ csr' = Set(csr, c, nil)
    /\ pc' = Set(pc, c, "ended")
    /\ result' = IF pc[c] = "failed" THEN Set(result, c, [key |-> csr[c].key, root |-> 0]) ELSE result
    /\ UNCHANGED <<rooted, signerRoot, mesh, roots, raKeys, seen, told, pub>>

(* An RA without a root of its own takes the mesh config's for the signer,
   which must verify the certificate; one with a root answers unverified.    *)
SignWithCertChain(w) ==
    /\ w \in Workload /\ pc[w] = "ended"
    /\ pc' = Set(pc, w, "idle")
    /\ result' = IF result[w] # nil /\ (result[w].root = 0 \/ (~rooted /\ result[w].root # roots))
                 THEN Set(result, w, nil) ELSE result
    /\ UNCHANGED <<rooted, left, signerRoot, mesh, roots, raKeys, errors, csr, seen, told, pub>>

-----------------------------------------------------------------------------
(* dubbod's own certificate. *)

(* SetAndNotify keeps the field whose new value is empty. *)
Publish(key, root, ca) ==
    pub' = [key |-> key, cert |-> IF root = 0 THEN pub.cert ELSE [key |-> key, root |-> root], ca |-> ca]

Returned(c) == pc[c] = "ended" /\ result[c] # nil /\ result[c].root > 0

initDNSCertsK8SRA ==
    /\ Returned("start")
    /\ Publish(result["start"].key, result["start"].root, roots)
    /\ pc' = Set(Set(pc, "start", "done"), "rotate", "sleep")
    /\ UNCHANGED <<rooted, left, signerRoot, mesh, roots, raKeys, errors, csr, seen, result, told>>

(* The wait before the next rotation ends. *)
RotateDNSCertForK8sCA ==
    /\ pc["rotate"] = "sleep"
    /\ pc' = Set(pc, "rotate", "ready")
    /\ UNCHANGED <<rooted, left, signerRoot, mesh, roots, raKeys, errors, csr, seen, result, told, pub>>

Rotated ==
    /\ pc["rotate"] = "ended"
    /\ pc' = Set(pc, "rotate", "sleep")
    /\ IF Returned("rotate")
       THEN Publish(result["rotate"].key, result["rotate"].root, pub.ca)
       ELSE UNCHANGED pub
    /\ UNCHANGED <<rooted, left, signerRoot, mesh, roots, raKeys, errors, csr, seen, result, told>>

(* Mesh handlers run one after the other: the RA's first, then dubbod's. *)
ChangeMesh ==
    /\ mesh < signerRoot
    /\ mesh' = mesh + 1
    /\ told' = told \cup {"ra"}
    /\ UNCHANGED <<rooted, left, signerRoot, roots, raKeys, errors, callVars, pub>>

SetCACertificatesFromMeshConfig ==
    /\ "ra" \in told /\ pc["handler"] = "idle"
    /\ roots' = mesh
    /\ told' = told \ {"ra"}
    /\ pc' = IF pc["start"] = "done" /\ mesh # pub.ca THEN Set(pc, "handler", "ready") ELSE pc
    /\ UNCHANGED <<rooted, left, signerRoot, mesh, raKeys, errors, csr, seen, result, pub>>

(* The handler publishes what GenKeyCertK8sCA returned, after an error too:
   then the new key and an empty chain.                                      *)
HandlerPublishes ==
    /\ pc["handler"] = "ended"
    /\ pc' = Set(pc, "handler", "idle")
    /\ IF result["handler"] = nil THEN UNCHANGED pub
       ELSE Publish(result["handler"].key, result["handler"].root, roots)
    /\ UNCHANGED <<rooted, left, signerRoot, mesh, roots, raKeys, errors, csr, seen, result, told>>

-----------------------------------------------------------------------------
(* The signer issues an approved CSR, and may rotate its root. *)
SignerIssues(c) ==
    /\ csr[c] # nil
    /\ csr[c].state = "approved"
    /\ csr' = [csr EXCEPT ![c].state = "signed", ![c].cert = [key |-> csr[c].key, root |-> signerRoot]]
    /\ seen' = [seen EXCEPT ![c] = @ \/ pc[c] = "watching"]
    /\ UNCHANGED <<rooted, left, signerRoot, mesh, roots, raKeys, errors, pc, result, told, pub>>

SignerRotates ==
    /\ signerRoot < MaxRoot
    /\ signerRoot' = signerRoot + 1
    /\ UNCHANGED <<rooted, left, mesh, roots, raKeys, errors, callVars, told, pub>>

Step(c) ==
    \/ submitCSR(c) \/ approveCSR(c) \/ ListCsr(c) \/ WatchCsr(c) \/ readSignedCsr(c)
    \/ WatchEnds(c) \/ CallFails(c) \/ SubmitFails(c) \/ cleanupCSR(c) \/ SignerIssues(c)

RaNext ==
    \/ \E c \in Caller : Step(c)
    \/ \E w \in Workload, k \in CsrKind : SignRequest(w, k)
    \/ \E w \in Workload : SignWithCertChain(w)
    \/ initDNSCertsK8SRA \/ RotateDNSCertForK8sCA \/ Rotated
    \/ ChangeMesh \/ SetCACertificatesFromMeshConfig \/ HandlerPublishes
    \/ SignerRotates

RaSpec == RaInit /\ [][RaNext]_raVars

-----------------------------------------------------------------------------
RaTypeOK ==
    /\ pc \in [Caller -> Calling \cup {"idle", "ready", "ended", "sleep", "done"}]
    /\ roots \in 1..MaxRoot /\ mesh \in 1..MaxRoot /\ told \subseteq {"ra"}

(* SignCSRK8s and readSignedCsr: a CSR object outlives the call that made it
   only if its own deletion failed, on every error path; one that is signed
   while its caller watches has its event in the watch, even when the signer
   was faster than the watch; and SignWithCertChain of an RA without a root
   gives a workload no certificate of a root the mesh config never had.      *)
RequestsSettled ==
    /\ Cardinality(left) <= errors
    /\ \A c \in Caller :
        /\ csr[c] # nil => pc[c] \in Calling
        /\ csr[c] # nil /\ pc[c] = "watching" => (csr[c].state = "signed" => seen[c])
    /\ \A w \in Workload :
        ~rooted /\ pc[w] = "idle" /\ result[w] # nil => result[w].root \in 1..roots
=============================================================================
