------------------------------ MODULE Gateways ------------------------------
(***************************************************************************)
(* The Gateway API support of discovery/pkg/config/kube/gateway: the       *)
(* deployment controller, which renders and applies what a Gateway needs,  *)
(* the class controller, which keeps the built-in GatewayClass, and what   *)
(* the status collection says of a Gateway.                                *)
(*                                                                         *)
(* One Gateway; of what the template renders there are a ConfigMap, a Role *)
(* (which no informer watches) and a Deployment: ServiceAccount and        *)
(* Service are like the first and the last, RoleBinding and                *)
(* PodDisruptionBudget like the second.                                    *)
(***************************************************************************)
EXTENDS Naturals, Sequences, FiniteSets, TLC

-----------------------------------------------------------------------------
(* pkg/config/telemetry: which Telemetry settings a workload has.  A       *)
(* resource is [name, ns, created, selector, logging, metrics, tracing]:   *)
(* the last three are sequences of rules; a metrics or tracing rule is a   *)
(* function from its fields to a value, nil where the field is not set.    *)

Seqs == INSTANCE SequencesExt
Sets == INSTANCE FiniteSetsExt

CONSTANTS MetricField, TraceField, nil

\* Mutant: resources made at the same time stay in the order of the list.
OlderOnly(a, b) == a.created < b.created

Older(a, b) ==
  \/ a.created < b.created
  \/ a.created = b.created /\ a.ns < b.ns
  \/ a.created = b.created /\ a.ns = b.ns /\ a.name < b.name

\* sort.SliceStable: insert each resource after those that are not younger.
Insert(sorted, r) ==
  LET n == Cardinality({i \in DOMAIN sorted : ~Older(r, sorted[i])})
  IN SubSeq(sorted, 1, n) \o <<r>> \o SubSeq(sorted, n + 1, Len(sorted))
Sorted(resources) == Seqs!FoldLeft(Insert, <<>>, resources)

matches(r, labels) == r.selector # {} /\ r.selector \subseteq labels

\* The oldest resource of the namespace without a selector, if there is one.
firstNamespaceLevel(sorted, ns) ==
  LET level == SelectSeq(sorted, LAMBDA r : r.ns = ns /\ r.selector = {})
  IN IF level = <<>> THEN <<>> ELSE <<Head(level)>>

\* Each rule replaces the fields it sets.
Overlay(fields, rule) == [f \in DOMAIN fields |-> IF rule[f] # nil THEN rule[f] ELSE fields[f]]

apply(result, spec) ==
  [logging |-> IF spec.logging # <<>> THEN spec.logging ELSE result.logging,
   metrics |-> Seqs!FoldLeft(Overlay, result.metrics, spec.metrics),
   tracing |-> Seqs!FoldLeft(Overlay, result.tracing, spec.tracing),
   configured |-> result.configured \/ spec.tracing # <<>>]

Nothing == [logging |-> <<>>, metrics |-> [f \in MetricField |-> nil], tracing |-> [f \in TraceField |-> nil],
            configured |-> FALSE]

\* The resources that apply, the least specific first.
Resolve(resources, mesh, ns, labels) ==
  LET sorted == Sorted(resources)
      levels == firstNamespaceLevel(sorted, mesh)
                \o (IF ns = mesh THEN <<>> ELSE firstNamespaceLevel(sorted, ns))
                \o SelectSeq(sorted, LAMBDA r : r.ns = ns /\ matches(r, labels))
  IN Seqs!FoldLeft(apply, Nothing, levels)

\* What the comment of Resolve promises, whatever the order of the list: every
\* field has the value of the most specific resource that sets it, the youngest
\* of the selectors', the oldest of a namespace's.
InForce(resources, mesh, ns, labels) ==
  LET OldestOf(rs) == {r \in rs : \A s \in rs : s = r \/ r.created < s.created \/ (r.created = s.created /\ r.name < s.name)}
      General(n) == OldestOf({r \in resources : r.ns = n /\ r.selector = {}})
      Own == {r \in resources : r.ns = ns /\ matches(r, labels)}
      Prevails(r, s) ==     \* r is more specific than s
        \/ r \in Own /\ s \in Own /\ (r.created > s.created \/ (r.created = s.created /\ r.name > s.name))
        \/ r \in Own /\ s \notin Own
        \/ r \notin Own /\ s \notin Own /\ r.ns = ns /\ s.ns # ns
      Levels == Own \cup General(ns) \cup General(mesh)
      Top(rs) == CHOOSE r \in rs : \A s \in rs \ {r} : Prevails(r, s)
      Field(part(_), f) ==
        LET Rules(r) == {i \in DOMAIN part(r) : part(r)[i][f] # nil}
            setting == {r \in Levels : Rules(r) # {}}
        IN IF setting = {} THEN nil ELSE part(Top(setting))[Sets!Max(Rules(Top(setting)))][f]
      logged == {r \in Levels : r.logging # <<>>}
  IN [logging |-> IF logged = {} THEN <<>> ELSE Top(logged).logging,
      metrics |-> [f \in MetricField |-> Field(LAMBDA r : r.metrics, f)],
      tracing |-> [f \in TraceField |-> Field(LAMBDA r : r.tracing, f)],
      configured |-> \E r \in Levels : r.tracing # <<>>]

-----------------------------------------------------------------------------
(* What the settings come to for a gateway (resolveGatewayObservability). *)

\* The service behind a provider's name.
ProviderEndpoint(provider) ==
  CASE provider = "localtrace" -> "tracing"
    [] provider = "otel" -> "opentelemetry-collector"
    [] OTHER -> provider

\* The first logging rule that is for servers counts.
resolveGatewayObservability(e, gatewayAccessLog) ==
  LET server == SelectSeq(e.logging, LAMBDA l : l.mode # "client")
      rule == IF server = <<>> THEN [disabled |-> ~gatewayAccessLog, provider |-> nil] ELSE server[1]
  IN [endpoint |-> IF e.configured /\ e.tracing.disabled # "true" THEN ProviderEndpoint(e.tracing.providers) ELSE nil,
      accessLog |-> ~rule.disabled,
      logsEndpoint |-> IF rule.disabled THEN nil ELSE ProviderEndpoint(rule.provider)]

-----------------------------------------------------------------------------

CONSTANTS
  Setups,        \* [gateways, class, classes, resources, labels, templates, children, errors, changes]
  maxAttempts,   \* 5 in the code
  SyncSignal, NoKey

VARIABLES
  setup,
  gw,            \* the Gateway: nil or one of the setup's
  class,         \* the GatewayClass it names: nil or the class's controller
  telemetry,     \* the set of Telemetry resources
  child,         \* per kind: nil or [mine, content, version]
  cache,         \* the informers' view: [gw, class, telemetry, child]
  events,        \* per kind: what parentHandler is to see of the changes not observed yet
  classQueued,   \* the class controller has work
  hand,          \* the reconcile at work: nil or [content, i, version]; version nil before canManage
  blocked,       \* history: kinds the last reconcile passed over for being someone else's
  gaveUp,        \* history: the last reconcile was the last attempt, and failed
  taken,         \* history: someone else's object was overwritten while another was known
  version, errors, changes,
  ready, dirty, processing, requeues, backoff, worker, running, shutDown, synced

Key == {"gateway"}
Q == INSTANCE ControllerQueue
queueVars == <<ready, dirty, processing, requeues, backoff, worker, running, shutDown, synced>>
apiVars == <<gw, class, telemetry, child, events, version, changes>>
workVars == <<hand, blocked, gaveUp, taken, errors>>
vars == <<setup, apiVars, cache, classQueued, workVars, queueVars>>

Kinds == <<"configmap", "role", "deployment">>
Kind == {Kinds[i] : i \in DOMAIN Kinds}
Watched == {"configmap", "deployment"}      \* d.clients

Init ==
  /\ setup \in Setups
  /\ gw \in setup.gateways /\ class = setup.class /\ telemetry = setup.resources
  /\ child = [k \in Kind |-> nil] /\ events = [k \in Kind |-> {}] /\ version = 0
  /\ cache = [gw |-> nil, class |-> class, telemetry |-> telemetry, child |-> child]
  /\ classQueued = (class = nil)
  /\ hand = nil /\ blocked = {} /\ gaveUp = FALSE /\ taken = FALSE
  /\ errors = 0 /\ changes = 0
  /\ Q!Init

(***************************************************************************)
(* What a Gateway asks for.                                                *)
(***************************************************************************)
\* Without an address, or with one that is an IP address.
IsManaged(g) == g.addresses = <<>> \/ (Len(g.addresses) = 1 /\ g.addresses[1] = "ip")

Positive(annotation) == annotation # "" /\ annotation # "malformed" /\ annotation \notin {"-1", "0"}

\* HTTP listeners only; one target port and one node port for all of them.
extractServicePorts(g) ==
  LET http == SelectSeq(g.listeners, LAMBDA l : l.protocol = "HTTP")
      target == IF Positive(g.targetPort) THEN g.targetPort ELSE "inbound"
      node == IF Positive(g.nodePort) THEN g.nodePort ELSE nil
  IN [i \in DOMAIN http |-> [port |-> http[i].port, target |-> target, node |-> node]]

gatewayListenerNames(ports) == [i \in DOMAIN ports |-> ports[i].target]

\* Zero is a number of replicas, a negative or malformed one is not.
gatewayReplicasWithDefault(g) == IF g.replicas \in {"", "malformed", "-1"} THEN "default" ELSE g.replicas

serviceTypeForGateway(g) ==
  IF g.serviceType \in {"ClusterIP", "NodePort", "LoadBalancer"} THEN g.serviceType ELSE "LoadBalancer"

Mesh == 0      \* the namespaces, in their order
Home == 1

render(g, effective) ==
  [ports |-> extractServicePorts(g), names |-> gatewayListenerNames(extractServicePorts(g)),
   replicas |-> gatewayReplicasWithDefault(g), serviceType |-> serviceTypeForGateway(g),
   observability |-> resolveGatewayObservability(effective, g.accessLog)]

\* Built-in classes exist without being in the cluster.
builtinClasses == [name \in {"dubbo"} |-> "dubbo.apache.org"]
classInfos == {"dubbo.apache.org"}

\* Reconcile: a class that is in the cluster says whose it is, otherwise the
\* built-in classes do.  The server makes the controller without a tagWatcher, so
\* that no Gateway is another revision's.
Controller(g, c) ==
  IF c # nil THEN c ELSE IF g.class \in DOMAIN builtinClasses THEN builtinClasses[g.class] ELSE ""
Ours(g, c) == IF g = nil THEN FALSE ELSE Controller(g, c) \in classInfos
Deployable(g, c) ==
  IF Ours(g, c) THEN IsManaged(g) /\ extractServicePorts(g) # <<>> ELSE FALSE

\* fetchClass of the status collection looks only among the classes of known
\* controllers before it turns to the built-in ones.
fetchClass(g, c) ==
  IF c = "dubbo.apache.org" \/ g.class = "dubbo" THEN "dubbo.apache.org" ELSE nil
Accepted(g, c) == IF g = nil THEN FALSE ELSE fetchClass(g, c) # nil

(***************************************************************************)
(* The cluster.                                                            *)
(***************************************************************************)
ChangeInput ==
  /\ changes < setup.changes /\ changes' = changes + 1
  /\ \/ \E g \in setup.gateways \cup {nil} : g # gw /\ gw' = g /\ UNCHANGED <<class, telemetry>>
     \/ \E c \in setup.classes : c # class /\ class' = c /\ UNCHANGED <<gw, telemetry>>
     \/ \E r \in setup.resources :
          /\ telemetry' = IF r \in telemetry THEN telemetry \ {r} ELSE telemetry \cup {r}
          /\ UNCHANGED <<gw, class>>
  /\ UNCHANGED <<setup, child, events, version, cache, classQueued, workVars, queueVars>>

\* Mutant: only children that are there are looked at.
MineIfThere(old, new) == IF new = nil THEN FALSE ELSE new.mine

\* An update or addition shows the new object, a deletion the old one.
parentHandler(old, new) == IF new # nil THEN new.mine ELSE old.mine

SetChild(k, new) ==
  /\ child' = [child EXCEPT ![k] = new]
  /\ events' = [events EXCEPT ![k] = @ \cup {parentHandler(child[k], new)}]

\* Somebody deletes, edits or makes a child object.
ChangeChild(k) ==
  /\ setup.children /\ changes < setup.changes /\ changes' = changes + 1 /\ version' = version + 1
  /\ \/ child[k] # nil /\ SetChild(k, nil)
     \/ child[k] # nil /\ SetChild(k, [child[k] EXCEPT !.content = nil, !.version = version + 1])
     \/ child[k] = nil /\ SetChild(k, [mine |-> FALSE, content |-> nil, version |-> version + 1])
  /\ UNCHANGED <<setup, gw, class, telemetry, cache, classQueued, workVars, queueVars>>

(***************************************************************************)
(* Informers and handlers: everything but a child queues the Gateways that *)
(* are in the cache, a child the Gateway its label names.                  *)
(***************************************************************************)
Enqueue(known) == IF known THEN Q!Add("gateway") ELSE UNCHANGED queueVars

Observe(x) ==
  /\ \/ x = "gw" /\ cache.gw # gw /\ cache' = [cache EXCEPT !.gw = gw]
        /\ Enqueue(TRUE) /\ UNCHANGED classQueued
     \/ x = "class" /\ cache.class # class /\ cache' = [cache EXCEPT !.class = class]
        /\ Enqueue(cache.gw # nil) /\ classQueued' = TRUE
     \/ x = "telemetry" /\ cache.telemetry # telemetry /\ cache' = [cache EXCEPT !.telemetry = telemetry]
        /\ Enqueue(cache.gw # nil) /\ UNCHANGED classQueued
  /\ UNCHANGED <<setup, apiVars, workVars>>

ObserveChild(k) ==
  /\ k \in Watched /\ events[k] # {} /\ events' = [events EXCEPT ![k] = {}]
  /\ cache' = [cache EXCEPT !.child[k] = child[k]]
  /\ Enqueue(TRUE \in events[k])
  /\ UNCHANGED <<setup, gw, class, telemetry, child, version, changes, classQueued, workVars>>

\* The class controller makes the built-in class when the cache has none; that
\* it exists already is an error, and tried again.
reconcileClass ==
  /\ classQueued
  /\ IF cache.class # nil THEN classQueued' = FALSE /\ UNCHANGED class
     ELSE IF class # nil THEN UNCHANGED <<classQueued, class>>
     ELSE classQueued' = FALSE /\ class' = "dubbo.apache.org"
  /\ UNCHANGED <<setup, gw, telemetry, child, events, version, changes, cache, workVars, queueVars>>

(***************************************************************************)
(* The deployment controller.                                              *)
(***************************************************************************)
Run == Q!Run /\ UNCHANGED <<setup, apiVars, cache, classQueued, workVars>>
GetKey == Q!Get /\ UNCHANGED <<setup, apiVars, cache, classQueued, workVars>>
ProcessSignal == Q!ProcessSignal /\ UNCHANGED <<setup, apiVars, cache, classQueued, workVars>>
BackoffEnds == Q!BackoffEnds("gateway") /\ UNCHANGED <<setup, apiVars, cache, classQueued, workVars>>

Finish(ok) ==
  /\ Q!Process(ok) /\ hand' = nil
  /\ gaveUp' = (~ok /\ requeues["gateway"] + 1 >= maxAttempts)

\* Reconcile and configureGateway up to the rendered resources; the Telemetry
\* resources come from the cache in any order.  Without its template nothing is
\* applied, and that is no error.
configureGateway ==
  /\ worker = "gateway" /\ hand = nil /\ blocked' = {}
  /\ IF Deployable(cache.gw, cache.class) /\ setup.templates
     THEN /\ \E list \in Seqs!SetToSeqs(cache.telemetry) :
               hand' = [content |-> render(cache.gw, Resolve(list, Mesh, Home, setup.labels)), i |-> 1, version |-> nil]
          /\ UNCHANGED <<queueVars, gaveUp>>
     ELSE Finish(TRUE)
  /\ UNCHANGED <<setup, apiVars, cache, classQueued, taken, errors>>

Advance == IF hand.i = Len(Kinds) THEN Finish(TRUE)
           ELSE hand' = [hand EXCEPT !.i = @ + 1, !.version = nil] /\ UNCHANGED <<queueVars, gaveUp>>

Present == Kinds[hand.i]

\* apply asks canManage: someone else's object is passed over; of one of ours the
\* version goes with the patch, 0 where the cache has none.
canManage ==
  LET known == IF Present \in Watched THEN cache.child[Present] ELSE nil IN
  /\ hand # nil /\ worker = "gateway" /\ hand.version = nil
  /\ IF known # nil /\ ~(IF known = nil THEN TRUE ELSE known.mine)
     THEN Advance /\ blocked' = blocked \cup {Present}
     ELSE /\ hand' = [hand EXCEPT !.version = IF known = nil THEN 0 ELSE known.version]
          /\ UNCHANGED <<queueVars, gaveUp, blocked>>
  /\ UNCHANGED <<setup, apiVars, cache, classQueued, taken, errors>>

\* Mutant: the version is not sent.
AnyVersion(k, v) == FALSE

\* A version that is not the object's is refused by the API server.
Conflict(k, v) == v # 0 /\ (child[k] = nil \/ (IF child[k] = nil THEN TRUE ELSE child[k].version # v))

\* The patch: server-side apply, forced.
apply_(failed) ==
  LET k == Present
      new == [mine |-> TRUE, content |-> hand.content, version |-> version + 1]
      same == IF child[k] = nil THEN FALSE ELSE child[k].mine /\ child[k].content = hand.content IN
  /\ hand # nil /\ hand.version # nil
  /\ IF failed \/ Conflict(k, hand.version)
     THEN /\ failed => errors < setup.errors
          /\ errors' = IF failed THEN errors + 1 ELSE errors
          /\ Finish(FALSE) /\ UNCHANGED <<child, events, version, taken>>
     ELSE /\ Advance /\ UNCHANGED errors
          /\ IF same THEN UNCHANGED <<child, events, version>>
             ELSE SetChild(k, new) /\ version' = version + 1
          /\ taken' = (taken \/ (hand.version # 0 /\ (IF child[k] = nil THEN FALSE ELSE ~child[k].mine)))
  /\ UNCHANGED <<setup, gw, class, telemetry, changes, cache, classQueued, blocked>>

Next ==
  \/ ChangeInput \/ \E k \in Kind : ChangeChild(k) \/ ObserveChild(k)
  \/ \E x \in {"gw", "class", "telemetry"} : Observe(x)
  \/ reconcileClass
  \/ Run \/ GetKey \/ ProcessSignal \/ BackoffEnds
  \/ configureGateway \/ canManage \/ \E failed \in BOOLEAN : apply_(failed)

Spec == Init /\ [][Next]_vars

Quiet ==
  /\ running /\ Q!Drained /\ hand = nil /\ ~classQueued
  /\ cache.gw = gw /\ cache.class = class /\ cache.telemetry = telemetry
  /\ \A k \in Watched : events[k] = {}

TypeOK ==
  /\ worker \in {NoKey, SyncSignal, "gateway"} /\ (hand # nil => hand.i \in DOMAIN Kinds)
  /\ blocked \subseteq Kind /\ errors \in 0..setup.errors /\ changes \in 0..setup.changes

(* GatewayDeployed: when the controller has nothing left to do, and did not  *)
(* give up, everything a Gateway of its class needs is there as the Gateway, *)
(* the class and the Telemetry resources now ask for, whatever was changed,  *)
(* deleted or refused meanwhile (Reconcile, configureGateway, the handlers   *)
(* of NewDeploymentController, Resolve); an object of someone else's is left *)
(* alone, and a Role, which nothing watches, is only as good as it was when  *)
(* it was applied.                                                           *)
GatewayDeployed ==
  Quiet /\ ~gaveUp /\ Deployable(gw, class) /\ setup.templates =>
    \A k \in Watched \ (blocked \cup {f \in Kind : IF child[f] = nil THEN FALSE ELSE ~child[f].mine}) :
      /\ child[k] # nil
      /\ child[k].content = render(gw, InForce(telemetry, Mesh, Home, setup.labels))

(* ForeignKept: an object that someone else put in the place of one the      *)
(* controller knew as its own is not overwritten (canManage, the version in  *)
(* apply).                                                                   *)
ForeignKept == ~taken

(* AcceptedIsOurs: a Gateway whose status says it is accepted is one the     *)
(* deployment controller reconciles.                                         *)
AcceptedIsOurs == Accepted(gw, class) => Ours(gw, class)

-----------------------------------------------------------------------------
(* The gateway controller's read-only view of the Gateway API resources   *)
(* (config/kube/gateway/controller.go): Gateways, HTTPRoutes and           *)
(* GatewayClasses become config objects, ReferenceGrants become the table *)
(* that SecretAllowed consults through a krt index.                        *)
(*                                                                         *)
(* Every informer has listed or not; every derived collection has its own *)
(* queue, here the set of inputs it has still to process.  The grants are *)
(* kept as the collection keeps them: inputs, outputs by key, the keys of  *)
(* each input, and the index, each updated incrementally.                  *)

CONSTANTS
    StoreSetups   \* [objects: <<kind, key>> -> object, edits: set of [at, obj], changes: bound]

VARIABLES
    storeSetup,
    api,       \* <<kind, key>> -> object, or nil
    store,     \* the informers' copies
    listed,    \* the kinds whose informer has listed
    pend,      \* inputs a derived collection has still to process
    initial,   \* those of them that were there when the informer listed
    fresh,     \* inputs that have not changed since the informer listed
    storeSynced,    \* derived collections that have synced
    classes,   \* names of the GatewayClasses of this controller
    configs,   \* <<kind, key>> -> config object, or nil
    inputs,    \* key -> the ReferenceGrant last processed, or nil
    outputs,   \* grant name -> grant
    mappings,  \* key -> the names of its grants
    index,     \* <<from, to>> -> the names of the grants for it
    storeChanges

grantVars == <<inputs, outputs, mappings, index>>
storeVars == <<storeSetup, api, store, listed, pend, initial, fresh, storeSynced, classes, configs, grantVars, storeChanges>>

StoreKind == {"Gateway", "HTTPRoute", "GatewayClass", "ReferenceGrant"}
At == DOMAIN storeSetup.objects
Of(kind, S) == {x \in S : x[1] = kind}
GrantKeys == {x[2] : x \in Of("ReferenceGrant", At)}

-----------------------------------------------------------------------------
(* ReferenceGrants. *)

\* Kinds are looked up in the schema; the ones that are not references this
\* controller knows grant nothing.
FromKinds == {"Gateway", "HTTPRoute"}
ToKinds == {"Secret"}

\* A mutant: the key of a grant leaves out the Secret's name.
NamelessGrant(g) == <<g.source, g.from, g.to>>

\* The key of a grant names everything in it.
ResourceName(g) == <<g.source, g.from, g.to, g.name>>

\* The grants of an object at <<namespace, name>>: one for every pair of a
\* "from" and a "to"; a "to" without a name grants every name.
GrantsOf(key, obj) ==
    {[source |-> key,
      from |-> f,
      to |-> [kind |-> t.kind, ns |-> key[1]],
      name |-> t.name] :
        f \in {x \in obj.from : x.kind \in FromKinds},
        t \in {x \in obj.to : x.kind \in ToKinds}}

ByName(grants) ==
    [n \in {ResourceName(g) : g \in grants} |-> CHOOSE g \in grants : ResourceName(g) = n]

Pair(g) == <<g.from, g.to>>

\* collectionIndex.update: the old object's entries go, the new one's come.
IndexWithout(idx, g, n) == IF g = nil THEN idx ELSE
    LET rest == idx[Pair(g)] \ {n}
    IN  [p \in {q \in DOMAIN idx : q # Pair(g) \/ rest # {}} |->
            IF p = Pair(g) THEN rest ELSE idx[p]]
IndexWith(idx, g, n) == IF g = nil THEN idx ELSE
    (Pair(g) :> ((IF Pair(g) \in DOMAIN idx THEN idx[Pair(g)] ELSE {}) \cup {n})) @@ idx

Lookup(pair) ==
    IF pair \in DOMAIN index THEN {outputs[n] : n \in index[pair] \cap DOMAIN outputs} ELSE {}

\* A resource name is a scheme and a path.  Only kubernetes-gateway:// needs
\* the namespace; the others default to the referrer's.
parseSecretResourceName(res, defaultNs) ==
    IF \E i \in DOMAIN res.path : res.path[i] = "" THEN nil
    ELSE IF Len(res.path) = 2 THEN [name |-> res.path[2], ns |-> res.path[1]]
    ELSE IF Len(res.path) = 1 /\ res.scheme # "kubernetes-gateway"
        THEN [name |-> res.path[1], ns |-> defaultNs]
    ELSE nil

SecretAllowed(kind, res, ns) ==
    LET secret == parseSecretResourceName(res, ns)
    IN  /\ secret # nil
        /\ \E g \in Lookup(<<[kind |-> kind, ns |-> ns], [kind |-> "Secret", ns |-> secret.ns]>>) :
               g.name \in {nil, secret.name}

-----------------------------------------------------------------------------
(* Gateways, routes and classes. *)

GatewayConfig(obj) ==
    IF obj = nil THEN nil
    ELSE IF obj.class \in classes \cup DOMAIN builtinClasses THEN obj ELSE nil

Config(kind, obj) == IF kind = "Gateway" THEN GatewayConfig(obj) ELSE obj

Get(kind, key) == configs[<<kind, key>>]

\* What the queue of a derived collection waits for: its informer, and the
\* collections its transformation fetches.
Ready(kind) ==
    /\ kind \in listed
    /\ kind = "Gateway" => "GatewayClass" \in storeSynced

\* A mutant: only the informers are asked.
OutputsIgnored == StoreKind

OutputsSynced == storeSynced

HasSynced ==
    /\ StoreKind \subseteq listed
    /\ {"ReferenceGrant", "Gateway", "HTTPRoute"} \subseteq OutputsSynced

-----------------------------------------------------------------------------
StoreInit ==
    /\ storeSetup \in StoreSetups
    /\ api = storeSetup.objects
    /\ store = [x \in DOMAIN storeSetup.objects |-> nil]
    /\ listed = {} /\ pend = {} /\ initial = {} /\ fresh = {} /\ storeSynced = {}
    /\ classes = {}
    /\ configs = [x \in DOMAIN storeSetup.objects |-> nil]
    /\ inputs = [k \in GrantKeys |-> nil]
    /\ outputs = <<>> /\ index = <<>>
    /\ mappings = [k \in GrantKeys |-> {}]
    /\ storeChanges = 0

\* Somebody edits, creates or deletes an object.
Change ==
    \E e \in storeSetup.edits :
        /\ storeChanges < storeSetup.changes /\ api[e.at] # e.obj
        /\ storeChanges' = storeChanges + 1
        /\ api' = [api EXCEPT ![e.at] = e.obj]
        /\ UNCHANGED <<storeSetup, store, listed, pend, initial, fresh, storeSynced, classes, configs, grantVars>>

\* The informer of a kind lists; what is there is queued for the collection.
InitialList(kind) ==
    /\ kind \notin listed
    /\ listed' = listed \cup {kind}
    /\ LET found == {x \in Of(kind, At) : api[x] # nil}
       IN  /\ store' = [x \in At |-> IF x \in found THEN api[x] ELSE store[x]]
           /\ pend' = pend \cup found
           /\ initial' = initial \cup found
           /\ fresh' = fresh \cup found
    /\ UNCHANGED <<storeSetup, api, storeSynced, classes, configs, grantVars, storeChanges>>

\* ... and later hears of a change.
WatchEvent(x) ==
    /\ x[1] \in listed /\ store[x] # api[x]
    /\ store' = [store EXCEPT ![x] = api[x]]
    /\ pend' = pend \cup {x}
    /\ fresh' = fresh \ {x}
    /\ UNCHANGED <<storeSetup, api, listed, initial, storeSynced, classes, configs, grantVars, storeChanges>>

Taken(x) == pend' = pend \ {x} /\ initial' = initial \ {x}

\* GatewayClassesCollection: classes of unknown controllers are left out, and
\* the Gateways of the class are recomputed.
GatewayClassesCollection(x) ==
    /\ x \in pend /\ x[1] = "GatewayClass" /\ Ready("GatewayClass")
    /\ classes' = IF store[x] = "ours" THEN classes \cup {x[2]} ELSE classes \ {x[2]}
    /\ pend' = (pend \ {x}) \cup
           (IF classes' = classes THEN {}
            ELSE {y \in Of("Gateway", At) \ pend : store[y] # nil /\ store[y].class = x[2]})
    /\ initial' = initial \ {x}
    /\ UNCHANGED <<storeSetup, api, store, listed, fresh, storeSynced, configs, grantVars, storeChanges>>

\* GatewaysCollection and the HTTPRoutes collection.
Convert(x) ==
    /\ x \in pend /\ x[1] \in {"Gateway", "HTTPRoute"} /\ Ready(x[1])
    /\ configs' = [configs EXCEPT ![x] = Config(x[1], store[x])]
    /\ Taken(x)
    /\ UNCHANGED <<storeSetup, api, store, listed, fresh, storeSynced, classes, grantVars, storeChanges>>

\* ReferenceGrantsCollection: the grants of the object replace its old ones,
\* output by output, and the index follows.
Reindexed(names, old, new) ==
    LET Value(f, n) == IF n \in DOMAIN f THEN f[n] ELSE nil
        Step(idx, n) ==
            IF Value(old, n) = Value(new, n) THEN idx
            ELSE IndexWith(IndexWithout(idx, Value(old, n), n), Value(new, n), n)
        Fold[S \in SUBSET names] ==
            IF S = {} THEN index
            ELSE LET n == CHOOSE m \in S : TRUE IN Step(Fold[S \ {n}], n)
    IN  Fold[names]

ReferenceGrantsCollection(x) ==
    /\ x \in pend /\ x[1] = "ReferenceGrant" /\ Ready("ReferenceGrant")
    /\ LET key == x[2]
           new == IF store[x] = nil THEN <<>> ELSE ByName(GrantsOf(key, store[x]))
           names == mappings[key] \cup DOMAIN new
       IN  /\ inputs' = [inputs EXCEPT ![key] = store[x]]
           /\ mappings' = [mappings EXCEPT ![key] = DOMAIN new]
           /\ outputs' = new @@ [n \in DOMAIN outputs \ names |-> outputs[n]]
           /\ index' = Reindexed(names, outputs, new)
    /\ Taken(x)
    /\ UNCHANGED <<storeSetup, api, store, listed, fresh, storeSynced, classes, configs, storeChanges>>

\* A derived collection has processed what was queued when its queue started.
MarkSynced(kind) ==
    /\ Ready(kind) /\ kind \notin storeSynced
    /\ Of(kind, initial) = {}
    /\ storeSynced' = storeSynced \cup {kind}
    /\ UNCHANGED <<storeSetup, api, store, listed, pend, initial, fresh, classes, configs, grantVars, storeChanges>>

StoreNext ==
    \/ Change
    \/ \E kind \in StoreKind : InitialList(kind) \/ MarkSynced(kind)
    \/ \E x \in At : \/ WatchEvent(x)
                     \/ GatewayClassesCollection(x)
                     \/ Convert(x)
                     \/ ReferenceGrantsCollection(x)

StoreSpec == StoreInit /\ [][StoreNext]_vars

-----------------------------------------------------------------------------
StoreTypeOK ==
    /\ listed \subseteq StoreKind /\ storeSynced \subseteq listed
    /\ initial \subseteq pend /\ pend \subseteq At
    /\ \A p \in DOMAIN index : index[p] # {}

Namespaces == {k[1] : k \in GrantKeys} \cup UNION {{f.ns : f \in e.obj.from} :
                  e \in {d \in storeSetup.edits : d.at[1] = "ReferenceGrant" /\ d.obj # nil}}
SecretNames == UNION {{t.name : t \in e.obj.to} :
                  e \in {d \in storeSetup.edits : d.at[1] = "ReferenceGrant" /\ d.obj # nil}} \ {nil}

\* SecretAllowed says what the ReferenceGrants say, in every state and for
\* every order of edits: a Gateway or HTTPRoute of a namespace may use a
\* Secret exactly when some grant in the Secret's namespace, as last
\* processed, names the referrer's kind and namespace and the Secret (or no
\* Secret by name).  Two grants that overlap do not disturb each other, and
\* while a grant changes no mix of its two versions is ever granted.
GrantsAsWritten ==
    \A kind \in FromKinds, ns \in Namespaces, to \in Namespaces, secret \in SecretNames :
        LET Granted == \E k \in GrantKeys :
                /\ k[1] = to /\ inputs[k] # nil
                /\ [kind |-> kind, ns |-> ns] \in inputs[k].from
                /\ \E t \in inputs[k].to : t.kind = "Secret" /\ t.name \in {nil, secret}
        IN  /\ SecretAllowed(kind, [scheme |-> "kubernetes-gateway", path |-> <<to, secret>>], ns) <=> Granted
            /\ to = ns => (SecretAllowed(kind, [scheme |-> "", path |-> <<secret>>], ns) <=> Granted)
            /\ ~SecretAllowed(kind, [scheme |-> "kubernetes-gateway", path |-> <<secret>>], ns)

\* When HasSynced answers true, an object that was in the cluster when the
\* informers listed, and is unchanged since, is served by Get: the Gateways
\* of this controller's classes, the HTTPRoutes and the grants.
SyncedMeansServed ==
    HasSynced =>
        \A x \in fresh :
            /\ x[1] = "HTTPRoute" => Get(x[1], x[2]) = store[x]
            /\ x[1] = "Gateway" /\ x \notin pend => Get(x[1], x[2]) = GatewayConfig(store[x])
            /\ x[1] = "ReferenceGrant" => inputs[x[2]] = store[x]
=============================================================================
