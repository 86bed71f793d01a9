--------------------------- MODULE ConfigSnapshot ---------------------------
(***************************************************************************)
(* The configuration snapshot of a push: the services, routes and policies *)
(* the generators read (model/config_snapshot.go, authentication.go).  A   *)
(* full push builds the next snapshot from the previous one and rebuilds   *)
(* only the indexes whose kinds are among the merged changes; every other  *)
(* index is carried over.  The configuration comes from several stores     *)
(* behind config/aggregate; a store's event handlers turn a change into a  *)
(* push request that the debouncer merges with others (Debounce).          *)
(***************************************************************************)
EXTENDS Integers, FiniteSets, Sequences, SequencesExt, Functions

CONSTANTS Order,       \* the stores, in the order of the aggregate
          Namespaces, Hosts, Labels, Ports,
          Starts,      \* initial [stores, services, mesh, changes, catalog,
                       \*          registry, meshes] the run explores from
          nil

VARIABLES stores,      \* store -> the configs it holds
          services,    \* what the registries return for env.Services()
          mesh,        \* [root, exportTo]: the mesh configuration
          events,      \* kinds whose handlers have not run for a change yet
          pending,     \* the merged push request, or nil
          snapshot,    \* e.configSnapshot
          silent,      \* history: services changed with no request since the
                       \* index was built
          start, changes

configVars == <<stores, services, mesh, events, pending, snapshot, silent, start, changes>>

--------------------------------------------------------------------------
\* Reading the stores.

NamespacedName(c) == <<c.kind, c.ns, c.name>>

\* aggregate store.List: a name seen in an earlier store hides later ones.
List(held, kind) ==
  {c \in UNION {held[s] : s \in Range(Order)} :
     /\ c.kind = kind
     /\ \E i \in DOMAIN Order :
          /\ c \in held[Order[i]]
          /\ \A j \in 1..(i-1) : \A d \in held[Order[j]] : NamespacedName(d) # NamespacedName(c)}

\* sortConfigByCreationTime: age first, then name and namespace.
Older(c, d) == \/ c.created < d.created
               \/ c.created = d.created /\ c.name < d.name

sortConfigByCreationTime(cs) == SetToSortSeq(cs, Older)

\* The loops over sorted policies keep the entry a key already has.
FirstWins(cs, targets(_), settings(_)) ==
  LET keys == UNION {targets(c) : c \in cs}
  IN [k \in keys |->
        settings(CHOOSE c \in cs : k \in targets(c) /\ \A d \in cs : k \in targets(d) => ~Older(d, c))]

--------------------------------------------------------------------------
\* Services.

Alias(s) == s.alias # nil

SvcKey(s) == <<s.host, s.ns>>

\* resolveServiceAliases: aliases are followed by host name only.  A chain
\* that comes back to a host it has seen resolves to nothing.
RawAlias(all) == [h \in {s.host : s \in {t \in all : Alias(t)}} |->
                    (CHOOSE s \in all : Alias(s) /\ s.host = h).alias]

FollowForever(raw) ==
  LET follow[h \in Hosts, seen \in SUBSET Hosts] ==
        IF h \notin DOMAIN raw THEN h
        ELSE IF raw[h] \in seen THEN h
        ELSE follow[raw[h], seen \cup {raw[h]}]
  IN follow

Follow(raw) ==
  LET follow[h \in Hosts, seen \in SUBSET Hosts] ==
        IF h \notin DOMAIN raw THEN h
        ELSE IF raw[h] \in seen THEN nil
        ELSE follow[raw[h], seen \cup {raw[h]}]
  IN follow

resolveServiceAliases(all) ==
  LET raw == RawAlias(all)
      concrete(s) == Follow(raw)[s.alias, {s.host, s.alias}]
  IN [s \in all |-> {SvcKey(a) : a \in {t \in all : Alias(t) /\ concrete(t) = s.host}}]

\* Where initServiceRegistry files a service: "*" is the public list, a
\* namespace is its private list or the list of services exported to it.
ExportedTo(s, defaults) ==
  IF s.exportTo = {}
  THEN IF "." \in defaults THEN {s.ns} ELSE IF "*" \in defaults THEN {"*"} ELSE {}
  ELSE IF "*" \in s.exportTo THEN {"*"}
  ELSE IF "~" \in s.exportTo THEN {}
  ELSE {IF e = "." THEN s.ns ELSE e : e \in s.exportTo}

ServiceOlder(s, t) == \/ s.created < t.created
                      \/ s.created = t.created /\ s.name < t.name

\* Of the services with one host and namespace: the first of Kubernetes, or
\* the oldest when none is of Kubernetes.
Preferred(all, k) ==
  LET same == {s \in all : SvcKey(s) = k}
      kube == {s \in same : s.registry = "Kubernetes"}
      from == IF kube # {} THEN kube ELSE same
  IN CHOOSE s \in from : \A t \in from : ~ServiceOlder(t, s)

initServiceRegistry(all, m) ==
  [byHost   |-> [k \in {SvcKey(s) : s \in all} |-> Preferred(all, k)],
   aliases  |-> resolveServiceAliases(all),
   exported |-> [n \in Namespaces \cup {"*"} |-> {s \in all : n \in ExportedTo(s, m.exportTo)}]]

servicesExportedToNamespace(index, n) == index.exported[n] \cup index.exported["*"]

--------------------------------------------------------------------------
\* Routes and policies.

\* initHTTPRoutes: a route without host names is filed under every host.
initHTTPRoutes(held) ==
  LET routes   == List(held, "HTTPRoute")
      hosts(r) == IF r.spec.hosts = {} THEN {"*"} ELSE r.spec.hosts
  IN [h \in UNION {hosts(r) : r \in routes} |-> {r \in routes : h \in hosts(r)}]

supportsSystemBackendTLS(spec) == spec.sni # nil /\ spec.system

\* A target is <<service name, port section or nil>>.
initBackendTLSPolicies(held) ==
  LET targets(c)  == {<<c.ns, t[1]>> : t \in {u \in c.spec.targets : u[2] = nil}}
      settings(c) == c.spec.sni
  IN FirstWins({c \in List(held, "BackendTLSPolicy") : supportsSystemBackendTLS(c.spec)},
               targets, settings)

\* A policy with neither a positive delay nor an abort of 400..599 is skipped.
initFaultInjectionPolicies(held) ==
  LET abort(c)    == IF c.spec.abort \in 400..599 THEN c.spec.abort ELSE 0
      settings(c) == [delay |-> c.spec.delay, abort |-> abort(c)]
      targets(c)  == {<<c.ns, t[1], t[2]>> : t \in c.spec.targets}
  IN FirstWins({c \in List(held, "FaultInjectionPolicy") : c.spec.delay > 0 \/ abort(c) # 0},
               targets, settings)

--------------------------------------------------------------------------
\* Authentication.

hasPeerAuthSelector(c) == c.spec.selector # {}

selectorMatchesWorkload(selector, labels) == selector \subseteq labels

Inherited(mode, global) == IF mode = "UNSET" THEN global ELSE mode

KeepAll(cs) == cs

\* Of the policies of a namespace with no selector only the oldest is kept.
Kept(cs) ==
  {c \in cs : hasPeerAuthSelector(c)
                 \/ ~\E d \in cs : d.ns = c.ns /\ ~hasPeerAuthSelector(d) /\ Older(d, c)}

addPeerAuthentication(cs, root) ==
  LET kept   == Kept(cs)
      whole  == {c \in kept : ~hasPeerAuthSelector(c)}
      modeOf(n) == (CHOOSE c \in whole : c.ns = n /\ \A d \in whole : d.ns = n => ~Older(d, c)).spec.mode
      global == IF \E c \in whole : c.ns = root THEN modeOf(root) ELSE "UNSET"
  IN [peer   |-> kept,
      global |-> global,
      byNs   |-> [n \in {c.ns : c \in whole} \ {root} |-> Inherited(modeOf(n), global)],
      root   |-> root]

initAuthenticationPolicies(held, m) ==
  addPeerAuthentication(List(held, "PeerAuthentication"), m.root)
    @@ [requests  |-> List(held, "RequestAuthentication"),
        authorize |-> List(held, "AuthorizationPolicy")]

peerAuthenticationModeForPort(spec, port) ==
  IF port \in DOMAIN spec.ports /\ spec.ports[port] # "UNSET" THEN spec.ports[port] ELSE spec.mode

\* The first policy in order of age whose mode for the port is set.
FirstSet(cs, port) ==
  LET set == {c \in cs : peerAuthenticationModeForPort(c.spec, port) # "UNSET"}
  IN IF set = {} THEN "UNSET"
     ELSE peerAuthenticationModeForPort((CHOOSE c \in set : \A d \in set : ~Older(d, c)).spec, port)

matchingPeerAuthentication(policy, n, labels, port) ==
  LET here     == {c \in policy.peer : c.ns = n}
      selected == {c \in here : hasPeerAuthSelector(c) /\ selectorMatchesWorkload(c.spec.selector, labels)}
      whole    == {c \in here : ~hasPeerAuthSelector(c)}
  IN IF FirstSet(selected, port) # "UNSET" THEN FirstSet(selected, port) ELSE FirstSet(whole, port)

EffectiveMutualTLSMode(policy, n, labels, port) ==
  LET candidates == << matchingPeerAuthentication(policy, n, labels, port),
                       IF n \in DOMAIN policy.byNs THEN policy.byNs[n] ELSE "UNSET",
                       matchingPeerAuthentication(policy, policy.root, labels, port),
                       policy.global >>
      set == {i \in DOMAIN candidates : candidates[i] # "UNSET"}
  IN IF set = {} THEN "UNSET" ELSE candidates[CHOOSE i \in set : \A j \in set : i <= j]

matchingWorkloadSecurityConfigs(policy, cs, n, labels) ==
  {c \in cs : c.ns \in {n, policy.root} /\ selectorMatchesWorkload(c.spec.selector, labels)}

--------------------------------------------------------------------------
\* Building a snapshot.

createNewContext(held, all, m) ==
  [services |-> initServiceRegistry(all, m),
   routes   |-> initHTTPRoutes(held),
   tls      |-> initBackendTLSPolicies(held),
   faults   |-> initFaultInjectionPolicies(held),
   authn    |-> initAuthenticationPolicies(held, m)]

authPolicyKinds == {"PeerAuthentication", "RequestAuthentication", "AuthorizationPolicy"}

\* Besides the kinds of the request, a different number of services than the
\* old index holds also rebuilds the service index.
servicesChanged(old, all, kinds) ==
  \/ kinds \cap {"Service", "ServiceEntry"} # {}
  \/ Cardinality(all) # Cardinality(DOMAIN old.services.byHost)

updateContext(held, all, m, old, change) ==
  [services |-> IF servicesChanged(old, all, change.kinds) THEN initServiceRegistry(all, m) ELSE old.services,
   routes   |-> IF "HTTPRoute" \in change.kinds THEN initHTTPRoutes(held) ELSE old.routes,
   tls      |-> IF "BackendTLSPolicy" \in change.kinds THEN initBackendTLSPolicies(held) ELSE old.tls,
   faults   |-> IF "FaultInjectionPolicy" \in change.kinds THEN initFaultInjectionPolicies(held) ELSE old.faults,
   authn    |-> IF change.full \/ change.kinds \cap authPolicyKinds # {}
                THEN initAuthenticationPolicies(held, m) ELSE old.authn]

Initialize(held, all, m, old, change) ==
  IF old = nil \/ change.forced
  THEN createNewContext(held, all, m)
  ELSE updateContext(held, all, m, old, change)

--------------------------------------------------------------------------
\* The world: stores, registries and the mesh configuration change; the
\* handlers turn the changes into requests; a push serves the merged request.

Init ==
  /\ start \in Starts
  /\ stores = start.stores
  /\ services = start.services
  /\ mesh = start.mesh
  /\ changes = start.changes
  /\ events = {}
  /\ pending = [full |-> TRUE, forced |-> TRUE, kinds |-> {}]  \* initK8SConfigStore
  /\ snapshot = nil
  /\ silent = FALSE

needsFullPush == authPolicyKinds \cup {"HTTPRoute", "BackendTLSPolicy", "ReferenceGrant",
                                        "CircuitBreakerPolicy", "FaultInjectionPolicy"}

MergeFirst(req, other) ==
  IF req = nil THEN other
  ELSE [full   |-> req.full \/ other.full,
        forced |-> req.forced \/ other.forced,
        kinds  |-> req.kinds]

\* PushRequest.Merge, for the fields a snapshot reads.
Merge(req, other) ==
  IF req = nil THEN other
  ELSE [full   |-> req.full \/ other.full,
        forced |-> req.forced \/ other.forced,
        kinds  |-> req.kinds \cup other.kinds]

\* A config is created, replaced by another version or deleted in one store.
ChangeConfig ==
  /\ changes > 0
  /\ changes' = changes - 1
  /\ \E s \in DOMAIN start.catalog, c \in UNION Range(start.catalog) :
       /\ c \in start.catalog[s]
       /\ stores' = [stores EXCEPT ![s] =
                       IF c \in @ THEN @ \ {c}
                       ELSE {d \in @ : NamespacedName(d) # NamespacedName(c)} \cup {c}]
       /\ events' = events \cup {c.kind}
  /\ UNCHANGED <<services, mesh, pending, snapshot, silent, start>>

\* configHandler of initRegistryEventHandlers.
HandleEvent ==
  /\ \E k \in events :
       /\ events' = events \ {k}
       /\ pending' = Merge(pending, [full |-> k \in needsFullPush, forced |-> FALSE, kinds |-> {k}])
  /\ UNCHANGED <<stores, services, mesh, snapshot, silent, start, changes>>

\* A registry's services change.  A change that also replaces endpoints asks
\* for a full push of kind Service or ServiceEntry; a Service alone does not.
ChangeServices(signalled) ==
  /\ changes > 0
  /\ changes' = changes - 1
  /\ \E s \in start.registry :
       services' = IF s \in services THEN services \ {s}
                   ELSE {t \in services : SvcKey(t) # SvcKey(s) \/ t.registry # s.registry} \cup {s}
  /\ IF signalled
     THEN /\ pending' = Merge(pending, [full |-> TRUE, forced |-> FALSE, kinds |-> {"Service"}])
          /\ UNCHANGED silent
     ELSE silent' = TRUE /\ UNCHANGED pending
  /\ UNCHANGED <<stores, mesh, events, snapshot, start>>

\* A change of the mesh config: the handler of initMeshHandlers panics before it
\* asks for a push (NewServer gave it a nil change handler), so the process ends,
\* and starts again with the new mesh config, no snapshot and a forced request.
ChangeMesh ==
  /\ changes > 0
  /\ changes' = changes - 1
  /\ mesh' \in start.meshes \ {mesh}
  /\ events' = {} /\ snapshot' = nil /\ silent' = FALSE
  /\ pending' = [full |-> TRUE, forced |-> TRUE, kinds |-> {}]
  /\ UNCHANGED <<stores, services, start>>

\* DiscoveryServer.Push and ReconcileConfig; a push that is not full keeps
\* the snapshot.
Push ==
  /\ pending # nil
  /\ pending' = nil
  /\ IF pending.full
     THEN /\ snapshot' = Initialize(stores, services, mesh, snapshot, pending)
          /\ silent' = (silent /\ snapshot'.services # initServiceRegistry(services, mesh))
     ELSE UNCHANGED <<snapshot, silent>>
  /\ UNCHANGED <<stores, services, mesh, events, start, changes>>

Next == ChangeConfig \/ HandleEvent \/ ChangeServices(TRUE) \/ ChangeServices(FALSE) \/ ChangeMesh \/ Push

Spec == Init /\ [][Next]_configVars

--------------------------------------------------------------------------
Quiet == events = {} /\ pending = nil

\* Once the handlers have run and the merged request is pushed, every policy
\* index equals the one built from the stores' current content, although
\* updateContext carried most of them over; so does the service index unless
\* a Service changed without a request.
SnapshotCurrent ==
  Quiet => LET fresh == createNewContext(stores, services, mesh)
           IN /\ [snapshot EXCEPT !.services = fresh.services] = fresh
              /\ ~silent => snapshot.services = fresh.services

\* An alias is filed under exactly the concrete host its chain ends in; an
\* alias on a cycle is filed under none (resolveServiceAliases).
AliasesReachable ==
  snapshot # nil =>
    LET index == snapshot.services
        all   == DOMAIN index.aliases
        raw   == RawAlias(all)
        Ends(h) == {g \in Hosts \ DOMAIN raw :
                      \E p \in UNION {[1..n -> Hosts] : n \in 2..(Cardinality(DOMAIN raw) + 1)} :
                        /\ p[1] = h /\ p[Len(p)] = g
                        /\ \A i \in 1..(Len(p)-1) : p[i] \in DOMAIN raw /\ p[i+1] = raw[p[i]]}
    IN \A s \in all : index.aliases[s] = {SvcKey(a) : a \in {t \in all : Alias(t) /\ s.host \in Ends(t.host)}}

\* A policy younger than one that already decides a target changes nothing:
\* no mutual TLS mode of any workload, no backend TLS setting and no fault.
YoungerChangesNothing ==
  LET peers == List(stores, "PeerAuthentication")
      modes(cs) == [n \in Namespaces, l \in Labels, p \in Ports |->
                      EffectiveMutualTLSMode(addPeerAuthentication(cs, mesh.root), n, l, p)]
      Without(c) == [s \in DOMAIN stores |-> {d \in stores[s] : NamespacedName(d) # NamespacedName(c)}]
      Shadowed(c, d) == d.kind = c.kind /\ d.ns = c.ns /\ Older(d, c)
  IN /\ \A c \in peers :
          (~hasPeerAuthSelector(c) /\ \E d \in peers : Shadowed(c, d) /\ ~hasPeerAuthSelector(d))
            => modes(peers \ {c}) = modes(peers)
     /\ \A c \in List(stores, "BackendTLSPolicy") :
          LET with == initBackendTLSPolicies(stores)
              none == initBackendTLSPolicies(Without(c))
          IN \A k \in DOMAIN none :
               (\E d \in List(Without(c), "BackendTLSPolicy") :
                  Shadowed(c, d) /\ supportsSystemBackendTLS(d.spec) /\ <<k[2], nil>> \in d.spec.targets)
               => with[k] = none[k]
=============================================================================
