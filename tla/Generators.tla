----------------------------- MODULE Generators -----------------------------
(***************************************************************************)
(* What a gRPC proxy is sent (dubbod/discovery/pkg/networking/grpcgen):    *)
(* the listeners it asks for by name, the routes those refer to and the    *)
(* clusters those refer to, each computed from one configuration snapshot. *)
(* pushXds (xdsgen.go) follows the references; a new snapshot starts over. *)
(*                                                                         *)
(* A host is <<first label, rest of the domain>>.  A listener name is      *)
(* [kind, host, port]; a route and a cluster share the name <<port, host>>.*)
(* A mesh is the snapshot as the generators read it: services, HTTPRoutes, *)
(* faults, mTLS modes by namespace and by port, and the authorization      *)
(* policies of the proxy's workload.  The lookup of a host that several    *)
(* namespaces define walks a Go map: any of them may be found.             *)
(***************************************************************************)
EXTENDS Naturals, Sequences, FiniteSets, SequencesExt

CONSTANTS Meshes, Asks, nil,
          Endings,   \* <<d, s>>: what a host of domain d is written as ends in s
          ProxyNamespace, DNSDomain,   \* of the proxy
          Partial   \* the domains "ns" and "ns.svc" of the proxy's namespace

VARIABLES mesh, asked, listeners, routes, clusters  \* nil until generated

genVars == <<mesh, asked, listeners, routes, clusters>>

-----------------------------------------------------------------------------
(* Lookups in the snapshot.                                                *)

ServicesForHostname(m, h) == {s \in m.services : s.host = h}

PortOf(svc, p) == {x \in svc.ports : x.port = p}

EffectiveMode(m, ns, port) ==
  IF <<ns, port>> \in DOMAIN m.portMode THEN m.portMode[<<ns, port>>] ELSE m.mode[ns]

\* HTTPRouteForHost: routes for the host itself, for a pattern "*.suffix" whose
\* suffix ends it (with a dot before it or not), then those without host names.
HTTPRouteForHost(m, h) ==
  LET with(P(_)) == SelectSeq(m.routes, P)
      exact(r)  == h \in r.hosts
      suffix(r) == \E e \in Endings : e[1] = h[2] /\ <<"*", e[2]>> \in r.hosts
      global(r) == r.hosts = {}
  IN with(exact) \o with(suffix) \o with(global)

\* FaultInjectionForService: the port's fault, else the service's.
FaultInjectionForService(m, svc, portName) ==
  LET of(section) == {f \in m.faults : f.ns = svc.ns /\ f.name = svc.name /\ f.section = section}
  IN IF portName # "" /\ of(portName) # {} THEN of(portName) ELSE of("")

-----------------------------------------------------------------------------
(* Listeners (lds.go).                                                     *)

Inbound(port) == [kind |-> "inbound", host |-> nil, port |-> port]

tryFindFQDN(h) ==
  IF h[2] = "" \/ h[2] \in Partial THEN {<<h[1], DNSDomain>>} ELSE {}

\* newListenerNameFilter: host -> ports.  A name without a port clears the
\* ports of its host, whatever the order of the names.
newListenerNameFilter(names) ==
  LET out == {n \in names : n.kind = "outbound"}
      keys(n) == {n.host} \union tryFindFQDN(n.host)
      of(h) == {n \in out : h \in keys(n)}
  IN [h \in UNION {keys(n) : n \in out} |->
        IF \E n \in of(h) : n.port = 0 THEN {} ELSE {n.port : n \in of(h)}]

\* The services a listener's host may resolve to: the host, else its first
\* label, else every service whose host starts with that label.
Resolved(m, h) ==
  LET exact == ServicesForHostname(m, h)
      short == ServicesForHostname(m, <<h[1], "">>)
      prefix == {s \in m.services : s.host[1] = h[1] /\ s.host[2] # ""}
  IN IF exact # {} THEN exact ELSE IF short # {} THEN short ELSE prefix

\* How every host of a set may be resolved.
Picks(m, H, R(_, _)) ==
  {f \in [H -> m.services \union {nil}] :
     \A h \in H : IF R(m, h) = {} THEN f[h] = nil ELSE f[h] \in R(m, h)}

\* buildOutboundListeners: an API listener whose routes come from RDS.
buildOutboundListeners(filter, pick) ==
  UNION {{[name |-> [kind |-> "outbound", host |-> h, port |-> p],
           route |-> <<p, pick[h].host>>, chains |-> {}, filters |-> <<>>] :
            p \in {p \in filter[h] : pick[h] # nil /\ PortOf(pick[h], p) # {}}} :
         h \in DOMAIN filter}

\* Mutant: every mode that accepts mTLS also accepts plain text.
ChainsAcceptPlain(mode) ==
  IF mode \in {"STRICT", "PERMISSIVE"} THEN {"tls", "plain"} ELSE {"plain"}

\* buildInboundFilterChains
buildInboundFilterChains(mode) ==
  CASE mode = "STRICT" -> {"tls"}
    [] mode = "PERMISSIVE" -> {"tls", "plain"}
    [] OTHER -> {"plain"}

\* authorizationRuleFromAPI: a source that names nobody stays, as an empty one.
authorizationRuleFromAPI(rule) ==
  [sources |-> {IF f = nil THEN {} ELSE f : f \in rule.from}, when |-> rule.when]

\* Mutant: one filter that takes the action of the DENY policies.
FoldedFilters(policies) ==
  LET all == UNION {{authorizationRuleFromAPI(x) : x \in policies[i].rules} : i \in DOMAIN policies}
  IN IF policies = <<>> THEN <<>>
     ELSE <<[action |-> IF \E i \in DOMAIN policies : policies[i].action = "DENY"
                          THEN "DENY" ELSE "ALLOW",
             rules |-> all]>>

\* DENY rules first; an ALLOW filter as soon as there is an ALLOW policy, be it
\* without rules.
buildAuthorizationFilters(policies) ==
  LET rules(A) == UNION {{authorizationRuleFromAPI(x) : x \in policies[i].rules} :
                           i \in {i \in DOMAIN policies : policies[i].action \in A}}
      deny == rules({"DENY"})
      hasAllowPolicy == \E i \in DOMAIN policies : policies[i].action # "DENY"
  IN (IF deny # {} THEN <<[action |-> "DENY", rules |-> deny]>> ELSE <<>>)
     \o (IF hasAllowPolicy THEN <<[action |-> "ALLOW", rules |-> rules({"ALLOW", nil})]>> ELSE <<>>)

\* jwtProviderFromRule: without headers or parameters, the bearer token.
jwtProviderFromRule(rule) ==
  [issuer |-> rule.issuer,
   headers |-> IF rule.headers = {} /\ rule.params = {} THEN {"authorization"} ELSE rule.headers]

\* buildJWTAuthenticationFilter
buildJWTAuthenticationFilter(rules) ==
  LET providers == {jwtProviderFromRule(r) : r \in {r \in rules : r.issuer # ""}}
  IN IF providers = {} THEN <<>> ELSE <<[action |-> "JWT", rules |-> providers]>>

\* buildInboundHTTPFilters, before the router.
buildInboundHTTPFilters(m) ==
  buildJWTAuthenticationFilter(m.jwt) \o buildAuthorizationFilters(m.authz)

\* buildInboundListeners: only for the ports of the proxy's service targets.
buildInboundListeners(m, names) ==
  {[name |-> n, route |-> nil,
    chains |-> buildInboundFilterChains(EffectiveMode(m, ProxyNamespace, n.port)),
    filters |-> buildInboundHTTPFilters(m)] :
     n \in {n \in names : n.kind = "inbound" /\ \E t \in m.targets : t.target = n.port}}

\* BuildListeners: no names means the service targets; only what was asked for
\* is returned.
BuildListeners(m, names, pick) ==
  LET wanted == IF names = {} THEN {Inbound(t.target) : t \in m.targets} ELSE names
      all == buildOutboundListeners(newListenerNameFilter(wanted), pick)
             \union buildInboundListeners(m, wanted)
  IN IF wanted = {} THEN all ELSE {l \in all : l.name \in wanted}

-----------------------------------------------------------------------------
(* Routes (rds.go).                                                        *)

isServiceParentRef(ref) == ref.kind = "Service"

httpRouteReferencesService(r, svc, port) ==
  \E ref \in r.parents :
    /\ isServiceParentRef(ref)
    /\ (IF ref.ns = nil THEN r.ns ELSE ref.ns) = svc.ns /\ ref.name = svc.name
    /\ ref.port = nil \/ ref.port = port
    /\ ref.section = nil \/ \E p \in PortOf(svc, port) : p.name = ref.section

filterHTTPRoutesByService(rs, svc, port) ==
  SelectSeq(rs, LAMBDA r : httpRouteReferencesService(r, svc, port))

\* gatewayAPIRetryPolicy: nothing for a policy with no attempts; codes outside
\* 400..599 are left out.
gatewayAPIRetryPolicy(retry) ==
  IF retry = nil \/ retry.attempts = 0 THEN nil
  ELSE [attempts |-> IF retry.attempts = nil THEN 1 ELSE retry.attempts,
        codes |-> retry.codes \intersect (400..599)]

\* A backend's cluster and weight; no weight, or weight 0, counts as 1.
BackendCluster(r, b, defaultPort) ==
  [cluster |-> <<IF b.port = nil THEN defaultPort ELSE b.port,
                 <<b.name, IF b.ns = nil THEN r.ns ELSE b.ns>>>>,
   weight |-> IF b.weight \in {nil, 0} THEN 1 ELSE b.weight]

\* buildRoutesFromGatewayHTTPRoute: one route for each match of each rule that
\* has backends; a rule without matches matches everything.
buildRoutesFromGatewayHTTPRoute(rs, defaultPort, fault) ==
  LET ruleRoutes(r, rule) ==
        IF rule.backends = <<>> THEN <<>>
        ELSE [i \in 1..(IF rule.matches = <<>> THEN 1 ELSE Len(rule.matches)) |->
               [match |-> IF rule.matches = <<>> THEN "/" ELSE rule.matches[i],
                to |-> [j \in DOMAIN rule.backends |-> BackendCluster(r, rule.backends[j], defaultPort)],
                retry |-> gatewayAPIRetryPolicy(rule.retry), fault |-> fault]]
      routeRoutes(r) == FoldLeft(LAMBDA acc, rule : acc \o ruleRoutes(r, rule), <<>>, r.rules)
  IN FoldLeft(LAMBDA acc, r : acc \o routeRoutes(r), <<>>, rs)

serviceFaultPolicy(m, svc, port) ==
  LET names == {p.name : p \in PortOf(svc, port)}
      of == FaultInjectionForService(m, svc, IF names = {} THEN "" ELSE CHOOSE n \in names : TRUE)
  IN IF of = {} THEN nil ELSE (CHOOSE f \in of : TRUE).fault

defaultSingleClusterRoute(name, fault) ==
  [match |-> "/", to |-> <<[cluster |-> name, weight |-> 1]>>, retry |-> nil, fault |-> fault]

\* buildHTTPRoute: the routes of the attached HTTPRoutes, or the default one.
buildHTTPRoute(m, name, svc) ==
  LET fault == serviceFaultPolicy(m, svc, name[1])
      attached == filterHTTPRoutesByService(HTTPRouteForHost(m, name[2]), svc, name[1])
      built == buildRoutesFromGatewayHTTPRoute(attached, name[1], fault)
  IN [name |-> name,
      entries |-> IF built = <<>> THEN <<defaultSingleClusterRoute(name, fault)>> ELSE built]

BuildHTTPRoutes(m, names, pick) ==
  {buildHTTPRoute(m, n, pick[n[2]]) : n \in {n \in names : pick[n[2]] # nil}}

-----------------------------------------------------------------------------
(* Clusters (cds.go).                                                      *)

\* newClusterBuilder and build: the service and its port must exist; STRICT
\* PeerAuthentication makes the client speak mTLS and pins its identities.
BuildClusters(m, names, pick) ==
  {[name |-> n,
    tls |-> EffectiveMode(m, pick[n[2]].ns, n[1]) = "STRICT",
    sans |-> IF EffectiveMode(m, pick[n[2]].ns, n[1]) = "STRICT" THEN pick[n[2]].accounts ELSE {}] :
     n \in {n \in names : pick[n[2]] # nil /\ PortOf(pick[n[2]], n[1]) # {}}}

-----------------------------------------------------------------------------
(* pushXds: listeners, and what they refer to.                             *)

\* Mutant: the route is named after the listener.
RouteNamesByListener(ls) ==
  {<<l.name.port, l.name.host>> : l \in {l \in ls : l.name.kind = "outbound"}}

\* extractRouteNamesFromLDS: the RDS reference, and the listener's own name.
extractRouteNamesFromLDS(ls) ==
  LET out == {l \in ls : l.name.kind = "outbound"}
  IN {l.route : l \in out} \union {<<l.name.port, l.name.host>> : l \in out}

\* extractClusterNamesFromLDS: from the listener's name only; the client adds
\* the clusters its routes name.
extractClusterNamesFromLDS(ls) ==
  {<<l.name.port, l.name.host>> : l \in {l \in ls : l.name.kind = "outbound"}}

ClustersOf(rs) ==
  UNION {{r.entries[i].to[j].cluster : j \in DOMAIN r.entries[i].to} :
           <<r, i>> \in UNION {{r} \X DOMAIN r.entries : r \in rs}}

Init ==
  /\ mesh \in Meshes /\ asked = nil
  /\ listeners = nil /\ routes = nil /\ clusters = nil

Ask(names) ==
  /\ asked' = names /\ asked # names
  /\ listeners' = nil /\ routes' = nil /\ clusters' = nil /\ UNCHANGED mesh

PushListeners ==
  /\ asked # nil /\ listeners = nil
  /\ \E pick \in Picks(mesh, DOMAIN newListenerNameFilter(asked), Resolved) :
       listeners' = BuildListeners(mesh, asked, pick)
  /\ UNCHANGED <<mesh, asked, routes, clusters>>

PushRoutes ==
  /\ listeners # nil /\ routes = nil
  /\ LET names == extractRouteNamesFromLDS(listeners)
     IN \E pick \in Picks(mesh, {n[2] : n \in names}, ServicesForHostname) :
          routes' = BuildHTTPRoutes(mesh, names, pick)
  /\ UNCHANGED <<mesh, asked, listeners, clusters>>

PushClusters ==
  /\ routes # nil /\ clusters = nil
  /\ LET names == extractClusterNamesFromLDS(listeners) \union ClustersOf(routes)
     IN \E pick \in Picks(mesh, {n[2] : n \in names}, ServicesForHostname) :
          clusters' = BuildClusters(mesh, names, pick)
  /\ UNCHANGED <<mesh, asked, listeners, routes>>

\* A new snapshot: everything is generated again.
NewSnapshot(m) ==
  /\ m # mesh /\ mesh' = m
  /\ listeners' = nil /\ routes' = nil /\ clusters' = nil /\ UNCHANGED asked

Next ==
  \/ \E names \in Asks : Ask(names)
  \/ PushListeners \/ PushRoutes \/ PushClusters
  \/ \E m \in Meshes : NewSnapshot(m)

-----------------------------------------------------------------------------
Outbound == {l \in listeners : l.name.kind = "outbound"}

\* What is sent hangs together: every outbound listener's route is sent, every
\* cluster a route names is sent if a service with that host and port exists,
\* and a listener without HTTPRoutes always ends in a cluster of its own
\* service (the chain LDS, RDS, CDS of pushXds in xdsgen.go).
ReferencesResolve ==
  clusters # nil =>
    /\ \A l \in Outbound : \E r \in routes : r.name = l.route
    /\ \A n \in ClustersOf(routes) :
         (\A s \in ServicesForHostname(mesh, n[2]) : PortOf(s, n[1]) # {})
           /\ ServicesForHostname(mesh, n[2]) # {}
         => \E c \in clusters : c.name = n
    /\ \A l \in Outbound : mesh.routes = <<>> =>
         \E r \in routes : r.name = l.route /\ r.entries[1].to[1].cluster = l.route

\* How the data plane reads a rule (external): some source, and every condition.
RuleMatches(rule, request) ==
  /\ rule.sources = {} \/ \E s \in rule.sources : s = {} \/ request \in s
  /\ \A c \in rule.when : request \in c

\* And a chain of authorization filters.
Admitted(filters, request) ==
  \A i \in DOMAIN filters :
    LET hit == \E x \in filters[i].rules : RuleMatches(x, request)
    IN /\ filters[i].action = "DENY" => ~hit
       /\ filters[i].action = "ALLOW" => hit

\* The filters of an inbound listener admit what the comment of
\* buildAuthorizationFilters promises: "a request is rejected if it matches any
\* DENY rule, and - when at least one ALLOW policy exists - rejected unless it
\* matches an ALLOW rule".
AuthorizationAsDocumented ==
  listeners # nil =>
    \A l \in {l \in listeners : l.name.kind = "inbound"}, request \in {"alice", "bob"} :
      LET policies == {mesh.authz[i] : i \in DOMAIN mesh.authz}
          matches(p) == \E x \in p.rules : RuleMatches(authorizationRuleFromAPI(x), request)
          deny == {p \in policies : p.action = "DENY"}
      IN Admitted(l.filters, request)
           = /\ ~ \E p \in deny : matches(p)
             /\ policies \ deny # {} => \E p \in policies \ deny : matches(p)

\* The two ends of a connection agree: the client of a service speaks mTLS to
\* a port exactly when the listener behind it accepts nothing else, unless a
\* port-level mode tells the service port from the target port
\* (InboundMTLSModeForProxy asks for the target port,
\* requiresPeerAuthenticationMTLS for the service port).
EndsAgreeOnTls ==
  clusters # nil =>
    \A c \in clusters, l \in listeners, t \in mesh.targets :
      (/\ l.name.kind = "inbound" /\ t.target = l.name.port
       /\ c.name = <<t.port, t.svc.host>> /\ ServicesForHostname(mesh, t.svc.host) = {t.svc}
       /\ DOMAIN mesh.portMode \intersect {<<ProxyNamespace, t.port>>, <<ProxyNamespace, t.target>>}
            \in {{}, {<<ProxyNamespace, t.port>>} \intersect {<<ProxyNamespace, t.target>>}})
      => (c.tls <=> l.chains = {"tls"})
=============================================================================
