------------------------------ MODULE MCConfig ------------------------------
(*****************************************************************************)
(* The components that store, check, derive and roll out configuration,      *)
(* each on a small instance of its own: a behaviour picks one of them and    *)
(* only its variables move.                                                  *)
(*****************************************************************************)
EXTENDS StatusReporting, Integers, Sequences, FiniteSets, TLC

CONSTANTS
  c1, c2, w1, w2, SyncSignal, NoKey


(* ConfigSnapshot and Generators *)

Peer(n, i, sel, mode, ports) ==
  [kind |-> "PeerAuthentication", ns |-> n, name |-> i, created |-> i,
   spec |-> [selector |-> sel, mode |-> mode, ports |-> ports]]
Tls(n, i, name, sni) ==
  [kind |-> "BackendTLSPolicy", ns |-> n, name |-> name, created |-> i,
   spec |-> [sni |-> sni, system |-> TRUE, targets |-> {<<"web", nil>>, <<"db", IF i = 2 THEN 80 ELSE nil>>}]]
Fault(n, i, delay, abort) ==
  [kind |-> "FaultInjectionPolicy", ns |-> n, name |-> i, created |-> i,
   spec |-> [delay |-> delay, abort |-> abort, targets |-> {<<"web", nil>>}]]
Route(i, hosts) == [kind |-> "HTTPRoute", ns |-> "a", name |-> i, created |-> i, spec |-> [hosts |-> hosts]]
Other(i) == [kind |-> "Telemetry", ns |-> "a", name |-> i, created |-> i, spec |-> [x |-> i]]
Svc(h, i, n, reg, export, alias) ==
  [host |-> h, name |-> i, created |-> i, ns |-> n, registry |-> reg, exportTo |-> export, alias |-> alias]

Mesh0 == [root |-> "root", exportTo |-> {"*"}]
Authn == {Peer("a", 1, {}, "UNSET", (80 :> "STRICT")), Peer("a", 2, {}, "DISABLE", <<>>),
          Peer("root", 3, {}, "PERMISSIVE", <<>>), Peer("a", 4, {"x"}, "DISABLE", <<>>),
          Peer("root", 1, {"x"}, "STRICT", (80 :> "PERMISSIVE"))}
Policies == [kube |-> {Tls("a", 1, 1, "s1"), Tls("a", 2, 2, "s2"), Fault("a", 1, 0, 503), Fault("a", 2, 5, 200)},
             file |-> {Tls("a", 3, 1, "s3"), Route(1, {"h1"}), Route(2, {}), Other(1)}]
Registry == {Svc("h1", 1, "a", "Kubernetes", {}, nil), Svc("h2", 2, "a", "Kubernetes", {}, "h1"),
             Svc("h3", 3, "b", "Kubernetes", {".", "a"}, "h2"), Svc("h1", 4, "a", "External", {"~"}, "h3"),
             Svc("h2", 5, "a", "External", {"b"}, nil)}
Nothing == [kube |-> {}, file |-> {}]
ConfigStarts ==
  { [stores |-> Nothing, services |-> {}, mesh |-> Mesh0, changes |-> 4,
     catalog |-> [kube |-> Authn, file |-> {}], registry |-> {}, meshes |-> {Mesh0, [root |-> "b", exportTo |-> {"*"}]}],
    [stores |-> Nothing, services |-> {}, mesh |-> Mesh0, changes |-> 4,
     catalog |-> Policies, registry |-> {}, meshes |-> {Mesh0}],
    [stores |-> Nothing, services |-> {Svc("h1", 1, "a", "Kubernetes", {}, nil)}, mesh |-> Mesh0, changes |-> 4,
     catalog |-> [kube |-> {Route(1, {"h1"})}, file |-> {}], registry |-> Registry,
     meshes |-> {Mesh0, [root |-> "root", exportTo |-> {"."}]}] }

GenSvc(n, name, host, ports) == [ns |-> n, name |-> name, host |-> host, accounts |-> {n},
                                 ports |-> {[port |-> p, name |-> IF p = 80 THEN "http" ELSE "other"] : p \in ports}]
Foo1 == GenSvc("n1", "foo", <<"foo", "n1">>, {80})
Foo2 == GenSvc("n2", "foo", <<"foo", "n2">>, {80, 90})
Ext1 == GenSvc("n1", "ext", <<"ext", "com">>, {80})
Ext2 == GenSvc("n2", "ext", <<"ext", "com">>, {80, 90})
Backend(name, n, port, weight) == [name |-> name, ns |-> n, port |-> port, weight |-> weight]
HttpRoute(hosts, ref, backends, matches) ==
  [ns |-> "n1", hosts |-> hosts, parents |-> {ref},
   rules |-> <<[backends |-> backends, matches |-> matches, retry |-> [attempts |-> nil, codes |-> {200, 503}]]>>]
ServiceRef(n, name, port, section) == [kind |-> "Service", ns |-> n, name |-> name, port |-> port, section |-> section]
ToFoo2 == HttpRoute({}, ServiceRef(nil, "foo", nil, nil), <<Backend("foo", "n2", 90, 0), Backend("foo", nil, nil, nil)>>, <<"/a", "/b">>)
ForPort == HttpRoute({<<"*", "com">>}, ServiceRef("n2", "ext", 90, "other"), <<Backend("bar", nil, nil, 2)>>, <<>>)
ForEnding == [ForPort EXCEPT !.hosts = {<<"*", "om">>}]
GenEndings == {<<"com", "com">>, <<"com", "om">>, <<"n1", "n1">>, <<"n2", "n2">>}
Empty == HttpRoute({<<"foo", "n1">>}, ServiceRef(nil, "foo", 80, nil), <<>>, <<>>)
ViaGateway == [ToFoo2 EXCEPT !.parents = {[kind |-> "Gateway", ns |-> nil, name |-> "foo", port |-> nil, section |-> nil]}]
Policy(action, rules) == [action |-> action, rules |-> rules]
FromAlice == [from |-> {{"alice"}}, when |-> {}]
FromAny == [from |-> {nil}, when |-> {{"bob"}}]
GenMesh == [services |-> {Foo1, Foo2, Ext1, Ext2}, routes |-> <<>>, faults |-> {}, jwt |-> {}, authz |-> <<>>,
            mode |-> [n \in {"n1", "n2"} |-> "PERMISSIVE"], portMode |-> <<>>,
            targets |-> {[svc |-> Foo1, port |-> 80, target |-> 8080]}]
GenFault == [ns |-> "n1", name |-> "foo", section |-> "http", fault |-> "abort"]
GenMeshes ==
  {[GenMesh EXCEPT !.services = S] : S \in {{}, {Foo2}, {Ext1}, {Ext1, Ext2}, {Foo1, Foo2}}}
  \union {[GenMesh EXCEPT !.routes = r, !.faults = {GenFault}] :
           r \in {<<ToFoo2>>, <<ForPort, Empty>>, <<ForEnding>>, <<Empty, ToFoo2>>, <<ViaGateway>>}}
  \union {[GenMesh EXCEPT !.mode = [n \in {"n1", "n2"} |-> IF n = "n1" THEN x ELSE "DISABLE"], !.portMode = y] :
           x \in {"STRICT", "PERMISSIVE", "DISABLE"},
           y \in {<<>>, (<<"n1", 8080>> :> "STRICT"), (<<"n1", 90>> :> "DISABLE")}}
  \union {[GenMesh EXCEPT !.authz = a, !.jwt = {[issuer |-> "i", headers |-> {}, params |-> {}]}] :
           a \in {<<Policy("DENY", {FromAlice})>>, <<Policy("ALLOW", {FromAlice})>>, <<Policy(nil, {})>>,
                   <<Policy("ALLOW", {FromAny}), Policy("DENY", {FromAlice})>>,
                   <<Policy("DENY", {}), Policy("ALLOW", {FromAny, FromAlice})>>}}
OutName(h, p) == [kind |-> "outbound", host |-> h, port |-> p]
GenAsks == {{}, {OutName(<<"foo", "n1">>, 80)}, {OutName(<<"foo", "">>, 80), OutName(<<"ext", "com">>, 90)},
            {OutName(<<"foo", "n1.svc">>, 80), OutName(<<"foo", "">>, 0)},
            {OutName(<<"foo", "n1">>, 80), [kind |-> "inbound", host |-> nil, port |-> 8080]}}

-----------------------------------------------------------------------------
(* ConfigStores *)

StoreKeys == {<<"a", "x">>, <<"b", "x">>}
StoreSetup(backend, operations, files, writes) ==
  [backend |-> backend, keys |-> {<<"a", "x">>}, operations |-> operations, files |-> files, writes |-> writes]
StoreSetups ==
  {StoreSetup(b, {"create", "update", "patch", "delete"}, FALSE, 4) : b \in {"memory", "kube"}}
  \union {StoreSetup(b, {"create", "delete"}, TRUE, 1) : b \in {"memory", "kube"}}

-----------------------------------------------------------------------------
(* MeshConfig: texts of the file and of the two ConfigMaps *)

MeshText(trust, aliases, address, metadata, broken) ==
  [trust |-> trust, aliases |-> aliases, address |-> address, metadata |-> metadata, broken |-> broken]
MeshOne == MeshText("t1", {"x"}, "d1", [k |-> "1"], "no")
MeshTwo == MeshText("t2", {"y"}, nil, [l |-> "2"], "no")
MeshThree == MeshText(nil, {"z"}, "d3", [k |-> "3"], "no")
MeshEmpty == MeshText(nil, {}, nil, <<>>, "no")
MeshNotYaml == MeshText("t1", {}, nil, <<>>, "yaml")
MeshBadField == MeshText("t2", {"x"}, nil, <<>>, "field")
MeshSetup(kube, shared, rooted, texts, edits) ==
  [kube |-> kube, shared |-> shared, rooted |-> rooted, texts |-> texts, changes |-> edits]
MeshStarts ==
  {MeshSetup(TRUE, TRUE, TRUE, {MeshOne, MeshThree}, 2), MeshSetup(TRUE, FALSE, FALSE, {MeshOne, MeshTwo, MeshNotYaml}, 3),
   MeshSetup(FALSE, FALSE, TRUE, {MeshOne, MeshBadField, MeshEmpty}, 3), MeshSetup(TRUE, TRUE, FALSE, {MeshTwo, MeshBadField}, 2)}

-----------------------------------------------------------------------------
(* GatewayStore *)

Grant(from, to) == [from |-> from, to |-> to]
From(kind, ns) == [kind |-> kind, ns |-> ns]
To(kind, name) == [kind |-> kind, name |-> name]
Grant1 == <<"ReferenceGrant", <<"a", "g1">>>>
Grant2 == <<"ReferenceGrant", <<"a", "g2">>>>
AGateway == <<"Gateway", <<"b", "gw">>>>
ARoute == <<"HTTPRoute", <<"b", "rt">>>>
AClass == <<"GatewayClass", "x">>
GrantTwo == Grant({From("Gateway", "b")}, {To("Secret", "s1"), To("Secret", "s2")})
GrantAll == Grant({From("Gateway", "a"), From("HTTPRoute", "b"), From("TCPRoute", "b")},
                  {To("Secret", nil), To("Service", "s1")})
GrantOne == Grant({From("Gateway", "b"), From("Gateway", "a")}, {To("Secret", "s1")})
Edit(at, next) == [at |-> at, obj |-> next]
OldGateway == [class |-> "x", v |-> 1]
GatewayStoreSetups ==
  {[objects |-> Grant1 :> GrantTwo @@ Grant2 :> nil,
    edits |-> {Edit(Grant1, g) : g \in {nil, GrantAll, GrantOne, GrantTwo}}
              \union {Edit(Grant2, g) : g \in {GrantOne, nil}},
    changes |-> 3],
   [objects |-> AGateway :> OldGateway @@ ARoute :> [v |-> 1] @@ AClass :> "ours",
    edits |-> {Edit(AGateway, g) : g \in {[class |-> "dubbo", v |-> 2], OldGateway, nil}}
              \union {Edit(ARoute, [v |-> 2])} \union {Edit(AClass, x) : x \in {nil, "other", "ours"}},
    changes |-> 3],
   [objects |-> AGateway :> OldGateway @@ AClass :> "ours" @@ Grant1 :> GrantOne,
    edits |-> {Edit(AClass, "other"), Edit(Grant1, GrantAll)}, changes |-> 1]}

-----------------------------------------------------------------------------
(* Injection *)

Container(name, image, boot, mount) ==
  [name |-> name, image |-> image, boot |-> boot, mount |-> mount, metrics |-> FALSE]
App == Container("app", TRUE, "", FALSE)
OwnApp == Container("app", TRUE, "other", TRUE)
Side == Container("side", TRUE, "", FALSE)
OddContainer == Container("odd", FALSE, "path", FALSE)
Template(unless, containers) == [unless |-> unless, containers |-> containers]
Triple == "triple-engine"
Generation(policy, defaults, aliases, triple, gateway) ==
  [parses |-> TRUE,
   config |-> [policy |-> policy, defaultTemplates |-> defaults, aliases |-> aliases,
               templates |-> (Triple :> triple @@ "gateway" :> gateway)]]
InjectionGenerations ==
  << Generation("enabled", <<Triple>>, <<>>, Template({}, <<>>), Template({}, <<Side>>)),
     Generation("disabled", <<Triple, "gateway">>, ("both" :> <<"gateway", Triple>>),
                Template({"side"}, <<Container("app", FALSE, "path", FALSE), OddContainer>>),
                Template({"side"}, <<Side, OddContainer>>)),
     [parses |-> FALSE, config |-> [policy |-> "off", defaultTemplates |-> <<>>, aliases |-> <<>>, templates |-> <<>>]] >>
InjectionStarts == [front : BOOLEAN, files : {<<1>>, <<2, 1>>, <<1, 3>>}]
PodNames == [name : {<<>>, <<"n">>}, generateName : {"", "g"}, requestUID : {"u"}, hostNetwork : {FALSE},
             namespace : {"app"}, inject : {""}, label : {"true"}]
PodPolicies == [name : {<<"n">>}, generateName : {""}, requestUID : {""}, hostNetwork : BOOLEAN,
                namespace : {"app", "kube-system"}, inject : {"", "true", "false"},
                label : {nil, "", "true", "false", "maybe"}]
PodSpecs == [templates : {nil, <<Triple>>, <<"both">>, <<"gateway">>, <<"">>, <<"gateway", Triple>>},
             status : {nil, {"side"}}, overrides : {nil, <<>>, <<Side>>}, volume : {nil, <<"shared">>},
             containers : {<<App>>, <<OwnApp, Side>>, <<>>}]
PlainSpec == [templates |-> nil, status |-> nil, overrides |-> <<>>, volume |-> nil, containers |-> <<App>>]
APod(m, s) ==
  [name |-> m.name, generateName |-> m.generateName, requestUID |-> m.requestUID, hostNetwork |-> m.hostNetwork,
   namespace |-> m.namespace, inject |-> m.inject, label |-> m.label, templates |-> s.templates, status |-> s.status,
   overrides |-> s.overrides, volume |-> s.volume, containers |-> s.containers]
InjectionPods == {APod(m, s) : m \in PodNames, s \in {x \in PodSpecs : x.overrides # nil \/ x.templates = nil}}
                 \union {APod(m, PlainSpec) : m \in PodPolicies}

-----------------------------------------------------------------------------
(* Gateways, with the Telemetry resources that apply to them *)

Listener(protocol, port) == [protocol |-> protocol, port |-> port]
Gateway1 == [class |-> "dubbo", addresses |-> <<>>, listeners |-> <<Listener("HTTP", 80)>>, targetPort |-> "",
             nodePort |-> "", replicas |-> "", serviceType |-> "", accessLog |-> TRUE]
Gateway2 == [Gateway1 EXCEPT !.addresses = <<"ip">>, !.listeners = <<Listener("HTTPS", 443), Listener("HTTP", 81)>>,
                             !.replicas = "0", !.targetPort = "8080", !.nodePort = "30000", !.serviceType = "NodePort"]
Gateway3 == [Gateway1 EXCEPT !.addresses = <<"hostname">>, !.replicas = "-1"]
Tracing(providers, disabled) == [providers |-> providers, disabled |-> disabled]
Logging(mode, disabled, provider) == [mode |-> mode, disabled |-> disabled, provider |-> provider]
TelemetryFor(name, ns, selector, tracing, logging) ==
  [name |-> name, ns |-> ns, created |-> 1, selector |-> selector, logging |-> logging,
   metrics |-> <<[enabled |-> nil]>>, tracing |-> tracing]
GatewayTelemetry ==
  {TelemetryFor(1, 0, {}, <<Tracing("otel", nil)>>, <<Logging("client", TRUE, nil), Logging("server", FALSE, "otel")>>),
   TelemetryFor(1, 1, {}, <<Tracing("localtrace", nil)>>, <<>>),
   TelemetryFor(2, 1, {}, <<Tracing("zipkin", "true")>>, <<Logging("server", TRUE, "otel")>>),
   TelemetryFor(3, 1, {"l"}, <<Tracing(nil, "false"), Tracing("otel", nil)>>, <<>>),
   TelemetryFor(4, 1, {"l"}, <<Tracing("zipkin", nil)>>, <<>>)}
GatewaySetup(gateways, class, classes, resources, children, failures, edits) ==
  [gateways |-> gateways, class |-> class, classes |-> classes, resources |-> resources, labels |-> {"l"},
   templates |-> TRUE, children |-> children, errors |-> failures, changes |-> edits]
Ours == "dubbo.apache.org"
GatewaySetups ==
  {GatewaySetup({Gateway1}, Ours, {}, {}, TRUE, 0, 2), GatewaySetup({Gateway1}, Ours, {}, {}, TRUE, 1, 1),
   GatewaySetup({Gateway1, Gateway2, Gateway3}, nil, {nil, "example.com"}, {}, FALSE, 0, 2),
   GatewaySetup({Gateway1}, Ours, {}, {t \in GatewayTelemetry : t.name < 4}, FALSE, 0, 2),
   GatewaySetup({Gateway1}, Ours, {}, {t \in GatewayTelemetry : t.name > 1}, FALSE, 0, 2),
   [GatewaySetup({Gateway1}, Ours, {}, {}, FALSE, 0, 1) EXCEPT !.templates = FALSE]}

-----------------------------------------------------------------------------
(* Admission: one group of resources per kind, written once each, and     *)
(* Telemetry resources that two writers write                              *)

AllFields == {"apiVersion", "kind", "metadata", "spec"}
ResourceOf(kind, name, spec) ==
  [kind |-> kind, name |-> name, namespace |-> "app", decodes |-> TRUE, fields |-> AllFields, spec |-> spec]
Target(kind, group, name) == [kind |-> kind, group |-> group, name |-> name]
LongestDuration == 100000
FaultDelays ==
  {nil} \union [fixedDelay : {nil, -1, 0, 999, 1000, LongestDuration, LongestDuration + 1}, percentage : {nil, 100, 101}]
FaultAborts == {nil} \union [status : {0, 399, 400, 599, 600}, percentage : {nil, 0, 101}]
FaultTargets ==
  {<<>>, <<Target("Service", "", "s")>>, <<Target("Service", "core", "s"), Target("Pod", "", "s")>>,
   <<Target("Service", "apps", "s")>>, <<Target("Service", "", "")>>}
FaultPolicies ==
  {ResourceOf("FaultInjectionPolicy", "a", s) : s \in [targets : FaultTargets, delay : FaultDelays, abort : FaultAborts]}
UpTo(n, S) == UNION {[1..k -> S] : k \in 0..n}
HostName(wildcard, name) == [wildcard |-> wildcard, name |-> name]
EntryPort(name, number, target, protocol) ==
  [name |-> name, number |-> number, target |-> target, protocol |-> protocol]
Workload(address, ports) ==
  [address |-> address, ports |-> ports, labels |-> {"app"}, locality |-> <<"r">>, serviceAccount |-> ""]
SomePorts == {EntryPort(n, k, t, "HTTP") : n \in {"", "http"}, k \in {0, 80, 65536}, t \in {0, 8080, 65536}}
             \union {EntryPort("http", 80, 0, "Unsupported")}
Http == EntryPort("http", 80, 0, "HTTP")
PortLists == UpTo(1, SomePorts) \union {<<Http, [Http EXCEPT !.number = 81]>>, <<Http, [Http EXCEPT !.name = "grpc"]>>}
OnHost(ports) == Workload(HostName("none", "h"), ports)
EndpointLists ==
  {<<>>, <<nil>>, <<OnHost(<<>>)>>, <<Workload(HostName("prefix", "h"), <<>>)>>,
   <<OnHost(<<[name |-> "http", number |-> 0]>>)>>, <<OnHost(<<[name |-> "http", number |-> 9090]>>)>>}
Entries ==
  {ResourceOf("ServiceEntry", "a", s) :
    s \in [hosts : UpTo(1, {HostName(w, "h") : w \in {"none", "prefix", "inner"}}), addresses : {<<>>}, ports : PortLists,
           selector : {nil}, endpoints : EndpointLists, exportTo : {<<>>}, resolution : {"STATIC", "DNS"}]}
NoTelemetry == [selector |-> nil, logging |-> <<>>, metrics |-> <<>>, tracing |-> <<>>]
MetricsOf(rules) == [providers |-> <<"prometheus">>, rules |-> rules]
MetricRule(tags) == [metric |-> "REQUEST_COUNT", scope |-> "SERVER", tags |-> tags]
RemoveTag(label) == [label |-> label, action |-> "REMOVE"]
MetricLists ==
  {<<nil>>} \union {<<MetricsOf(rules)>> :
    rules \in {<<>>, <<MetricRule(<<>>)>>, <<MetricRule(<<>>), MetricRule(<<>>)>>,
               <<MetricRule(<<RemoveTag("reporter")>>)>>, <<MetricRule(<<RemoveTag("x")>>)>>}}
TracingLists == {<<>>, <<[providers |-> <<"p">>, sampling |-> 101, tags |-> <<>>]>>,
                 <<[providers |-> <<"p">>, sampling |-> 100, tags |-> <<"t", "t">>]>>}
LoggingLists == {<<>>, <<[providers |-> <<"otel">>, mode |-> "CLIENT", filter |-> nil, tags |-> <<"t">>]>>,
                 <<[providers |-> <<"otel", "otel">>, mode |-> "CLIENT", filter |-> "", tags |-> <<>>]>>}
Telemetries ==
  {ResourceOf("Telemetry", "a", s) :
    s \in [selector : {nil}, metrics : MetricLists, tracing : TracingLists, logging : LoggingLists]}
MeshTelemetries ==
  {[ResourceOf("Telemetry", n, [NoTelemetry EXCEPT !.selector = sel]) EXCEPT !.namespace = ns] :
    n \in {"a", "b"}, ns \in {"dubbo-system", "app"}, sel \in {nil, {"app"}}}
Workloads == {ResourceOf("WorkloadEntry", "a", Workload(h, <<>>)) :
               h \in {HostName("none", "h"), HostName("prefix", "h"), HostName("none", "?")}}
NotValidated ==
  {ResourceOf(kind, name, nil) : name \in {"a", "?"},
    kind \in {"AuthorizationPolicy", "CircuitBreakerPolicy", "PeerAuthentication", "RequestAuthentication"}}
OddResources ==
  {ResourceOf("unknown", "a", nil), [ResourceOf("Telemetry", "a", NoTelemetry) EXCEPT !.decodes = FALSE],
   [ResourceOf("Telemetry", "a", NoTelemetry) EXCEPT !.fields = @ \union {"data"}], ResourceOf("Telemetry", "?", NoTelemetry)}
AdmissionObjects ==
  [faults |-> FaultPolicies, entries |-> Entries, telemetry |-> Telemetries, workloads |-> Workloads,
   rest |-> NotValidated, odd |-> OddResources, mesh |-> MeshTelemetries]
AdmissionSetups ==
  {[group |-> g, writers |-> {w1}, writes |-> 1, policy |-> "Fail", failures |-> 0] : g \in DOMAIN AdmissionObjects \ {"mesh"}}
  \union {[group |-> "mesh", writers |-> {w1, w2}, writes |-> 3, policy |-> p, failures |-> 1] : p \in {"Ignore", "Fail"}}

-----------------------------------------------------------------------------
(* Installer *)

Node(f) == [map |-> f]
Text(s) == [leaf |-> <<"string", s>>]
Flag(names, text) == [path |-> [i \in DOMAIN names |-> [key |-> names[i]]], text |-> text]
BuiltIn == <<Flag(<<"repo">>, "built"), Flag(<<"tag">>, "built")>>
Crd == <<"CustomResourceDefinition", "crd">>
Dubbod == <<"Deployment", "dubbod">>
ARole == <<"ClusterRole", "role">>
OldService == <<"Service", "old">>
Install(files, flags, base, dubbod) ==
  [op |-> "install", files |-> files, flags |-> flags, chart |-> [Base |-> base, Dubbod |-> dubbod]]
FullInstall == Install(<<>>, <<>>, {Crd, ARole}, {Dubbod, OldService})
Smaller(flags) == Install(<<>>, flags, {Crd}, {Dubbod})
Uninstall == [op |-> "uninstall"]
NoObjects == [o \in {Crd, Dubbod, ARole, OldService} |-> nil]
ForeignService == [NoObjects EXCEPT ![OldService] = [component |-> nil, keep |-> FALSE, ready |-> TRUE]]
KeptRole == [NoObjects EXCEPT ![ARole] = [component |-> "Base", keep |-> TRUE, ready |-> TRUE]]
InstallerSetup(commands, cluster, failures, kills) ==
  [commands |-> commands, cluster |-> cluster, errors |-> failures, kills |-> kills]
NoBase == <<Flag(<<"components", "base", "enabled">>, "false")>>
NoDubbod == <<Flag(<<"components", "dubbod", "enabled">>, "false")>>
SpecFile(fields) == [spec |-> Node(fields)]
ValueFiles ==
  {<<>>, <<[spec |-> [leaf |-> nil]]>>,
   <<SpecFile([repo |-> Text("r1"), values |-> Node([global |-> Node([repo |-> Text("r2")])])])>>,
   <<SpecFile([tag |-> Text("t1"), profile |-> Text("empty")]),
     SpecFile([components |-> Node([dubbod |-> Node([enabled |-> [leaf |-> <<"bool", "true">>]])])])>>}
SetFlags ==
  {<<>>, <<Flag(<<"repo">>, "r3")>>, <<Flag(<<"tag">>, "1"), Flag(<<"tag">>, "t2")>>,
   <<Flag(<<"values", "global", "repo">>, "r4"), Flag(<<"repo">>, "r3")>>,
   <<Flag(<<"values", "tag">>, "1"), Flag(<<"values", "global", "proxy">>, "true")>>,
   <<Flag(<<"profile">>, "nope")>>, <<Flag(<<"repo">>, "!")>>, <<Flag(<<"values", "global", "tag">>, "1")>>}
InstallerSetups ==
  {InstallerSetup(<<FullInstall, Smaller(<<>>), Uninstall>>, NoObjects, 1, 1),
   InstallerSetup(<<FullInstall, Smaller(NoBase)>>, KeptRole, 1, 0),
   InstallerSetup(<<FullInstall, Smaller(NoDubbod)>>, ForeignService, 1, 0),
   InstallerSetup(<<FullInstall, Smaller(NoBase \o NoDubbod)>>, NoObjects, 0, 1)}
  \union {InstallerSetup(<<Install(f, g, {}, {})>>, NoObjects, 0, 0) : f \in ValueFiles, g \in SetFlags}

-----------------------------------------------------------------------------
VARIABLES
  part,  \* the component this behaviour is about; the others are not there
  stores, services, mesh, snapshotEvents, pending, snapshot, silent, start, snapshotChanges,
  asked, listeners, routes, clusters, setup, version, storesStored, storesCache, file, hand,
  applied, replaced, list, result, meshSetup, phase, base, meshFile, touched, fileEvent,
  timer, cur, configMaps, store, listed, out, computed, dirty, copy, meshPushed, registered,
  told, meshChanges, storeSetup, api, pend, initial, fresh, storeSynced, classes, configs,
  inputs, outputs, mappings, index, storeChanges, disk, config, values, event, pod, again,
  gw, class, telemetry, child, gatewaysCache, gatewaysEvents, classQueued, blocked, gaveUp,
  taken, gatewaysErrors, gatewaysChanges, ready, processing, requeues, backoff,
  gatewaysWorker, running, shutDown, synced, admissionStored, request, admitted, writes,
  failures, merged, enabled, at, channel, fed, failed, skipped, left, cluster

allVars == <<part, stores, services, mesh, snapshotEvents, pending, snapshot, silent, start,
             snapshotChanges, asked, listeners, routes, clusters, setup, version,
             storesStored, storesCache, file, hand, applied, replaced, list, result,
             meshSetup, phase, base, meshFile, touched, fileEvent, timer, cur, configMaps,
             store, listed, out, computed, dirty, copy, meshPushed, registered, told,
             meshChanges, storeSetup, api, pend, initial, fresh, storeSynced, classes,
             configs, inputs, outputs, mappings, index, storeChanges, disk, config, values,
             event, pod, again, gw, class, telemetry, child, gatewaysCache, gatewaysEvents,
             classQueued, blocked, gaveUp, taken, gatewaysErrors, gatewaysChanges, ready,
             processing, requeues, backoff, gatewaysWorker, running, shutDown, synced,
             admissionStored, request, admitted, writes, failures, merged, enabled, at,
             channel, fed, failed, skipped, left, cluster, obj, dep, stored, element,
             events, leading, pushed, tasks, cache, workerCount, currentlyWorking, closing,
             worker, changes, errors, terms>>

Snapshot == INSTANCE ConfigSnapshot WITH Starts <- ConfigStarts, Order <- <<"kube",
  "file">>, Namespaces <- {"root", "a", "b"}, Hosts <- {"h1", "h2", "h3"}, Labels <- {{},
  {"x"}}, Ports <- {0, 80}, events <- snapshotEvents, changes <- snapshotChanges
Gen == INSTANCE Generators WITH Meshes <- GenMeshes, Asks <- GenAsks, ProxyNamespace <-
  "n1", DNSDomain <- "n1", Endings <- GenEndings, Partial <- {"n1.short", "n1.svc"}
Stores == INSTANCE ConfigStores WITH Key <- StoreKeys, Client <- {c1, c2}, Setups <-
  StoreSetups, stored <- storesStored, cache <- storesCache, MeshSetups <- MeshStarts,
  pushed <- meshPushed, changes <- meshChanges
Gateways == INSTANCE Gateways WITH Setups <- GatewaySetups, maxAttempts <- 2, MetricField <-
  {"enabled"}, TraceField <- {"providers", "disabled"}, cache <- gatewaysCache, events <-
  gatewaysEvents, errors <- gatewaysErrors, changes <- gatewaysChanges, worker <-
  gatewaysWorker, StoreSetups <- GatewayStoreSetups
Admission == INSTANCE Admission WITH Objects <- AdmissionObjects, Setups <- AdmissionSetups,
  Malformed <- {"?"}, MaxDuration <- LongestDuration, stored <- admissionStored, Pods <-
  InjectionPods, Generations <- InjectionGenerations, Starts <- InjectionStarts
Installer == INSTANCE Installer WITH Overlay <- BuiltIn, Setups <- InstallerSetups

-----------------------------------------------------------------------------
(* ConfigSnapshot *)

snapshotRest == <<asked, listeners, routes, clusters, setup, version, storesStored,
                storesCache, file, hand, applied, replaced, list, result, meshSetup, phase,
                base, meshFile, touched, fileEvent, timer, cur, configMaps, store, listed,
                out, computed, dirty, copy, meshPushed, registered, told, meshChanges,
                storeSetup, api, pend, initial, fresh, storeSynced, classes, configs,
                inputs, outputs, mappings, index, storeChanges, disk, config, values, event,
                pod, again, gw, class, telemetry, child, gatewaysCache, gatewaysEvents,
                classQueued, blocked, gaveUp, taken, gatewaysErrors, gatewaysChanges, ready,
                processing, requeues, backoff, gatewaysWorker, running, shutDown, synced,
                admissionStored, request, admitted, writes, failures, merged, enabled, at,
                channel, fed, failed, skipped, left, cluster, obj, dep, stored, element,
                events, leading, pushed, tasks, cache, workerCount, currentlyWorking,
                closing, worker, changes, errors, terms>>
SnapshotInit ==
  /\ part = "snapshot" /\ Snapshot!Init
  /\ ReportingInit /\ asked = 0 /\ listeners = 0 /\ routes = 0 /\ clusters = 0 /\ setup = 0
  /\ version = 0 /\ storesStored = 0 /\ storesCache = 0 /\ file = 0 /\ hand = 0
  /\ applied = 0 /\ replaced = 0 /\ list = 0 /\ result = 0 /\ meshSetup = 0 /\ phase = 0
  /\ base = 0 /\ meshFile = 0 /\ touched = 0 /\ fileEvent = 0 /\ timer = 0 /\ cur = 0
  /\ configMaps = 0 /\ store = 0 /\ listed = 0 /\ out = 0 /\ computed = 0 /\ dirty = 0
  /\ copy = 0 /\ meshPushed = 0 /\ registered = 0 /\ told = 0 /\ meshChanges = 0
  /\ storeSetup = 0 /\ api = 0 /\ pend = 0 /\ initial = 0 /\ fresh = 0 /\ storeSynced = 0
  /\ classes = 0 /\ configs = 0 /\ inputs = 0 /\ outputs = 0 /\ mappings = 0 /\ index = 0
  /\ storeChanges = 0 /\ disk = 0 /\ config = 0 /\ values = 0 /\ event = 0 /\ pod = 0
  /\ again = 0 /\ gw = 0 /\ class = 0 /\ telemetry = 0 /\ child = 0 /\ gatewaysCache = 0
  /\ gatewaysEvents = 0 /\ classQueued = 0 /\ blocked = 0 /\ gaveUp = 0 /\ taken = 0
  /\ gatewaysErrors = 0 /\ gatewaysChanges = 0 /\ ready = 0 /\ processing = 0
  /\ requeues = 0 /\ backoff = 0 /\ gatewaysWorker = 0 /\ running = 0 /\ shutDown = 0
  /\ synced = 0 /\ admissionStored = 0 /\ request = 0 /\ admitted = 0 /\ writes = 0
  /\ failures = 0 /\ merged = 0 /\ enabled = 0 /\ at = 0 /\ channel = 0 /\ fed = 0
  /\ failed = 0 /\ skipped = 0 /\ left = 0 /\ cluster = 0
InSnapshot == part = "snapshot"
OnlySnapshot == UNCHANGED <<part, snapshotRest>>
SnapshotChangeConfig == InSnapshot /\ Snapshot!ChangeConfig /\ OnlySnapshot
SnapshotHandleEvent == InSnapshot /\ Snapshot!HandleEvent /\ OnlySnapshot
SnapshotServicesSignalled == InSnapshot /\ Snapshot!ChangeServices(TRUE) /\ OnlySnapshot
SnapshotServicesSilent == InSnapshot /\ Snapshot!ChangeServices(FALSE) /\ OnlySnapshot
SnapshotChangeMesh == InSnapshot /\ Snapshot!ChangeMesh /\ OnlySnapshot
SnapshotPush == InSnapshot /\ Snapshot!Push /\ OnlySnapshot
SnapshotNext ==
  \/ SnapshotChangeConfig \/ SnapshotHandleEvent \/ SnapshotServicesSignalled
  \/ SnapshotServicesSilent \/ SnapshotChangeMesh \/ SnapshotPush

-----------------------------------------------------------------------------
(* Generators *)

genRest == <<stores, services, snapshotEvents, pending, snapshot, silent, start,
           snapshotChanges, setup, version, storesStored, storesCache, file, hand, applied,
           replaced, list, result, meshSetup, phase, base, meshFile, touched, fileEvent,
           timer, cur, configMaps, store, listed, out, computed, dirty, copy, meshPushed,
           registered, told, meshChanges, storeSetup, api, pend, initial, fresh,
           storeSynced, classes, configs, inputs, outputs, mappings, index, storeChanges,
           disk, config, values, event, pod, again, gw, class, telemetry, child,
           gatewaysCache, gatewaysEvents, classQueued, blocked, gaveUp, taken,
           gatewaysErrors, gatewaysChanges, ready, processing, requeues, backoff,
           gatewaysWorker, running, shutDown, synced, admissionStored, request, admitted,
           writes, failures, merged, enabled, at, channel, fed, failed, skipped, left,
           cluster, obj, dep, stored, element, events, leading, pushed, tasks, cache,
           workerCount, currentlyWorking, closing, worker, changes, errors, terms>>
GenInit ==
  /\ part = "gen" /\ Gen!Init
  /\ ReportingInit /\ stores = 0 /\ services = 0 /\ snapshotEvents = 0 /\ pending = 0
  /\ snapshot = 0 /\ silent = 0 /\ start = 0 /\ snapshotChanges = 0 /\ setup = 0
  /\ version = 0 /\ storesStored = 0 /\ storesCache = 0 /\ file = 0 /\ hand = 0
  /\ applied = 0 /\ replaced = 0 /\ list = 0 /\ result = 0 /\ meshSetup = 0 /\ phase = 0
  /\ base = 0 /\ meshFile = 0 /\ touched = 0 /\ fileEvent = 0 /\ timer = 0 /\ cur = 0
  /\ configMaps = 0 /\ store = 0 /\ listed = 0 /\ out = 0 /\ computed = 0 /\ dirty = 0
  /\ copy = 0 /\ meshPushed = 0 /\ registered = 0 /\ told = 0 /\ meshChanges = 0
  /\ storeSetup = 0 /\ api = 0 /\ pend = 0 /\ initial = 0 /\ fresh = 0 /\ storeSynced = 0
  /\ classes = 0 /\ configs = 0 /\ inputs = 0 /\ outputs = 0 /\ mappings = 0 /\ index = 0
  /\ storeChanges = 0 /\ disk = 0 /\ config = 0 /\ values = 0 /\ event = 0 /\ pod = 0
  /\ again = 0 /\ gw = 0 /\ class = 0 /\ telemetry = 0 /\ child = 0 /\ gatewaysCache = 0
  /\ gatewaysEvents = 0 /\ classQueued = 0 /\ blocked = 0 /\ gaveUp = 0 /\ taken = 0
  /\ gatewaysErrors = 0 /\ gatewaysChanges = 0 /\ ready = 0 /\ processing = 0
  /\ requeues = 0 /\ backoff = 0 /\ gatewaysWorker = 0 /\ running = 0 /\ shutDown = 0
  /\ synced = 0 /\ admissionStored = 0 /\ request = 0 /\ admitted = 0 /\ writes = 0
  /\ failures = 0 /\ merged = 0 /\ enabled = 0 /\ at = 0 /\ channel = 0 /\ fed = 0
  /\ failed = 0 /\ skipped = 0 /\ left = 0 /\ cluster = 0
InGen == part = "gen"
OnlyGen == UNCHANGED <<part, genRest>>
GenAsk == InGen /\ (\E names \in GenAsks : Gen!Ask(names)) /\ OnlyGen
GenPushListeners == InGen /\ Gen!PushListeners /\ OnlyGen
GenPushRoutes == InGen /\ Gen!PushRoutes /\ OnlyGen
GenPushClusters == InGen /\ Gen!PushClusters /\ OnlyGen
GenNewSnapshot == InGen /\ (\E next \in GenMeshes : Gen!NewSnapshot(next)) /\ OnlyGen
GenNext ==
  \/ GenAsk \/ GenPushListeners \/ GenPushRoutes \/ GenPushClusters \/ GenNewSnapshot

-----------------------------------------------------------------------------
(* ConfigStores *)

storesRest == <<stores, services, mesh, snapshotEvents, pending, snapshot, silent, start,
              snapshotChanges, asked, listeners, routes, clusters, meshSetup, phase, base,
              meshFile, touched, fileEvent, timer, cur, configMaps, store, listed, out,
              computed, dirty, copy, meshPushed, registered, told, meshChanges, storeSetup,
              api, pend, initial, fresh, storeSynced, classes, configs, inputs, outputs,
              mappings, index, storeChanges, disk, config, values, event, pod, again, gw,
              class, telemetry, child, gatewaysCache, gatewaysEvents, classQueued, blocked,
              gaveUp, taken, gatewaysErrors, gatewaysChanges, ready, processing, requeues,
              backoff, gatewaysWorker, running, shutDown, synced, admissionStored, request,
              admitted, writes, failures, merged, enabled, at, channel, fed, failed,
              skipped, left, cluster, obj, dep, stored, element, events, leading, pushed,
              tasks, cache, workerCount, currentlyWorking, closing, worker, changes, errors,
              terms>>
StoresInit ==
  /\ part = "stores" /\ Stores!Init
  /\ ReportingInit /\ stores = 0 /\ services = 0 /\ mesh = 0 /\ snapshotEvents = 0
  /\ pending = 0 /\ snapshot = 0 /\ silent = 0 /\ start = 0 /\ snapshotChanges = 0
  /\ asked = 0 /\ listeners = 0 /\ routes = 0 /\ clusters = 0 /\ meshSetup = 0 /\ phase = 0
  /\ base = 0 /\ meshFile = 0 /\ touched = 0 /\ fileEvent = 0 /\ timer = 0 /\ cur = 0
  /\ configMaps = 0 /\ store = 0 /\ listed = 0 /\ out = 0 /\ computed = 0 /\ dirty = 0
  /\ copy = 0 /\ meshPushed = 0 /\ registered = 0 /\ told = 0 /\ meshChanges = 0
  /\ storeSetup = 0 /\ api = 0 /\ pend = 0 /\ initial = 0 /\ fresh = 0 /\ storeSynced = 0
  /\ classes = 0 /\ configs = 0 /\ inputs = 0 /\ outputs = 0 /\ mappings = 0 /\ index = 0
  /\ storeChanges = 0 /\ disk = 0 /\ config = 0 /\ values = 0 /\ event = 0 /\ pod = 0
  /\ again = 0 /\ gw = 0 /\ class = 0 /\ telemetry = 0 /\ child = 0 /\ gatewaysCache = 0
  /\ gatewaysEvents = 0 /\ classQueued = 0 /\ blocked = 0 /\ gaveUp = 0 /\ taken = 0
  /\ gatewaysErrors = 0 /\ gatewaysChanges = 0 /\ ready = 0 /\ processing = 0
  /\ requeues = 0 /\ backoff = 0 /\ gatewaysWorker = 0 /\ running = 0 /\ shutDown = 0
  /\ synced = 0 /\ admissionStored = 0 /\ request = 0 /\ admitted = 0 /\ writes = 0
  /\ failures = 0 /\ merged = 0 /\ enabled = 0 /\ at = 0 /\ channel = 0 /\ fed = 0
  /\ failed = 0 /\ skipped = 0 /\ left = 0 /\ cluster = 0
InStores == part = "stores"
OnlyStores == UNCHANGED <<part, storesRest>>
StoresGet == InStores /\ (\E c \in {c1, c2}, k \in StoreKeys : Stores!Get(c, k)) /\ OnlyStores
StoresCreate == InStores /\ (\E c \in {c1, c2}, valid \in BOOLEAN : Stores!Create(c, valid)) /\ OnlyStores
StoresUpdate == InStores /\ (\E c \in {c1, c2}, valid \in BOOLEAN : Stores!Update(c, valid)) /\ OnlyStores
StoresPatch == InStores /\ (\E c \in {c1, c2}, valid \in BOOLEAN : Stores!Patch(c, valid)) /\ OnlyStores
StoresDelete == InStores /\ (\E c \in {c1, c2} : Stores!Delete(c)) /\ OnlyStores
StoresCallCreate == InStores /\ (\E c \in {c1, c2} : Stores!create(c)) /\ OnlyStores
StoresCallUpdate == InStores /\ (\E c \in {c1, c2} : Stores!update(c)) /\ OnlyStores
StoresCallPatch == InStores /\ (\E c \in {c1, c2} : Stores!patch(c)) /\ OnlyStores
StoresCallDelete == InStores /\ (\E c \in {c1, c2}, versioned \in BOOLEAN : Stores!delete(c, versioned)) /\ OnlyStores
StoresTranslate == InStores /\ (\E k \in StoreKeys : Stores!translate(k)) /\ OnlyStores
StoresChangeFile == InStores /\ (\E k \in StoreKeys : Stores!ChangeFile(k)) /\ OnlyStores
StoresListFirst == InStores /\ Stores!ListFirst /\ OnlyStores
StoresListSecond == InStores /\ Stores!ListSecond /\ OnlyStores
StoresNext ==
  \/ StoresGet \/ StoresCreate \/ StoresUpdate \/ StoresPatch \/ StoresDelete
  \/ StoresCallCreate \/ StoresCallUpdate \/ StoresCallPatch \/ StoresCallDelete
  \/ StoresTranslate \/ StoresChangeFile \/ StoresListFirst \/ StoresListSecond

-----------------------------------------------------------------------------
(* ConfigStores, its second machine *)

meshRest == <<stores, services, snapshotEvents, pending, snapshot, silent, start,
            snapshotChanges, asked, listeners, routes, clusters, setup, version,
            storesStored, storesCache, file, hand, applied, replaced, list, result,
            storeSetup, api, pend, initial, fresh, storeSynced, classes, configs, inputs,
            outputs, mappings, index, storeChanges, disk, config, values, event, pod, again,
            gw, class, telemetry, child, gatewaysCache, gatewaysEvents, classQueued,
            blocked, gaveUp, taken, gatewaysErrors, gatewaysChanges, ready, processing,
            requeues, backoff, gatewaysWorker, running, shutDown, synced, admissionStored,
            request, admitted, writes, failures, merged, enabled, at, channel, fed, failed,
            skipped, left, cluster, obj, dep, stored, element, events, leading, pushed,
            tasks, cache, workerCount, currentlyWorking, closing, worker, changes, errors,
            terms>>
MeshInit ==
  /\ part = "mesh" /\ Stores!MeshInit
  /\ ReportingInit /\ stores = 0 /\ services = 0 /\ snapshotEvents = 0 /\ pending = 0
  /\ snapshot = 0 /\ silent = 0 /\ start = 0 /\ snapshotChanges = 0 /\ asked = 0
  /\ listeners = 0 /\ routes = 0 /\ clusters = 0 /\ setup = 0 /\ version = 0
  /\ storesStored = 0 /\ storesCache = 0 /\ file = 0 /\ hand = 0 /\ applied = 0
  /\ replaced = 0 /\ list = 0 /\ result = 0 /\ storeSetup = 0 /\ api = 0 /\ pend = 0
  /\ initial = 0 /\ fresh = 0 /\ storeSynced = 0 /\ classes = 0 /\ configs = 0
  /\ inputs = 0 /\ outputs = 0 /\ mappings = 0 /\ index = 0 /\ storeChanges = 0 /\ disk = 0
  /\ config = 0 /\ values = 0 /\ event = 0 /\ pod = 0 /\ again = 0 /\ gw = 0 /\ class = 0
  /\ telemetry = 0 /\ child = 0 /\ gatewaysCache = 0 /\ gatewaysEvents = 0
  /\ classQueued = 0 /\ blocked = 0 /\ gaveUp = 0 /\ taken = 0 /\ gatewaysErrors = 0
  /\ gatewaysChanges = 0 /\ ready = 0 /\ processing = 0 /\ requeues = 0 /\ backoff = 0
  /\ gatewaysWorker = 0 /\ running = 0 /\ shutDown = 0 /\ synced = 0 /\ admissionStored = 0
  /\ request = 0 /\ admitted = 0 /\ writes = 0 /\ failures = 0 /\ merged = 0 /\ enabled = 0
  /\ at = 0 /\ channel = 0 /\ fed = 0 /\ failed = 0 /\ skipped = 0 /\ left = 0
  /\ cluster = 0
InMesh == part = "mesh"
OnlyMesh == UNCHANGED <<part, meshRest>>
MeshNewFileSource == InMesh /\ Stores!NewFileSource /\ OnlyMesh
MeshWatchFile == InMesh /\ Stores!watchFile /\ OnlyMesh
MeshNewConfigMapSource == InMesh /\ Stores!NewConfigMapSource /\ OnlyMesh
MeshFileEvent == InMesh /\ Stores!FileEvent /\ OnlyMesh
MeshFileTimer == InMesh /\ Stores!FileTimer /\ OnlyMesh
MeshRecomputeMesh == InMesh /\ Stores!RecomputeMesh /\ OnlyMesh
MeshInitMeshHandlers == InMesh /\ Stores!initMeshHandlers /\ OnlyMesh
MeshFirstPush == InMesh /\ Stores!FirstPush /\ OnlyMesh
MeshReadMesh == InMesh /\ Stores!ReadMesh /\ OnlyMesh
MeshAddMeshHandler == InMesh /\ Stores!AddMeshHandler /\ OnlyMesh
MeshCallHandler == InMesh /\ Stores!CallHandler /\ OnlyMesh
MeshCallServerHandler == InMesh /\ Stores!CallServerHandler /\ OnlyMesh
MeshChange == InMesh /\ Stores!Change /\ OnlyMesh
MeshInformerEvent == InMesh /\ (\E s \in Stores!Source : Stores!InformerEvent(s)) /\ OnlyMesh
MeshRecompute == InMesh /\ (\E s \in Stores!Source : Stores!Recompute(s)) /\ OnlyMesh
MeshNext ==
  \/ MeshNewFileSource \/ MeshWatchFile \/ MeshNewConfigMapSource \/ MeshFileEvent
  \/ MeshFileTimer \/ MeshRecomputeMesh \/ MeshInitMeshHandlers \/ MeshFirstPush
  \/ MeshReadMesh \/ MeshAddMeshHandler \/ MeshCallHandler \/ MeshCallServerHandler
  \/ MeshChange \/ MeshInformerEvent \/ MeshRecompute

-----------------------------------------------------------------------------
(* Gateways, its second machine *)

storeRest == <<stores, services, mesh, snapshotEvents, pending, snapshot, silent, start,
             snapshotChanges, asked, listeners, routes, clusters, setup, version,
             storesStored, storesCache, file, hand, applied, replaced, list, result,
             meshSetup, phase, base, meshFile, touched, fileEvent, timer, cur, configMaps,
             out, computed, dirty, copy, meshPushed, registered, told, meshChanges, disk,
             config, values, event, pod, again, gw, class, telemetry, child, gatewaysCache,
             gatewaysEvents, classQueued, blocked, gaveUp, taken, gatewaysErrors,
             gatewaysChanges, ready, processing, requeues, backoff, gatewaysWorker, running,
             shutDown, synced, admissionStored, request, admitted, writes, failures, merged,
             enabled, at, channel, fed, failed, skipped, left, cluster, obj, dep, stored,
             element, events, leading, pushed, tasks, cache, workerCount, currentlyWorking,
             closing, worker, changes, errors, terms>>
StoreInit ==
  /\ part = "store" /\ Gateways!StoreInit
  /\ ReportingInit /\ stores = 0 /\ services = 0 /\ mesh = 0 /\ snapshotEvents = 0
  /\ pending = 0 /\ snapshot = 0 /\ silent = 0 /\ start = 0 /\ snapshotChanges = 0
  /\ asked = 0 /\ listeners = 0 /\ routes = 0 /\ clusters = 0 /\ setup = 0 /\ version = 0
  /\ storesStored = 0 /\ storesCache = 0 /\ file = 0 /\ hand = 0 /\ applied = 0
  /\ replaced = 0 /\ list = 0 /\ result = 0 /\ meshSetup = 0 /\ phase = 0 /\ base = 0
  /\ meshFile = 0 /\ touched = 0 /\ fileEvent = 0 /\ timer = 0 /\ cur = 0 /\ configMaps = 0
  /\ out = 0 /\ computed = 0 /\ dirty = 0 /\ copy = 0 /\ meshPushed = 0 /\ registered = 0
  /\ told = 0 /\ meshChanges = 0 /\ disk = 0 /\ config = 0 /\ values = 0 /\ event = 0
  /\ pod = 0 /\ again = 0 /\ gw = 0 /\ class = 0 /\ telemetry = 0 /\ child = 0
  /\ gatewaysCache = 0 /\ gatewaysEvents = 0 /\ classQueued = 0 /\ blocked = 0
  /\ gaveUp = 0 /\ taken = 0 /\ gatewaysErrors = 0 /\ gatewaysChanges = 0 /\ ready = 0
  /\ processing = 0 /\ requeues = 0 /\ backoff = 0 /\ gatewaysWorker = 0 /\ running = 0
  /\ shutDown = 0 /\ synced = 0 /\ admissionStored = 0 /\ request = 0 /\ admitted = 0
  /\ writes = 0 /\ failures = 0 /\ merged = 0 /\ enabled = 0 /\ at = 0 /\ channel = 0
  /\ fed = 0 /\ failed = 0 /\ skipped = 0 /\ left = 0 /\ cluster = 0
InStore == part = "store"
OnlyStore == UNCHANGED <<part, storeRest>>
StoreChange == InStore /\ Gateways!Change /\ OnlyStore
StoreInitialList == InStore /\ (\E kind \in Gateways!StoreKind : Gateways!InitialList(kind)) /\ OnlyStore
StoreMarkSynced == InStore /\ (\E kind \in Gateways!StoreKind : Gateways!MarkSynced(kind)) /\ OnlyStore
StoreWatchEvent == InStore /\ (\E x \in Gateways!At : Gateways!WatchEvent(x)) /\ OnlyStore
StoreGatewayClassesCollection == InStore /\ (\E x \in Gateways!At : Gateways!GatewayClassesCollection(x)) /\ OnlyStore
StoreConvert == InStore /\ (\E x \in Gateways!At : Gateways!Convert(x)) /\ OnlyStore
StoreReferenceGrantsCollection == InStore /\ (\E x \in Gateways!At : Gateways!ReferenceGrantsCollection(x)) /\ OnlyStore
StoreNext ==
  \/ StoreChange \/ StoreInitialList \/ StoreMarkSynced \/ StoreWatchEvent
  \/ StoreGatewayClassesCollection \/ StoreConvert \/ StoreReferenceGrantsCollection

-----------------------------------------------------------------------------
(* Admission, its second machine *)

injectRest == <<stores, services, mesh, snapshotEvents, pending, snapshot, silent,
              snapshotChanges, asked, listeners, routes, clusters, setup, version,
              storesStored, storesCache, file, hand, applied, replaced, list, result,
              meshSetup, phase, base, meshFile, touched, fileEvent, cur, configMaps, store,
              listed, computed, dirty, copy, meshPushed, registered, told, meshChanges,
              storeSetup, api, pend, initial, fresh, storeSynced, classes, configs, inputs,
              outputs, mappings, index, storeChanges, gw, class, telemetry, child,
              gatewaysCache, gatewaysEvents, classQueued, blocked, gaveUp, taken,
              gatewaysErrors, gatewaysChanges, ready, processing, requeues, backoff,
              gatewaysWorker, running, shutDown, synced, admissionStored, request, admitted,
              writes, failures, merged, enabled, at, channel, fed, failed, skipped, left,
              cluster, obj, dep, stored, element, events, leading, pushed, tasks, cache,
              workerCount, currentlyWorking, closing, worker, changes, errors, terms>>
InjectInit ==
  /\ part = "inject" /\ Admission!InjectionInit
  /\ ReportingInit /\ stores = 0 /\ services = 0 /\ mesh = 0 /\ snapshotEvents = 0
  /\ pending = 0 /\ snapshot = 0 /\ silent = 0 /\ snapshotChanges = 0 /\ asked = 0
  /\ listeners = 0 /\ routes = 0 /\ clusters = 0 /\ setup = 0 /\ version = 0
  /\ storesStored = 0 /\ storesCache = 0 /\ file = 0 /\ hand = 0 /\ applied = 0
  /\ replaced = 0 /\ list = 0 /\ result = 0 /\ meshSetup = 0 /\ phase = 0 /\ base = 0
  /\ meshFile = 0 /\ touched = 0 /\ fileEvent = 0 /\ cur = 0 /\ configMaps = 0 /\ store = 0
  /\ listed = 0 /\ computed = 0 /\ dirty = 0 /\ copy = 0 /\ meshPushed = 0
  /\ registered = 0 /\ told = 0 /\ meshChanges = 0 /\ storeSetup = 0 /\ api = 0 /\ pend = 0
  /\ initial = 0 /\ fresh = 0 /\ storeSynced = 0 /\ classes = 0 /\ configs = 0
  /\ inputs = 0 /\ outputs = 0 /\ mappings = 0 /\ index = 0 /\ storeChanges = 0 /\ gw = 0
  /\ class = 0 /\ telemetry = 0 /\ child = 0 /\ gatewaysCache = 0 /\ gatewaysEvents = 0
  /\ classQueued = 0 /\ blocked = 0 /\ gaveUp = 0 /\ taken = 0 /\ gatewaysErrors = 0
  /\ gatewaysChanges = 0 /\ ready = 0 /\ processing = 0 /\ requeues = 0 /\ backoff = 0
  /\ gatewaysWorker = 0 /\ running = 0 /\ shutDown = 0 /\ synced = 0 /\ admissionStored = 0
  /\ request = 0 /\ admitted = 0 /\ writes = 0 /\ failures = 0 /\ merged = 0 /\ enabled = 0
  /\ at = 0 /\ channel = 0 /\ fed = 0 /\ failed = 0 /\ skipped = 0 /\ left = 0
  /\ cluster = 0
InInject == part = "inject"
OnlyInject == UNCHANGED <<part, injectRest>>
InjectChangeFiles == InInject /\ Admission!ChangeFiles /\ OnlyInject
InjectFileEvent == InInject /\ Admission!FileEvent /\ OnlyInject
InjectFileTimer == InInject /\ Admission!FileTimer /\ OnlyInject
InjectReadmit == InInject /\ Admission!Readmit /\ OnlyInject
InjectAdmit == InInject /\ (\E p \in InjectionPods : Admission!Admit(p)) /\ OnlyInject
InjectNext ==
  \/ InjectChangeFiles \/ InjectFileEvent \/ InjectFileTimer \/ InjectReadmit \/ InjectAdmit

-----------------------------------------------------------------------------
(* Gateways *)

gatewaysRest == <<stores, services, mesh, snapshotEvents, pending, snapshot, silent, start,
                snapshotChanges, asked, listeners, routes, clusters, storesStored,
                storesCache, file, applied, replaced, list, result, meshSetup, phase, base,
                meshFile, touched, fileEvent, timer, cur, configMaps, store, listed, out,
                computed, copy, meshPushed, registered, told, meshChanges, storeSetup, api,
                pend, initial, fresh, storeSynced, classes, configs, inputs, outputs,
                mappings, index, storeChanges, disk, config, values, event, pod, again,
                admissionStored, request, admitted, writes, failures, merged, enabled, at,
                channel, fed, failed, skipped, left, cluster, obj, dep, stored, element,
                events, leading, pushed, tasks, cache, workerCount, currentlyWorking,
                closing, worker, changes, errors, terms>>
GatewaysInit ==
  /\ part = "gateways" /\ Gateways!Init
  /\ ReportingInit /\ stores = 0 /\ services = 0 /\ mesh = 0 /\ snapshotEvents = 0
  /\ pending = 0 /\ snapshot = 0 /\ silent = 0 /\ start = 0 /\ snapshotChanges = 0
  /\ asked = 0 /\ listeners = 0 /\ routes = 0 /\ clusters = 0 /\ storesStored = 0
  /\ storesCache = 0 /\ file = 0 /\ applied = 0 /\ replaced = 0 /\ list = 0 /\ result = 0
  /\ meshSetup = 0 /\ phase = 0 /\ base = 0 /\ meshFile = 0 /\ touched = 0 /\ fileEvent = 0
  /\ timer = 0 /\ cur = 0 /\ configMaps = 0 /\ store = 0 /\ listed = 0 /\ out = 0
  /\ computed = 0 /\ copy = 0 /\ meshPushed = 0 /\ registered = 0 /\ told = 0
  /\ meshChanges = 0 /\ storeSetup = 0 /\ api = 0 /\ pend = 0 /\ initial = 0 /\ fresh = 0
  /\ storeSynced = 0 /\ classes = 0 /\ configs = 0 /\ inputs = 0 /\ outputs = 0
  /\ mappings = 0 /\ index = 0 /\ storeChanges = 0 /\ disk = 0 /\ config = 0 /\ values = 0
  /\ event = 0 /\ pod = 0 /\ again = 0 /\ admissionStored = 0 /\ request = 0
  /\ admitted = 0 /\ writes = 0 /\ failures = 0 /\ merged = 0 /\ enabled = 0 /\ at = 0
  /\ channel = 0 /\ fed = 0 /\ failed = 0 /\ skipped = 0 /\ left = 0 /\ cluster = 0
InGateways == part = "gateways"
OnlyGateways == UNCHANGED <<part, gatewaysRest>>
GatewaysChangeInput == InGateways /\ Gateways!ChangeInput /\ OnlyGateways
GatewaysChangeChild == InGateways /\ (\E k \in Gateways!Kind : Gateways!ChangeChild(k)) /\ OnlyGateways
GatewaysObserveChild == InGateways /\ (\E k \in Gateways!Kind : Gateways!ObserveChild(k)) /\ OnlyGateways
GatewaysObserve == InGateways /\ (\E x \in {"gw", "class", "telemetry"} : Gateways!Observe(x)) /\ OnlyGateways
GatewaysReconcileClass == InGateways /\ Gateways!reconcileClass /\ OnlyGateways
GatewaysRun == InGateways /\ Gateways!Run /\ OnlyGateways
GatewaysGetKey == InGateways /\ Gateways!GetKey /\ OnlyGateways
GatewaysProcessSignal == InGateways /\ Gateways!ProcessSignal /\ OnlyGateways
GatewaysBackoffEnds == InGateways /\ Gateways!BackoffEnds /\ OnlyGateways
GatewaysConfigureGateway == InGateways /\ Gateways!configureGateway /\ OnlyGateways
GatewaysCanManage == InGateways /\ Gateways!canManage /\ OnlyGateways
GatewaysApply == InGateways /\ (\E fails \in BOOLEAN : Gateways!apply_(fails)) /\ OnlyGateways
GatewaysNext ==
  \/ GatewaysChangeInput \/ GatewaysChangeChild \/ GatewaysObserveChild \/ GatewaysObserve
  \/ GatewaysReconcileClass \/ GatewaysRun \/ GatewaysGetKey \/ GatewaysProcessSignal
  \/ GatewaysBackoffEnds \/ GatewaysConfigureGateway \/ GatewaysCanManage \/ GatewaysApply

-----------------------------------------------------------------------------
(* Admission *)

admissionRest == <<stores, services, mesh, snapshotEvents, pending, snapshot, silent, start,
                 snapshotChanges, asked, listeners, routes, clusters, version, storesStored,
                 storesCache, file, hand, applied, replaced, list, result, meshSetup, phase,
                 base, meshFile, touched, fileEvent, timer, cur, configMaps, listed, out,
                 computed, dirty, copy, meshPushed, registered, told, meshChanges,
                 storeSetup, api, pend, initial, fresh, storeSynced, classes, configs,
                 inputs, outputs, mappings, index, storeChanges, disk, config, values,
                 event, pod, again, gw, class, telemetry, child, gatewaysCache,
                 gatewaysEvents, classQueued, blocked, gaveUp, taken, gatewaysErrors,
                 gatewaysChanges, ready, processing, requeues, backoff, gatewaysWorker,
                 running, shutDown, synced, merged, enabled, at, channel, fed, failed,
                 skipped, left, cluster, obj, dep, stored, element, events, leading, pushed,
                 tasks, cache, workerCount, currentlyWorking, closing, worker, changes,
                 errors, terms>>
AdmissionInit ==
  /\ part = "admission" /\ Admission!Init
  /\ ReportingInit /\ stores = 0 /\ services = 0 /\ mesh = 0 /\ snapshotEvents = 0
  /\ pending = 0 /\ snapshot = 0 /\ silent = 0 /\ start = 0 /\ snapshotChanges = 0
  /\ asked = 0 /\ listeners = 0 /\ routes = 0 /\ clusters = 0 /\ version = 0
  /\ storesStored = 0 /\ storesCache = 0 /\ file = 0 /\ hand = 0 /\ applied = 0
  /\ replaced = 0 /\ list = 0 /\ result = 0 /\ meshSetup = 0 /\ phase = 0 /\ base = 0
  /\ meshFile = 0 /\ touched = 0 /\ fileEvent = 0 /\ timer = 0 /\ cur = 0 /\ configMaps = 0
  /\ listed = 0 /\ out = 0 /\ computed = 0 /\ dirty = 0 /\ copy = 0 /\ meshPushed = 0
  /\ registered = 0 /\ told = 0 /\ meshChanges = 0 /\ storeSetup = 0 /\ api = 0 /\ pend = 0
  /\ initial = 0 /\ fresh = 0 /\ storeSynced = 0 /\ classes = 0 /\ configs = 0
  /\ inputs = 0 /\ outputs = 0 /\ mappings = 0 /\ index = 0 /\ storeChanges = 0 /\ disk = 0
  /\ config = 0 /\ values = 0 /\ event = 0 /\ pod = 0 /\ again = 0 /\ gw = 0 /\ class = 0
  /\ telemetry = 0 /\ child = 0 /\ gatewaysCache = 0 /\ gatewaysEvents = 0
  /\ classQueued = 0 /\ blocked = 0 /\ gaveUp = 0 /\ taken = 0 /\ gatewaysErrors = 0
  /\ gatewaysChanges = 0 /\ ready = 0 /\ processing = 0 /\ requeues = 0 /\ backoff = 0
  /\ gatewaysWorker = 0 /\ running = 0 /\ shutDown = 0 /\ synced = 0 /\ merged = 0
  /\ enabled = 0 /\ at = 0 /\ channel = 0 /\ fed = 0 /\ failed = 0 /\ skipped = 0
  /\ left = 0 /\ cluster = 0
InAdmission == part = "admission"
OnlyAdmission == UNCHANGED <<part, admissionRest>>
AdmissionSubmit == InAdmission /\ (\E w \in setup.writers : Admission!Submit(w)) /\ OnlyAdmission
AdmissionDelete == InAdmission /\ (\E w \in setup.writers, n \in Admission!Names : Admission!Delete(w, n)) /\ OnlyAdmission
AdmissionValidate == InAdmission /\ (\E w \in setup.writers : Admission!validate(w)) /\ OnlyAdmission
AdmissionCallFails == InAdmission /\ (\E w \in setup.writers : Admission!CallFails(w)) /\ OnlyAdmission
AdmissionPersist == InAdmission /\ (\E w \in setup.writers : Admission!Persist(w)) /\ OnlyAdmission
AdmissionUpdateStore == InAdmission /\ (\E n \in Admission!Names : Admission!UpdateStore(n)) /\ OnlyAdmission
AdmissionNext ==
  \/ AdmissionSubmit \/ AdmissionDelete \/ AdmissionValidate \/ AdmissionCallFails
  \/ AdmissionPersist \/ AdmissionUpdateStore

-----------------------------------------------------------------------------
(* Installer *)

installerRest == <<stores, services, mesh, snapshotEvents, pending, snapshot, silent, start,
                 snapshotChanges, asked, listeners, routes, clusters, version, storesStored,
                 storesCache, file, hand, applied, replaced, list, result, meshSetup, base,
                 meshFile, touched, fileEvent, timer, cur, configMaps, store, listed, out,
                 computed, dirty, copy, meshPushed, registered, told, meshChanges,
                 storeSetup, api, pend, initial, fresh, storeSynced, classes, configs,
                 inputs, outputs, mappings, index, storeChanges, disk, config, values,
                 event, pod, again, gw, class, telemetry, child, gatewaysCache,
                 gatewaysEvents, classQueued, blocked, gaveUp, taken, gatewaysErrors,
                 gatewaysChanges, ready, processing, requeues, backoff, gatewaysWorker,
                 running, shutDown, synced, admissionStored, request, admitted, writes,
                 failures, obj, dep, stored, element, events, leading, pushed, tasks, cache,
                 workerCount, currentlyWorking, closing, worker, changes, errors, terms>>
InstallerInit ==
  /\ part = "installer" /\ Installer!Init
  /\ ReportingInit /\ stores = 0 /\ services = 0 /\ mesh = 0 /\ snapshotEvents = 0
  /\ pending = 0 /\ snapshot = 0 /\ silent = 0 /\ start = 0 /\ snapshotChanges = 0
  /\ asked = 0 /\ listeners = 0 /\ routes = 0 /\ clusters = 0 /\ version = 0
  /\ storesStored = 0 /\ storesCache = 0 /\ file = 0 /\ hand = 0 /\ applied = 0
  /\ replaced = 0 /\ list = 0 /\ result = 0 /\ meshSetup = 0 /\ base = 0 /\ meshFile = 0
  /\ touched = 0 /\ fileEvent = 0 /\ timer = 0 /\ cur = 0 /\ configMaps = 0 /\ store = 0
  /\ listed = 0 /\ out = 0 /\ computed = 0 /\ dirty = 0 /\ copy = 0 /\ meshPushed = 0
  /\ registered = 0 /\ told = 0 /\ meshChanges = 0 /\ storeSetup = 0 /\ api = 0 /\ pend = 0
  /\ initial = 0 /\ fresh = 0 /\ storeSynced = 0 /\ classes = 0 /\ configs = 0
  /\ inputs = 0 /\ outputs = 0 /\ mappings = 0 /\ index = 0 /\ storeChanges = 0 /\ disk = 0
  /\ config = 0 /\ values = 0 /\ event = 0 /\ pod = 0 /\ again = 0 /\ gw = 0 /\ class = 0
  /\ telemetry = 0 /\ child = 0 /\ gatewaysCache = 0 /\ gatewaysEvents = 0
  /\ classQueued = 0 /\ blocked = 0 /\ gaveUp = 0 /\ taken = 0 /\ gatewaysErrors = 0
  /\ gatewaysChanges = 0 /\ ready = 0 /\ processing = 0 /\ requeues = 0 /\ backoff = 0
  /\ gatewaysWorker = 0 /\ running = 0 /\ shutDown = 0 /\ synced = 0 /\ admissionStored = 0
  /\ request = 0 /\ admitted = 0 /\ writes = 0 /\ failures = 0
InInstaller == part = "installer"
OnlyInstaller == UNCHANGED <<part, installerRest>>
InstallerGenerateManifest == InInstaller /\ Installer!GenerateManifest /\ OnlyInstaller
InstallerInstallSystemNamespace == InInstaller /\ Installer!installSystemNamespace /\ OnlyInstaller
InstallerInstalled == InInstaller /\ Installer!Installed /\ OnlyInstaller
InstallerPruneDone == InInstaller /\ Installer!PruneDone /\ OnlyInstaller
InstallerDeleteObjectsList == InInstaller /\ Installer!DeleteObjectsList /\ OnlyInstaller
InstallerNextCommand == InInstaller /\ Installer!NextCommand /\ OnlyInstaller
InstallerKill == InInstaller /\ Installer!Kill /\ OnlyInstaller
InstallerInstall == InInstaller /\ (\E c \in Installer!Component : Installer!install(c)) /\ OnlyInstaller
InstallerWaitDependency == InInstaller /\ (\E c \in Installer!Component : Installer!WaitDependency(c)) /\ OnlyInstaller
InstallerWaitReady == InInstaller /\ (\E c \in Installer!Component : Installer!waitForResources(c)) /\ OnlyInstaller
InstallerWaitForResources == InInstaller /\ (\E c \in Installer!Component : Installer!WaitForResources(c)) /\ OnlyInstaller
InstallerApplyManifestSetFails == InInstaller /\ (\E c \in Installer!Component : Installer!applyManifestSetFails(c)) /\ OnlyInstaller
InstallerSignalDependents == InInstaller /\ (\E c \in Installer!Component : Installer!SignalDependents(c)) /\ OnlyInstaller
InstallerServerSideApply == InInstaller /\ (\E c \in Installer!Component, o \in DOMAIN cluster : Installer!serverSideApply(c, o)) /\ OnlyInstaller
InstallerPrune == InInstaller /\ (\E kind \in Installer!Pruned : Installer!prune(kind)) /\ OnlyInstaller
InstallerPruneFails == InInstaller /\ (\E kind \in Installer!Pruned, b \in BOOLEAN : Installer!PruneFails(kind, b)) /\ OnlyInstaller
InstallerGetRemovedResources == InInstaller /\ (\E b \in BOOLEAN : Installer!GetRemovedResources(b)) /\ OnlyInstaller
InstallerPreCheck == InInstaller /\ (\E b \in BOOLEAN : Installer!preCheck(b)) /\ OnlyInstaller
InstallerBecomesReady == InInstaller /\ (\E o \in DOMAIN cluster : Installer!BecomesReady(o)) /\ OnlyInstaller
InstallerDeleteResource == InInstaller /\ (\E o \in DOMAIN cluster, b \in BOOLEAN : Installer!DeleteResource(o, b)) /\ OnlyInstaller
InstallerNext ==
  \/ InstallerGenerateManifest \/ InstallerInstallSystemNamespace \/ InstallerInstalled
  \/ InstallerPruneDone \/ InstallerDeleteObjectsList \/ InstallerNextCommand
  \/ InstallerKill \/ InstallerInstall \/ InstallerWaitDependency \/ InstallerWaitReady
  \/ InstallerWaitForResources \/ InstallerApplyManifestSetFails
  \/ InstallerSignalDependents \/ InstallerServerSideApply \/ InstallerPrune
  \/ InstallerPruneFails \/ InstallerGetRemovedResources \/ InstallerPreCheck
  \/ InstallerBecomesReady \/ InstallerDeleteResource

-----------------------------------------------------------------------------
(* StatusReporting *)

statusRest == <<stores, services, mesh, snapshotEvents, pending, snapshot, silent, start,
              snapshotChanges, asked, listeners, routes, clusters, setup, version,
              storesStored, storesCache, file, hand, applied, replaced, list, result,
              meshSetup, phase, base, meshFile, touched, fileEvent, timer, cur, configMaps,
              store, listed, out, computed, dirty, copy, meshPushed, registered, told,
              meshChanges, storeSetup, api, pend, initial, fresh, storeSynced, classes,
              configs, inputs, outputs, mappings, index, storeChanges, disk, config, values,
              event, pod, again, gw, class, telemetry, child, gatewaysCache, gatewaysEvents,
              classQueued, blocked, gaveUp, taken, gatewaysErrors, gatewaysChanges, ready,
              processing, requeues, backoff, gatewaysWorker, running, shutDown, synced,
              admissionStored, request, admitted, writes, failures, merged, enabled, at,
              channel, fed, failed, skipped, left, cluster>>
StatusInit ==
  /\ part = "status" /\ ReportingInit
  /\ stores = 0 /\ services = 0 /\ mesh = 0 /\ snapshotEvents = 0 /\ pending = 0
  /\ snapshot = 0 /\ silent = 0 /\ start = 0 /\ snapshotChanges = 0 /\ asked = 0
  /\ listeners = 0 /\ routes = 0 /\ clusters = 0 /\ setup = 0 /\ version = 0
  /\ storesStored = 0 /\ storesCache = 0 /\ file = 0 /\ hand = 0 /\ applied = 0
  /\ replaced = 0 /\ list = 0 /\ result = 0 /\ meshSetup = 0 /\ phase = 0 /\ base = 0
  /\ meshFile = 0 /\ touched = 0 /\ fileEvent = 0 /\ timer = 0 /\ cur = 0 /\ configMaps = 0
  /\ store = 0 /\ listed = 0 /\ out = 0 /\ computed = 0 /\ dirty = 0 /\ copy = 0
  /\ meshPushed = 0 /\ registered = 0 /\ told = 0 /\ meshChanges = 0 /\ storeSetup = 0
  /\ api = 0 /\ pend = 0 /\ initial = 0 /\ fresh = 0 /\ storeSynced = 0 /\ classes = 0
  /\ configs = 0 /\ inputs = 0 /\ outputs = 0 /\ mappings = 0 /\ index = 0
  /\ storeChanges = 0 /\ disk = 0 /\ config = 0 /\ values = 0 /\ event = 0 /\ pod = 0
  /\ again = 0 /\ gw = 0 /\ class = 0 /\ telemetry = 0 /\ child = 0 /\ gatewaysCache = 0
  /\ gatewaysEvents = 0 /\ classQueued = 0 /\ blocked = 0 /\ gaveUp = 0 /\ taken = 0
  /\ gatewaysErrors = 0 /\ gatewaysChanges = 0 /\ ready = 0 /\ processing = 0
  /\ requeues = 0 /\ backoff = 0 /\ gatewaysWorker = 0 /\ running = 0 /\ shutDown = 0
  /\ synced = 0 /\ admissionStored = 0 /\ request = 0 /\ admitted = 0 /\ writes = 0
  /\ failures = 0 /\ merged = 0 /\ enabled = 0 /\ at = 0 /\ channel = 0 /\ fed = 0
  /\ failed = 0 /\ skipped = 0 /\ left = 0 /\ cluster = 0
InStatus == part = "status"
OnlyStatus == UNCHANGED <<part, statusRest>>
StatusChange == InStatus /\ (\E r \in Resource : Change(r)) /\ OnlyStatus
StatusUpdateStore == InStatus /\ (\E r \in Resource : UpdateStore(r)) /\ OnlyStatus
StatusRecompute == InStatus /\ (\E r \in Resource : Recompute(r)) /\ OnlyStatus
StatusSetQueue == InStatus /\ SetQueue /\ OnlyStatus
StatusUnsetQueue == InStatus /\ UnsetQueue /\ OnlyStatus
StatusRegisterStatus == InStatus /\ RegisterStatus /\ OnlyStatus
StatusMaybeAddWorker == InStatus /\ maybeAddWorker /\ OnlyStatus
StatusClose == InStatus /\ Close /\ OnlyStatus
StatusTake == InStatus /\ (\E g \in Goroutine : Take(g)) /\ OnlyStatus
StatusRetrieve == InStatus /\ (\E g \in Goroutine : Retrieve(g)) /\ OnlyStatus
StatusWritten == InStatus /\ (\E g \in Goroutine : Write(g, FALSE)) /\ OnlyStatus
StatusWriteFails == InStatus /\ (\E g \in Goroutine : Write(g, TRUE)) /\ OnlyStatus
StatusDone == InStatus /\ (\E g \in Goroutine : Done(g)) /\ OnlyStatus
StatusNext ==
  \/ StatusChange \/ StatusUpdateStore \/ StatusRecompute \/ StatusSetQueue
  \/ StatusUnsetQueue \/ StatusRegisterStatus \/ StatusMaybeAddWorker \/ StatusClose
  \/ StatusTake \/ StatusRetrieve \/ StatusWritten \/ StatusWriteFails \/ StatusDone

-----------------------------------------------------------------------------
AllInit == SnapshotInit \/ GenInit \/ StoresInit \/ MeshInit \/ StoreInit \/ InjectInit \/ GatewaysInit \/ AdmissionInit \/ InstallerInit \/ StatusInit
AllNext == SnapshotNext \/ GenNext \/ StoresNext \/ MeshNext \/ StoreNext \/ InjectNext \/ GatewaysNext \/ AdmissionNext \/ InstallerNext \/ StatusNext
AllSpec == AllInit /\ [][AllNext]_allVars

\* "When the mesh config or networks change, do a full push"
\* (initMeshHandlers): the handler it registers does not end before it has
\* asked for the push.
MeshChangePushed == [][Stores!HandlerPushes]_allVars

\* Once nothing is left to do, what is derived from configuration is what the
\* stored objects say: the snapshot of a push is the one built from all
\* stores and services afresh and its aliases are reachable, the mesh
\* configuration is the merge of its sources as the server knows them and the
\* one every copy and the last push have (a change ends the process, and an
\* edit of a file outside the root directory is not noticed), a list of a
\* type has each object once and no update is lost to one computed from an
\* older version, and a reference between namespaces is allowed exactly when
\* a ReferenceGrant of the target namespace says so.
ConfigurationCurrent ==
  /\ part = "snapshot" => Snapshot!SnapshotCurrent
  /\ part = "snapshot" => Snapshot!AliasesReachable
  /\ part = "snapshot" => Snapshot!YoungerChangesNothing
  /\ part = "mesh" => Stores!MeshCurrent
  /\ part = "stores" => Stores!ListComplete
  /\ part = "stores" => Stores!NoLostUpdate
  /\ part = "store" => Gateways!GrantsAsWritten
  /\ part = "store" => Gateways!SyncedMeansServed

\* What the generators send to one client fits together: every route and
\* cluster that is referred to exists, both ends of a connection agree on
\* TLS, and the authorization filters decide as the policies are documented.
GeneratedConsistent ==
  /\ part = "gen" => Gen!ReferencesResolve
  /\ part = "gen" => Gen!AuthorizationAsDocumented
  /\ part = "gen" => Gen!EndsAgreeOnTls

\* What the webhook accepts is applied: no accepted resource is dropped or
\* half read by the code that consumes it, and an update of an accepted
\* resource is not refused because of the resource itself.
AcceptedIsApplied ==
  /\ part = "admission" => Admission!AcceptedIsApplied
  /\ part = "admission" => Admission!UpdatesAllowed

\* Once nothing is left to do, the cluster holds what was asked for: the
\* children of a managed gateway are there as its templates, class and
\* telemetry say, an installation has exactly the objects of its enabled
\* components with its dependents served and its flags applied, and an
\* injected Pod finds the bootstrap and the volumes it needs; an object of
\* the same name that another manages is never overwritten.
DeployedAsAsked ==
  /\ part = "gateways" => Gateways!GatewayDeployed
  /\ part = "installer" => Installer!InstalledExactly
  /\ part = "installer" => Installer!DependenciesServed
  /\ part = "installer" => Installer!FlagsApplied
  /\ part = "gateways" => Gateways!ForeignKept
  /\ part = "inject" => Admission!InjectedPodsServed

=============================================================================
