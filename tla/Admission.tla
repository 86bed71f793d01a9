----------------------------- MODULE Admission ------------------------------
(***************************************************************************)
(* The validating webhook (pkg/webhooks/server/server.go): the API server  *)
(* asks it about every write of a Dubbo resource, it decodes, converts and *)
(* validates the object, looks in its own configuration store for another  *)
(* mesh-level Telemetry, and answers; the API server then writes, and the  *)
(* store follows by its informers.  Two writers work at once.              *)
(***************************************************************************)
EXTENDS Integers, Sequences, FiniteSets, SequencesExt

-----------------------------------------------------------------------------
(* The validators of pkg/config/validation, as predicates on resources,    *)
(* and the consumers they protect.  A string is one of a few model         *)
(* strings: "" is empty, those of Malformed do not have the form the field *)
(* asks for.  A missing message is nil.  Durations are in microseconds, a  *)
(* duration above MaxDuration is one that CheckValid refuses.              *)

CONSTANTS nil, Malformed, MaxDuration

Elements(s) == {s[i] : i \in DOMAIN s}
NoDuplicates(s) == Cardinality(Elements(s)) = Len(s)

WellFormed(x) == x # "" /\ x \notin Malformed     \* an RFC 1123 name, a host, a URI

-----------------------------------------------------------------------------
(* helpers.go                                                              *)

ValidateMetadata(cfg) ==
  WellFormed(cfg.name) /\ (cfg.namespace = "" \/ WellFormed(cfg.namespace))

\* A selector without labels is refused, as is a label that is not one.
validateWorkloadSelector(s) == s = nil \/ (s # {} /\ \A l \in s : WellFormed(l))

validatePositiveDuration(d) == d = nil \/ (d > 0 /\ d <= MaxDuration)
validateOptionalUInt32Percent(n) == n = nil \/ n <= 100

-----------------------------------------------------------------------------
(* Fault injection policies.                                               *)

Millisecond == 1000

\* Mutant: a policy whose delay lacks its duration passes.
DelayMayLackDuration(spec) ==
  /\ spec.targets # <<>>
  /\ \A t \in Elements(spec.targets) :
       t.kind = "Service" /\ t.group \in {"", "core"} /\ t.name # ""
  /\ ~(spec.delay = nil /\ spec.abort = nil)
  /\ spec.delay # nil =>
       /\ validatePositiveDuration(spec.delay.fixedDelay)
       /\ validateOptionalUInt32Percent(spec.delay.percentage)
  /\ spec.abort # nil =>
       spec.abort.status \in 400 .. 599 /\ validateOptionalUInt32Percent(spec.abort.percentage)

ValidateFaultInjectionPolicy(spec) ==
  /\ spec.targets # <<>>
  /\ \A t \in Elements(spec.targets) :
       t.kind = "Service" /\ t.group \in {"", "core"} /\ t.name # ""
  /\ ~(spec.delay = nil /\ spec.abort = nil)
  /\ spec.delay # nil =>
       /\ spec.delay.fixedDelay # nil /\ validatePositiveDuration(spec.delay.fixedDelay)
       /\ spec.delay.fixedDelay >= Millisecond
       /\ validateOptionalUInt32Percent(spec.delay.percentage)
  /\ spec.abort # nil =>
       spec.abort.status \in 400 .. 599 /\ validateOptionalUInt32Percent(spec.abort.percentage)

-----------------------------------------------------------------------------
(* Service and workload entries.  A host is [wildcard, name].              *)

validateServiceEntryHost(h) == WellFormed(h.name) /\ h.wildcard \in {"none", "prefix"}
validateWorkloadAddress(h) == h.wildcard = "none" /\ validateServiceEntryHost(h)

Port == 1 .. 65535

\* ports: a sequence of [name, number]; locality: its segments.
validateWorkloadEntry(w) ==
  /\ w # nil /\ validateWorkloadAddress(w.address)
  /\ \A p \in Elements(w.ports) : p.name # "" /\ p.number \in Port
  /\ \A l \in w.labels : WellFormed(l)
  /\ Len(w.locality) <= 3 /\ "" \notin Elements(w.locality)
  /\ w.serviceAccount = "" \/ WellFormed(w.serviceAccount)

ValidateWorkloadEntry(spec) == validateWorkloadEntry(spec)

\* Mutant: the number of a target port is not bounded.
AnyTargetPort(spec) ==
  /\ spec.hosts # <<>> /\ \A h \in Elements(spec.hosts) : validateServiceEntryHost(h)
  /\ \A a \in Elements(spec.addresses) : a \notin Malformed
  /\ spec.ports # <<>> /\ \A p \in Elements(spec.ports) : p.name # "" /\ p.number \in Port
  /\ ~(spec.selector # nil /\ spec.endpoints # <<>>)
  /\ \A i \in DOMAIN spec.endpoints : validateWorkloadEntry(spec.endpoints[i])

ValidateServiceEntry(spec) ==
  /\ spec.hosts # <<>> /\ \A h \in Elements(spec.hosts) : validateServiceEntryHost(h)
  /\ \A a \in Elements(spec.addresses) : a \notin Malformed
  /\ spec.ports # <<>>
  /\ \A p \in Elements(spec.ports) :
       p.name # "" /\ p.number \in Port /\ p.target <= 65535 /\ p.protocol # "Unsupported"
  /\ NoDuplicates([i \in DOMAIN spec.ports |-> spec.ports[i].name])
  /\ NoDuplicates([i \in DOMAIN spec.ports |-> spec.ports[i].number])
  /\ ~(spec.selector # nil /\ spec.endpoints # <<>>)
  /\ validateWorkloadSelector(spec.selector)
  /\ \A i \in DOMAIN spec.endpoints : validateWorkloadEntry(spec.endpoints[i])
  /\ \A x \in Elements(spec.exportTo) : WellFormed(x)
  /\ NoDuplicates(spec.exportTo)

-----------------------------------------------------------------------------
(* Telemetry.  Names are compared without the spaces around them.          *)

ValidProviders(names, supported) ==
  /\ \A n \in Elements(names) : n # "" /\ n \in supported
  /\ NoDuplicates(names)

ValidTags(names) == "" \notin Elements(names) /\ NoDuplicates(names)

telemetryStandardLabels == {"reporter", "grpc_service", "grpc_method", "grpc_response_status"}

ValidLogging(l) ==
  /\ l # nil /\ ValidProviders(l.providers, {"otel"})
  /\ l.mode \in {"UNSPECIFIED", "CLIENT", "SERVER", "CLIENT_AND_SERVER"}
  /\ l.filter # "" /\ ValidTags(l.tags)

\* tags: a sequence of [label, action].
ValidMetrics(m) ==
  /\ m # nil /\ ValidProviders(m.providers, {"prometheus"})
  /\ \A r \in Elements(m.rules) :
       /\ r.metric # "UNSPECIFIED" /\ r.scope # "UNSPECIFIED"
       /\ \A t \in Elements(r.tags) : t.label \in telemetryStandardLabels /\ t.action = "REMOVE"
  /\ NoDuplicates([i \in DOMAIN m.rules |-> <<m.rules[i].metric, m.rules[i].scope>>])

ValidTracing(t) ==
  /\ t # nil /\ "" \notin Elements(t.providers)
  /\ t.sampling = nil \/ t.sampling \in 0 .. 100
  /\ ValidTags(t.tags)

ValidateTelemetry(cfg) ==
  LET spec == cfg.spec
  IN /\ validateWorkloadSelector(spec.selector)
     /\ ~(cfg.namespace = "dubbo-system" /\ spec.selector # nil)
     /\ \A i \in DOMAIN spec.logging : ValidLogging(spec.logging[i])
     /\ \A i \in DOMAIN spec.metrics : ValidMetrics(spec.metrics[i])
     /\ \A i \in DOMAIN spec.tracing : ValidTracing(spec.tracing[i])

\* The kinds whose schema has EmptyValidate: the webhook lets every resource of
\* theirs in, whatever is in its metadata and spec.  Validators for them exist in
\* pkg/config/validation, and only its tests call them.
EmptyValidate ==
  {"AuthorizationPolicy", "CircuitBreakerPolicy", "PeerAuthentication", "RequestAuthentication"}

\* The schema's validator; validateFunc adds the metadata to those that do
\* something.
ValidateConfig(cfg) ==
  \/ cfg.kind \in EmptyValidate
  \/ /\ ValidateMetadata(cfg)
     /\ CASE cfg.kind = "FaultInjectionPolicy" -> ValidateFaultInjectionPolicy(cfg.spec)
          [] cfg.kind = "ServiceEntry" -> ValidateServiceEntry(cfg.spec)
          [] cfg.kind = "WorkloadEntry" -> ValidateWorkloadEntry(cfg.spec)
          [] cfg.kind = "Telemetry" -> ValidateTelemetry(cfg)

-----------------------------------------------------------------------------
(* The consumers.                                                          *)

faultPercentage(p) == IF p = nil THEN 100 ELSE p

\* initFaultInjectionPolicies: the settings of a policy, nil if it has none.
FaultSettings(spec) ==
  LET d == IF spec.delay = nil THEN nil ELSE spec.delay.fixedDelay
      delay == IF d # nil /\ validatePositiveDuration(d) THEN <<d, faultPercentage(spec.delay.percentage)>> ELSE nil
      abort == IF spec.abort # nil /\ (spec.abort = nil \/ spec.abort.status \in 400 .. 599)
                 THEN <<spec.abort.status, faultPercentage(spec.abort.percentage)>> ELSE nil
  IN [delay |-> delay, abort |-> abort]

\* isFaultInjectionServiceTarget
FaultTargets(spec) ==
  {t \in Elements(spec.targets) : t.name # "" /\ t.group \in {"", "core"} /\ t.kind = "Service"}

\* buildEndpoints: an entry that resolves names and has no workloads is its
\* own endpoint.
EndpointsOf(spec) ==
  LET workloads == IF spec.endpoints = <<>> /\ spec.resolution = "DNS"
                     THEN {[address |-> h, ports |-> <<>>] : h \in Elements(spec.hosts)}
                     ELSE {[address |-> w.address, ports |-> w.ports] : w \in Elements(spec.endpoints)}
      own(w, p) == {x.number : x \in {x \in Elements(w.ports) : x.name = p.name}}
      port(w, p) == IF own(w, p) # {} THEN CHOOSE n \in own(w, p) : TRUE
                    ELSE IF p.target # 0 THEN p.target ELSE p.number
  IN {[address |-> w.address, port |-> port(w, p)] : w \in workloads, p \in Elements(spec.ports)}

-----------------------------------------------------------------------------

CONSTANTS
  Objects,  \* what is written: groups of resources
  Setups    \* [group, writers, writes: how often, policy: of the webhook, failures]

VARIABLES
  setup,
  stored,     \* the resources in the cluster, by name
  store,      \* wh.store: what the informers have seen of them
  request,    \* per writer: nil or [op, object, answer]
  admitted,   \* history: names whose present object the webhook allowed
  writes, failures

vars == <<setup, stored, store, request, admitted, writes, failures>>

Names == UNION {{o.name : o \in Objects[g]} : g \in DOMAIN Objects}
Writer == UNION {s.writers : s \in Setups}

Init ==
  /\ setup \in Setups
  /\ stored = [n \in Names |-> nil] /\ store = stored
  /\ request = [w \in Writer |-> nil] /\ admitted = {}
  /\ writes = 0 /\ failures = 0

Submit(w) ==
  /\ request[w] = nil /\ writes < setup.writes /\ writes' = writes + 1
  /\ \E o \in Objects[setup.group] :
       request' = [request EXCEPT ![w] = [op |-> IF stored[o.name] = nil THEN "CREATE" ELSE "UPDATE",
                                          object |-> o, answer |-> "none"]]
  /\ UNCHANGED <<setup, stored, store, admitted, failures>>

\* Without the webhook's help: deletions are always allowed.
Delete(w, n) ==
  /\ request[w] = nil /\ writes < setup.writes /\ writes' = writes + 1
  /\ stored[n] # nil
  /\ stored' = [stored EXCEPT ![n] = nil] /\ admitted' = admitted \ {n}
  /\ UNCHANGED <<setup, store, request, failures>>

MeshLevel(o) == o.kind = "Telemetry" /\ o.namespace = "dubbo-system" /\ o.spec.selector = nil

\* Mutant: an update of a resource meets itself in the store.
UniqueIncludingItself(o) ==
  MeshLevel(o) => \A n \in Names : store[n] = nil \/ ~MeshLevel(store[n])

\* Another mesh-level Telemetry in the store refuses this one.
validateMeshlevelUniqueness(o) ==
  MeshLevel(o) => \A n \in Names : n = o.name \/ store[n] = nil \/ ~MeshLevel(store[n])

\* Only the top-level fields of a Kubernetes object.
checkFields(o) == o.fields \subseteq {"apiVersion", "kind", "metadata", "spec", "status"}

Decodes(o) == o.kind # "unknown" /\ o.decodes

\* One answer of the webhook.
validate(w) ==
  /\ request[w] # nil /\ request[w].answer = "none"
  /\ LET o == request[w].object
         ok == Decodes(o) /\ ValidateConfig(o) /\ validateMeshlevelUniqueness(o) /\ checkFields(o)
     IN request' = [request EXCEPT ![w].answer = IF ok THEN "allowed" ELSE "denied"]
  /\ UNCHANGED <<setup, stored, store, admitted, writes, failures>>

\* The webhook cannot be reached: the failure policy answers.
CallFails(w) ==
  /\ request[w] # nil /\ request[w].answer = "none" /\ failures < setup.failures
  /\ failures' = failures + 1
  /\ request' = [request EXCEPT ![w].answer = IF setup.policy = "Ignore" THEN "ignored" ELSE "denied"]
  /\ UNCHANGED <<setup, stored, store, admitted, writes>>

Persist(w) ==
  /\ request[w] # nil /\ request[w].answer # "none"
  /\ LET r == request[w]
         n == r.object.name
     IN IF r.answer = "denied" \/ (r.op = "CREATE") # (stored[n] = nil)
          THEN UNCHANGED <<stored, admitted>>
          ELSE /\ stored' = [stored EXCEPT ![n] = r.object]
               /\ admitted' = IF r.answer = "allowed" THEN admitted \cup {n} ELSE admitted \ {n}
  /\ request' = [request EXCEPT ![w] = nil]
  /\ UNCHANGED <<setup, store, writes, failures>>

UpdateStore(n) ==
  /\ store[n] # stored[n] /\ store' = [store EXCEPT ![n] = stored[n]]
  /\ UNCHANGED <<setup, stored, request, admitted, writes, failures>>

Next ==
  \/ \E w \in setup.writers :
       \/ Submit(w)
       \/ \E n \in Names : Delete(w, n)
       \/ validate(w) \/ CallFails(w) \/ Persist(w)
  \/ \E n \in Names : UpdateStore(n)

Spec == Init /\ [][Next]_vars

-----------------------------------------------------------------------------
(* Properties.                                                             *)

\* The types of the cluster, the store and the requests.
TypeOK ==
  /\ \A n \in Names : stored[n] # nil => stored[n].name = n
  /\ \A w \in Writer : request[w] # nil =>
       request[w].answer \in {"none", "allowed", "denied", "ignored"}
  /\ admitted \subseteq {n \in Names : stored[n] # nil}

Accepted(kind) == {stored[n].spec : n \in {n \in admitted : stored[n].kind = kind}}

\* What the webhook lets in of the kinds it validates, the consumers apply in
\* full: a fault policy has its delay and its abort in the index of the snapshot
\* for every target it names, and every endpoint a service entry yields has a
\* port that exists.  Of the kinds of EmptyValidate nothing is promised: they are
\* let in as they are.
AcceptedIsApplied ==
  /\ \A spec \in Accepted("FaultInjectionPolicy") :
       /\ FaultTargets(spec) = Elements(spec.targets)
       /\ (spec.delay # nil) = (FaultSettings(spec).delay # nil)
       /\ (spec.abort # nil) = (FaultSettings(spec).abort # nil)
  /\ \A spec \in Accepted("ServiceEntry") : \A e \in EndpointsOf(spec) : e.port \in Port

\* A Telemetry that is admitted once may be written again as it is: the
\* resource in the store is no reason to refuse its own update.
UpdatesAllowed ==
  \A w \in Writer : request[w] # nil =>
    LET o == request[w].object
    IN request[w].answer = "denied" /\ failures = 0 /\ store = stored /\ o.name \in admitted
         /\ (\A n \in Names \ {o.name} : stored[n] = nil)
       => stored[o.name] # o

\* "only one meshlevel Telemetry is allowed in namespace": no two of the
\* Telemetry resources the webhook allowed are mesh-level.
MeshlevelUnique ==
  \A m, n \in admitted : MeshLevel(stored[m]) /\ MeshLevel(stored[n]) => m = n

\* "ValidateServiceEntry checks that a ServiceEntry can be converted into
\* services and endpoints": no endpoint of an accepted entry has a wildcard
\* for its address.
EntriesRoutable ==
  \A spec \in Accepted("ServiceEntry") : \A e \in EndpointsOf(spec) : e.address.wildcard = "none"

-----------------------------------------------------------------------------
(* The mutating webhook of pkg/kube/inject: which Pods it injects, how the *)
(* templates are laid over a Pod, what is then added to its containers,    *)
(* and how it follows its configuration (webhook.go, inject.go,            *)
(* watcher.go).                                                            *)
(*                                                                         *)
(* A container is [name, image, boot, mount, metrics]: whether it has an   *)
(* image, the bootstrap variable (none, another value, or the path), the   *)
(* mount of the xDS volume, and the metrics settings.  A rendered template *)
(* is the containers it overlays, laid only over a Pod that has none of    *)
(* the containers `unless`.  Where strategic merge puts a container the    *)
(* Pod does not have is left open (`front`).                               *)

CONSTANTS
  Pods,       \* the Pods sent to the webhook
  Generations,\* [config, parses]: injection configurations, and whether the values beside them parse
  Starts      \* [front, files]: the merge order and the generations the files go through

VARIABLES
  start,
  disk,       \* the generation in the files or the ConfigMap
  config,     \* Webhook.Config
  values,     \* the generation of Webhook.valuesConfig, 0 for none
  event,      \* a file event is pending
  timer,      \* timerC of fileWatcher.Run
  pod, out, again   \* an admission request, its answer, and the answer for that Pod

injectionVars == <<start, disk, config, values, event, timer, pod, out, again>>

Triple == "triple-engine"
IgnoredNamespaces == {"kube-system"}
Default == [name |-> "", image |-> FALSE, boot |-> "", mount |-> FALSE, metrics |-> FALSE]

(***************************************************************************)
(* Whether a Pod is injected, and with which templates.                    *)
(***************************************************************************)
injectRequired(c, p) ==
  LET selector == IF p.label # nil THEN p.label ELSE p.inject
  IN /\ ~p.hostNetwork
     /\ p.namespace \notin IgnoredNamespaces
     /\ p.inject # "false"
     /\ \/ c.policy \in {"enabled", "disabled"} /\ selector = "true"
        \/ c.policy = "enabled" /\ selector \notin {"true", "false"}

resolveAliases(c, names) ==
  FlattenSeq([i \in 1..Len(names) |-> IF names[i] \in DOMAIN c.aliases THEN c.aliases[names[i]] ELSE <<names[i]>>])

selectTemplates(c, p) == resolveAliases(c, IF p.templates # nil THEN p.templates ELSE c.defaultTemplates)

(***************************************************************************)
(* Rendering.                                                              *)
(***************************************************************************)
InjectionNames(cs) == {cs[i].name : i \in 1..Len(cs)}
Without(cs, names) == SelectSeq(cs, LAMBDA c : c.name \notin names)

\* What a template sees: the containers an earlier injection noted in the
\* status annotation are left out.
stripPod(p) == IF p.status = nil THEN p ELSE [p EXCEPT !.containers = Without(@, p.status), !.status = nil]

\* The overrides annotation (nil: it does not parse) brings back containers.
reinsertOverrides(p) ==
  IF p.overrides = nil THEN nil
  ELSE [p EXCEPT !.containers = @ \o SelectSeq(p.overrides, LAMBDA c : c.name \notin InjectionNames(p.containers))]

Merge(c, o) == [c EXCEPT !.image = @ \/ o.image, !.boot = IF o.boot # "" THEN o.boot ELSE @, !.mount = @ \/ o.mount]

\* Strategic merge: containers with the same name are merged in place.
applyOverlayYAML(cs, overlay) ==
  LET merged == [i \in 1..Len(cs) |->
                   LET o == SelectSeq(overlay, LAMBDA x : x.name = cs[i].name)
                   IN IF o = <<>> THEN cs[i] ELSE Merge(cs[i], o[1])]
      new == SelectSeq(overlay, LAMBDA x : x.name \notin InjectionNames(cs))
  IN IF start.front THEN new \o merged ELSE merged \o new

Rendered(t, seen) == IF InjectionNames(seen.containers) \cap t.unless # {} THEN <<>> ELSE t.containers

\* RunTemplate: [merged, template], or nil on an error.
RunTemplate(c, p) ==
  LET seen == reinsertOverrides(stripPod(p))
      names == selectTemplates(c, p)
      Lay(cs) == FoldSeq(LAMBDA n, acc : applyOverlayYAML(acc, Rendered(c.templates[n], seen)), cs, names)
  IN IF seen = nil \/ values = 0 \/ \E i \in 1..Len(names) : names[i] \notin DOMAIN c.templates THEN nil
     ELSE [merged |-> Lay(p.containers), template |-> Lay(<<>>)]

removeTemplateOnlyContainers(p, r) ==
  LET only == {r.template[i].name : i \in {j \in 1..Len(r.template) : ~r.template[j].image}} \ InjectionNames(p.containers)
  IN Without(r.merged, only)

\* Mutant: the template is noted whether or not it already is.
AppendTemplate(templates) == IF templates = nil THEN <<Triple>> ELSE Append(templates, Triple)

ensureInherentTemplateAnnotation(templates) ==
  IF templates = nil \/ templates = <<"">> THEN <<Triple>>
  ELSE IF Contains(templates, Triple) THEN templates
  ELSE Append(templates, Triple)

\* Pod names are allocated from the prefix and the UID of the request.
inherentXDSPodName(p) == <<p.generateName, p.requestUID>>
InherentXDSSecretName(podName) == <<"dubbo-xds", podName>>

ensureContainer(c) == [c EXCEPT !.boot = IF @ = "" THEN "path" ELSE @, !.mount = TRUE]

\* Name, volume, environment, mount and port of the application containers; nil on an error.
addApplicationContainerConfig(p) ==
  LET name == IF p.name = <<>> THEN inherentXDSPodName(p) ELSE p.name
      cs == [i \in 1..Len(p.containers) |-> [ensureContainer(p.containers[i]) EXCEPT !.metrics = @ \/ i = 1]]
  IN IF p.name = <<>> /\ (p.generateName = "" \/ p.requestUID = "") THEN nil
     ELSE [p EXCEPT !.name = name, !.volume = InherentXDSSecretName(name), !.containers = cs]

postProcessPod(c, p, r) ==
  LET q == [p EXCEPT !.containers = removeTemplateOnlyContainers(p, r)]
  IN IF ~Contains(selectTemplates(c, p), Triple) THEN q
     ELSE addApplicationContainerConfig([q EXCEPT !.templates = ensureInherentTemplateAnnotation(@)])

Rejected == [allowed |-> FALSE, injected |-> FALSE, pod |-> nil]

\* The patch turns the Pod of the request into the result.
injectPod(c, p) ==
  IF ~injectRequired(c, p) THEN [allowed |-> TRUE, injected |-> FALSE, pod |-> p]
  ELSE LET r == RunTemplate(c, p)
           q == IF r = nil THEN nil ELSE postProcessPod(c, p, r)
       IN IF q = nil THEN Rejected ELSE [allowed |-> TRUE, injected |-> TRUE, pod |-> q]

(***************************************************************************)
(* The webhook and its configuration.                                      *)
(***************************************************************************)
\* NewWebhook does not start when the configuration cannot be read.
InjectionInit ==
  /\ start \in Starts /\ disk = 1
  /\ config = Generations[start.files[1]].config
  /\ Generations[start.files[1]].parses /\ values = 1
  /\ event = FALSE /\ timer = FALSE
  /\ pod = nil /\ out = nil /\ again = nil

ChangeFiles ==
  /\ disk < Len(start.files) /\ disk' = disk + 1 /\ event' = TRUE
  /\ UNCHANGED <<start, config, values, timer, pod, out, again>>

\* Events are debounced.
FileEvent ==
  /\ event /\ event' = FALSE /\ timer' = TRUE
  /\ UNCHANGED <<start, disk, config, values, pod, out, again>>

\* The configuration is installed before the values are parsed.
updateConfig(g) ==
  /\ config' = g.config
  /\ values' = IF g.parses THEN disk ELSE values

\* NewWebhook hands its watcher no handler (SetHandler has no caller).
HandlerSet == FALSE

FileTimer ==
  /\ timer /\ timer' = FALSE
  /\ IF HandlerSet THEN updateConfig(Generations[start.files[disk]]) ELSE UNCHANGED <<config, values>>
  /\ UNCHANGED <<start, disk, event, pod, out, again>>

Admit(p) ==
  /\ out = nil /\ pod' = p /\ out' = injectPod(config, p)
  /\ UNCHANGED <<start, disk, config, values, event, timer, again>>

\* The API server calls the webhook again for the Pod it was given.
Readmit ==
  /\ out # nil /\ again = nil /\ out.injected
  /\ again' = injectPod(config, out.pod)
  /\ UNCHANGED <<start, disk, config, values, event, timer, pod, out>>

InjectionNext == ChangeFiles \/ FileEvent \/ FileTimer \/ Readmit \/ \E p \in Pods : Admit(p)

InjectionSpec == InjectionInit /\ [][InjectionNext]_vars /\ WF_vars(FileEvent) /\ WF_vars(FileTimer)

InjectionTypeOK ==
  /\ disk \in 1..Len(start.files) /\ values \in 0..disk /\ event \in BOOLEAN /\ timer \in BOOLEAN
  /\ out = nil \/ (out.allowed \in BOOLEAN /\ out.injected \in BOOLEAN)

\* isInherentTriplePod of the controller that writes the Secrets.
Managed(p) == (p.templates # nil /\ Contains(p.templates, Triple)) \/ \E i \in 1..Len(p.containers) : p.containers[i].boot = "path"

(* InjectedPodsServed: a Pod injected with the triple-engine template is one *)
(* the credentials controller manages, has a name, mounts in each of its     *)
(* containers the Secret that controller writes for it, and gained no        *)
(* container without an image; injecting it again changes nothing            *)
(* (postProcessPod, addApplicationContainerConfig).                          *)
InjectedPodsServed ==
  /\ (out # nil /\ out.injected /\ Contains(selectTemplates(config, pod), Triple)) =>
       /\ Managed(out.pod) /\ out.pod.name # <<>> /\ out.pod.volume = InherentXDSSecretName(out.pod.name)
       /\ \A i \in 1..Len(out.pod.containers) :
            out.pod.containers[i].mount /\ (out.pod.containers[i].image \/ out.pod.containers[i].name \in InjectionNames(pod.containers))
  /\ (again # nil) => again = [allowed |-> TRUE, injected |-> TRUE, pod |-> out.pod]

(* ConfigFollowed: what the files say reaches the webhook (fileWatcher.Run   *)
(* watches their directory to catch updates).                                *)
ConfigFollowed == (~event /\ ~timer) => config = Generations[start.files[disk]].config
=============================================================================
