----------------------------- MODULE Registries -----------------------------
(***************************************************************************)
(* The two registries behind the aggregate controller                      *)
(* (dubbod/discovery/pkg/serviceregistry/aggregate/controller.go), in the  *)
(* order the server adds them, the endpoint index they share, and the      *)
(* pushes: a full push takes the services and their accounts into a new    *)
(* push context, and every push sends the endpoints the index has for the  *)
(* context's service.                                                      *)
(***************************************************************************)
EXTENDS EndpointIndex, KubeRegistry

-----------------------------------------------------------------------------
(* The service-entry registry                                              *)
(* (dubbod/discovery/pkg/serviceregistry/serviceentry/controller.go) for   *)
(* one hostname: ServiceEntries and WorkloadEntries of the config store,   *)
(* and reconcile, which the store's event handlers and Run call.           *)

CONSTANTS
  external,     \* the registry
  Entry,        \* ServiceEntries with the host, oldest first, as numbers
  EntryNs,      \* their namespaces
  EntrySpecs,   \* [port, accounts, inline]: inline = nil selects workloads
  WorkloadSpecs  \* [ns, endpoint]: the WorkloadEntry the selector finds, as an endpoint

ASSUME RegistriesAssumption ==
  /\ {kube, external} \subseteq Registry /\ kube # external
  /\ HomeNs \in Ns /\ Entry \subseteq Nat /\ \A e \in Entry : EntryNs[e] \in Ns
  /\ MaxObjects \in Nat /\ nil \notin Nat

VARIABLES
  entries,      \* per entry: its spec, nil when absent
  workload,     \* the WorkloadEntry, nil when absent
  due,          \* events of the store whose handler has not run
  ran,          \* Run has called reconcile
  reconciling,  \* nil, or the entries a reconcile listed: it holds reconcileMu
  services,     \* the service of the hostname: [ns, port, accounts], nil when absent
  endpoints,    \* its endpoints
  entryChanges  \* bound: the changes to come

entryVars == <<entries, workload, due, ran, reconciling, services, endpoints, entryChanges>>

\* The registry is started with entries already there.
ServiceEntriesInit(initial) ==
  /\ entries = initial.entries /\ workload = initial.workload
  /\ due = 0 /\ ran = initial.up /\ reconciling = nil
  /\ services = nil /\ endpoints = {}

ChangeEntry(e, v) ==
  /\ entryChanges > 0 /\ v # entries[e]
  /\ entries' = [entries EXCEPT ![e] = v]
  /\ due' = due + 1 /\ entryChanges' = entryChanges - 1
  /\ UNCHANGED <<workload, ran, reconciling, services, endpoints, calls>>

ChangeWorkload(v) ==
  /\ entryChanges > 0 /\ v # workload
  /\ workload' = v
  /\ due' = due + 1 /\ entryChanges' = entryChanges - 1
  /\ UNCHANGED <<entries, ran, reconciling, services, endpoints, calls>>

\* The oldest entry that has the host.
Winner(all) ==
  LET there == {e \in Entry : all[e] # nil}
  IN IF there = {} THEN nil ELSE CHOOSE e \in there : \A d \in there : e <= d

convertService(all, e) ==
  IF e = nil THEN nil ELSE [ns |-> EntryNs[e], port |-> all[e].port, accounts |-> all[e].accounts]

\* The entry's own endpoints, or the workloads of its namespace it selects.
selectWorkloads(all, e) ==
  IF all[e].inline # nil THEN all[e].inline
  ELSE IF workload # nil /\ workload.ns = EntryNs[e] THEN {workload.endpoint} ELSE {}

\* The endpoints carry the port's name of the entry.
buildEndpoints(all, e) ==
  IF e = nil THEN {}
  ELSE {[w EXCEPT !.port = all[e].port, !.key = <<w.key[1], all[e].port>>] :
          w \in selectWorkloads(all, e)}

Locked == reconciling # nil \/ calls[external] # <<>>

\* reconcile, called by Run or by a handler, lists the entries under its mutex.
ListEntries ==
  /\ ~Locked
  /\ \/ ~ran /\ ran' = TRUE /\ UNCHANGED due
     \/ due > 0 /\ due' = due - 1 /\ UNCHANGED ran
  /\ reconciling' = entries
  /\ UNCHANGED <<entries, workload, services, endpoints, calls, entryChanges>>

\* Mutant: a service that moved is not removed from its old namespace.
MovedInPlace(old, new, eps) == <<EDSUpdateCall(new.ns, eps)>>

Moved(old, new, eps) ==
  <<ServiceDeleteCall(old.ns), EDSUpdateCall(old.ns, {}), EDSUpdateCall(new.ns, eps)>>

\* The calls that tell the server of the difference.
Updates(old, new, oldEndpoints, newEndpoints) ==
  CASE old = nil /\ new = nil -> <<>>
    [] old = nil /\ new # nil -> <<EDSUpdateCall(new.ns, newEndpoints)>>
    [] old # nil /\ new = nil -> <<ServiceDeleteCall(old.ns), EDSUpdateCall(old.ns, {})>>
    [] old # nil /\ new # nil ->
         IF old.ns # new.ns
         THEN Moved(old, new, newEndpoints)
         ELSE IF oldEndpoints # newEndpoints THEN <<EDSUpdateCall(new.ns, newEndpoints)>>
         ELSE <<>>

\* It lists the workloads, swaps the services and endpoints, and goes through
\* the differences.
reconcile ==
  /\ reconciling # nil
  /\ LET e == Winner(reconciling)
         new == convertService(reconciling, e)
         built == buildEndpoints(reconciling, e)
     IN /\ services' = new /\ endpoints' = built
        /\ calls' = [calls EXCEPT ![external] = Updates(services, new, endpoints, built)]
  /\ reconciling' = nil
  /\ UNCHANGED <<entries, workload, due, ran, entryChanges>>

EntriesQuiet == ran /\ due = 0 /\ ~Locked

\* Once every handler has run, each namespace has the endpoints of the service
\* the oldest entry defines there, and the others have none (reconcile).
EntriesReported ==
  EntriesQuiet =>
    \A n \in Ns : wanted[external][n] =
      LET e == Winner(entries)
      IN IF e # nil /\ EntryNs[e] = n THEN buildEndpoints(entries, e) ELSE {}

-----------------------------------------------------------------------------

CONSTANTS
  Proxy,    \* pods a proxy asks its service targets for
  Starts    \* the objects there at the start, with bounds on the changes to come:
            \* [svc, pod, using, entries, workload, up, changes, entryChanges]

\* The registries are started with objects already there, or are up with none;
\* nil is none of the values.
ASSUME StartsAssumption ==
  /\ IsFiniteSet(Pod) /\ IsFiniteSet(Slice) /\ nil \notin IP /\ nil \notin PodSpecs
  /\ \A v \in PodSpecs : v.ip \in IP \cup {nil} /\ v.live \in BOOLEAN /\ v.ready \in BOOLEAN
  /\ nil \notin [Entry -> EntrySpecs \cup {nil}]
  /\ nil \notin [ns : Ns, port : {s.port : s \in EntrySpecs}, accounts : {s.accounts : s \in EntrySpecs}]
  /\ \A start \in Starts :
       /\ start.pod \in [Pod -> PodSpecs \cup {nil}] /\ start.entries \in [Entry -> EntrySpecs \cup {nil}]
       /\ start.up => \A e \in Entry : start.entries[e] = nil

VARIABLES
  context,   \* the push context: [service, accounts]
  sent,      \* the endpoints the clients were sent last
  silent     \* history: a shard was dropped since the last push

pushVars == <<context, sent, silent>>
vars == <<indexVars, kubeVars, entryVars, pushVars>>

-----------------------------------------------------------------------------
(* The aggregate controller *)

\* GetService and Services: the Kubernetes service, or the entry's, with the
\* accounts an entry adds.
GetService ==
  IF servicesMap = nil THEN services
  ELSE [ns |-> servicesMap.ns, port |-> servicesMap.port,
        accounts |-> servicesMap.accounts \cup IF services = nil THEN {} ELSE services.accounts]

\* Mutant: the name of a target port is not looked up in the containers.
TargetsByNumber(p) ==
  IF servicesMap = nil THEN {}
  ELSE {[name |-> servicesMap.port,
         target |-> IF store.svc # nil /\ store.svc.target.name = nil THEN store.svc.target.num
                    ELSE servicesMap.number]}

\* The target ports a proxy on a pod is given (GetProxyServiceTargets): of the
\* service that selects the pod found under its address, with the port of its
\* containers.
GetProxyServiceTargets(p) ==
  LET pod == store.pod[p]
      found == pod # nil /\ pod.ip # nil /\ p \in podsByIP[pod.ip]
  IN IF servicesMap = nil \/ (found /\ pod.labels \notin servicesMap.selector) THEN {}
     ELSE {[name |-> servicesMap.port,
            target |-> IF store.svc # nil /\ store.svc.name = servicesMap.port
                          /\ store.svc.port = servicesMap.number
                          /\ (store.svc.target.name = nil
                              \/ (found /\ store.svc.target.name \in DOMAIN ContainerPorts))
                       THEN TargetPort(store.svc.target) ELSE servicesMap.number]}

-----------------------------------------------------------------------------
(* The pushes *)

\* initServiceRegistry and initServiceAccounts.
NewContext ==
  LET svc == GetService
  IN [service |-> svc, accounts |-> IF svc = nil THEN {} ELSE svc.accounts \cup ShardAccounts(svc.ns)]

\* BuildClusterLoadAssignment: the endpoints with the name of the service's port.
LoadAssignment(ctx) ==
  IF ctx.service = nil THEN {}
  ELSE {e \in ShardsForService(ctx.service.ns) : e.port \in {ctx.service.port, nil}}

\* Only a full push makes a new context.
Push ==
  /\ queued # "none"
  /\ context' = IF queued = "full" THEN NewContext ELSE context
  /\ sent' = LoadAssignment(context')
  /\ queued' = "none" /\ silent' = FALSE
  /\ UNCHANGED <<index, objects, made, registry, calls, wanted, kubeVars, entryVars>>

-----------------------------------------------------------------------------
Init ==
  /\ IndexInit
  /\ \E start \in Starts :
       /\ KubeInit(start) /\ changes = start.changes
       /\ ServiceEntriesInit(start) /\ entryChanges = start.entryChanges
  /\ context = [service |-> nil, accounts |-> {}] /\ sent = {} /\ silent = FALSE

indexOnly == <<index, objects, made, registry, wanted, queued>>
KubeStep == UNCHANGED <<indexOnly, entryVars, pushVars>>
EntryStep == UNCHANGED <<indexOnly, kubeVars, pushVars>>
IndexStep == UNCHANGED <<kubeVars, entryVars, context, sent>>

KChangeService == (\E v \in ServiceSpecs \cup {nil} : ChangeService(v)) /\ KubeStep
KChangePod == (\E p \in Pod, v \in PodSpecs \cup {nil} : ChangePod(p, v)) /\ KubeStep
KChangeSlices == ChangeSlices /\ KubeStep
KList == (\E k \in Kinds : List(k)) /\ KubeStep
KInform == (\E k \in Kinds : \E key \in Keys(k) : Inform(k, key)) /\ KubeStep
KPushEvent == (\E k \in Kinds : PushEvent(k)) /\ KubeStep
KRun == Run /\ KubeStep
KProcessSync == ProcessSync /\ KubeStep
KProcessService == ProcessService /\ KubeStep
KProcessSlice == ProcessSlice /\ KubeStep
KProcessPod == ProcessPod /\ KubeStep
EChangeEntry == (\E e \in Entry, v \in EntrySpecs \cup {nil} : ChangeEntry(e, v)) /\ EntryStep
EChangeWorkload == (\E v \in WorkloadSpecs \cup {nil} : ChangeWorkload(v)) /\ EntryStep
EListEntries == ListEntries /\ EntryStep
EReconcile == reconcile /\ EntryStep
IEmpty == (\E r \in Registry : EDSUpdateEmpty(r)) /\ IndexStep /\ UNCHANGED silent
IGetOrCreate == (\E r \in Registry : GetOrCreateEndpointShard(r)) /\ IndexStep /\ UNCHANGED silent
IUpdate == (\E r \in Registry : UpdateServiceEndpoints(r)) /\ IndexStep /\ UNCHANGED silent
IDelete == (\E r \in Registry : ServiceDelete(r)) /\ IndexStep /\ silent' = TRUE

Next ==
  \/ KChangeService \/ KChangePod \/ KChangeSlices \/ KList \/ KInform \/ KPushEvent
  \/ KRun \/ KProcessSync \/ KProcessService \/ KProcessSlice \/ KProcessPod
  \/ EChangeEntry \/ EChangeWorkload \/ EListEntries \/ EReconcile
  \/ IEmpty \/ IGetOrCreate \/ IUpdate \/ IDelete
  \/ Push

Spec == Init /\ [][Next]_vars

Quiet == queued = "none" /\ \A r \in Registry : registry[r].at = "idle" /\ calls[r] = <<>>
Usable(eps) == {e \in eps : e.healthy \/ e.sendUnhealthy}

\* The service of the push context is the one the registries have.
ContextCurrent == context.service = GetService

\* "Always push EDS updates when endpoints change state": once the pushes are
\* done, the clients have the usable endpoints every registry reported last for
\* the service of the push context, unless a deleted service dropped them after
\* the last push (EDSUpdate).
ClientsUpdated ==
  Quiet /\ ~silent /\ ContextCurrent /\ context.service # nil =>
    Usable(sent) = Usable({e \in UNION {wanted[r][context.service.ns] : r \in Registry} :
                             e.port \in {context.service.port, nil}})

\* "We should do a full push if they have changed": once the pushes are done,
\* the push context has the account of every endpoint the clients may call.
AccountsPushed ==
  Quiet /\ ContextCurrent => Accounts(Usable(sent)) \subseteq context.accounts

\* "we do a full push on service add/update": once the pushes are done, the push
\* context has the service as the registries have it (addOrUpdateService).
ServicesPushed == Quiet => ContextCurrent

\* The port a proxy is told to serve is the one others are told to call: for a
\* ready pod, the target of each endpoint the registry reports is a target its
\* proxy is given (updateEndpointCacheForSlice, GetProxyServiceTargets).
TargetsAgree ==
  KubeQuiet /\ ~Known(unseen) /\ ~dropped => \A p \in Proxy :
    api.pod[p] # nil /\ api.pod[p].ready /\ shouldPodBeInEndpoints(api.pod[p]) =>
      \A e \in wanted[kube][HomeNs] : e.key[1] = api.pod[p].ip =>
        [name |-> e.port, target |-> e.target] \in GetProxyServiceTargets(p)

\* Once its events are processed, the Kubernetes registry has reported the
\* endpoints of the cluster, and all of those there at the start before it says
\* that it has synced; the ports it gives to proxies are the ones it reports.
RegistriesReport == EndpointsCurrent /\ SyncedMeansReported /\ TargetsAgree

\* Once their events are processed, what the registries keep is what there is:
\* every ready pod is found under its address in the pod cache (PodCache), and
\* the service entry registry has reported, in each namespace, the endpoints of
\* the oldest entry (reconcile).
RegistriesSettle == PodsFound /\ EntriesReported

\* Once the pushes are done, the clients have the usable endpoints the registries
\* reported last, and the push context the account of every one of them
\* (EDSUpdate, "We should do a full push if they have changed").
ReportsReachClients == ClientsUpdated /\ AccountsPushed

-----------------------------------------------------------------------------
(* The instance TLC checks: a pod and a service of the cluster, two entries. *)

CONSTANTS p, q, i, j

MCService(target, name, publish) ==
  [port |-> 80, target |-> target, name |-> name, publish |-> publish, selector |-> {"v1", "v2"}]
MCServiceSpecs == {MCService([num |-> 0, name |-> "web"], "http", FALSE), MCService([num |-> 90, name |-> nil], "grpc", TRUE)}
MCContainerPorts == [web |-> 81]

PodState(ip, live, ready, labels) ==
  [ip |-> ip, live |-> live, ready |-> ready, labels |-> labels, account |-> "p"]
MCPodSpecs == {PodState(nil, TRUE, FALSE, "v1"), PodState(i, TRUE, FALSE, "v1"), PodState(i, TRUE, TRUE, "v1"),
               PodState(i, TRUE, TRUE, "v2"), PodState(j, TRUE, TRUE, "v1"), PodState(nil, FALSE, FALSE, "v1")}

EntryEndpoint(address, healthy, account) ==
  [key |-> <<address, nil>>, port |-> nil, target |-> 90, healthy |-> healthy,
   sendUnhealthy |-> FALSE, labels |-> "v1", account |-> account]
MCEntrySpecs == {[port |-> "http", accounts |-> {"z"}, inline |-> {EntryEndpoint("e", TRUE, "x")}],
                 [port |-> "http", accounts |-> {}, inline |-> nil]}
MCWorkloadSpecs == {[ns |-> "a", endpoint |-> EntryEndpoint("w", TRUE, "y")],
                    [ns |-> "a", endpoint |-> EntryEndpoint("w", FALSE, "y")]}
Start(svc, pod, slices, first, second, workload_, up, k, e) ==
  [svc |-> svc, pod |-> [x \in Pod |-> pod], entries |-> <<first, second>>, workload |-> workload_,
   using |-> slices, up |-> up, changes |-> k, entryChanges |-> e]
Http == MCService([num |-> 0, name |-> "web"], "http", FALSE)
Inline == [port |-> "http", accounts |-> {"z"}, inline |-> {EntryEndpoint("e", TRUE, "x")}]
Selecting == [port |-> "http", accounts |-> {}, inline |-> nil]
MCStarts ==
  {Start(nil, nil, {1}, nil, nil, nil, TRUE, 2, 0),
   Start(Http, nil, {1}, nil, nil, nil, TRUE, 2, 0),
   Start(nil, PodState(i, TRUE, TRUE, "v1"), {1}, nil, nil, nil, TRUE, 2, 0)}
  \cup {Start(Http, PodState(i, TRUE, TRUE, "v1"), {1, 2}, nil, nil, nil, FALSE, 1, 0),
        Start(Http, PodState(i, TRUE, FALSE, "v1"), {1}, nil, nil, nil, FALSE, 1, 0)}
  \cup {Start(nil, nil, {1}, Inline, Selecting, w, FALSE, 0, 2) : w \in MCWorkloadSpecs \cup {nil}}
  \cup {Start(Http, PodState(i, TRUE, TRUE, "v1"), {1}, Selecting, nil, w, FALSE, 0, 1) :
          w \in MCWorkloadSpecs}
MCEntryNs == <<"a", "b">>
=============================================================================
