---------------------------- MODULE KubeRegistry ----------------------------
(***************************************************************************)
(* The Kubernetes service registry                                         *)
(* (dubbod/discovery/pkg/serviceregistry/kube) for one service: the        *)
(* informers of services, pods and endpoint slices, the controller's work  *)
(* queue, the pod cache and the endpoint slice cache.  The handlers of     *)
(* the registry never fail, so a task of the queue runs once.              *)
(*                                                                         *)
(* The API server's objects and its endpoint slice controller are the      *)
(* environment.  An informer's store takes an object over, and its         *)
(* listener then pushes the event to the queue: the store may be ahead of  *)
(* the events, and the three kinds advance independently.                  *)
(***************************************************************************)
EXTENDS EndpointIndex, Functions

CONSTANTS
  kube,          \* the registry
  HomeNs,        \* the namespace of the service
  Pod, Slice, IP,
  ServiceSpecs,  \* [port, target, name, publish, selector]: target is [num, name], a name or nil
  PodSpecs,      \* [ip, live, ready, labels, account]: live unless terminal or being deleted
  ContainerPorts \* named ports of the containers

VARIABLES
  api,          \* [svc, pod, slice, using]: the objects of the API server, nil when absent,
                \* and the slices its endpoint slice controller uses
  store,        \* the informers' stores, the same way
  notes,        \* per kind: the events its listener has yet to push to the queue
  listing,      \* per kind: nil, or the events of the first list yet to push
  queue,        \* tasks
  running,      \* queue.Run was called
  initialSync,  \* the queue has synced; HasSynced also answers yes after a timeout
  servicesMap,  \* the model.Service of the hostname, nil when absent
  cache,        \* per slice: the endpoints of endpointsByServiceAndSlice
  podsByIP, ipByPods, needResync,
  changes,      \* bound: the changes of services and pods to come
  touched,      \* history: something changed since the start
  unseen,       \* history: the slices the service changed for since they were built
  relabelled,   \* history: those a pod's labels changed for, when it or the service was not cached
  dropped       \* history: the shard was dropped since the last slice event

kubeVars == <<api, store, notes, listing, queue, running, initialSync, servicesMap, cache,
              podsByIP, ipByPods, needResync, changes, touched, unseen, relabelled, dropped>>

NoObjects == [svc |-> nil, pod |-> [p \in Pod |-> nil], slice |-> [s \in Slice |-> nil]]
StoreCurrent == \A k \in {"svc", "pod", "slice"} : store[k] = api[k]
Kinds == {"svc", "pod", "slice"}

\* The orders the elements of a set may come in.
Orders(S) == Bijection(1..Cardinality(S), S)

-----------------------------------------------------------------------------
(* The environment: Kubernetes *)

\* The number a service port leads to on a pod; 0 when its name is unknown.
TargetPort(target) ==
  IF target.name = nil THEN target.num
  ELSE IF target.name \in DOMAIN ContainerPorts THEN ContainerPorts[target.name] ELSE 0

Matches(svc, pod) == pod.labels \in svc.selector

\* The endpoints of the service, as the endpoint slice controller sees them.
SliceEndpoints(o) ==
  {[ip |-> o.pod[p].ip, ref |-> p, ready |-> o.pod[p].ready] :
     p \in {q \in Pod : o.pod[q] # nil /\ o.pod[q].live /\ o.pod[q].ip # nil
                        /\ Matches(o.svc, o.pod[q])}}
SlicePort(o) == [num |-> TargetPort(o.svc.target), name |-> o.svc.name]
NewSlice(o, eps) == [port |-> SlicePort(o), endpoints |-> eps]

\* The slices share the endpoints out, none is in two of them.
SlicesCurrent(o) ==
  LET slices == {s \in Slice : o.slice[s] # nil}
  IN IF o.svc = nil THEN slices = {}
     ELSE /\ slices # {}
          /\ \A s \in slices : o.slice[s].port = SlicePort(o)
          /\ UNION {o.slice[s].endpoints : s \in slices} = SliceEndpoints(o)
          /\ \A s, t \in slices : s # t => o.slice[s].endpoints \cap o.slice[t].endpoints = {}

\* What the controller's goroutine leaves alone.
Unprocessed == UNCHANGED <<servicesMap, cache, podsByIP, ipByPods, needResync, calls, initialSync>>

informerVars == <<store, notes, listing, queue, running>>

ChangeService(v) ==
  /\ changes > 0 /\ v # api.svc
  /\ api' = [api EXCEPT !.svc = v] /\ changes' = changes - 1 /\ touched' = TRUE
  /\ unseen' = Slice
  /\ Unprocessed /\ UNCHANGED <<informerVars, relabelled, dropped>>

ChangePod(p, v) ==
  /\ changes > 0 /\ v # api.pod[p]
  /\ api' = [api EXCEPT !.pod[p] = v] /\ changes' = changes - 1 /\ touched' = TRUE
  /\ Unprocessed /\ UNCHANGED <<informerVars, unseen, relabelled, dropped>>

\* The endpoint slice controller writes slices, or removes them.
ChangeSlices ==
  /\ ~SlicesCurrent(api)
  /\ LET values == IF api.svc = nil THEN {nil}
                   ELSE {nil} \cup {NewSlice(api, eps) : eps \in SUBSET SliceEndpoints(api)}
     IN \E v \in [api.using -> values] :
          api' = [api EXCEPT !.slice = [s \in Slice |-> IF s \in api.using THEN v[s] ELSE nil]]
  /\ SlicesCurrent(api')
  /\ Unprocessed /\ UNCHANGED <<informerVars, changes, touched, unseen, relabelled, dropped>>

-----------------------------------------------------------------------------
(* The informers (registerHandlers) *)

Event(kind, key, old, new) ==
  [kind |-> kind, key |-> key, old |-> old,
   ev |-> IF old = nil THEN "add" ELSE IF new = nil THEN "delete" ELSE "update"]

\* The objects of a kind, by key; the service is the only one of its kind.
Keys(kind) == CASE kind = "svc" -> {nil} [] kind = "pod" -> Pod [] kind = "slice" -> Slice
Object(o, kind, key) ==
  CASE kind = "svc" -> o.svc [] kind = "pod" -> o.pod[key] [] kind = "slice" -> o.slice[key]

\* The watch brings an object into the store, and the event is on its way.
Inform(kind, key) ==
  /\ listing[kind] # nil /\ Object(store, kind, key) # Object(api, kind, key)
  /\ store' = CASE kind = "svc" -> [store EXCEPT !.svc = api.svc]
                 [] kind = "pod" -> [store EXCEPT !.pod[key] = api.pod[key]]
                 [] kind = "slice" -> [store EXCEPT !.slice[key] = api.slice[key]]
  /\ notes' = [notes EXCEPT ![kind] =
       Append(@, Event(kind, key, Object(store, kind, key), Object(api, kind, key)))]
  /\ Unprocessed
  /\ relabelled' = IF /\ kind = "pod" /\ store.pod[key] # nil /\ api.pod[key] # nil
                      /\ store.pod[key].labels # api.pod[key].labels
                      /\ ~(api.pod[key].live /\ api.pod[key].ready /\ ipByPods[key] = api.pod[key].ip)
                   THEN Slice ELSE relabelled
  /\ UNCHANGED <<api, listing, queue, running, changes, touched, unseen, dropped>>

\* The first list of a kind, one add event for each object.
List(kind) ==
  /\ listing[kind] = nil
  /\ LET there == {k \in Keys(kind) : Object(api, kind, k) # nil}
     IN /\ \E order \in Orders(there) :
             notes' = [notes EXCEPT ![kind] =
               [i \in DOMAIN order |-> Event(kind, order[i], nil, Object(api, kind, order[i]))]]
        /\ listing' = [listing EXCEPT ![kind] = Cardinality(there)]
  /\ store' = CASE kind = "svc" -> [store EXCEPT !.svc = api.svc]
                 [] kind = "pod" -> [store EXCEPT !.pod = api.pod]
                 [] kind = "slice" -> [store EXCEPT !.slice = api.slice]
  /\ Unprocessed /\ UNCHANGED <<api, queue, running, changes, touched, unseen, relabelled, dropped>>

\* The listener of a kind pushes the next closure to the queue.
PushEvent(kind) ==
  /\ notes[kind] # <<>>
  /\ queue' = Append(queue, Head(notes[kind]))
  /\ notes' = [notes EXCEPT ![kind] = Tail(@)]
  /\ listing' = [listing EXCEPT ![kind] = IF @ = 0 THEN 0 ELSE @ - 1]
  /\ Unprocessed /\ UNCHANGED <<api, store, running, changes, touched, unseen, relabelled, dropped>>

-----------------------------------------------------------------------------
(* endpointslice.go *)

\* The name and the target of a slice's port: those of the service port with
\* this number or target and this name, then of the one with this number, then
\* the slice's own.
ServicePort(svc, port) ==
  LET target == IF TargetPort(svc.target) = 0 THEN svc.port ELSE TargetPort(svc.target)
      byName == (svc.port = port.num \/ TargetPort(svc.target) = port.num)
                /\ (port.name = nil \/ svc.name = port.name)
  IN IF svc # nil /\ (byName \/ svc.port = port.num)
     THEN [name |-> svc.name, target |-> target]
     ELSE [name |-> port.name, target |-> port.num]

\* The pod an endpoint refers to, from the informer's store (getPod).
getPod(e) == store.pod[e.ref]

buildDubboEndpoint(e, svcPort) ==
  [key |-> <<e.ip, svcPort.name>>, port |-> svcPort.name, target |-> svcPort.target,
   healthy |-> e.ready,
   sendUnhealthy |-> IF servicesMap = nil THEN FALSE ELSE servicesMap.publish,
   labels |-> getPod(e).labels, account |-> getPod(e).account]

\* updateEndpointCacheForSlice: the endpoints of a slice, without the ones
\* whose pod has not arrived, and the addresses those wait for.
SliceDubboEndpoints(slice) ==
  {buildDubboEndpoint(e, ServicePort(store.svc, slice.port)) :
     e \in {d \in slice.endpoints : getPod(d) # nil}}

\* Mutant: an endpoint whose pod has not arrived is skipped for good.
ForgetMissingPods(slice) == {}

registerEndpointResync(slice) == {e.ip : e \in {d \in slice.endpoints : getPod(d) = nil}}

\* One endpoint for each address and port; which of two duplicates is kept
\* depends on the order of a map.
CacheGets(c) ==
  LET all == UNION {c[s] : s \in Slice}
  IN {eps \in SUBSET all :
        /\ {e.key : e \in eps} = {e.key : e \in all}
        /\ \A d, e \in eps : d.key = e.key => d = e}

\* The rest of a slice event: the cache is updated, and EDSUpdate called.
UpdateSlice(s, slice) ==
  /\ cache' = [cache EXCEPT ![s] = SliceDubboEndpoints(slice)]
  /\ needResync' = [i \in IP |-> IF i \in registerEndpointResync(slice)
                                 THEN needResync[i] \cup {s} ELSE needResync[i]]
  /\ \E eps \in CacheGets(cache') :
       calls' = [calls EXCEPT ![kube] = <<EDSUpdateCall(HomeNs, eps)>>]
  /\ unseen' = unseen \ {s} /\ relabelled' = relabelled \ {s} /\ dropped' = FALSE
  /\ UNCHANGED <<servicesMap, podsByIP, ipByPods>>

DeleteSlice(s, slice) ==
  /\ cache' = [cache EXCEPT ![s] = {}]
  /\ needResync' = [i \in IP |-> IF \E e \in slice.endpoints : e.ip = i
                                 THEN needResync[i] \ {s} ELSE needResync[i]]
  /\ \E eps \in CacheGets(cache') :
       calls' = [calls EXCEPT ![kube] = <<EDSUpdateCall(HomeNs, eps)>>]
  /\ unseen' = unseen \ {s} /\ relabelled' = relabelled \ {s} /\ dropped' = FALSE
  /\ UNCHANGED <<servicesMap, podsByIP, ipByPods>>

-----------------------------------------------------------------------------
(* The service and pod handlers *)

ConvertService(svc) == [ns |-> HomeNs, port |-> svc.name, number |-> svc.port,
                        publish |-> svc.publish, selector |-> svc.selector, accounts |-> {}]

addOrUpdateService ==
  /\ servicesMap' = ConvertService(store.svc)
  /\ unseen' = IF servicesMap' = servicesMap THEN unseen ELSE Slice
  /\ UNCHANGED <<cache, podsByIP, ipByPods, needResync, calls, relabelled, dropped>>

deleteService ==
  /\ servicesMap' = nil
  /\ calls' = [calls EXCEPT ![kube] = <<ServiceDeleteCall(HomeNs)>>]
  /\ unseen' = Slice /\ dropped' = TRUE
  /\ UNCHANGED <<cache, podsByIP, ipByPods, needResync, relabelled>>

podCacheVars == <<podsByIP, ipByPods, needResync>>
Ignore == UNCHANGED <<cache, calls, servicesMap, podCacheVars, unseen, relabelled, dropped>>

shouldPodBeInEndpoints(pod) == pod.live /\ pod.ip # nil

\* Mutant: a pod that changes its address stays under the old one.
CachePodTwice(p, ip) ==
  /\ podsByIP' = [podsByIP EXCEPT ![ip] = @ \cup {p}]
  /\ ipByPods' = [ipByPods EXCEPT ![p] = ip]
  /\ needResync' = [needResync EXCEPT ![ip] = {}]
  /\ UNCHANGED <<cache, servicesMap, calls, unseen, relabelled, dropped>>

\* A pod is cached under its address, and the slices that waited for it are
\* queued.
CachePod(p, ip) ==
  /\ podsByIP' = [i \in IP |-> IF i = ip THEN podsByIP[i] \cup {p}
                               ELSE IF i = ipByPods[p] THEN podsByIP[i] \ {p} ELSE podsByIP[i]]
  /\ ipByPods' = [ipByPods EXCEPT ![p] = ip]
  /\ needResync' = [needResync EXCEPT ![ip] = {}]
  /\ UNCHANGED <<cache, servicesMap, calls, unseen, relabelled, dropped>>

\* A cached pod whose labels changed: the services that select it are rebuilt.
recomputeServiceForPod(pod) ==
  LET built == {s \in Slice : store.slice[s] # nil}
      waiting(i) == {s \in built : i \in registerEndpointResync(store.slice[s])}
  IN IF store.svc # nil /\ Matches(store.svc, pod) /\ servicesMap # nil
     THEN /\ cache' = [s \in Slice |-> IF s \in built THEN SliceDubboEndpoints(store.slice[s]) ELSE cache[s]]
          /\ needResync' = [i \in IP |-> needResync[i] \cup waiting(i)]
          /\ \E eps \in IF built = {} THEN {{}} ELSE CacheGets(cache') :
               calls' = [calls EXCEPT ![kube] = <<EDSUpdateCall(HomeNs, eps)>>]
          /\ unseen' = unseen \ built /\ relabelled' = relabelled \ built /\ dropped' = FALSE
          /\ UNCHANGED <<servicesMap, podsByIP, ipByPods>>
     ELSE /\ relabelled' = Slice
          /\ UNCHANGED <<cache, calls, servicesMap, podCacheVars, unseen, dropped>>

deleteIP(p, ip) ==
  IF p \in podsByIP[ip]
  THEN /\ podsByIP' = [podsByIP EXCEPT ![ip] = @ \ {p}]
       /\ ipByPods' = [ipByPods EXCEPT ![p] = nil]
       /\ UNCHANGED needResync
  ELSE UNCHANGED podCacheVars

\* PodCache.onEvent with the pod's own address, or the cached one when it has none.
PodEvent(e, pod) ==
  LET ip == IF pod.ip = nil THEN ipByPods[e.key] ELSE pod.ip
      add == shouldPodBeInEndpoints(pod) /\ pod.ready
      labelUpdated == e.ev = "update" /\ e.old.labels # pod.labels
  IN IF ip = nil \/ (e.ev = "add" /\ ~add) THEN Ignore
     ELSE IF e.ev = "delete" \/ ~add
     THEN deleteIP(e.key, ip) /\ UNCHANGED <<cache, calls, servicesMap, unseen, relabelled, dropped>>
     ELSE IF e.key \notin podsByIP[ip] THEN CachePod(e.key, ip)
     ELSE IF labelUpdated THEN recomputeServiceForPod(pod)
     ELSE Ignore

-----------------------------------------------------------------------------
(* The queue *)

SyncTask == [kind |-> "sync", key |-> nil, old |-> nil, ev |-> "sync"]

\* Run waits for the informers' first lists to be pushed, and queues the marker.
Run ==
  /\ ~running /\ \A k \in Kinds : listing[k] = 0
  /\ running' = TRUE /\ queue' = Append(queue, SyncTask)
  /\ Unprocessed
  /\ UNCHANGED <<api, store, notes, listing, changes, touched, unseen, relabelled, dropped>>

\* The slices a pod that becomes cached sends to the queue.
Arrived(e) ==
  LET pod == store.pod[e.key]
  IN IF e.kind = "pod" /\ e.ev # "delete" /\ pod # nil /\ shouldPodBeInEndpoints(pod)
        /\ pod.ready /\ e.key \notin podsByIP[pod.ip]
     THEN needResync[pod.ip] ELSE {}
ResyncTask(s) == [kind |-> "slice", key |-> s, old |-> nil, ev |-> "add"]

\* The queue's goroutine takes a task when it is done with the last one.
Take(kind) ==
  /\ running /\ queue # <<>> /\ Head(queue).kind = kind /\ calls[kube] = <<>>
  /\ initialSync' = (initialSync \/ kind = "sync")
  /\ UNCHANGED <<api, store, notes, listing, running, changes, touched>>

ProcessSync == Take("sync") /\ queue' = Tail(queue) /\ Ignore

\* An add or an update reads the object again, and is skipped when it is gone.
ProcessService ==
  /\ Take("svc") /\ queue' = Tail(queue)
  /\ IF Head(queue).ev = "delete" THEN deleteService
     ELSE IF store.svc = nil THEN Ignore ELSE addOrUpdateService

ProcessSlice ==
  /\ Take("slice") /\ queue' = Tail(queue)
  /\ LET e == Head(queue)
     IN IF e.ev = "delete" THEN DeleteSlice(e.key, e.old)
        ELSE IF store.slice[e.key] = nil THEN Ignore
        ELSE UpdateSlice(e.key, store.slice[e.key])

ProcessPod ==
  /\ Take("pod")
  /\ LET e == Head(queue)
     IN /\ \E order \in Orders(Arrived(e)) :
             queue' = Tail(queue) \o [i \in DOMAIN order |-> ResyncTask(order[i])]
        /\ IF e.ev = "delete" THEN PodEvent(e, e.old)
           ELSE IF store.pod[e.key] = nil THEN Ignore
           ELSE PodEvent(e, store.pod[e.key])

-----------------------------------------------------------------------------
InitialObjects(o) ==
  [svc |-> o.svc, pod |-> o.pod, using |-> o.using,
   slice |-> [s \in Slice |-> IF o.svc # nil /\ s = CHOOSE t \in o.using : TRUE
                              THEN NewSlice(o, SliceEndpoints(o)) ELSE nil]]

\* The registry is started with objects already there, or is up with none.
KubeInit(o) ==
  /\ api = InitialObjects(o)
  /\ store = NoObjects /\ notes = [k \in Kinds |-> <<>>] /\ queue = <<>>
  /\ listing = [k \in Kinds |-> IF o.up THEN 0 ELSE nil]
  /\ running = o.up /\ initialSync = o.up
  /\ servicesMap = nil /\ cache = [s \in Slice |-> {}]
  /\ podsByIP = [i \in IP |-> {}] /\ ipByPods = [p \in Pod |-> nil]
  /\ needResync = [i \in IP |-> {}]
  /\ touched = FALSE /\ unseen = {} /\ relabelled = {} /\ dropped = FALSE

KubeQuiet ==
  /\ running /\ StoreCurrent /\ SlicesCurrent(api) /\ queue = <<>> /\ calls[kube] = <<>>
  /\ \A k \in Kinds : notes[k] = <<>>

\* What the registry should report: the slices as they are, built from the
\* service and the pods as they are.
Expected == UNION {SliceDubboEndpoints(store.slice[s]) : s \in {t \in Slice : store.slice[t] # nil}}

Known(slices) == \E s \in slices : store.slice[s] # nil

\* Of an endpoint, what does not depend on the service.
PodPart(eps) ==
  {[ip |-> e.key[1], healthy |-> e.healthy, labels |-> IF Known(relabelled) THEN nil ELSE e.labels] : e \in eps}
Healthy(eps) == {e \in eps : e.healthy}

\* However services, pods and slices arrive, what the registry reported last is
\* what the cluster has: every healthy endpoint, and no endpoint that is not
\* there.  Port names and the sending of unhealthy endpoints are current unless
\* the service changed after the slices were built, and labels unless a pod's
\* changed while it was not cached; a service deleted after its slices were built
\* leaves nothing (endpointSliceController, PodCache).
EndpointsCurrent ==
  KubeQuiet /\ ~dropped =>
    LET reported == wanted[kube][HomeNs] IN
    /\ PodPart(Healthy(Expected)) \subseteq PodPart(reported)
    /\ PodPart(reported) \subseteq PodPart(Expected)
    /\ ~Known(unseen) /\ ~Known(relabelled) => Healthy(Expected) \subseteq reported /\ reported \subseteq Expected

\* podsByIP and ipByPods stay inverse, and every ready pod is found under its
\* address once its events are processed (PodCache).
PodsFound ==
  /\ \A p \in Pod, i \in IP : p \in podsByIP[i] <=> ipByPods[p] = i
  /\ KubeQuiet => \A p \in Pod : api.pod[p] # nil /\ shouldPodBeInEndpoints(api.pod[p]) /\ api.pod[p].ready
                    => p \in podsByIP[api.pod[p].ip]

\* Once the queue reports the initial sync, without the timeout, the objects
\* that were there have been reported (Controller.HasSynced).
SyncedMeansReported ==
  initialSync /\ ~touched /\ calls[kube] = <<>>
    => PodPart(Healthy(Expected)) \subseteq PodPart(wanted[kube][HomeNs])
=============================================================================
