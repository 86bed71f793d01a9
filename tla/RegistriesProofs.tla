-------------------------- MODULE RegistriesProofs --------------------------
(***************************************************************************)
(* What the registries report reaches the clients, for any registries,     *)
(* namespaces, objects of the cluster and entries.                         *)
(*                                                                         *)
(* Shards relates the index to what each registry reported: outside of     *)
(* UpdateServiceEndpoints its shard is what it reported last, and a        *)
(* registry inside it works on the object the index still has.  Delivered  *)
(* says that without a pending push the clients have what the index has,   *)
(* and Accounted to SentAccounted that no account is ahead of its push.    *)
(* EntriesRead and EntriesSettle follow a reconcile of the service entry   *)
(* registry: what it read is current unless a handler is due, and what it  *)
(* has not reported yet is among its calls.  PodsAwaited says that a pod   *)
(* of the store is in the pod cache unless an event of it waits.           *)
(***************************************************************************)
EXTENDS Registries, FiniteSetTheorems, WellFoundedInduction, TLAPS

\* Zenon does the leaves; those about arithmetic, sequences or records cite SMT.
USE Zenon

CallsFrom(s, S) == s \in Seq(S) /\ \A c \in S : c.ns \in Ns
CallList(s) == \E S : CallsFrom(s, S)

\* The domains of the index's functions, and the calls on their way.
IndexTyped ==
  /\ made \in 0..MaxObjects /\ index \in [Ns -> 1..made \cup {nil}]
  /\ DOMAIN objects = 1..MaxObjects
  /\ \A o \in 1..MaxObjects :
       DOMAIN objects[o] = {"shards", "accounts"} /\ DOMAIN objects[o].shards = Registry
  /\ DOMAIN wanted = Registry /\ \A r \in Registry : DOMAIN wanted[r] = Ns
  /\ registry \in [Registry -> [at : {"idle", "update"}, object : 1..MaxObjects \cup {nil},
                                created : BOOLEAN]]
  /\ DOMAIN calls = Registry /\ \A r \in Registry : CallList(calls[r])
  /\ queued \in {"none", "eds", "full"} /\ silent \in BOOLEAN

\* The namespaces of the services the registries and the push context have.
ServicesTyped ==
  /\ servicesMap = nil \/ servicesMap.ns \in Ns
  /\ services = nil \/ services.ns \in Ns
  /\ context.service = nil \/ context.service.ns \in Ns

\* A reconcile has no calls left of the one before it.
ReconcilesAlone == reconciling # nil => calls[external] = <<>>

\* A registry in UpdateServiceEndpoints is in the first of its calls, with an
\* object that was made.
InCall ==
  \A r \in Registry : registry[r].at = "update" => calls[r] # <<>> /\ registry[r].object \in 1..made

\* No two namespaces share an object, and objects to come are empty.
Separate ==
  /\ \A m, n \in Ns : index[m] = index[n] /\ index[m] # nil => m = n
  /\ \A o \in 1..MaxObjects : o > made =>
       objects[o].accounts = {} /\ \A r \in Registry : objects[o].shards[r] = {}

\* The shard of a registry is what it reported last, except while it updates it.
ShardAt(r, n) ==
  IF registry[r].at = "update" /\ Head(calls[r]).ns = n
  THEN index[n] = registry[r].object /\ wanted[r][n] = Head(calls[r]).eps
  ELSE wanted[r][n] = IF index[n] = nil THEN {} ELSE objects[index[n]].shards[r]
Shards == \A r \in Registry, n \in Ns : ShardAt(r, n)

\* Without a push on its way the clients have the endpoints of the index.
Delivered == queued = "none" /\ ~silent => Usable(sent) = Usable(LoadAssignment(context))

\* The accounts of an object cover its endpoints, those of the push context the
\* object of its service unless a full push is on its way, and the endpoints
\* that were sent.
Accounted == \A o \in 1..MaxObjects, r \in Registry :
               Accounts(objects[o].shards[r]) \subseteq objects[o].accounts
ContextAccounted ==
  context.service # nil /\ queued # "full" => ShardAccounts(context.service.ns) \subseteq context.accounts
SentAccounted == Accounts(sent) \subseteq context.accounts

Typed == IndexTyped /\ ServicesTyped /\ ReconcilesAlone /\ InCall /\ Separate
AccountsInv == Accounted /\ ContextAccounted /\ SentAccounted

-----------------------------------------------------------------------------
(* Operators *)

\* Lists of calls are built from single calls, and lose their first.
LEMMA EmptyCalls == CallList(<<>>)
<1>1. CallsFrom(<<>>, {})
  BY SMT DEF CallsFrom
<1> QED BY <1>1 DEF CallList

LEMMA OneCall == ASSUME NEW c, c.ns \in Ns PROVE CallList(<<c>>)
<1>1. CallsFrom(<<c>>, {c})
  BY SMT DEF CallsFrom
<1> QED BY <1>1 DEF CallList

LEMMA TwoCalls == ASSUME NEW c, NEW d, c.ns \in Ns, d.ns \in Ns PROVE CallList(<<c, d>>)
<1>1. CallsFrom(<<c, d>>, {c, d})
  BY SMT DEF CallsFrom
<1> QED BY <1>1 DEF CallList

LEMMA ThreeCalls ==
  ASSUME NEW c, NEW d, NEW e, c.ns \in Ns, d.ns \in Ns, e.ns \in Ns PROVE CallList(<<c, d, e>>)
<1>1. CallsFrom(<<c, d, e>>, {c, d, e})
  BY SMT DEF CallsFrom
<1> QED BY <1>1 DEF CallList

LEMMA CallListRest ==
  ASSUME NEW s, CallList(s), s # <<>> PROVE Head(s).ns \in Ns /\ CallList(Tail(s))
<1>1. PICK S : CallsFrom(s, S)
  BY DEF CallList
<1>2. Head(s) \in S /\ CallsFrom(Tail(s), S)
  BY <1>1, SMT DEF CallsFrom
<1>3. Head(s).ns \in Ns
  BY <1>1, <1>2 DEF CallsFrom
<1> QED BY <1>2, <1>3 DEF CallList

\* The oldest entry that has the host is an entry that is there.
LEMMA WinnerIsEntry ==
  ASSUME NEW all, Winner(all) # nil PROVE Winner(all) \in Entry /\ all[Winner(all)] # nil
<1> DEFINE there == {e \in Entry : all[e] # nil}
<1>1. there \subseteq Nat /\ there # {}
  BY RegistriesAssumption DEF Winner
<1>2. PICK e \in there : \A d \in there : ~(<<d, e>> \in OpToRel(<, Nat))
  BY <1>1, NatLessThanWellFounded, WFMin
<1>3. ASSUME NEW d \in there PROVE e <= d
  <2>1. d \in Nat /\ e \in Nat
    BY <1>1
  <2>2. ~(<<d, e>> \in {ss \in Nat \X Nat : ss[1] < ss[2]})
    BY <1>2 DEF OpToRel
  <2> HIDE DEF there
  <2> QED BY <2>1, <2>2, SMT
<1>4. Winner(all) = CHOOSE c \in there : \A d \in there : c <= d
  BY <1>1 DEF Winner
<1> HIDE DEF there
<1>5. Winner(all) \in there
  BY <1>3, <1>4
<1> QED BY <1>5 DEF there

\* An update that needs no push changes no usable endpoint.
LEMMA NoPushNoChange ==
  ASSUME NEW old, NEW new, ~endpointUpdateRequiresPush(old, new) PROVE Usable(old) = Usable(new)
<1>1. \A o \in old : \E n \in new : o.key = n.key
  BY DEF endpointUpdateRequiresPush
<1>2. \A n \in new, o \in old : o.key = n.key => o = n
  BY DEF endpointUpdateRequiresPush
<1>3. \A n \in new : n.healthy \/ n.sendUnhealthy => \E o \in old : o.key = n.key
  BY DEF endpointUpdateRequiresPush
<1> QED BY <1>1, <1>2, <1>3, SMT DEF Usable

-----------------------------------------------------------------------------
(* Steps of the registries: they only add calls, when they have none left. *)

KubeAction ==
  \/ KChangeService \/ KChangePod \/ KChangeSlices \/ KList \/ KInform \/ KPushEvent
  \/ KRun \/ KProcessSync \/ KProcessService \/ KProcessSlice \/ KProcessPod
EntryAction == EChangeEntry \/ EChangeWorkload \/ EListEntries \/ EReconcile

CallsMade(r) ==
  \/ calls' = calls
  \/ calls[r] = <<>> /\ \E s : CallList(s) /\ calls' = [calls EXCEPT ![r] = s]

LEMMA KubeCall ==
  ASSUME NEW c, c.ns \in Ns, calls[kube] = <<>>, calls' = [calls EXCEPT ![kube] = <<c>>]
  PROVE CallsMade(kube)
BY OneCall DEF CallsMade

LEMMA CallNs ==
  ASSUME NEW n \in Ns
  PROVE ServiceDeleteCall(n).ns \in Ns /\ \A eps : EDSUpdateCall(n, eps).ns \in Ns
BY DEF ServiceDeleteCall, EDSUpdateCall

\* The handlers of the Kubernetes registry (endpointslice.go, pod.go,
\* controller.go) make at most one call, and only after the last returned.
LEMMA KubeFrame ==
  ASSUME KubeAction, ServicesTyped
  PROVE /\ UNCHANGED <<indexOnly, entryVars, pushVars>>
        /\ CallsMade(kube) /\ (servicesMap' = nil \/ servicesMap'.ns \in Ns)
<1>1. UNCHANGED <<indexOnly, entryVars, pushVars>>
  BY DEF KubeAction, KChangeService, KChangePod, KChangeSlices, KList, KInform, KPushEvent, KRun,
         KProcessSync, KProcessService, KProcessSlice, KProcessPod, KubeStep
<1>2. CASE KChangeService \/ KChangePod \/ KChangeSlices \/ KList \/ KInform \/ KPushEvent \/ KRun
  <2>1. Unprocessed
    BY <1>2 DEF KChangeService, KChangePod, KChangeSlices, KList, KInform, KPushEvent, KRun,
                ChangeService, ChangePod, ChangeSlices, List, Inform, PushEvent, Run
  <2> QED BY <1>1, <2>1 DEF Unprocessed, CallsMade, ServicesTyped
<1> DEFINE Kept == UNCHANGED <<calls, servicesMap>>
           Called == UNCHANGED servicesMap /\ \E eps :
                       calls' = [calls EXCEPT ![kube] = <<EDSUpdateCall(HomeNs, eps)>>]
<1>3. ASSUME calls[kube] = <<>>, Kept \/ Called
      PROVE CallsMade(kube) /\ (servicesMap' = nil \/ servicesMap'.ns \in Ns)
  <2>1. CASE Kept
    BY <2>1 DEF CallsMade, ServicesTyped
  <2>2. CASE Called
    <3>1. PICK eps : calls' = [calls EXCEPT ![kube] = <<EDSUpdateCall(HomeNs, eps)>>]
      BY <2>2
    <3>2. CallsMade(kube)
      BY <1>3, <3>1, KubeCall, CallNs, RegistriesAssumption
    <3> QED BY <2>2, <3>2 DEF ServicesTyped
  <2> QED BY <1>3, <2>1, <2>2
<1>4. Ignore => Kept
  BY DEF Ignore
<1>5. CASE KProcessSync
  <2>1. calls[kube] = <<>> /\ Ignore
    BY <1>5 DEF KProcessSync, ProcessSync, Take
  <2> QED BY <1>1, <1>3, <1>4, <2>1
<1>6. CASE KProcessService
  <2>1. calls[kube] = <<>> /\ (deleteService \/ addOrUpdateService \/ Ignore)
    BY <1>6 DEF KProcessService, ProcessService, Take
  <2>2. CASE deleteService
    BY <1>1, <2>1, <2>2, KubeCall, CallNs, RegistriesAssumption DEF deleteService
  <2>3. CASE addOrUpdateService
    BY <1>1, <2>3, RegistriesAssumption DEF addOrUpdateService, ConvertService, CallsMade
  <2> QED BY <1>1, <1>3, <1>4, <2>1, <2>2, <2>3
<1>7. CASE KProcessSlice
  <2>1. calls[kube] = <<>> /\ (Ignore \/ \E s, slice : UpdateSlice(s, slice) \/ DeleteSlice(s, slice))
    BY <1>7 DEF KProcessSlice, ProcessSlice, Take
  <2>2. ASSUME NEW s, NEW slice, UpdateSlice(s, slice) \/ DeleteSlice(s, slice) PROVE Called
    BY <2>2 DEF UpdateSlice, DeleteSlice
  <2> HIDE DEF Called, Kept
  <2> QED BY <1>1, <1>3, <1>4, <2>1, <2>2
<1>8. CASE KProcessPod
  <2>1. calls[kube] = <<>> /\ (Ignore \/ \E e, pod : PodEvent(e, pod))
    BY <1>8 DEF KProcessPod, ProcessPod, Take
  <2>2. ASSUME NEW e, NEW pod, PodEvent(e, pod) PROVE Kept \/ Called
    <3>1. \/ Ignore \/ \E ip : CachePod(e.key, ip)
          \/ UNCHANGED <<cache, calls, servicesMap, unseen, relabelled, dropped>>
          \/ recomputeServiceForPod(pod)
      BY <2>2 DEF PodEvent
    <3>2. ASSUME NEW ip, CachePod(e.key, ip) PROVE Kept
      BY <3>2 DEF CachePod
    <3>3. ASSUME recomputeServiceForPod(pod) PROVE Kept \/ Called
      BY <3>3 DEF recomputeServiceForPod
    <3> QED BY <1>4, <3>1, <3>2, <3>3
  <2> HIDE DEF Called, Kept
  <2> QED BY <1>1, <1>3, <1>4, <2>1, <2>2
<1> QED BY <1>1, <1>2, <1>5, <1>6, <1>7, <1>8 DEF KubeAction

\* reconcile makes its calls under its mutex, and none is left when it starts.
LEMMA EntryFrame ==
  ASSUME EntryAction, ServicesTyped, ReconcilesAlone
  PROVE /\ UNCHANGED <<indexOnly, kubeVars, pushVars>>
        /\ CallsMade(external) /\ (services' = nil \/ services'.ns \in Ns)
        /\ reconciling' # nil => calls'[external] = <<>>
<1>1. UNCHANGED <<indexOnly, kubeVars, pushVars>>
  BY DEF EntryAction, EChangeEntry, EChangeWorkload, EListEntries, EReconcile, EntryStep
<1>2. CASE EChangeEntry \/ EChangeWorkload
  <2>1. UNCHANGED <<calls, services, reconciling>>
    BY <1>2 DEF EChangeEntry, EChangeWorkload, ChangeEntry, ChangeWorkload
  <2> QED BY <1>1, <2>1 DEF CallsMade, ServicesTyped, ReconcilesAlone
<1>3. CASE EListEntries
  <2>1. UNCHANGED <<calls, services>> /\ calls[external] = <<>>
    BY <1>3 DEF EListEntries, ListEntries, Locked
  <2> QED BY <1>1, <2>1 DEF CallsMade, ServicesTyped
<1>4. CASE EReconcile
  <2> DEFINE e == Winner(reconciling)
             new == convertService(reconciling, e)
             built == buildEndpoints(reconciling, e)
             list == Updates(services, new, endpoints, built)
  <2>1. /\ reconciling # nil /\ reconciling' = nil
        /\ services' = new /\ calls' = [calls EXCEPT ![external] = list]
    BY <1>4 DEF EReconcile, reconcile
  <2>2. new = nil \/ new.ns \in Ns
    BY WinnerIsEntry, RegistriesAssumption DEF convertService
  <2>3. CallList(list)
    <3> HIDE DEF e, new, built
    <3>2. CASE list = <<>>
      BY <3>2, EmptyCalls
    <3>3. CASE new # nil /\ list = <<EDSUpdateCall(new.ns, built)>>
      <4>1. EDSUpdateCall(new.ns, built).ns \in Ns
        BY <2>2, <3>3, CallNs
      <4> QED BY <3>3, <4>1, OneCall
    <3>4. CASE services # nil /\ list = <<ServiceDeleteCall(services.ns), EDSUpdateCall(services.ns, {})>>
      <4>1. ServiceDeleteCall(services.ns).ns \in Ns /\ EDSUpdateCall(services.ns, {}).ns \in Ns
        BY <3>4, CallNs DEF ServicesTyped
      <4> QED BY <3>4, <4>1, TwoCalls
    <3>5. CASE /\ services # nil /\ new # nil
               /\ list = <<ServiceDeleteCall(services.ns), EDSUpdateCall(services.ns, {}),
                           EDSUpdateCall(new.ns, built)>>
      <4>1. ServiceDeleteCall(services.ns).ns \in Ns /\ EDSUpdateCall(services.ns, {}).ns \in Ns
            /\ EDSUpdateCall(new.ns, built).ns \in Ns
        BY <2>2, <3>5, CallNs DEF ServicesTyped
      <4> QED BY <3>5, <4>1, ThreeCalls
    <3> QED BY <3>2, <3>3, <3>4, <3>5 DEF Updates, Moved
  <2>4. calls[external] = <<>>
    BY <2>1 DEF ReconcilesAlone
  <2> QED BY <1>1, <2>1, <2>2, <2>3, <2>4 DEF CallsMade
<1> QED BY <1>2, <1>3, <1>4 DEF EntryAction

\* What a step of a registry, and its calls, leave as it was.
RegistryStep(r) == CallsMade(r) /\ UNCHANGED <<indexOnly, pushVars>>

LEMMA RegistryTyped ==
  ASSUME NEW r \in Registry, RegistryStep(r), IndexTyped, InCall, Separate
  PROVE IndexTyped' /\ InCall' /\ Separate'
        /\ \A s \in Registry : registry[s].at = "update" => calls'[s] = calls[s]
<1>1. UNCHANGED <<index, objects, made, registry, wanted, queued, silent>>
  BY DEF RegistryStep, indexOnly, pushVars
<1>2. Separate'
  BY <1>1 DEF Separate
<1>3. CASE calls' = calls
  BY <1>1, <1>2, <1>3 DEF IndexTyped, InCall
<1>4. CASE calls' # calls
  <2>1. calls[r] = <<>>
    BY <1>4 DEF RegistryStep, CallsMade
  <2>2. PICK l : CallList(l) /\ calls' = [calls EXCEPT ![r] = l]
    BY <1>4 DEF RegistryStep, CallsMade
  <2>3. /\ DOMAIN calls' = Registry /\ calls'[r] = l
        /\ \A s \in Registry : s # r => calls'[s] = calls[s]
    BY <2>2 DEF IndexTyped
  <2>4. \A s \in Registry : registry[s].at = "update" => calls'[s] = calls[s]
    BY <2>1, <2>3 DEF InCall
  <2>5. InCall'
    BY <1>1, <2>4 DEF InCall
  <2>6. \A s \in Registry : CallList(calls'[s])
    BY <2>2, <2>3 DEF IndexTyped
  <2>7. IndexTyped'
    BY <1>1, <2>3, <2>6 DEF IndexTyped
  <2> QED BY <1>2, <2>4, <2>5, <2>7
<1> QED BY <1>3, <1>4

-----------------------------------------------------------------------------
(* Steps in the index *)

\* deleteServiceInner empties one shard, and gives an object up only when it
\* is empty.
LEMMA DropShard ==
  ASSUME NEW r \in Registry, NEW n \in Ns, NEW preserveKeys \in BOOLEAN,
         deleteServiceInner(r, n, preserveKeys), IndexTyped
  PROVE /\ DOMAIN objects' = 1..MaxObjects
        /\ \A o \in 1..MaxObjects :
             /\ DOMAIN objects'[o] = {"shards", "accounts"} /\ DOMAIN objects'[o].shards = Registry
             /\ objects'[o].accounts = objects[o].accounts
             /\ \A s \in Registry : objects'[o].shards[s] =
                  IF o = index[n] /\ s = r THEN {} ELSE objects[o].shards[s]
        /\ index' \in [Ns -> 1..made \cup {nil}]
        /\ \A m \in Ns : m # n \/ preserveKeys => index'[m] = index[m]
        /\ index'[n] \in {index[n], nil}
        /\ index'[n] # index[n] => \A s \in Registry : objects'[index[n]].shards[s] = {}
<1>1. CASE index[n] = nil
  <2>1. UNCHANGED <<index, objects>>
    BY <1>1 DEF deleteServiceInner
  <2>2. \A o \in 1..MaxObjects : o # index[n]
    BY <1>1, RegistriesAssumption, SMT
  <2> QED BY <2>1, <2>2 DEF IndexTyped
<1>2. CASE index[n] # nil
  <2>1. index[n] \in 1..MaxObjects
    BY <1>2, RegistriesAssumption, SMT DEF IndexTyped
  <2>2. PICK left : /\ left = [objects[index[n]].shards EXCEPT ![r] = {}]
                    /\ objects' = [objects EXCEPT ![index[n]].shards = left]
                    /\ index' = IF ~preserveKeys /\ \A s \in Registry : left[s] = {}
                                THEN [index EXCEPT ![n] = nil] ELSE index
    BY <1>2 DEF deleteServiceInner
  <2>3. DOMAIN left = Registry /\ \A s \in Registry :
          left[s] = IF s = r THEN {} ELSE objects[index[n]].shards[s]
    BY <2>1, <2>2 DEF IndexTyped
  <2>4. /\ DOMAIN objects' = 1..MaxObjects /\ \A o \in 1..MaxObjects : o # index[n] => objects'[o] = objects[o]
        /\ DOMAIN objects'[index[n]] = {"shards", "accounts"} /\ objects'[index[n]].shards = left
        /\ objects'[index[n]].accounts = objects[index[n]].accounts
    BY <2>1, <2>2 DEF IndexTyped
  <2>5. \A o \in 1..MaxObjects :
             /\ DOMAIN objects'[o] = {"shards", "accounts"} /\ DOMAIN objects'[o].shards = Registry
             /\ objects'[o].accounts = objects[o].accounts
             /\ \A s \in Registry : objects'[o].shards[s] =
                  IF o = index[n] /\ s = r THEN {} ELSE objects[o].shards[s]
    BY <2>3, <2>4 DEF IndexTyped
  <2>6. /\ index' \in [Ns -> 1..made \cup {nil}]
        /\ \A m \in Ns : m # n \/ preserveKeys => index'[m] = index[m]
        /\ index'[n] \in {index[n], nil}
    BY <2>2 DEF IndexTyped
  <2>7. index'[n] # index[n] => \A s \in Registry : left[s] = {}
    BY <2>2
  <2> QED BY <2>4, <2>5, <2>6, <2>7
<1> QED BY <1>1, <1>2

\* A registry returns from a call: the next one is the first of its list.
Returned(r) == calls' = [calls EXCEPT ![r] = Tail(@)]

LEMMA ReturnedCalls ==
  ASSUME NEW r \in Registry, Returned(r), IndexTyped, calls[r] # <<>>
  PROVE /\ DOMAIN calls' = Registry /\ \A s \in Registry : CallList(calls'[s])
        /\ \A s \in Registry : s # r => calls'[s] = calls[s]
        /\ Head(calls[r]).ns \in Ns
<1>1. /\ DOMAIN calls' = Registry /\ calls'[r] = Tail(calls[r])
      /\ \A s \in Registry : s # r => calls'[s] = calls[s]
  BY DEF Returned, IndexTyped
<1>2. CallList(calls'[r]) /\ Head(calls[r]).ns \in Ns
  BY <1>1, CallListRest, SMT DEF IndexTyped
<1> QED BY <1>1, <1>2 DEF IndexTyped

LEMMA WantedChange ==
  ASSUME NEW r \in Registry, NEW n \in Ns, NEW v, IndexTyped, wanted' = [wanted EXCEPT ![r][n] = v]
  PROVE /\ DOMAIN wanted' = Registry /\ \A s \in Registry : DOMAIN wanted'[s] = Ns
        /\ \A s \in Registry, m \in Ns : wanted'[s][m] = IF s = r /\ m = n THEN v ELSE wanted[s][m]
BY DEF IndexTyped

\* A call that drops a shard (EDSUpdate without endpoints, ServiceUpdate of a
\* deleted service), and what it leaves.
DropCall(r, preserveKeys) ==
  /\ registry[r].at = "idle" /\ calls[r] # <<>>
  /\ deleteServiceInner(r, Head(calls[r]).ns, preserveKeys) /\ Returned(r)
  /\ wanted' = [wanted EXCEPT ![r][Head(calls[r]).ns] = {}] /\ UNCHANGED <<made, registry>>

Dropped(r, n, preserveKeys) ==
  /\ registry[r].at = "idle" /\ calls[r] # <<>>
  /\ DOMAIN calls' = Registry /\ \A s \in Registry : CallList(calls'[s])
  /\ \A s \in Registry : s # r => calls'[s] = calls[s]
  /\ DOMAIN wanted' = Registry /\ \A s \in Registry : DOMAIN wanted'[s] = Ns
  /\ \A s \in Registry, m \in Ns : wanted'[s][m] = IF s = r /\ m = n THEN {} ELSE wanted[s][m]
  /\ DOMAIN objects' = 1..MaxObjects
  /\ \A o \in 1..MaxObjects :
       /\ DOMAIN objects'[o] = {"shards", "accounts"} /\ DOMAIN objects'[o].shards = Registry
       /\ objects'[o].accounts = objects[o].accounts
       /\ \A s \in Registry : objects'[o].shards[s] =
            IF o = index[n] /\ s = r THEN {} ELSE objects[o].shards[s]
  /\ index' \in [Ns -> 1..made \cup {nil}]
  /\ \A m \in Ns : m # n \/ preserveKeys => index'[m] = index[m]
  /\ index'[n] \in {index[n], nil}
  /\ index'[n] # index[n] => \A s \in Registry : objects'[index[n]].shards[s] = {}
  /\ UNCHANGED <<made, registry>>

LEMMA DropEffect ==
  ASSUME NEW r \in Registry, NEW preserveKeys \in BOOLEAN, DropCall(r, preserveKeys), IndexTyped
  PROVE \E n \in Ns : Dropped(r, n, preserveKeys)
<1>1. calls[r] # <<>> /\ Returned(r) /\ registry[r].at = "idle" /\ UNCHANGED <<made, registry>>
  BY DEF DropCall
<1>2. /\ DOMAIN calls' = Registry /\ \A s \in Registry : CallList(calls'[s])
      /\ \A s \in Registry : s # r => calls'[s] = calls[s]
      /\ Head(calls[r]).ns \in Ns
  BY <1>1, ReturnedCalls
<1>3. PICK n \in Ns : n = Head(calls[r]).ns
  BY <1>2
<1>4. wanted' = [wanted EXCEPT ![r][n] = {}] /\ deleteServiceInner(r, n, preserveKeys)
  BY <1>3 DEF DropCall
<1>5. /\ DOMAIN wanted' = Registry /\ \A s \in Registry : DOMAIN wanted'[s] = Ns
      /\ \A s \in Registry, m \in Ns : wanted'[s][m] = IF s = r /\ m = n THEN {} ELSE wanted[s][m]
  BY <1>4, WantedChange, ZenonT(60)
<1>6. /\ DOMAIN objects' = 1..MaxObjects
      /\ \A o \in 1..MaxObjects :
           /\ DOMAIN objects'[o] = {"shards", "accounts"} /\ DOMAIN objects'[o].shards = Registry
           /\ objects'[o].accounts = objects[o].accounts
           /\ \A s \in Registry : objects'[o].shards[s] =
                IF o = index[n] /\ s = r THEN {} ELSE objects[o].shards[s]
      /\ index' \in [Ns -> 1..made \cup {nil}]
      /\ \A m \in Ns : m # n \/ preserveKeys => index'[m] = index[m]
      /\ index'[n] \in {index[n], nil}
      /\ index'[n] # index[n] => \A s \in Registry : objects'[index[n]].shards[s] = {}
  BY <1>4, DropShard
<1> QED BY <1>1, <1>2, <1>5, <1>6 DEF Dropped

\* The rest of the state while a registry is in the index.
LEMMA IndexFrame ==
  ASSUME NEW r \in Registry, IndexStep, ServicesTyped, ReconcilesAlone, calls[r] # <<>>,
         DOMAIN calls' = Registry, \A s \in Registry : s # r => calls'[s] = calls[s]
  PROVE ServicesTyped' /\ ReconcilesAlone'
<1>1. UNCHANGED <<servicesMap, services, reconciling, context>>
  BY DEF IndexStep, kubeVars, entryVars
<1>2. ServicesTyped'
  BY <1>1 DEF ServicesTyped
<1>3. ReconcilesAlone'
  BY <1>1, RegistriesAssumption DEF ReconcilesAlone
<1> QED BY <1>2, <1>3

LEMMA DropTyped ==
  ASSUME NEW r \in Registry, NEW n \in Ns, NEW preserveKeys \in BOOLEAN, Typed, IndexStep,
         Dropped(r, n, preserveKeys), queued' \in {"none", "eds", "full"}, silent' \in BOOLEAN
  PROVE Typed'
<1> USE DEF Typed
<1>1. made' = made /\ registry' = registry /\ registry[r].at = "idle" /\ calls[r] # <<>>
  BY DEF Dropped
<1>2. /\ DOMAIN calls' = Registry /\ \A s \in Registry : CallList(calls'[s])
      /\ \A s \in Registry : s # r => calls'[s] = calls[s]
  BY DEF Dropped
<1>3. DOMAIN wanted' = Registry /\ \A s \in Registry : DOMAIN wanted'[s] = Ns
  BY DEF Dropped
<1>4. /\ DOMAIN objects' = 1..MaxObjects
      /\ \A o \in 1..MaxObjects :
             /\ DOMAIN objects'[o] = {"shards", "accounts"} /\ DOMAIN objects'[o].shards = Registry
             /\ objects'[o].accounts = objects[o].accounts
             /\ \A s \in Registry : objects'[o].shards[s] =
                  IF o = index[n] /\ s = r THEN {} ELSE objects[o].shards[s]
      /\ index' \in [Ns -> 1..made \cup {nil}]
      /\ \A m \in Ns : m # n \/ preserveKeys => index'[m] = index[m]
      /\ index'[n] \in {index[n], nil}
  BY DEF Dropped
<1>5. IndexTyped'
  BY <1>1, <1>2, <1>3, <1>4 DEF IndexTyped
<1>6. ServicesTyped' /\ ReconcilesAlone'
  BY <1>1, <1>2, IndexFrame
<1>7. InCall'
  BY <1>1, <1>2 DEF InCall
<1>8. Separate'
  <2>1. \A m, l \in Ns : index'[m] = index'[l] /\ index'[m] # nil => m = l
    BY <1>4, SMT DEF Separate
  <2>2. ASSUME NEW o \in 1..MaxObjects, o > made'
        PROVE objects'[o].accounts = {} /\ \A s \in Registry : objects'[o].shards[s] = {}
    BY <1>1, <1>4, <2>2, SMT DEF Separate
  <2> QED BY <2>1, <2>2 DEF Separate
<1> QED BY <1>5, <1>6, <1>7, <1>8

LEMMA DropAccounts ==
  ASSUME NEW r \in Registry, NEW n \in Ns, NEW preserveKeys \in BOOLEAN, Typed, AccountsInv, IndexStep,
         Dropped(r, n, preserveKeys), queued' # "full" => queued # "full"
  PROVE AccountsInv'
<1> USE DEF Typed
<1>2. /\ \A o \in 1..MaxObjects :
             /\ objects'[o].accounts = objects[o].accounts
             /\ \A s \in Registry : objects'[o].shards[s] =
                  IF o = index[n] /\ s = r THEN {} ELSE objects[o].shards[s]
      /\ \A m \in Ns : m # n \/ preserveKeys => index'[m] = index[m]
      /\ index'[n] \in {index[n], nil}
  BY DEF Dropped
<1>3. Accounted'
  <2> SUFFICES ASSUME NEW o \in 1..MaxObjects, NEW s \in Registry
               PROVE Accounts(objects'[o].shards[s]) \subseteq objects'[o].accounts
    BY DEF Accounted, Accounts
  <2>1. Accounts({}) = {}
    BY DEF Accounts
  <2>2. Accounts(objects[o].shards[s]) \subseteq objects[o].accounts
    BY DEF AccountsInv, Accounted
  <2>3. objects'[o].shards[s] \in {{}, objects[o].shards[s]}
    BY <1>2
  <2> QED BY <1>2, <2>1, <2>2, <2>3
<1>4. UNCHANGED <<context, sent>>
  BY DEF IndexStep
<1>5. \A m \in Ns : ShardAccounts(m)' \subseteq ShardAccounts(m)
  <2> SUFFICES ASSUME NEW m \in Ns PROVE ShardAccounts(m)' \subseteq ShardAccounts(m)
    OBVIOUS
  <2>1. index'[m] \in {index[m], nil}
    BY <1>2
  <2>2. index[m] # nil => index[m] \in 1..MaxObjects
    BY RegistriesAssumption, SMT DEF IndexTyped
  <2> QED BY <1>2, <2>1, <2>2 DEF ShardAccounts
<1>6. ContextAccounted'
  BY <1>4, <1>5 DEF ContextAccounted, AccountsInv, ServicesTyped
<1>7. SentAccounted'
  BY <1>4 DEF SentAccounted, AccountsInv, Accounts
<1> QED BY <1>3, <1>6, <1>7 DEF AccountsInv

\* GetOrCreateEndpointShard gives a namespace an object nothing is in yet, or
\* finds the one it has.
Created(r, n, o) ==
  /\ n = Head(calls[r]).ns /\ calls[r] # <<>> /\ registry[r].at = "idle"
  /\ IF index[n] = nil THEN o = made + 1 /\ made' = made + 1
                       ELSE o = index[n] /\ made' = made
  /\ made' \in 0..MaxObjects /\ o \in 1..made'
  /\ index' \in [Ns -> 1..made' \cup {nil}] /\ index'[n] = o
  /\ \A m \in Ns : m # n => index'[m] = index[m]
  /\ registry' = [registry EXCEPT ![r] = [at |-> "update", object |-> o, created |-> index[n] = nil]]
  /\ registry' \in [Registry -> [at : {"idle", "update"}, object : 1..MaxObjects \cup {nil},
                                 created : BOOLEAN]]
  /\ wanted' = [wanted EXCEPT ![r][n] = Head(calls[r]).eps]
  /\ UNCHANGED <<objects, calls, queued>>

LEMMA CreateEffect ==
  ASSUME NEW r \in Registry, GetOrCreateEndpointShard(r), IndexTyped
  PROVE \E n \in Ns, o \in 1..MaxObjects : Created(r, n, o)
<1>1. PICK n, o :
        /\ n = Head(calls[r]).ns /\ o = IF index[n] = nil THEN made + 1 ELSE index[n]
        /\ o \in DOMAIN objects /\ index' = [index EXCEPT ![n] = o]
        /\ made' = IF index[n] = nil THEN made + 1 ELSE made
        /\ registry' = [registry EXCEPT ![r] = [at |-> "update", object |-> o, created |-> index[n] = nil]]
        /\ wanted' = [wanted EXCEPT ![r][n] = Head(calls[r]).eps]
  BY DEF GetOrCreateEndpointShard
<1>2. calls[r] # <<>> /\ registry[r].at = "idle" /\ UNCHANGED <<objects, calls, queued>>
  BY DEF GetOrCreateEndpointShard, Calling
<1>3. n \in Ns
  BY <1>1, <1>2, CallListRest DEF IndexTyped
<1>4. o \in 1..MaxObjects
  BY <1>1 DEF IndexTyped
<1>5. made' \in 0..MaxObjects /\ o \in 1..made' /\ made' >= made
  BY SMTT(60), <1>1, <1>3, <1>4, RegistriesAssumption DEF IndexTyped
<1>6. index' \in [Ns -> 1..made' \cup {nil}] /\ index'[n] = o
      /\ \A m \in Ns : m # n => index'[m] = index[m]
  BY SMTT(60), <1>1, <1>3, <1>5, RegistriesAssumption DEF IndexTyped
<1>7. registry' \in [Registry -> [at : {"idle", "update"}, object : 1..MaxObjects \cup {nil},
                                  created : BOOLEAN]]
  BY <1>1, <1>4 DEF IndexTyped
<1>8. Created(r, n, o)
  BY <1>1, <1>2, <1>3, <1>4, <1>5, <1>6, <1>7 DEF Created
<1> QED BY <1>3, <1>4, <1>8

LEMMA CreateTyped ==
  ASSUME NEW r \in Registry, GetOrCreateEndpointShard(r), IndexStep, UNCHANGED silent, Typed
  PROVE Typed'
<1> USE DEF Typed
<1>0. PICK n \in Ns, o \in 1..MaxObjects : Created(r, n, o)
  BY CreateEffect
<1>1. /\ n = Head(calls[r]).ns /\ calls[r] # <<>> /\ registry[r].at = "idle"
      /\ IF index[n] = nil THEN o = made + 1 /\ made' = made + 1
                           ELSE o = index[n] /\ made' = made
      /\ made' \in 0..MaxObjects /\ o \in 1..made'
      /\ index' \in [Ns -> 1..made' \cup {nil}] /\ index'[n] = o
      /\ \A m \in Ns : m # n => index'[m] = index[m]
      /\ registry' = [registry EXCEPT ![r] = [at |-> "update", object |-> o, created |-> index[n] = nil]]
      /\ registry' \in [Registry -> [at : {"idle", "update"}, object : 1..MaxObjects \cup {nil},
                                     created : BOOLEAN]]
      /\ wanted' = [wanted EXCEPT ![r][n] = Head(calls[r]).eps]
      /\ UNCHANGED <<objects, calls, queued>>
  BY <1>0 DEF Created
<1>2. DOMAIN wanted' = Registry /\ \A s \in Registry : DOMAIN wanted'[s] = Ns
  BY <1>1, WantedChange
<1>3. IndexTyped'
  BY <1>1, <1>2 DEF IndexTyped
<1>4. ServicesTyped' /\ ReconcilesAlone'
  BY <1>1, IndexFrame DEF IndexTyped
<1>5. made \in Nat /\ made' >= made /\ made' \in Nat
  BY <1>1, RegistriesAssumption, SMT DEF IndexTyped
<1>6. InCall'
  <2> SUFFICES ASSUME NEW s \in Registry, registry'[s].at = "update"
               PROVE calls'[s] # <<>> /\ registry'[s].object \in 1..made'
    BY DEF InCall
  <2>1. CASE s = r
    BY <1>1, <2>1 DEF IndexTyped
  <2>2. CASE s # r
    <3>1. registry'[s] = registry[s]
      BY <1>1, <2>2 DEF IndexTyped
    <3> QED BY SMTT(60), <1>1, <1>5, <3>1 DEF InCall
  <2> QED BY <2>1, <2>2
<1>7. Separate'
  <2>1. ASSUME NEW m \in Ns, NEW l \in Ns, index'[m] = index'[l], index'[m] # nil PROVE m = l
    <3>1. CASE index[n] # nil
      <4>1. index' = index
        BY <1>1, <3>1, SMT DEF IndexTyped
      <4> QED BY <2>1, <4>1 DEF Separate
    <3>2. CASE index[n] = nil
      <4>1. \A k \in Ns : index[k] # made + 1
        BY <1>5, RegistriesAssumption, SMT DEF IndexTyped
      <4> QED BY <1>1, <2>1, <3>2, <4>1, SMT DEF Separate
    <3> QED BY <3>1, <3>2
  <2>2. ASSUME NEW k \in 1..MaxObjects, k > made'
        PROVE objects'[k].accounts = {} /\ \A s \in Registry : objects'[k].shards[s] = {}
    BY SMTT(60), <1>1, <1>5, <2>2 DEF Separate
  <2> QED BY <2>1, <2>2 DEF Separate
<1> QED BY <1>3, <1>4, <1>6, <1>7

\* An object that was just made has neither endpoints nor accounts.
LEMMA CreateShows ==
  ASSUME NEW r \in Registry, GetOrCreateEndpointShard(r), Typed, NEW m \in Ns
  PROVE ShardAccounts(m)' = ShardAccounts(m) /\ ShardsForService(m)' = ShardsForService(m)
<1> USE DEF Typed
<1>0. PICK n \in Ns, o \in 1..MaxObjects : Created(r, n, o)
  BY CreateEffect
<1>1. /\ IF index[n] = nil THEN o = made + 1 ELSE o = index[n]
      /\ index'[n] = o /\ \A k \in Ns : k # n => index'[k] = index[k]
      /\ UNCHANGED objects
  BY <1>0 DEF Created
<1>2. CASE index'[m] = index[m]
  BY <1>1, <1>2 DEF ShardAccounts, ShardsForService
<1>3. CASE index'[m] # index[m]
  <2>1. index[m] = nil /\ index'[m] = o /\ o = made + 1 /\ o # nil
    BY <1>1, <1>3, RegistriesAssumption
  <2>2. objects[o].accounts = {} /\ \A s \in Registry : objects[o].shards[s] = {}
    BY <2>1, SMT DEF Separate, IndexTyped
  <2>3. UNION {objects'[index'[m]].shards[s] : s \in Registry} = {}
    BY <1>1, <2>1, <2>2
  <2> QED BY <1>1, <2>1, <2>2, <2>3 DEF ShardAccounts, ShardsForService
<1> QED BY <1>2, <1>3

\* UpdateServiceEndpoints replaces the shard of its registry and computes the
\* accounts again; new accounts ask for a full push, other endpoints for one.
Updated(r, o) ==
  /\ o = registry[r].object /\ o \in 1..made /\ calls[r] # <<>>
  /\ DOMAIN objects' = 1..MaxObjects
  /\ \A k \in 1..MaxObjects :
       /\ DOMAIN objects'[k] = {"shards", "accounts"} /\ DOMAIN objects'[k].shards = Registry
       /\ \A s \in Registry : objects'[k].shards[s] =
            IF k = o /\ s = r THEN Head(calls[r]).eps ELSE objects[k].shards[s]
       /\ k # o => objects'[k].accounts = objects[k].accounts
  /\ objects'[o].accounts = UNION {Accounts(objects'[o].shards[s]) : s \in Registry}
  /\ queued' \in {"none", "eds", "full"} /\ (queued' # "full" => queued # "full")
  /\ queued' # "full" => objects'[o].accounts = objects[o].accounts
  /\ queued' = "none" => queued = "none"
       /\ Usable(objects[o].shards[r]) = Usable(Head(calls[r]).eps)
  /\ registry' = [registry EXCEPT ![r] = Idle]
  /\ registry' \in [Registry -> [at : {"idle", "update"}, object : 1..MaxObjects \cup {nil},
                                 created : BOOLEAN]]
  /\ Returned(r) /\ UNCHANGED <<index, made, wanted>>

LEMMA UpdateEffect ==
  ASSUME NEW r \in Registry, UpdateServiceEndpoints(r), IndexTyped, InCall
  PROVE \E o \in 1..MaxObjects : Updated(r, o)
<1>1. PICK o, incoming, shards, accounts, push :
         /\ o = registry[r].object /\ incoming = Head(calls[r]).eps
         /\ shards = [objects[o].shards EXCEPT ![r] = incoming]
         /\ accounts = UNION {Accounts(shards[s]) : s \in Registry}
         /\ push = PushType(registry[r].created, endpointUpdateRequiresPush(objects[o].shards[r], incoming),
                            accounts # objects[o].accounts)
         /\ objects' = [objects EXCEPT ![o] = [shards |-> shards, accounts |-> accounts]]
         /\ queued' = IF push = "none" THEN queued ELSE ConfigUpdate(push)
  BY DEF UpdateServiceEndpoints, updateShardServiceAccount
<1>2. /\ registry[r].at = "update" /\ registry' = [registry EXCEPT ![r] = Idle]
      /\ Returned(r) /\ UNCHANGED <<index, made, wanted>>
  BY DEF UpdateServiceEndpoints, Returned
<1>3. o \in 1..made /\ o \in 1..MaxObjects /\ calls[r] # <<>>
  <2>1. calls[r] # <<>> /\ registry[r].object \in 1..made
    BY <1>2 DEF InCall
  <2>2. o \in 1..made
    BY <1>1, <2>1
  <2>3. made \in 0..MaxObjects
    BY DEF IndexTyped
  <2> QED BY <2>1, <2>2, <2>3, RegistriesAssumption, SMT
<1>4. DOMAIN shards = Registry /\ \A s \in Registry :
        shards[s] = IF s = r THEN incoming ELSE objects[o].shards[s]
  BY <1>1, <1>3 DEF IndexTyped
<1>5. /\ DOMAIN objects' = 1..MaxObjects /\ objects'[o] = [shards |-> shards, accounts |-> accounts]
      /\ \A k \in 1..MaxObjects : k # o => objects'[k] = objects[k]
  BY <1>1, <1>3 DEF IndexTyped
<1>6. \A k \in 1..MaxObjects :
               /\ DOMAIN objects'[k] = {"shards", "accounts"} /\ DOMAIN objects'[k].shards = Registry
               /\ \A s \in Registry : objects'[k].shards[s] =
                    IF k = o /\ s = r THEN incoming ELSE objects[k].shards[s]
               /\ k # o => objects'[k].accounts = objects[k].accounts
  BY <1>3, <1>4, <1>5, SMT DEF IndexTyped
<1>7. objects'[o].accounts = UNION {Accounts(objects'[o].shards[s]) : s \in Registry}
  <2>1. objects'[o].accounts = accounts /\ objects'[o].shards = shards
    BY <1>5, SMT
  <2>2. accounts = UNION {Accounts(shards[s]) : s \in Registry}
    BY <1>1
  <2> QED BY <2>1, <2>2
<1>8. push = "none" \/ push = "eds" \/ push = "full"
  BY <1>1 DEF PushType
<1>9. push # "full" => accounts = objects[o].accounts
  BY <1>1 DEF PushType
<1>10. push = "none" => ~endpointUpdateRequiresPush(objects[o].shards[r], incoming)
  BY <1>1 DEF PushType
<1>11. /\ queued' \in {"none", "eds", "full"} /\ (queued' # "full" => queued # "full" /\ push # "full")
       /\ queued' = "none" => queued = "none" /\ push = "none"
  BY <1>1, <1>8 DEF ConfigUpdate, IndexTyped
<1>12. queued' # "full" => objects'[o].accounts = objects[o].accounts
  BY <1>5, <1>9, <1>11, SMT
<1>13. queued' = "none" => queued = "none" /\ Usable(objects[o].shards[r]) = Usable(incoming)
  BY <1>10, <1>11, NoPushNoChange
<1>14. registry' \in [Registry -> [at : {"idle", "update"}, object : 1..MaxObjects \cup {nil},
                                   created : BOOLEAN]]
  BY <1>2 DEF IndexTyped, Idle
<1>15. o = registry[r].object /\ incoming = Head(calls[r]).eps /\ DOMAIN objects' = 1..MaxObjects
  BY <1>1, <1>5
<1>16. Updated(r, o)
  BY SMTT(60), <1>2, <1>3, <1>6, <1>7, <1>11, <1>12, <1>13, <1>14, <1>15 DEF Updated
<1> QED BY <1>3, <1>16

LEMMA UpdateTyped ==
  ASSUME NEW r \in Registry, UpdateServiceEndpoints(r), IndexStep, UNCHANGED silent, Typed
  PROVE Typed'
<1> USE DEF Typed
<1>0. PICK o \in 1..MaxObjects : Updated(r, o)
  BY UpdateEffect
<1>1. /\ o \in 1..made /\ calls[r] # <<>> /\ DOMAIN objects' = 1..MaxObjects
      /\ \A k \in 1..MaxObjects :
           /\ DOMAIN objects'[k] = {"shards", "accounts"} /\ DOMAIN objects'[k].shards = Registry
           /\ \A s \in Registry : objects'[k].shards[s] =
                IF k = o /\ s = r THEN Head(calls[r]).eps ELSE objects[k].shards[s]
           /\ k # o => objects'[k].accounts = objects[k].accounts
      /\ queued' \in {"none", "eds", "full"}
      /\ registry' = [registry EXCEPT ![r] = Idle]
      /\ registry' \in [Registry -> [at : {"idle", "update"}, object : 1..MaxObjects \cup {nil},
                                     created : BOOLEAN]]
      /\ Returned(r) /\ UNCHANGED <<index, made, wanted>>
  BY <1>0 DEF Updated
<1>2. /\ DOMAIN calls' = Registry /\ \A s \in Registry : CallList(calls'[s])
      /\ \A s \in Registry : s # r => calls'[s] = calls[s]
  BY <1>1, ReturnedCalls
<1>3. IndexTyped'
  BY <1>1, <1>2 DEF IndexTyped
<1>4. ServicesTyped' /\ ReconcilesAlone'
  BY <1>1, <1>2, IndexFrame
<1>5. InCall'
  <2> SUFFICES ASSUME NEW s \in Registry, registry'[s].at = "update"
               PROVE calls'[s] # <<>> /\ registry'[s].object \in 1..made'
    BY DEF InCall
  <2>1. s # r /\ registry'[s] = registry[s]
    BY <1>1 DEF IndexTyped, Idle
  <2> QED BY <1>1, <1>2, <2>1 DEF InCall
<1>6. Separate'
  <2>1. \A m, l \in Ns : index'[m] = index'[l] /\ index'[m] # nil => m = l
    BY <1>1 DEF Separate
  <2>2. ASSUME NEW k \in 1..MaxObjects, k > made'
        PROVE objects'[k].accounts = {} /\ \A s \in Registry : objects'[k].shards[s] = {}
    <3>1. k > made /\ made \in Nat
      BY <1>1, <2>2, RegistriesAssumption, SMT DEF IndexTyped
    <3>2. k # o
      BY <1>1, <3>1, SMT
    <3>3. objects[k].accounts = {} /\ \A s \in Registry : objects[k].shards[s] = {}
      BY <3>1 DEF Separate
    <3> QED BY <1>1, <3>2, <3>3
  <2> QED BY <2>1, <2>2 DEF Separate
<1> QED BY <1>3, <1>4, <1>5, <1>6

LEMMA UpdateAccounts ==
  ASSUME NEW r \in Registry, UpdateServiceEndpoints(r), IndexStep, Typed, AccountsInv
  PROVE AccountsInv'
<1> USE DEF Typed
<1>0. PICK o \in 1..MaxObjects : Updated(r, o)
  BY UpdateEffect
<1>1. /\ \A k \in 1..MaxObjects :
           /\ \A s \in Registry : objects'[k].shards[s] =
                IF k = o /\ s = r THEN Head(calls[r]).eps ELSE objects[k].shards[s]
           /\ k # o => objects'[k].accounts = objects[k].accounts
      /\ objects'[o].accounts = UNION {Accounts(objects'[o].shards[s]) : s \in Registry}
      /\ queued' # "full" => queued # "full"
      /\ queued' # "full" => objects'[o].accounts = objects[o].accounts
      /\ index' = index
  BY <1>0 DEF Updated
<1>2. Accounted'
  <2> SUFFICES ASSUME NEW k \in 1..MaxObjects, NEW s \in Registry
               PROVE Accounts(objects'[k].shards[s]) \subseteq objects'[k].accounts
    BY DEF Accounted, Accounts
  <2>1. CASE k = o
    BY <1>1, <2>1
  <2>2. CASE k # o
    <3>1. Accounts(objects[k].shards[s]) \subseteq objects[k].accounts
      BY DEF AccountsInv, Accounted
    <3> QED BY <1>1, <2>2, <3>1
  <2> QED BY <2>1, <2>2
<1>3. UNCHANGED <<context, sent>>
  BY DEF IndexStep
<1>4. ASSUME queued' # "full", NEW m \in Ns PROVE ShardAccounts(m)' = ShardAccounts(m)
  <2>1. index[m] # nil => index[m] \in 1..MaxObjects
    BY RegistriesAssumption, SMT DEF IndexTyped
  <2> QED BY <1>1, <1>4, <2>1 DEF ShardAccounts
<1>5. ContextAccounted'
  BY <1>1, <1>3, <1>4 DEF ContextAccounted, AccountsInv, ServicesTyped
<1>6. SentAccounted'
  BY <1>3 DEF SentAccounted, AccountsInv, Accounts
<1> QED BY <1>2, <1>5, <1>6 DEF AccountsInv

\* The endpoints of some shards with one of some port names.
Offered(f, P) == {e \in UNION {f[s] : s \in Registry} : e.port \in P}

\* Shards with the same usable endpoints give the clients the same ones.
LEMMA UsableUnion ==
  ASSUME NEW f, NEW g, NEW P, \A s \in Registry : Usable(f[s]) = Usable(g[s])
  PROVE Usable(Offered(f, P)) = Usable(Offered(g, P))
<1> DEFINE F == UNION {f[s] : s \in Registry}
           G == UNION {g[s] : s \in Registry}
<1>1. \A e : (e.healthy \/ e.sendUnhealthy) => (e \in F <=> e \in G)
  <2> SUFFICES ASSUME NEW e, e.healthy \/ e.sendUnhealthy PROVE e \in F <=> e \in G
    OBVIOUS
  <2>1. \A s \in Registry : e \in f[s] <=> e \in g[s]
    <3> TAKE s \in Registry
    <3>1. e \in f[s] <=> e \in Usable(f[s])
      BY DEF Usable
    <3>2. e \in g[s] <=> e \in Usable(g[s])
      BY DEF Usable
    <3> QED BY <3>1, <3>2
  <2> QED BY <2>1
<1> HIDE DEF F, G
<1>2. Usable({e \in F : e.port \in P}) = Usable({e \in G : e.port \in P})
  BY <1>1 DEF Usable
<1> QED BY <1>2 DEF F, G, Offered

LEMMA UpdateDelivered ==
  ASSUME NEW r \in Registry, UpdateServiceEndpoints(r), IndexStep, UNCHANGED silent, Typed, Delivered
  PROVE Delivered'
<1> USE DEF Typed
<1>0. PICK o \in 1..MaxObjects : Updated(r, o)
  BY UpdateEffect
<1>1. /\ \A k \in 1..MaxObjects, s \in Registry : objects'[k].shards[s] =
           IF k = o /\ s = r THEN Head(calls[r]).eps ELSE objects[k].shards[s]
      /\ queued' = "none" => queued = "none" /\ Usable(objects[o].shards[r]) = Usable(Head(calls[r]).eps)
      /\ index' = index
  BY <1>0 DEF Updated
<1>2. context' = context /\ sent' = sent
  BY DEF IndexStep
<1> SUFFICES ASSUME queued' = "none", ~silent'
             PROVE Usable(sent') = Usable(LoadAssignment(context)')
  BY DEF Delivered, Usable
<1>3. Usable(sent) = Usable(LoadAssignment(context))
  BY <1>1 DEF Delivered
<1>4. Usable(LoadAssignment(context)') = Usable(LoadAssignment(context))
  <2>1. CASE context.service = nil
    BY <1>2, <2>1 DEF LoadAssignment
  <2>2. CASE context.service # nil /\ index[context.service.ns] = nil
    BY <1>1, <1>2, <2>2 DEF LoadAssignment, ShardsForService
  <2>3. CASE context.service # nil /\ index[context.service.ns] # nil
    <3>1. PICK k \in 1..MaxObjects : k = index[context.service.ns]
      BY <2>3, RegistriesAssumption, SMT DEF IndexTyped, ServicesTyped
    <3>2. \A s \in Registry : Usable(objects'[k].shards[s]) = Usable(objects[k].shards[s])
      BY <1>1
    <3>3. PICK f, g, P : /\ f = objects'[k].shards /\ g = objects[k].shards
                         /\ P = {context.service.port, nil}
      OBVIOUS
    <3>4. LoadAssignment(context)' = Offered(f, P)
      BY SMTT(60), <1>1, <1>2, <2>3, <3>1, <3>3 DEF LoadAssignment, ShardsForService, Offered
    <3>5. LoadAssignment(context) = Offered(g, P)
      BY <2>3, <3>1, <3>3 DEF LoadAssignment, ShardsForService, Offered
    <3>6. \A s \in Registry : Usable(f[s]) = Usable(g[s])
      BY <3>2, <3>3
    <3>7. Usable(Offered(f, P)) = Usable(Offered(g, P))
      BY <3>6, UsableUnion
    <3> QED BY <3>4, <3>5, <3>7
  <2> QED BY <2>1, <2>2, <2>3
<1> QED BY <1>2, <1>3, <1>4

LEMMA CreateDelivered ==
  ASSUME NEW r \in Registry, GetOrCreateEndpointShard(r), IndexStep, UNCHANGED silent, Typed,
         Delivered, AccountsInv
  PROVE Delivered' /\ AccountsInv'
<1> USE DEF Typed
<1>1. UNCHANGED <<context, sent, objects, queued>>
  BY DEF GetOrCreateEndpointShard, IndexStep
<1>2. \A m \in Ns : ShardAccounts(m)' = ShardAccounts(m) /\ ShardsForService(m)' = ShardsForService(m)
  BY CreateShows
<1>3. LoadAssignment(context)' = LoadAssignment(context)
  BY <1>1, <1>2 DEF LoadAssignment, ServicesTyped
<1>4. Delivered'
  BY <1>1, <1>3 DEF Delivered, Usable
<1>5. ContextAccounted'
  BY <1>1, <1>2 DEF ContextAccounted, AccountsInv, ServicesTyped
<1>6. Accounted' /\ SentAccounted'
  BY <1>1 DEF Accounted, SentAccounted, AccountsInv, Accounts
<1> QED BY <1>4, <1>5, <1>6 DEF AccountsInv

\* A push sends what the index has, under the accounts the object of the
\* service has, and takes both from the index at once.
LEMMA PushKeeps ==
  ASSUME Push, Typed, AccountsInv
  PROVE Typed' /\ AccountsInv' /\ Delivered'
<1> USE DEF Typed
<1>1. /\ queued # "none" /\ queued' = "none" /\ silent' = FALSE
      /\ context' = IF queued = "full" THEN NewContext ELSE context
      /\ sent' = LoadAssignment(context')
      /\ UNCHANGED <<index, objects, made, registry, calls, wanted, servicesMap, services, reconciling>>
  BY DEF Push, kubeVars, entryVars
<1>2. context'.service = nil \/ context'.service.ns \in Ns
  BY <1>1 DEF ServicesTyped, NewContext, GetService
<1>3. Typed'
  BY <1>1, <1>2 DEF IndexTyped, ServicesTyped, ReconcilesAlone, InCall, Separate
<1>4. ASSUME context'.service # nil PROVE ShardAccounts(context'.service.ns) \subseteq context'.accounts
  <2>1. CASE queued = "full"
    BY <1>1, <1>4, <2>1 DEF NewContext
  <2>2. CASE queued # "full"
    BY <1>1, <1>4, <2>2 DEF AccountsInv, ContextAccounted
  <2> QED BY <2>1, <2>2
<1>5. LoadAssignment(context)' = LoadAssignment(context')
  BY <1>1 DEF LoadAssignment, ShardsForService
<1>6. Delivered'
  BY <1>1, <1>5 DEF Delivered, Usable
<1>7. ContextAccounted'
  <2>1. \A m : ShardAccounts(m)' = ShardAccounts(m)
    BY <1>1 DEF ShardAccounts
  <2> QED BY <1>4, <2>1 DEF ContextAccounted
<1>8. SentAccounted'
  <2> SUFFICES ASSUME NEW e \in sent', e.account # nil PROVE e.account \in context'.accounts
    BY DEF SentAccounted, Accounts
  <2>1. context'.service # nil /\ e \in ShardsForService(context'.service.ns)
    BY <1>1 DEF LoadAssignment
  <2>2. PICK m \in Ns : m = context'.service.ns
    BY <1>2, <2>1
  <2>3. index[m] # nil
    BY <2>1, <2>2 DEF ShardsForService
  <2>4. PICK r \in Registry : e \in objects[index[m]].shards[r]
    BY <2>1, <2>2, <2>3 DEF ShardsForService
  <2>5. index[m] \in 1..MaxObjects
    BY <2>3, RegistriesAssumption, SMT DEF IndexTyped
  <2>6. e.account \in objects[index[m]].accounts
    BY <2>4, <2>5 DEF AccountsInv, Accounted, Accounts
  <2>7. e.account \in ShardAccounts(m)
    BY <2>3, <2>6 DEF ShardAccounts
  <2> QED BY <1>4, <2>1, <2>2, <2>7
<1>9. Accounted'
  BY <1>1 DEF Accounted, AccountsInv, Accounts
<1> QED BY <1>3, <1>6, <1>7, <1>8, <1>9 DEF AccountsInv

-----------------------------------------------------------------------------
(* The accounts, without an assumption on the order of the calls.          *)

IndexInv == Typed /\ AccountsInv /\ Delivered

LEMMA InitIndexInv == Init => IndexInv
<1> SUFFICES ASSUME Init PROVE IndexInv
  OBVIOUS
<1>1. /\ index = [n \in Ns |-> nil] /\ made = 0 /\ objects = [o \in 1..MaxObjects |-> NewShards]
      /\ registry = [r \in Registry |-> Idle] /\ calls = [r \in Registry |-> <<>>]
      /\ wanted = [r \in Registry |-> [n \in Ns |-> {}]] /\ queued = "none"
  BY DEF Init, IndexInit
<1>2. /\ servicesMap = nil /\ services = nil /\ reconciling = nil /\ context.service = nil
      /\ sent = {} /\ context.accounts = {} /\ silent = FALSE
  BY DEF Init, KubeInit, ServiceEntriesInit
<1>3. \A o \in 1..MaxObjects : objects[o].accounts = {} /\ \A r \in Registry : objects[o].shards[r] = {}
  BY <1>1 DEF NewShards
<1>4. IndexTyped
  <2>1. \A r \in Registry : CallList(calls[r])
    BY <1>1, EmptyCalls
  <2>2. registry \in [Registry -> [at : {"idle", "update"}, object : 1..MaxObjects \cup {nil},
                                   created : BOOLEAN]]
    BY <1>1 DEF Idle
  <2>3. made \in 0..MaxObjects /\ index \in [Ns -> 1..made \cup {nil}]
    BY <1>1, RegistriesAssumption, SMT
  <2> QED BY <1>1, <1>2, <2>1, <2>2, <2>3 DEF IndexTyped, NewShards
<1>5. ServicesTyped /\ ReconcilesAlone
  BY <1>2 DEF ServicesTyped, ReconcilesAlone
<1>6. InCall
  BY <1>1 DEF InCall, Idle
<1>7. Separate
  BY <1>1, <1>3 DEF Separate
<1>8. Accounted
  BY <1>3 DEF Accounted, Accounts
<1>9. ContextAccounted /\ SentAccounted
  BY <1>2 DEF ContextAccounted, SentAccounted, Accounts
<1>10. Delivered
  BY <1>2 DEF Delivered, LoadAssignment, Usable
<1> QED BY <1>4, <1>5, <1>6, <1>7, <1>8, <1>9, <1>10 DEF IndexInv, Typed, AccountsInv

\* A step of a registry touches neither the index nor the pushes.
LEMMA RegistryKeeps ==
  ASSUME NEW r \in Registry, RegistryStep(r), IndexInv, ServicesTyped', ReconcilesAlone'
  PROVE IndexInv'
<1>1. UNCHANGED <<index, objects, queued, context, sent, silent>>
  BY DEF RegistryStep, indexOnly, pushVars
<1>2. IndexTyped' /\ InCall' /\ Separate'
  BY RegistryTyped DEF IndexInv, Typed
<1>3. Delivered'
  BY SMTT(60), <1>1 DEF IndexInv, Delivered, Usable, LoadAssignment, ShardsForService
<1>4. AccountsInv'
  BY <1>1 DEF IndexInv, AccountsInv, Accounted, ContextAccounted, SentAccounted, Accounts, ShardAccounts
<1> QED BY <1>2, <1>3, <1>4 DEF IndexInv, Typed

LEMMA RegistrySteps ==
  ASSUME KubeAction \/ EntryAction, Typed
  PROVE \E r \in {kube, external} : RegistryStep(r) /\ ServicesTyped' /\ ReconcilesAlone'
<1> USE DEF Typed
<1>1. CASE KubeAction
  <2>1. /\ UNCHANGED <<indexOnly, entryVars, pushVars>>
        /\ CallsMade(kube) /\ (servicesMap' = nil \/ servicesMap'.ns \in Ns)
    BY <1>1, KubeFrame
  <2>2. UNCHANGED <<services, reconciling, context>>
    BY <2>1 DEF entryVars, pushVars
  <2>3. ServicesTyped'
    BY <2>1, <2>2 DEF ServicesTyped
  <2>4. calls'[external] = calls[external]
    BY <2>1, RegistriesAssumption DEF CallsMade, IndexTyped
  <2>5. ReconcilesAlone'
    BY <2>2, <2>4 DEF ReconcilesAlone
  <2> QED BY <2>1, <2>3, <2>5 DEF RegistryStep
<1>2. CASE EntryAction
  <2>1. /\ UNCHANGED <<indexOnly, kubeVars, pushVars>>
        /\ CallsMade(external) /\ (services' = nil \/ services'.ns \in Ns)
        /\ reconciling' # nil => calls'[external] = <<>>
    BY <1>2, EntryFrame
  <2>2. UNCHANGED <<servicesMap, context>>
    BY <2>1 DEF kubeVars, pushVars
  <2>3. ServicesTyped'
    BY <2>1, <2>2 DEF ServicesTyped
  <2>4. ReconcilesAlone'
    BY <2>1 DEF ReconcilesAlone
  <2> QED BY <2>1, <2>3, <2>4 DEF RegistryStep
<1> QED BY <1>1, <1>2

LEMMA StepIndexInv == IndexInv /\ [Next]_vars => IndexInv'
<1> SUFFICES ASSUME IndexInv, [Next]_vars PROVE IndexInv'
  OBVIOUS
<1>1. CASE KubeAction \/ EntryAction
  <2>1. PICK r \in {kube, external} : RegistryStep(r) /\ ServicesTyped' /\ ReconcilesAlone'
    BY <1>1, RegistrySteps DEF IndexInv
  <2> QED BY <2>1, RegistryKeeps, RegistriesAssumption
<1>2. CASE IEmpty
  <2>1. PICK r \in Registry : EDSUpdateEmpty(r)
    BY <1>2 DEF IEmpty
  <2>2. IndexStep /\ UNCHANGED silent /\ DropCall(r, TRUE) /\ queued' = ConfigUpdate("eds")
    BY <1>2, <2>1 DEF IEmpty, EDSUpdateEmpty, Calling, DropCall, Returned
  <2>0. PICK n \in Ns : Dropped(r, n, TRUE)
    BY <2>2, DropEffect DEF IndexInv, Typed
  <2>3. queued' \in {"none", "eds", "full"} /\ queued' # "none" /\ (queued' # "full" => queued # "full")
    BY <2>2 DEF ConfigUpdate
  <2>4. silent' \in BOOLEAN
    BY <2>2 DEF IndexInv, Typed, IndexTyped
  <2>5. Typed'
    BY <2>2, <2>0, <2>3, <2>4, DropTyped DEF IndexInv
  <2>6. AccountsInv'
    BY <2>2, <2>0, <2>3, DropAccounts DEF IndexInv
  <2>7. Delivered'
    BY <2>3 DEF Delivered
  <2> QED BY <2>5, <2>6, <2>7 DEF IndexInv
<1>3. CASE IDelete
  <2>1. PICK r \in Registry : ServiceDelete(r)
    BY <1>3 DEF IDelete
  <2>2. IndexStep /\ silent' = TRUE /\ DropCall(r, FALSE) /\ queued' = queued
    BY <1>3, <2>1 DEF IDelete, ServiceDelete, Calling, DropCall, Returned
  <2>0. PICK n \in Ns : Dropped(r, n, FALSE)
    BY <2>2, DropEffect DEF IndexInv, Typed
  <2>3. queued' \in {"none", "eds", "full"}
    BY <2>2 DEF IndexInv, Typed, IndexTyped
  <2>4. Typed'
    BY <2>2, <2>0, <2>3, DropTyped DEF IndexInv
  <2>5. AccountsInv'
    BY <2>2, <2>0, DropAccounts DEF IndexInv
  <2>6. Delivered'
    BY <2>2 DEF Delivered
  <2> QED BY <2>4, <2>5, <2>6 DEF IndexInv
<1>4. CASE IGetOrCreate
  BY <1>4, CreateTyped, CreateDelivered DEF IGetOrCreate, IndexInv
<1>5. CASE IUpdate
  BY <1>5, UpdateTyped, UpdateAccounts, UpdateDelivered DEF IUpdate, IndexInv
<1>6. CASE Push
  BY <1>6, PushKeeps DEF IndexInv
<1>7. CASE UNCHANGED vars
  <2>1. RegistryStep(kube) /\ UNCHANGED <<servicesMap, services, reconciling, context, calls>>
    BY <1>7 DEF vars, indexVars, kubeVars, entryVars, pushVars, RegistryStep, CallsMade, indexOnly
  <2>2. ServicesTyped' /\ ReconcilesAlone'
    BY <2>1 DEF IndexInv, Typed, ServicesTyped, ReconcilesAlone
  <2> QED BY <2>1, <2>2, RegistryKeeps, RegistriesAssumption
<1> QED BY <1>1, <1>2, <1>3, <1>4, <1>5, <1>6, <1>7 DEF Next, KubeAction, EntryAction

LEMMA IndexHolds == Spec => []IndexInv
BY InitIndexInv, StepIndexInv, PTL DEF Spec

\* The push context always has the account of every endpoint the clients were
\* sent, whatever the registries do at the same time (UpdateServiceEndpoints
\* asks for a full push when the accounts change, EDSUpdate makes it).
THEOREM AccountsReach == Spec => []AccountsPushed
<1>1. IndexInv => AccountsPushed
  BY DEF IndexInv, AccountsInv, SentAccounted, AccountsPushed, Accounts, Usable
<1> QED BY <1>1, IndexHolds, PTL

-----------------------------------------------------------------------------
(* The endpoints, when no registry deletes the service while another       *)
(* updates it: otherwise an update may go to an object that was given up.  *)

LEMMA DropShards ==
  ASSUME NEW r \in Registry, NEW n \in Ns, NEW preserveKeys \in BOOLEAN, Typed, Shards,
         Dropped(r, n, preserveKeys), preserveKeys \/ \A s \in Registry : registry[s].at = "idle"
  PROVE Shards'
<1> USE DEF Typed
<1>1. registry[r].at = "idle" /\ registry' = registry
  BY DEF Dropped
<1>2. \A s \in Registry : s # r => calls'[s] = calls[s]
  BY DEF Dropped
<1>3. \A s \in Registry, m \in Ns : wanted'[s][m] = IF s = r /\ m = n THEN {} ELSE wanted[s][m]
  BY DEF Dropped
<1>4. /\ \A o \in 1..MaxObjects, s \in Registry : objects'[o].shards[s] =
           IF o = index[n] /\ s = r THEN {} ELSE objects[o].shards[s]
      /\ \A m \in Ns : m # n \/ preserveKeys => index'[m] = index[m]
      /\ index'[n] \in {index[n], nil}
      /\ index'[n] # index[n] => \A s \in Registry : objects'[index[n]].shards[s] = {}
      /\ index' \in [Ns -> 1..made \cup {nil}]
  BY DEF Dropped
<1>5. \A m \in Ns : index[m] # nil => index[m] \in 1..MaxObjects
  BY RegistriesAssumption, SMT DEF IndexTyped
<1> SUFFICES ASSUME NEW s \in Registry, NEW m \in Ns PROVE ShardAt(s, m)'
  BY DEF Shards
<1>6. ShardAt(s, m)
  BY DEF Shards
<1>7. CASE registry[s].at = "update"
  <2>1. s # r /\ index' = index /\ calls'[s] = calls[s] /\ registry'[s] = registry[s]
    <3>1. preserveKeys /\ s # r
      BY <1>1, <1>7
    <3>2. index' = index
      BY <1>4, <3>1, SMT DEF IndexTyped
    <3> QED BY <1>1, <1>2, <3>1, <3>2
  <2>2. wanted'[s][m] = wanted[s][m] /\ (index[m] # nil => objects'[index[m]].shards[s] = objects[index[m]].shards[s])
    BY <1>3, <1>4, <1>5, <2>1, SMT
  <2> QED BY <1>6, <2>1, <2>2 DEF ShardAt
<1>8. CASE registry[s].at # "update"
  <2>1. wanted[s][m] = IF index[m] = nil THEN {} ELSE objects[index[m]].shards[s]
    BY <1>6, <1>8 DEF ShardAt
  <2>2. wanted'[s][m] = IF index'[m] = nil THEN {} ELSE objects'[index'[m]].shards[s]
    <3>1. CASE index'[m] = index[m] /\ index[m] = nil
      BY <1>3, <2>1, <3>1
    <3>2. CASE index'[m] = index[m] /\ index[m] # nil
      <4>1. index[m] = index[n] <=> m = n
        BY <3>2 DEF Separate
      <4> QED BY SMTT(60), <1>3, <1>4, <1>5, <2>1, <3>2, <4>1
    <3>3. CASE index'[m] # index[m]
      <4>1. m = n /\ index'[n] = nil /\ index[n] # nil
        BY <1>4, <3>3
      <4>2. objects'[index[n]].shards[s] = {} /\ index[n] \in 1..MaxObjects
        BY <1>4, <1>5, <3>3, <4>1
      <4>3. s = r \/ objects[index[n]].shards[s] = {}
        BY <1>4, <4>2
      <4> QED BY <1>3, <2>1, <4>1, <4>3
    <3> QED BY <3>1, <3>2, <3>3
  <2> QED BY <1>1, <1>8, <2>2 DEF ShardAt
<1> QED BY <1>7, <1>8

LEMMA CreateShards ==
  ASSUME NEW r \in Registry, GetOrCreateEndpointShard(r), Typed, Shards
  PROVE Shards'
<1> USE DEF Typed
<1>0. PICK n \in Ns, o \in 1..MaxObjects : Created(r, n, o)
  BY CreateEffect
<1>1. /\ n = Head(calls[r]).ns /\ registry[r].at = "idle"
      /\ IF index[n] = nil THEN o = made + 1 ELSE o = index[n]
      /\ index'[n] = o /\ \A m \in Ns : m # n => index'[m] = index[m]
      /\ registry' = [registry EXCEPT ![r] = [at |-> "update", object |-> o, created |-> index[n] = nil]]
      /\ wanted' = [wanted EXCEPT ![r][n] = Head(calls[r]).eps]
      /\ UNCHANGED <<objects, calls>>
  BY <1>0 DEF Created
<1>2. \A s \in Registry, m \in Ns :
        wanted'[s][m] = IF s = r /\ m = n THEN Head(calls[r]).eps ELSE wanted[s][m]
  BY <1>1, WantedChange, ZenonT(60)
<1> SUFFICES ASSUME NEW s \in Registry, NEW m \in Ns PROVE ShardAt(s, m)'
  BY DEF Shards
<1>3. ShardAt(s, m)
  BY DEF Shards
<1>4. CASE s = r
  <2>1. registry'[r].at = "update" /\ registry'[r].object = o
    BY <1>1 DEF IndexTyped
  <2>2. CASE m = n
    BY SMTT(60), <1>1, <1>2, <1>4, <2>1, <2>2 DEF ShardAt
  <2>3. CASE m # n
    <3>1. wanted[r][m] = IF index[m] = nil THEN {} ELSE objects[index[m]].shards[r]
      BY <1>1, <1>3, <1>4 DEF ShardAt
    <3>2. wanted'[r][m] = wanted[r][m] /\ index'[m] = index[m] /\ Head(calls'[r]).ns # m
      BY SMTT(60), <1>1, <1>2, <2>3
    <3> QED BY <1>1, <1>4, <3>1, <3>2 DEF ShardAt
  <2> QED BY <2>2, <2>3
<1>5. CASE s # r
  <2>1. registry'[s] = registry[s] /\ wanted'[s][m] = wanted[s][m]
    BY <1>1, <1>2, <1>5 DEF IndexTyped
  <2>2. CASE index'[m] = index[m]
    BY <1>1, <1>3, <2>1, <2>2 DEF ShardAt
  <2>3. CASE index'[m] # index[m]
    <3>1. index[m] = nil /\ index'[m] = o /\ o = made + 1 /\ o # nil
      BY <1>1, <2>3, RegistriesAssumption
    <3>2. ~(registry[s].at = "update" /\ Head(calls[s]).ns = m)
      <4>1. registry[s].at = "update" => registry[s].object \in 1..made
        BY DEF InCall
      <4>2. registry[s].at = "update" => registry[s].object # nil
        BY <4>1, RegistriesAssumption, SMT
      <4> QED BY <1>3, <3>1, <4>2 DEF ShardAt
    <3>3. wanted[s][m] = {}
      BY <1>3, <3>1, <3>2 DEF ShardAt
    <3>4. objects[o].shards[s] = {}
      BY <3>1, SMT DEF Separate, IndexTyped
    <3> QED BY <1>1, <2>1, <3>1, <3>2, <3>3, <3>4 DEF ShardAt
  <2> QED BY <2>2, <2>3
<1> QED BY <1>4, <1>5

LEMMA UpdateShards ==
  ASSUME NEW r \in Registry, UpdateServiceEndpoints(r), Typed, Shards
  PROVE Shards'
<1> USE DEF Typed
<1>0. PICK o \in 1..MaxObjects : Updated(r, o)
  BY UpdateEffect
<1>1. /\ o = registry[r].object /\ o \in 1..made /\ calls[r] # <<>>
      /\ \A k \in 1..MaxObjects, s \in Registry : objects'[k].shards[s] =
           IF k = o /\ s = r THEN Head(calls[r]).eps ELSE objects[k].shards[s]
      /\ registry' = [registry EXCEPT ![r] = Idle] /\ Returned(r) /\ UNCHANGED <<index, wanted>>
  BY <1>0 DEF Updated
<1>2. registry[r].at = "update"
  BY DEF UpdateServiceEndpoints
<1>3. Head(calls[r]).ns \in Ns /\ \A s \in Registry : s # r => calls'[s] = calls[s]
  BY <1>1, ReturnedCalls
<1>4. \A m \in Ns : index[m] # nil => index[m] \in 1..MaxObjects
  BY RegistriesAssumption, SMT DEF IndexTyped
<1> SUFFICES ASSUME NEW s \in Registry, NEW m \in Ns PROVE ShardAt(s, m)'
  BY DEF Shards
<1>5. ShardAt(s, m) /\ ShardAt(r, Head(calls[r]).ns)
  BY <1>3 DEF Shards
<1>6. CASE s = r
  <2>1. registry'[r].at = "idle"
    BY <1>1 DEF IndexTyped, Idle
  <2>2. index[Head(calls[r]).ns] = o /\ wanted[r][Head(calls[r]).ns] = Head(calls[r]).eps
    BY <1>1, <1>2, <1>5 DEF ShardAt
  <2>3. CASE m = Head(calls[r]).ns
    <3>1. index[m] # nil /\ objects'[index[m]].shards[r] = Head(calls[r]).eps
      BY SMTT(60), <1>1, <2>2, <2>3, RegistriesAssumption
    <3> QED BY <1>1, <1>6, <2>1, <2>2, <2>3, <3>1, ZenonT(60) DEF ShardAt
  <2>4. CASE m # Head(calls[r]).ns
    <3>1. wanted[r][m] = IF index[m] = nil THEN {} ELSE objects[index[m]].shards[r]
      BY <1>5, <1>6, <2>4 DEF ShardAt
    <3>2. index[m] # nil => index[m] # o
      BY <1>3, <2>2, <2>4 DEF Separate
    <3>3. index[m] # nil => objects'[index[m]].shards[r] = objects[index[m]].shards[r]
      BY <1>1, <1>4, <3>2
    <3> QED BY <1>1, <1>6, <2>1, <3>1, <3>3 DEF ShardAt
  <2> QED BY <2>3, <2>4
<1>7. CASE s # r
  <2>1. registry'[s] = registry[s] /\ calls'[s] = calls[s]
    BY <1>1, <1>3, <1>7 DEF IndexTyped
  <2>2. index[m] # nil => objects'[index[m]].shards[s] = objects[index[m]].shards[s]
    BY <1>1, <1>4, <1>7
  <2> QED BY <1>1, <1>5, <2>1, <2>2 DEF ShardAt
<1> QED BY <1>6, <1>7

LEMMA RegistryShards ==
  ASSUME NEW r \in Registry, RegistryStep(r), Typed, Shards
  PROVE Shards'
<1>1. UNCHANGED <<index, objects, registry, wanted>>
  BY DEF RegistryStep, indexOnly
<1>2. \A s \in Registry : registry[s].at = "update" => calls'[s] = calls[s]
  BY RegistryTyped DEF Typed
<1> SUFFICES ASSUME NEW s \in Registry, NEW m \in Ns PROVE ShardAt(s, m)'
  BY DEF Shards
<1>3. ShardAt(s, m)
  BY DEF Shards
<1> QED BY <1>1, <1>2, <1>3 DEF ShardAt

ShardsInv == IndexInv /\ Shards

LEMMA StepShards == ASSUME SerialDeletes, ShardsInv, [Next]_vars PROVE ShardsInv'
<1> USE DEF ShardsInv
<1>0. IndexInv' /\ Typed
  BY StepIndexInv DEF IndexInv
<1>1. CASE KubeAction \/ EntryAction
  <2>1. PICK r \in {kube, external} : RegistryStep(r)
    BY <1>0, <1>1, RegistrySteps
  <2> QED BY <1>0, <2>1, RegistryShards, RegistriesAssumption
<1>2. CASE IEmpty
  <2>1. PICK r \in Registry : EDSUpdateEmpty(r)
    BY <1>2 DEF IEmpty
  <2>2. DropCall(r, TRUE)
    BY <2>1 DEF EDSUpdateEmpty, Calling, DropCall, Returned
  <2>3. PICK n \in Ns : Dropped(r, n, TRUE)
    BY <1>0, <2>2, DropEffect DEF Typed
  <2> QED BY <1>0, <2>3, DropShards
<1>3. CASE IDelete
  <2>1. PICK r \in Registry : ServiceDelete(r)
    BY <1>3 DEF IDelete
  <2>2. DropCall(r, FALSE) /\ \A s \in Registry : registry[s].at = "idle"
    BY <2>1 DEF ServiceDelete, Calling, DropCall, Returned
  <2>3. PICK n \in Ns : Dropped(r, n, FALSE)
    BY <1>0, <2>2, DropEffect DEF Typed
  <2> QED BY <1>0, <2>2, <2>3, DropShards
<1>4. CASE IGetOrCreate
  BY <1>0, <1>4, CreateShards DEF IGetOrCreate
<1>5. CASE IUpdate
  BY <1>0, <1>5, UpdateShards DEF IUpdate
<1>6. CASE Push
  <2>1. UNCHANGED <<index, objects, registry, wanted, calls>>
    BY <1>6 DEF Push
  <2> QED BY <1>0, <2>1, SMT DEF Shards, ShardAt
<1>7. CASE UNCHANGED vars
  <2>1. UNCHANGED <<index, objects, registry, wanted, calls>>
    BY <1>7 DEF vars, indexVars
  <2> QED BY <1>0, <2>1, SMT DEF Shards, ShardAt
<1> QED BY <1>1, <1>2, <1>3, <1>4, <1>5, <1>6, <1>7 DEF Next, KubeAction, EntryAction

LEMMA ShardsHold == ASSUME SerialDeletes PROVE Spec => []ShardsInv
<1>1. Init => ShardsInv
  <2> SUFFICES ASSUME Init PROVE Shards
    BY InitIndexInv DEF ShardsInv
  <2>1. /\ index = [n \in Ns |-> nil] /\ registry = [r \in Registry |-> Idle]
        /\ wanted = [r \in Registry |-> [n \in Ns |-> {}]]
    BY DEF Init, IndexInit
  <2> QED BY <2>1 DEF Shards, ShardAt, Idle
<1>2. ShardsInv /\ [Next]_vars => ShardsInv'
  BY StepShards
<1> QED BY <1>1, <1>2, PTL DEF Spec

\* Once the calls and the pushes are done, the clients have the usable endpoints
\* every registry reported last, under the accounts of the push context
\* (EDSUpdate), when no registry deletes the service while another is between
\* GetOrCreateEndpointShard and the end of UpdateServiceEndpoints.
THEOREM ReportsReach == ASSUME SerialDeletes PROVE Spec => []ReportsReachClients
<1>1. ShardsInv => ClientsUpdated
  <2> SUFFICES ASSUME ShardsInv, Quiet, ~silent, context.service # nil
               PROVE Usable(sent) = Usable({e \in UNION {wanted[r][context.service.ns] : r \in Registry} :
                                              e.port \in {context.service.port, nil}})
    BY DEF ClientsUpdated
  <2>1. PICK n \in Ns : n = context.service.ns
    BY DEF ShardsInv, IndexInv, Typed, ServicesTyped
  <2>2. \A r \in Registry : wanted[r][n] = IF index[n] = nil THEN {} ELSE objects[index[n]].shards[r]
    BY DEF ShardsInv, Shards, ShardAt, Quiet
  <2>3. UNION {wanted[r][n] : r \in Registry} = ShardsForService(n)
    BY <2>2 DEF ShardsForService
  <2>4. LoadAssignment(context) = {e \in ShardsForService(n) : e.port \in {context.service.port, nil}}
    BY <2>1 DEF LoadAssignment
  <2>5. Usable(sent) = Usable(LoadAssignment(context))
    BY DEF ShardsInv, IndexInv, Delivered, Quiet
  <2> QED BY <2>1, <2>3, <2>4, <2>5
<1>2. ShardsInv => AccountsPushed
  BY DEF ShardsInv, IndexInv, AccountsInv, SentAccounted, AccountsPushed, Accounts, Usable
<1>3. ShardsInv => ReportsReachClients
  BY <1>1, <1>2 DEF ReportsReachClients
<1> QED BY <1>3, ShardsHold, PTL

-----------------------------------------------------------------------------
(* The service-entry registry: what its calls amount to is what reconcile  *)
(* found last, and once every handler has run that is what there is.       *)

\* The value w of a namespace, after the calls of a list, is t.
Settles(s, n, w, t) ==
  IF \A k \in 1..Len(s) : s[k].ns # n THEN w = t
  ELSE \A k \in 1..Len(s) :
         s[k].ns = n /\ (\A l \in (k + 1)..Len(s) : s[l].ns # n) => s[k].eps = t

EntryTarget(n) == IF services # nil /\ services.ns = n THEN endpoints ELSE {}

\* Deletes report no endpoints, and a call in UpdateServiceEndpoints has been noted.
CallsNoted(r) ==
  /\ \A k \in 1..Len(calls[r]) : calls[r][k].op = "delete" => calls[r][k].eps = {}
  /\ registry[r].at = "update" => wanted[r][Head(calls[r]).ns] = Head(calls[r]).eps

EntriesSettle ==
  /\ CallsNoted(external)
  /\ \A n \in Ns : Settles(calls[external], n, wanted[external][n], EntryTarget(n))

EntrySets == [Entry -> EntrySpecs \cup {nil}]

\* The entries a reconcile has read, and those it works on, are current unless a
\* handler is due.
EntriesRead ==
  /\ due \in Nat /\ entries \in EntrySets /\ (reconciling # nil => reconciling \in EntrySets)
  /\ reconciling # nil /\ due = 0 => reconciling = entries
  /\ ran /\ due = 0 /\ reconciling = nil =>
       /\ services = convertService(entries, Winner(entries))
       /\ endpoints = buildEndpoints(entries, Winner(entries))

EntriesInv == IndexInv /\ EntriesSettle /\ EntriesRead

LEMMA SettlesEmpty == \A n, w, t : Settles(<<>>, n, w, t) <=> w = t
BY SMT DEF Settles

\* The first call sets its namespace, and the rest goes on from there.
LEMMA SettlesTail ==
  ASSUME NEW s, CallList(s), s # <<>>, NEW n, NEW w, NEW t, Settles(s, n, w, t)
  PROVE Settles(Tail(s), n, IF Head(s).ns = n THEN Head(s).eps ELSE w, t)
<1>1. PICK S : s \in Seq(S)
  BY DEF CallList, CallsFrom
<1>2. /\ Len(s) \in Nat /\ Len(s) >= 1 /\ Len(Tail(s)) = Len(s) - 1 /\ Head(s) = s[1]
      /\ \A k \in 1..Len(Tail(s)) : Tail(s)[k] = s[k + 1]
  BY <1>1, SMT
<1>3. CASE \A k \in 1..Len(Tail(s)) : Tail(s)[k].ns # n
  <2>1. \A k \in 2..Len(s) : s[k].ns # n
    <3>1. ASSUME NEW k \in 2..Len(s) PROVE s[k].ns # n
      <4>1. k - 1 \in 1..Len(Tail(s)) /\ (k - 1) + 1 = k
        BY <1>2, SMT
      <4> QED BY <1>2, <1>3, <4>1
    <3> QED BY <3>1
  <2>2. CASE Head(s).ns = n
    <3>1. 1 \in 1..Len(s) /\ s[1].ns = n /\ \A l \in (1 + 1)..Len(s) : s[l].ns # n
      BY <1>2, <2>1, <2>2, SMT
    <3>2. s[1].eps = t
      BY <3>1 DEF Settles
    <3> QED BY <1>2, <1>3, <2>2, <3>2 DEF Settles
  <2>3. CASE Head(s).ns # n
    <3>1. \A k \in 1..Len(s) : s[k].ns # n
      BY <1>2, <2>1, <2>3, SMT
    <3> QED BY <1>3, <2>3, <3>1 DEF Settles
  <2> QED BY <2>2, <2>3
<1>4. CASE \E k \in 1..Len(Tail(s)) : Tail(s)[k].ns = n
  <2>1. \E k \in 1..Len(s) : s[k].ns = n
    BY <1>2, <1>4, SMT
  <2>2. ASSUME NEW k \in 1..Len(Tail(s)), Tail(s)[k].ns = n,
               \A l \in (k + 1)..Len(Tail(s)) : Tail(s)[l].ns # n
        PROVE Tail(s)[k].eps = t
    <3>1. k + 1 \in 1..Len(s) /\ Tail(s)[k] = s[k + 1]
      BY <1>2, SMT
    <3>2. ASSUME NEW l \in ((k + 1) + 1)..Len(s) PROVE s[l].ns # n
      <4>1. l - 1 \in (k + 1)..Len(Tail(s)) /\ l - 1 \in 1..Len(Tail(s)) /\ (l - 1) + 1 = l
        BY <1>2, SMT
      <4> QED BY <1>2, <2>2, <4>1
    <3> QED BY <2>1, <2>2, <3>1, <3>2 DEF Settles
  <2> QED BY <1>4, <2>2 DEF Settles
<1> QED BY <1>3, <1>4

\* A call under way has set the namespace it is about already.
LEMMA SettlesBegun ==
  ASSUME NEW s, CallList(s), s # <<>>, NEW n, NEW w, NEW v, NEW t, Settles(s, n, w, t),
         v # w => Head(s).ns = n
  PROVE Settles(s, n, v, t)
<1>1. PICK S : s \in Seq(S)
  BY DEF CallList, CallsFrom
<1>2. 1 \in 1..Len(s) /\ Head(s) = s[1]
  BY <1>1, SMT
<1> QED BY <1>2 DEF Settles

\* What the index does with the calls of a registry: nothing, or it notes the
\* first, or it returns from it.
CallKept(r) ==
  /\ calls'[r] = calls[r] /\ \A n \in Ns : wanted'[r][n] = wanted[r][n]
  /\ registry'[r].at = "update" => registry[r].at = "update"
CallBegun(r) ==
  /\ calls[r] # <<>> /\ calls'[r] = calls[r]
  /\ \A n \in Ns : wanted'[r][n] = IF n = Head(calls[r]).ns THEN Head(calls[r]).eps ELSE wanted[r][n]
CallReturned(r) ==
  /\ calls[r] # <<>> /\ calls'[r] = Tail(calls[r]) /\ registry'[r].at # "update"
  /\ \A n \in Ns : wanted'[r][n] = IF n = Head(calls[r]).ns THEN Head(calls[r]).eps ELSE wanted[r][n]

LEMMA IndexCalls ==
  ASSUME Typed, IEmpty \/ IDelete \/ IGetOrCreate \/ IUpdate, NEW s \in Registry, CallsNoted(s)
  PROVE CallKept(s) \/ CallBegun(s) \/ CallReturned(s)
<1> USE DEF Typed
<1>1. CASE IEmpty \/ IDelete
  <2>1. PICK r \in Registry : EDSUpdateEmpty(r) \/ ServiceDelete(r)
    BY <1>1 DEF IEmpty, IDelete
  <2>2. /\ calls[r] # <<>> /\ Returned(r) /\ registry[r].at = "idle" /\ registry' = registry
        /\ wanted' = [wanted EXCEPT ![r][Head(calls[r]).ns] = {}]
    BY <2>1 DEF EDSUpdateEmpty, ServiceDelete, Calling, Returned
  <2>3. Head(calls[r]).ns \in Ns
    BY <2>2, ReturnedCalls
  <2>4. /\ calls'[r] = Tail(calls[r])
        /\ \A u \in Registry : u # r => calls'[u] = calls[u]
    BY <2>2 DEF Returned, IndexTyped
  <2>5. \A u \in Registry, m \in Ns :
          wanted'[u][m] = IF u = r /\ m = Head(calls[r]).ns THEN {} ELSE wanted[u][m]
    BY <2>2, <2>3, WantedChange, ZenonT(60)
  <2>6. CASE s # r
    BY <2>2, <2>4, <2>5, <2>6, SMT DEF CallKept
  <2>7. CASE s = r
    <3>1. Head(calls[r]).eps = {}
      <4>1. CASE EDSUpdateEmpty(r)
        BY <4>1 DEF EDSUpdateEmpty
      <4>2. CASE ServiceDelete(r)
        <5>1. Head(calls[r]).op = "delete"
          BY <4>2 DEF ServiceDelete, Calling
        <5>2. PICK S : calls[r] \in Seq(S)
          BY DEF IndexTyped, CallList, CallsFrom
        <5>3. 1 \in 1..Len(calls[r]) /\ Head(calls[r]) = calls[r][1]
          BY <2>2, <5>2, SMT
        <5> QED BY <2>7, <5>1, <5>3 DEF CallsNoted
      <4> QED BY <2>1, <4>1, <4>2
    <3>2. \A n \in Ns : wanted'[r][n] = IF n = Head(calls[r]).ns THEN Head(calls[r]).eps ELSE wanted[r][n]
      BY <2>5, <3>1
    <3>3. calls[r] # <<>> /\ calls'[r] = Tail(calls[r]) /\ registry'[r].at # "update"
      BY <2>2, <2>4
    <3> QED BY <2>7, <3>2, <3>3 DEF CallReturned
  <2> QED BY <2>6, <2>7
<1>2. CASE IGetOrCreate
  <2>1. PICK r \in Registry : GetOrCreateEndpointShard(r)
    BY <1>2 DEF IGetOrCreate
  <2>2. PICK n \in Ns, o \in 1..MaxObjects : Created(r, n, o)
    BY <2>1, CreateEffect
  <2>3. /\ n = Head(calls[r]).ns /\ calls[r] # <<>> /\ calls' = calls
        /\ registry' = [registry EXCEPT ![r] = [at |-> "update", object |-> o, created |-> index[n] = nil]]
        /\ wanted' = [wanted EXCEPT ![r][n] = Head(calls[r]).eps]
    BY <2>2 DEF Created
  <2>4. \A u \in Registry, m \in Ns :
          wanted'[u][m] = IF u = r /\ m = n THEN Head(calls[r]).eps ELSE wanted[u][m]
    <3>1. PICK v : v = Head(calls[r]).eps
      OBVIOUS
    <3>2. wanted' = [wanted EXCEPT ![r][n] = v]
      BY <2>3, <3>1
    <3>3. \A u \in Registry, m \in Ns : wanted'[u][m] = IF u = r /\ m = n THEN v ELSE wanted[u][m]
      BY <3>2, WantedChange, ZenonT(60)
    <3> QED BY <3>1, <3>3
  <2>5. CASE s # r
    <3>1. registry'[s] = registry[s]
      BY <2>3, <2>5 DEF IndexTyped
    <3> QED BY <2>3, <2>4, <2>5, <3>1, SMT DEF CallKept
  <2>6. CASE s = r
    <3>1. n = Head(calls[s]).ns /\ calls[s] # <<>> /\ calls'[s] = calls[s]
      BY <2>3, <2>6
    <3>2. \A m \in Ns : wanted'[s][m] = IF m = n THEN Head(calls[s]).eps ELSE wanted[s][m]
      BY <2>4, <2>6
    <3> QED BY <3>1, <3>2 DEF CallBegun
  <2> QED BY <2>5, <2>6
<1>3. CASE IUpdate
  <2>1. PICK r \in Registry : UpdateServiceEndpoints(r)
    BY <1>3 DEF IUpdate
  <2>2. /\ registry[r].at = "update" /\ registry' = [registry EXCEPT ![r] = Idle] /\ wanted' = wanted
        /\ Returned(r)
    BY <2>1 DEF UpdateServiceEndpoints, Returned
  <2>3. calls[r] # <<>>
    BY <2>2 DEF InCall
  <2>4. /\ calls'[r] = Tail(calls[r]) /\ registry'[r] = Idle
        /\ \A u \in Registry : u # r => calls'[u] = calls[u] /\ registry'[u] = registry[u]
    BY <2>2 DEF Returned, IndexTyped
  <2>5. CASE s # r
    BY <2>2, <2>4, <2>5 DEF CallKept
  <2>6. CASE s = r
    BY <2>2, <2>3, <2>4, <2>6, SMT DEF CallReturned, CallsNoted, Idle
  <2> QED BY <2>5, <2>6
<1> QED BY <1>1, <1>2, <1>3

LEMMA CallsSettle ==
  ASSUME Typed, EntriesSettle, UNCHANGED <<services, endpoints>>,
         CallKept(external) \/ CallBegun(external) \/ CallReturned(external)
  PROVE EntriesSettle'
<1> USE DEF Typed
<1>1. CallList(calls[external])
  BY RegistriesAssumption DEF IndexTyped
<1>2. PICK S : calls[external] \in Seq(S)
  BY <1>1 DEF CallList, CallsFrom
<1>3. \A n \in Ns : EntryTarget(n)' = EntryTarget(n)
  BY DEF EntryTarget
<1>4. \A n \in Ns : Settles(calls[external], n, wanted[external][n], EntryTarget(n))
  BY DEF EntriesSettle
<1>5. CASE CallKept(external)
  <2>1. \A n \in Ns : Settles(calls'[external], n, wanted'[external][n], EntryTarget(n)')
    BY <1>3, <1>4, <1>5 DEF CallKept
  <2>2. registry'[external].at = "update" => calls[external] # <<>> /\ Head(calls[external]).ns \in Ns
    BY <1>1, <1>5, CallListRest, RegistriesAssumption DEF CallKept, InCall
  <2>3. CallsNoted(external)'
    BY <1>5, <2>2 DEF CallKept, CallsNoted, EntriesSettle
  <2> QED BY <2>1, <2>3 DEF EntriesSettle
<1>6. CASE CallBegun(external)
  <2>1. ASSUME NEW n \in Ns PROVE Settles(calls'[external], n, wanted'[external][n], EntryTarget(n)')
    <3>1. /\ Settles(calls[external], n, wanted[external][n], EntryTarget(n)) /\ calls[external] # <<>>
          /\ wanted'[external][n] # wanted[external][n] => Head(calls[external]).ns = n
      BY <1>4, <1>6 DEF CallBegun
    <3>2. Settles(calls[external], n, wanted'[external][n], EntryTarget(n))
      BY <1>1, <3>1, SettlesBegun
    <3> QED BY <1>3, <1>6, <3>2 DEF CallBegun
  <2>2. Head(calls[external]).ns \in Ns
    BY <1>1, <1>6, CallListRest DEF CallBegun
  <2>3. CallsNoted(external)'
    BY <1>6, <2>2 DEF CallBegun, CallsNoted, EntriesSettle
  <2> QED BY <2>1, <2>3 DEF EntriesSettle
<1>7. CASE CallReturned(external)
  <2>1. ASSUME NEW n \in Ns PROVE Settles(calls'[external], n, wanted'[external][n], EntryTarget(n)')
    <3>1. /\ Settles(calls[external], n, wanted[external][n], EntryTarget(n)) /\ calls[external] # <<>>
          /\ calls'[external] = Tail(calls[external])
          /\ wanted'[external][n] = IF Head(calls[external]).ns = n THEN Head(calls[external]).eps
                                    ELSE wanted[external][n]
      BY <1>4, <1>7 DEF CallReturned
    <3> QED BY <1>1, <1>3, <3>1, SettlesTail
  <2>2. ASSUME NEW k \in 1..Len(Tail(calls[external]))
        PROVE Tail(calls[external])[k] = calls[external][k + 1] /\ k + 1 \in 1..Len(calls[external])
    <3>1. calls[external] # <<>>
      BY <1>7 DEF CallReturned
    <3> QED BY <1>2, <3>1, SMTT(30)
  <2>3. CallsNoted(external)'
    BY <1>7, <2>2, SMT DEF CallReturned, CallsNoted, EntriesSettle
  <2> QED BY <2>1, <2>3 DEF EntriesSettle
<1> QED BY <1>5, <1>6, <1>7

\* What one, two and three calls amount to.
LEMMA SettlesOne ==
  ASSUME NEW c, NEW n, NEW w, NEW t, t = IF c.ns = n THEN c.eps ELSE w
  PROVE Settles(<<c>>, n, w, t)
BY SMT DEF Settles

LEMMA SettlesTwo ==
  ASSUME NEW c, NEW d, NEW n, NEW w, NEW t,
         t = IF d.ns = n THEN d.eps ELSE IF c.ns = n THEN c.eps ELSE w
  PROVE Settles(<<c, d>>, n, w, t)
BY SMT DEF Settles

LEMMA SettlesThree ==
  ASSUME NEW c, NEW d, NEW e, NEW n, NEW w, NEW t,
         t = IF e.ns = n THEN e.eps ELSE IF d.ns = n THEN d.eps ELSE IF c.ns = n THEN c.eps ELSE w
  PROVE Settles(<<c, d, e>>, n, w, t)
BY SMT DEF Settles

\* The calls of a reconcile turn what was reported into what it found.
LEMMA UpdatesSettle ==
  ASSUME NEW old, NEW new, NEW eps, NEW built, NEW n, NEW w, new = nil => built = {},
         w = IF old # nil /\ old.ns = n THEN eps ELSE {}
  PROVE /\ Settles(Updates(old, new, eps, built), n, w, IF new # nil /\ new.ns = n THEN built ELSE {})
        /\ \A k \in 1..Len(Updates(old, new, eps, built)) :
             Updates(old, new, eps, built)[k].op = "delete" => Updates(old, new, eps, built)[k].eps = {}
<1> USE DEF EDSUpdateCall, ServiceDeleteCall
<1>1. PICK t : t = IF new # nil /\ new.ns = n THEN built ELSE {}
  OBVIOUS
<1>2. PICK list : list = Updates(old, new, eps, built)
  OBVIOUS
<1>3. CASE list = <<>> /\ w = t
  <2>1. Settles(list, n, w, t)
    BY <1>3, SettlesEmpty
  <2>2. \A k \in 1..Len(list) : list[k].op = "delete" => list[k].eps = {}
    BY <1>3, SMT
  <2> QED BY <1>1, <1>2, <2>1, <2>2
<1>4. CASE list = <<EDSUpdateCall(new.ns, built)>> /\ new # nil /\ (old # nil => old.ns = new.ns)
  <2>1. t = IF EDSUpdateCall(new.ns, built).ns = n THEN EDSUpdateCall(new.ns, built).eps ELSE w
    BY <1>1, <1>4
  <2> QED BY <1>1, <1>2, <1>4, <2>1, SettlesOne, SMT
<1>5. CASE list = <<ServiceDeleteCall(old.ns), EDSUpdateCall(old.ns, {})>> /\ old # nil /\ new = nil
  <2>1. t = IF EDSUpdateCall(old.ns, {}).ns = n THEN EDSUpdateCall(old.ns, {}).eps
            ELSE IF ServiceDeleteCall(old.ns).ns = n THEN ServiceDeleteCall(old.ns).eps ELSE w
    BY <1>1, <1>5
  <2> QED BY <1>1, <1>2, <1>5, <2>1, SettlesTwo, SMT
<1>6. CASE /\ list = <<ServiceDeleteCall(old.ns), EDSUpdateCall(old.ns, {}), EDSUpdateCall(new.ns, built)>>
           /\ old # nil /\ new # nil
  <2>1. t = IF EDSUpdateCall(new.ns, built).ns = n THEN EDSUpdateCall(new.ns, built).eps
            ELSE IF EDSUpdateCall(old.ns, {}).ns = n THEN EDSUpdateCall(old.ns, {}).eps
            ELSE IF ServiceDeleteCall(old.ns).ns = n THEN ServiceDeleteCall(old.ns).eps ELSE w
    BY <1>1, <1>6
  <2>2. Settles(list, n, w, t)
    BY <1>6, <2>1, SettlesThree
  <2>3. \A k \in 1..Len(list) : list[k].op = "delete" => list[k].eps = {}
    BY <1>6, SMT
  <2> QED BY <1>1, <1>2, <2>2, <2>3
<1>7. CASE old = nil \/ new = nil
  BY <1>1, <1>2, <1>3, <1>4, <1>5, <1>7, ZenonT(60) DEF Updates
<1>8. CASE old # nil /\ new # nil
  <2>1. list = IF old.ns # new.ns THEN Moved(old, new, built)
               ELSE IF eps # built THEN <<EDSUpdateCall(new.ns, built)>> ELSE <<>>
    BY <1>2, <1>8 DEF Updates
  <2>2. CASE old.ns # new.ns
    BY <1>6, <1>8, <2>1, <2>2 DEF Moved
  <2>3. CASE old.ns = new.ns /\ eps # built
    BY <1>4, <1>8, <2>1, <2>3
  <2>4. CASE old.ns = new.ns /\ eps = built
    <3>1. w = t
      BY <1>1, <1>8, <2>4
    <3> QED BY <1>3, <2>1, <2>4, <3>1
  <2> QED BY <2>2, <2>3, <2>4
<1> QED BY <1>7, <1>8

\* A reconcile that finds an entry has a service, and one that finds none has no
\* endpoints.
LEMMA ConvertedIsThere ==
  ASSUME NEW all \in EntrySets, convertService(all, Winner(all)) = nil
  PROVE buildEndpoints(all, Winner(all)) = {}
<1>1. CASE Winner(all) = nil
  BY <1>1 DEF buildEndpoints
<1>2. CASE Winner(all) # nil
  <2>1. PICK e \in Entry : e = Winner(all) /\ all[e] # nil /\ e # nil
    BY <1>2, WinnerIsEntry
  <2>2. all[e] \in EntrySpecs /\ EntryNs[e] \in Ns
    BY <2>1, RegistriesAssumption DEF EntrySets
  <2>3. convertService(all, e) \in
          [ns : Ns, port : {s.port : s \in EntrySpecs}, accounts : {s.accounts : s \in EntrySpecs}]
    BY <2>1, <2>2 DEF convertService
  <2> QED BY <2>1, <2>3, StartsAssumption
<1> QED BY <1>1, <1>2

LEMMA ReconcileSettles ==
  ASSUME Typed, EntriesSettle, EntriesRead, EReconcile
  PROVE EntriesSettle'
<1> USE DEF Typed
<1>1. PICK new, built, list :
        /\ services' = new /\ endpoints' = built /\ (new = nil => built = {})
        /\ list = Updates(services, new, endpoints, built) /\ calls' = [calls EXCEPT ![external] = list]
  <2>1. reconciling \in EntrySets
    BY DEF EReconcile, reconcile, EntriesRead
  <2>2. \E e : /\ e = Winner(reconciling) /\ services' = convertService(reconciling, e)
               /\ endpoints' = buildEndpoints(reconciling, e)
               /\ calls' = [calls EXCEPT ![external] =
                    Updates(services, convertService(reconciling, e), endpoints, buildEndpoints(reconciling, e))]
    BY DEF EReconcile, reconcile
  <2> QED BY <2>1, <2>2, ConvertedIsThere
<1>2. calls[external] = <<>>
  BY DEF EReconcile, reconcile, ReconcilesAlone
<1>3. calls'[external] = list /\ wanted' = wanted /\ registry' = registry
  BY <1>1, RegistriesAssumption DEF EReconcile, EntryStep, indexOnly, IndexTyped
<1>4. registry[external].at # "update"
  BY <1>2, RegistriesAssumption DEF InCall
<1>5. ASSUME NEW n \in Ns
      PROVE /\ Settles(list, n, wanted[external][n], IF new # nil /\ new.ns = n THEN built ELSE {})
            /\ \A k \in 1..Len(list) : list[k].op = "delete" => list[k].eps = {}
  <2>1. PICK w : w = wanted[external][n]
    OBVIOUS
  <2>2. w = IF services # nil /\ services.ns = n THEN endpoints ELSE {}
    BY <1>2, <2>1, SettlesEmpty, SMT DEF EntriesSettle, EntryTarget
  <2>3. /\ Settles(Updates(services, new, endpoints, built), n, w, IF new # nil /\ new.ns = n THEN built ELSE {})
        /\ \A k \in 1..Len(Updates(services, new, endpoints, built)) :
             Updates(services, new, endpoints, built)[k].op = "delete"
               => Updates(services, new, endpoints, built)[k].eps = {}
    BY <1>1, <2>2, UpdatesSettle
  <2> QED BY <1>1, <2>1, <2>3
<1>6. \A n \in Ns : EntryTarget(n)' = IF new # nil /\ new.ns = n THEN built ELSE {}
  BY <1>1 DEF EntryTarget
<1>7. \A n \in Ns : Settles(calls'[external], n, wanted'[external][n], EntryTarget(n)')
  BY <1>3, <1>5, <1>6, ZenonT(60)
<1>8. CallsNoted(external)'
  BY <1>3, <1>4, <1>5, RegistriesAssumption DEF CallsNoted
<1> QED BY <1>7, <1>8 DEF EntriesSettle

\* Events of the store make a handler due, and a reconcile takes over the entries
\* it listed.
LEMMA EntriesReadKept ==
  ASSUME EntriesRead, EntryAction \/ UNCHANGED entryVars
  PROVE EntriesRead'
<1>1. CASE UNCHANGED entryVars
  BY <1>1 DEF EntriesRead, entryVars, convertService, buildEndpoints, selectWorkloads
<1>2. CASE EChangeEntry
  <2>1. PICK e \in Entry, v \in EntrySpecs \cup {nil} : ChangeEntry(e, v)
    BY <1>2 DEF EChangeEntry
  <2>2. /\ entries' = [entries EXCEPT ![e] = v] /\ due' = due + 1 /\ reconciling' = reconciling
        /\ due \in Nat /\ entries \in EntrySets /\ (reconciling # nil => reconciling \in EntrySets)
    BY <2>1 DEF ChangeEntry, EntriesRead
  <2>3. entries' \in EntrySets /\ due' \in Nat /\ due' # 0
    BY <2>2, SMT DEF EntrySets
  <2> QED BY <2>2, <2>3 DEF EntriesRead
<1>3. CASE EChangeWorkload
  <2>1. PICK v : ChangeWorkload(v)
    BY <1>3 DEF EChangeWorkload
  <2>2. /\ entries' = entries /\ due' = due + 1 /\ reconciling' = reconciling
        /\ due \in Nat /\ entries \in EntrySets /\ (reconciling # nil => reconciling \in EntrySets)
    BY <2>1 DEF ChangeWorkload, EntriesRead
  <2>3. due' \in Nat /\ due' # 0
    BY <2>2, SMT
  <2> QED BY <2>2, <2>3 DEF EntriesRead
<1>4. CASE EListEntries
  <2>1. entries' = entries /\ reconciling' = entries /\ entries \in EntrySets /\ due' \in Nat
    BY <1>4, SMT DEF EListEntries, ListEntries, EntriesRead
  <2>2. reconciling' # nil
    BY <2>1, StartsAssumption DEF EntrySets
  <2> QED BY <2>1, <2>2 DEF EntriesRead
<1>5. CASE EReconcile
  <2>1. /\ reconciling # nil /\ reconciling' = nil /\ UNCHANGED <<entries, workload, due, ran>>
        /\ services' = convertService(reconciling, Winner(reconciling))
        /\ endpoints' = buildEndpoints(reconciling, Winner(reconciling))
    BY <1>5 DEF EReconcile, reconcile
  <2>2. due' = 0 => services' = convertService(entries, Winner(entries))
                    /\ endpoints' = buildEndpoints(entries, Winner(entries))
    BY <2>1 DEF EntriesRead
  <2>3. /\ convertService(entries, Winner(entries))' = convertService(entries, Winner(entries))
        /\ buildEndpoints(entries, Winner(entries))' = buildEndpoints(entries, Winner(entries))
    BY <2>1 DEF convertService, buildEndpoints, selectWorkloads
  <2> QED BY <2>1, <2>2, <2>3 DEF EntriesRead
<1> QED BY <1>1, <1>2, <1>3, <1>4, <1>5 DEF EntryAction

LEMMA InitEntriesInv == Init => EntriesInv
<1> SUFFICES ASSUME Init PROVE EntriesInv
  OBVIOUS
<1>1. PICK start \in Starts : /\ entries = start.entries /\ due = 0 /\ ran = start.up
                              /\ reconciling = nil /\ services = nil /\ endpoints = {}
  BY DEF Init, ServiceEntriesInit
<1>2. calls[external] = <<>> /\ registry[external] = Idle /\ \A n \in Ns : wanted[external][n] = {}
  BY RegistriesAssumption DEF Init, IndexInit
<1>3. CallsNoted(external)
  BY <1>2, SMT DEF CallsNoted, Idle
<1>4. EntriesSettle
  <2>1. \A n \in Ns : EntryTarget(n) = {}
    BY <1>1 DEF EntryTarget
  <2>2. \A n \in Ns : Settles(calls[external], n, wanted[external][n], EntryTarget(n))
    <3>1. \A n \in Ns : Settles(<<>>, n, {}, {})
      BY SettlesEmpty
    <3> QED BY <1>2, <2>1, <3>1
  <2> QED BY <1>3, <2>2 DEF EntriesSettle
<1>5. entries \in EntrySets /\ (ran => \A e \in Entry : entries[e] = nil)
  BY <1>1, StartsAssumption DEF EntrySets
<1>6. ran => Winner(entries) = nil
  BY <1>5 DEF Winner
<1>7. EntriesRead
  BY <1>1, <1>5, <1>6 DEF EntriesRead, convertService, buildEndpoints
<1> QED BY <1>4, <1>7, InitIndexInv DEF EntriesInv

LEMMA StepEntriesInv == EntriesInv /\ [Next]_vars => EntriesInv'
<1> SUFFICES ASSUME EntriesInv, [Next]_vars PROVE EntriesInv'
  OBVIOUS
<1>1. IndexInv' /\ Typed /\ EntriesSettle /\ EntriesRead
  BY StepIndexInv DEF EntriesInv, IndexInv
<1>2. DOMAIN calls = Registry
  BY <1>1 DEF Typed, IndexTyped
<1>3. CASE KubeAction
  <2>1. /\ UNCHANGED <<indexOnly, entryVars>> /\ CallsMade(kube)
    BY <1>1, <1>3, KubeFrame DEF Typed
  <2>2. calls'[external] = calls[external]
    BY <1>2, <2>1, RegistriesAssumption DEF CallsMade
  <2>3. CallKept(external) /\ UNCHANGED <<services, endpoints>>
    BY <2>1, <2>2 DEF CallKept, indexOnly, entryVars
  <2> QED BY <1>1, <2>1, <2>3, CallsSettle, EntriesReadKept DEF EntriesInv
<1>4. CASE EReconcile
  BY <1>1, <1>4, ReconcileSettles, EntriesReadKept DEF EntriesInv, EntryAction
<1>5. CASE EChangeEntry \/ EChangeWorkload \/ EListEntries
  <2>1. UNCHANGED <<indexOnly, calls, services, endpoints>>
    BY <1>5 DEF EChangeEntry, EChangeWorkload, EListEntries, ChangeEntry, ChangeWorkload, ListEntries, EntryStep
  <2>2. CallKept(external)
    BY <2>1 DEF CallKept, indexOnly
  <2> QED BY <1>1, <1>5, <2>1, <2>2, CallsSettle, EntriesReadKept DEF EntriesInv, EntryAction
<1>6. CASE IEmpty \/ IDelete \/ IGetOrCreate \/ IUpdate
  <2>1. UNCHANGED <<entryVars, services, endpoints>>
    BY <1>6 DEF IEmpty, IDelete, IGetOrCreate, IUpdate, IndexStep, entryVars
  <2>2. CallKept(external) \/ CallBegun(external) \/ CallReturned(external)
    BY <1>1, <1>6, IndexCalls, RegistriesAssumption DEF EntriesSettle
  <2> QED BY <1>1, <2>1, <2>2, CallsSettle, EntriesReadKept DEF EntriesInv
<1>7. CASE Push \/ UNCHANGED vars
  <2>1. UNCHANGED <<registry, calls, wanted, entryVars, services, endpoints>>
    BY <1>7 DEF Push, vars, indexVars, entryVars
  <2>2. CallKept(external)
    BY <2>1 DEF CallKept
  <2> QED BY <1>1, <2>1, <2>2, CallsSettle, EntriesReadKept DEF EntriesInv
<1> QED BY <1>3, <1>4, <1>5, <1>6, <1>7 DEF Next, KubeAction

\* Once every handler of the store has run, the service entry registry has
\* reported, in each namespace, the endpoints of the service the oldest entry
\* defines there and none elsewhere, whatever order its handlers, the index and
\* the Kubernetes registry took (reconcile, UpdateServiceEndpoints).
THEOREM EntriesReach == Spec => []EntriesReported
<1>1. EntriesInv => EntriesReported
  <2> SUFFICES ASSUME EntriesInv, EntriesQuiet, NEW n \in Ns
               PROVE wanted[external][n] = LET e == Winner(entries)
                                           IN IF e # nil /\ EntryNs[e] = n THEN buildEndpoints(entries, e) ELSE {}
    BY DEF EntriesReported
  <2>1. PICK e : e = Winner(entries)
    OBVIOUS
  <2>2. calls[external] = <<>> /\ reconciling = nil /\ ran /\ due = 0
    BY DEF EntriesQuiet, Locked
  <2>3. wanted[external][n] = EntryTarget(n)
    BY <2>2, SettlesEmpty, SMT DEF EntriesInv, EntriesSettle
  <2>4. /\ services = convertService(entries, e) /\ endpoints = buildEndpoints(entries, e)
        /\ entries \in EntrySets
    BY <2>1, <2>2 DEF EntriesInv, EntriesRead
  <2>5. services = nil => endpoints = {}
    BY <2>1, <2>4, ConvertedIsThere
  <2>6. CASE e = nil
    BY <2>1, <2>3, <2>4, <2>6 DEF EntryTarget, convertService
  <2>7. CASE e # nil
    <3>1. services.ns = EntryNs[e]
      BY <2>4, <2>7 DEF convertService
    <3> QED BY <2>1, <2>3, <2>4, <2>5, <2>7, <3>1 DEF EntryTarget
  <2> QED BY <2>6, <2>7
<1> QED BY <1>1, InitEntriesInv, StepEntriesInv, PTL DEF Spec

-----------------------------------------------------------------------------
(* The pod cache: a pod of the informer's store is cached under its address, *)
(* or an event that will cache it is on its way.                             *)

IsUpdate(e, x) == e.kind = "pod" /\ e.key = x /\ e.ev # "delete"
IsDelete(e, x) == e.kind = "pod" /\ e.key = x /\ e.ev = "delete"
NoDelete(s, x) == \A l \in 1..Len(s) : ~IsDelete(s[l], x)

\* The last event of the pod that matters is not its deletion.
Ends(s, x) == \E k \in 1..Len(s) : IsUpdate(s[k], x) /\ \A l \in (k + 1)..Len(s) : ~IsDelete(s[l], x)

EventOf(e, K) ==
  /\ e.kind \in K /\ (e.kind = "slice" => e.key \in Slice)
  /\ e.kind = "pod" => e.key \in Pod /\ (e.ev # "add" => e.old \in PodSpecs)
EventsFrom(s, S, K) == s \in Seq(S) /\ \A e \in S : EventOf(e, K)
EventList(s, K) == \E S : EventsFrom(s, S, K)
Tasks == Kinds \cup {"sync"}

ObjectsTyped ==
  /\ "pod" \in DOMAIN store /\ "pod" \in DOMAIN api
  /\ store.pod \in [Pod -> PodSpecs \cup {nil}] /\ api.pod \in [Pod -> PodSpecs \cup {nil}]
EventsTyped ==
  /\ DOMAIN notes = Kinds /\ \A k \in Kinds : EventList(notes[k], {k})
  /\ EventList(queue, Tasks)
MapsTyped ==
  /\ podsByIP \in [IP -> SUBSET Pod] /\ ipByPods \in [Pod -> IP \cup {nil}]
  /\ needResync \in [IP -> SUBSET Slice]

MapsInverse == \A x \in Pod, ip \in IP : x \in podsByIP[ip] <=> ipByPods[x] = ip

Cacheable(pod) == shouldPodBeInEndpoints(pod) /\ pod.ready
Cached(x) == Cacheable(store.pod[x]) => x \in podsByIP[store.pod[x].ip]
Waits(x) == Ends(notes["pod"], x) \/ (NoDelete(notes["pod"], x) /\ Ends(queue, x))
Settled(x) == NoDelete(queue, x) /\ NoDelete(notes["pod"], x) /\ Cached(x)
PodsAwaited == \A x \in Pod : store.pod[x] # nil => Waits(x) \/ Settled(x)

PodsInv == ObjectsTyped /\ EventsTyped /\ MapsTyped /\ MapsInverse /\ PodsAwaited

\* An event that is added, taken or followed by events of slices.
LEMMA EventAdded ==
  ASSUME NEW s, NEW K, EventList(s, K), NEW e, EventOf(e, K)
  PROVE /\ EventList(Append(s, e), K)
        /\ \A x : IsUpdate(e, x) => Ends(Append(s, e), x)
        /\ \A x : ~IsDelete(e, x) /\ Ends(s, x) => Ends(Append(s, e), x)
        /\ \A x : ~IsDelete(e, x) /\ NoDelete(s, x) => NoDelete(Append(s, e), x)
<1>1. PICK S : EventsFrom(s, S, K)
  BY DEF EventList
<1>2. s \in Seq(S)
  BY <1>1 DEF EventsFrom
<1>3. PICK t : t = Append(s, e)
  OBVIOUS
<1>4. /\ t \in Seq(S \cup {e}) /\ Len(s) \in Nat /\ Len(t) = Len(s) + 1 /\ t[Len(s) + 1] = e
      /\ \A k \in 1..Len(s) : t[k] = s[k]
  BY <1>2, <1>3, SMT
<1>5. EventsFrom(t, S \cup {e}, K)
  BY <1>1, <1>4 DEF EventsFrom
<1>6. EventList(t, K)
  BY <1>5 DEF EventList
<1>7. ASSUME NEW x, IsUpdate(e, x) PROVE Ends(t, x)
  <2>1. Len(s) + 1 \in 1..Len(t) /\ (Len(s) + 1 + 1)..Len(t) = {}
    BY <1>4, SMT
  <2> QED BY <1>4, <1>7, <2>1 DEF Ends
<1>8. ASSUME NEW x, ~IsDelete(e, x), Ends(s, x) PROVE Ends(t, x)
  <2>1. PICK k \in 1..Len(s) : IsUpdate(s[k], x) /\ \A l \in (k + 1)..Len(s) : ~IsDelete(s[l], x)
    BY <1>8 DEF Ends
  <2>2. k \in 1..Len(t) /\ IsUpdate(t[k], x)
    BY <1>4, <2>1, SMT
  <2>3. ASSUME NEW l \in (k + 1)..Len(t) PROVE ~IsDelete(t[l], x)
    <3>1. l = Len(s) + 1 \/ (l \in (k + 1)..Len(s) /\ l \in 1..Len(s))
      BY <1>4, SMT
    <3> QED BY <1>4, <1>8, <2>1, <3>1
  <2> QED BY <2>2, <2>3 DEF Ends
<1>9. ASSUME NEW x, ~IsDelete(e, x), NoDelete(s, x) PROVE NoDelete(t, x)
  <2>1. ASSUME NEW l \in 1..Len(t) PROVE ~IsDelete(t[l], x)
    <3>1. l = Len(s) + 1 \/ l \in 1..Len(s)
      BY <1>4, SMT
    <3> QED BY <1>4, <1>9, <3>1 DEF NoDelete
  <2> QED BY <2>1 DEF NoDelete
<1> QED BY <1>3, <1>6, <1>7, <1>8, <1>9

LEMMA EventTaken ==
  ASSUME NEW s, NEW K, EventList(s, K), s # <<>>
  PROVE /\ EventList(Tail(s), K) /\ EventOf(Head(s), K)
        /\ \A x : Ends(s, x) => Ends(Tail(s), x) \/ (IsUpdate(Head(s), x) /\ NoDelete(Tail(s), x))
        /\ \A x : NoDelete(s, x) => NoDelete(Tail(s), x) /\ ~IsDelete(Head(s), x)
<1>1. PICK S : EventsFrom(s, S, K)
  BY DEF EventList
<1>2. s \in Seq(S)
  BY <1>1 DEF EventsFrom
<1>3. PICK t : t = Tail(s)
  OBVIOUS
<1>4. /\ t \in Seq(S) /\ Head(s) \in S /\ Len(s) \in Nat /\ Len(s) >= 1 /\ Len(t) = Len(s) - 1
      /\ Head(s) = s[1] /\ \A k \in 1..Len(t) : t[k] = s[k + 1]
  BY <1>2, <1>3, SMT
<1>5. EventList(t, K) /\ EventOf(Head(s), K)
  BY <1>1, <1>4 DEF EventsFrom, EventList
<1>6. ASSUME NEW k \in 1..Len(s), NEW x, \A l \in (k + 1)..Len(s) : ~IsDelete(s[l], x),
             NEW l \in 1..Len(t), l >= k
      PROVE ~IsDelete(t[l], x)
  <2>1. l + 1 \in (k + 1)..Len(s) /\ t[l] = s[l + 1]
    BY <1>4, <1>6, SMT
  <2> QED BY <1>6, <2>1
<1>7. ASSUME NEW x, Ends(s, x) PROVE Ends(t, x) \/ (IsUpdate(Head(s), x) /\ NoDelete(t, x))
  <2>1. PICK k \in 1..Len(s) : IsUpdate(s[k], x) /\ \A l \in (k + 1)..Len(s) : ~IsDelete(s[l], x)
    BY <1>7 DEF Ends
  <2>2. CASE k = 1
    <3>1. ASSUME NEW l \in 1..Len(t) PROVE ~IsDelete(t[l], x)
      <4>1. l >= k
        BY <1>4, <2>2, SMT
      <4> QED BY <1>6, <2>1, <4>1
    <3> QED BY <1>4, <2>1, <2>2, <3>1 DEF NoDelete
  <2>3. CASE k # 1
    <3>1. k - 1 \in 1..Len(t) /\ t[k - 1] = s[k]
      BY <1>4, <2>3, SMT
    <3>2. ASSUME NEW l \in ((k - 1) + 1)..Len(t) PROVE ~IsDelete(t[l], x)
      <4>1. l \in 1..Len(t) /\ l >= k
        BY <1>4, SMT
      <4> QED BY <1>6, <2>1, <4>1
    <3> QED BY <2>1, <3>1, <3>2 DEF Ends
  <2> QED BY <2>2, <2>3
<1>8. ASSUME NEW x, NoDelete(s, x) PROVE NoDelete(t, x) /\ ~IsDelete(Head(s), x)
  <2>1. 1 \in 1..Len(s) /\ \A l \in 1..Len(t) : l + 1 \in 1..Len(s) /\ t[l] = s[l + 1]
    BY <1>4, SMT
  <2> QED BY <1>4, <1>8, <2>1 DEF NoDelete
<1> QED BY <1>3, <1>5, <1>7, <1>8

LEMMA EventsFollow ==
  ASSUME NEW s, NEW K, EventList(s, K), NEW t, EventList(t, K), \A x : NoDelete(t, x)
  PROVE /\ EventList(s \o t, K)
        /\ \A x : Ends(s, x) => Ends(s \o t, x)
        /\ \A x : NoDelete(s, x) => NoDelete(s \o t, x)
<1>1. PICK S, T : EventsFrom(s, S, K) /\ EventsFrom(t, T, K)
  BY DEF EventList
<1>2. s \in Seq(S) /\ t \in Seq(T)
  BY <1>1 DEF EventsFrom
<1>3. s \in Seq(S \cup T) /\ t \in Seq(S \cup T)
  BY <1>2, SMT
<1>4. PICK u : u = s \o t
  OBVIOUS
<1>5. /\ u \in Seq(S \cup T) /\ Len(s) \in Nat /\ Len(t) \in Nat /\ Len(u) = Len(s) + Len(t)
      /\ \A k \in 1..Len(u) : u[k] = IF k <= Len(s) THEN s[k] ELSE t[k - Len(s)]
  BY <1>3, <1>4, SMT
<1>6. EventsFrom(u, S \cup T, K)
  BY <1>1, <1>5 DEF EventsFrom
<1>7. EventList(u, K)
  BY <1>6 DEF EventList
<1>8. ASSUME NEW x, NEW l \in 1..Len(u), l > Len(s) PROVE ~IsDelete(u[l], x)
  <2>1. l - Len(s) \in 1..Len(t) /\ u[l] = t[l - Len(s)]
    BY <1>5, <1>8, SMT
  <2> QED BY <2>1 DEF NoDelete
<1>9. ASSUME NEW x, Ends(s, x) PROVE Ends(u, x)
  <2>1. PICK k \in 1..Len(s) : IsUpdate(s[k], x) /\ \A l \in (k + 1)..Len(s) : ~IsDelete(s[l], x)
    BY <1>9 DEF Ends
  <2>2. k \in 1..Len(u) /\ u[k] = s[k]
    BY <1>5, SMT
  <2>3. ASSUME NEW l \in (k + 1)..Len(u) PROVE ~IsDelete(u[l], x)
    <3>1. l \in 1..Len(u) /\ (l > Len(s) \/ (l \in (k + 1)..Len(s) /\ u[l] = s[l]))
      BY <1>5, SMT
    <3> QED BY <1>8, <2>1, <3>1
  <2> QED BY <2>1, <2>2, <2>3 DEF Ends
<1>10. ASSUME NEW x, NoDelete(s, x) PROVE NoDelete(u, x)
  <2>1. ASSUME NEW l \in 1..Len(u) PROVE ~IsDelete(u[l], x)
    <3>1. l > Len(s) \/ (l \in 1..Len(s) /\ u[l] = s[l])
      BY <1>5, SMT
    <3> QED BY <1>8, <1>10, <3>1 DEF NoDelete
  <2> QED BY <2>1 DEF NoDelete
<1> QED BY <1>4, <1>7, <1>9, <1>10

\* The events of a set of objects, one for each, in any order.
LEMMA ListedEvents ==
  ASSUME NEW S, IsFiniteSet(S), NEW order \in Orders(S), NEW f, NEW K, \A x \in S : EventOf(f[x], K)
  PROVE /\ EventList([k \in DOMAIN order |-> f[order[k]]], K)
        /\ \A y : (\A x \in S : ~IsDelete(f[x], y)) => NoDelete([k \in DOMAIN order |-> f[order[k]]], y)
        /\ \A x \in S : IsUpdate(f[x], x) /\ (\A y \in S : ~IsDelete(f[y], x))
                        => Ends([k \in DOMAIN order |-> f[order[k]]], x)
<1>1. PICK n \in Nat : n = Cardinality(S)
  BY FS_CardinalityType
<1>2. order \in [1..n -> S] /\ \A x \in S : \E k \in 1..n : order[k] = x
  BY <1>1 DEF Orders, Bijection, Injection, Surjection
<1>3. PICK s : s = [k \in DOMAIN order |-> f[order[k]]]
  OBVIOUS
<1>4. s = [k \in 1..n |-> f[order[k]]]
  BY <1>2, <1>3
<1>5. /\ s \in Seq({f[x] : x \in S}) /\ Len(s) = n
      /\ \A k \in 1..n : s[k] = f[order[k]] /\ order[k] \in S
  BY <1>2, <1>4, SMT
<1>6. EventsFrom(s, {f[x] : x \in S}, K)
  BY <1>5 DEF EventsFrom
<1>7. EventList(s, K)
  BY <1>6 DEF EventList
<1>8. ASSUME NEW y, \A x \in S : ~IsDelete(f[x], y) PROVE NoDelete(s, y)
  BY <1>5, <1>8 DEF NoDelete
<1>9. ASSUME NEW x \in S, IsUpdate(f[x], x), \A y \in S : ~IsDelete(f[y], x) PROVE Ends(s, x)
  <2>1. PICK k \in 1..n : order[k] = x
    BY <1>2
  <2>2. k \in 1..Len(s) /\ IsUpdate(s[k], x)
    BY <1>5, <1>9, <2>1
  <2>3. ASSUME NEW l \in (k + 1)..Len(s) PROVE ~IsDelete(s[l], x)
    <3>1. l \in 1..n
      BY <1>5, SMT
    <3> QED BY <1>5, <1>9, <3>1
  <2> QED BY <2>2, <2>3 DEF Ends
<1> QED BY <1>3, <1>7, <1>8, <1>9

LEMMA PodsUnchanged ==
  ASSUME PodsInv, UNCHANGED <<store, notes, queue, podsByIP, ipByPods, needResync>>,
         "pod" \in DOMAIN api', api.pod' \in [Pod -> PodSpecs \cup {nil}]
  PROVE PodsInv'
<1>1. ObjectsTyped' /\ EventsTyped' /\ MapsTyped' /\ MapsInverse'
  BY DEF PodsInv, ObjectsTyped, EventsTyped, MapsTyped, MapsInverse
<1>2. PodsAwaited'
  BY DEF PodsInv, PodsAwaited, Waits, Settled, Cached
<1> QED BY <1>1, <1>2 DEF PodsInv

LEMMA ClusterChanges == ASSUME PodsInv, KChangeService \/ KChangePod \/ KChangeSlices PROVE PodsInv'
<1>1. UNCHANGED <<store, notes, queue, podsByIP, ipByPods, needResync>>
  BY DEF KChangeService, KChangePod, KChangeSlices, ChangeService, ChangePod, ChangeSlices,
         Unprocessed, informerVars
<1>2. "pod" \in DOMAIN api /\ api.pod \in [Pod -> PodSpecs \cup {nil}]
  BY DEF PodsInv, ObjectsTyped
<1>3. "pod" \in DOMAIN api' /\ api.pod' \in [Pod -> PodSpecs \cup {nil}]
  <2>1. CASE KChangeService
    BY <1>2, <2>1 DEF KChangeService, ChangeService
  <2>2. CASE KChangePod
    <3>1. PICK x \in Pod, v \in PodSpecs \cup {nil} : api' = [api EXCEPT !.pod[x] = v]
      BY <2>2 DEF KChangePod, ChangePod
    <3>2. "pod" \in DOMAIN api' /\ api.pod' = [api.pod EXCEPT ![x] = v]
      BY <1>2, <3>1
    <3> QED BY <1>2, <3>2
  <2>3. CASE KChangeSlices
    <3>1. PICK v : api' = [api EXCEPT !.slice = v]
      BY <2>3 DEF KChangeSlices, ChangeSlices
    <3> QED BY <1>2, <3>1
  <2> QED BY <2>1, <2>2, <2>3
<1> QED BY <1>1, <1>3, PodsUnchanged

\* The maps of the pod cache and the queue stay, and a kind's listener has other
\* events.
LEMMA NotesChanged ==
  ASSUME PodsInv, NEW kind \in Kinds, NEW s, EventList(s, {kind}),
         notes' = [notes EXCEPT ![kind] = s], UNCHANGED <<api, queue, podsByIP, ipByPods, needResync>>,
         ObjectsTyped', kind # "pod" => store.pod' = store.pod,
         kind = "pod" => \A x \in Pod : store.pod'[x] # nil =>
           \/ Ends(s, x)
           \/ store.pod'[x] = store.pod[x] /\ (Ends(notes["pod"], x) => Ends(s, x))
              /\ (NoDelete(notes["pod"], x) => NoDelete(s, x))
  PROVE PodsInv'
<1>1. /\ DOMAIN notes' = Kinds /\ notes'[kind] = s
      /\ \A k \in Kinds : k # kind => notes'[k] = notes[k]
  BY DEF PodsInv, EventsTyped
<1>2. EventsTyped'
  BY <1>1 DEF PodsInv, EventsTyped
<1>3. MapsTyped' /\ MapsInverse'
  BY DEF PodsInv, MapsTyped, MapsInverse
<1>4. PodsAwaited'
  <2>1. CASE kind # "pod"
    <3>1. notes'["pod"] = notes["pod"]
      BY <1>1, <2>1 DEF Kinds
    <3> QED BY <2>1, <3>1 DEF PodsInv, PodsAwaited, Waits, Settled, Cached
  <2>2. CASE kind = "pod"
    <3>1. notes'["pod"] = s
      BY <1>1, <2>2
    <3> SUFFICES ASSUME NEW x \in Pod, store.pod'[x] # nil PROVE Waits(x)' \/ Settled(x)'
      BY DEF PodsAwaited
    <3>2. CASE Ends(s, x)
      BY <3>1, <3>2 DEF Waits
    <3>3. CASE /\ store.pod'[x] = store.pod[x] /\ (Ends(notes["pod"], x) => Ends(s, x))
               /\ (NoDelete(notes["pod"], x) => NoDelete(s, x))
      <4>1. Waits(x) \/ Settled(x)
        BY <3>3 DEF PodsInv, PodsAwaited
      <4>2. Cached(x) => Cached(x)'
        BY <3>3 DEF Cached
      <4> QED BY <3>1, <3>3, <4>1, <4>2 DEF Waits, Settled
    <3> QED BY <2>2, <3>2, <3>3
  <2> QED BY <2>1, <2>2
<1> QED BY <1>2, <1>3, <1>4 DEF PodsInv

\* The objects of a kind are finitely many.
LEMMA KeysFinite ==
  ASSUME NEW kind \in Kinds, NEW S \in SUBSET Keys(kind) PROVE IsFiniteSet(S)
<1>1. IsFiniteSet(Keys(kind))
  BY FS_Singleton, StartsAssumption DEF Keys, Kinds
<1> QED BY <1>1, FS_Subset

\* The first list caches nothing, but has an add event for each pod there is.
LEMMA PodsListed == ASSUME PodsInv, KList PROVE PodsInv'
<1>1. PICK kind \in Kinds : List(kind)
  BY DEF KList
<1>2. PICK there, order :
        /\ there = {k \in Keys(kind) : Object(api, kind, k) # nil} /\ order \in Orders(there)
        /\ notes' = [notes EXCEPT ![kind] =
             [k \in DOMAIN order |-> Event(kind, order[k], nil, Object(api, kind, order[k]))]]
  BY <1>1 DEF List
<1>3. PICK f : f = [x \in there |-> Event(kind, x, nil, Object(api, kind, x))]
  OBVIOUS
<1>4. PICK s : s = [k \in DOMAIN order |-> f[order[k]]]
  OBVIOUS
<1>5. \A k \in DOMAIN order : order[k] \in there
  BY <1>2 DEF Orders, Bijection, Injection
<1>6. s = [k \in DOMAIN order |-> Event(kind, order[k], nil, Object(api, kind, order[k]))]
  BY <1>3, <1>4, <1>5
<1>7. \A x \in there : f[x].kind = kind /\ f[x].key = x /\ f[x].ev = "add"
  BY <1>3 DEF Event
<1>8. IsFiniteSet(there)
  BY <1>2, KeysFinite
<1>9. \A x \in there : EventOf(f[x], {kind})
  BY <1>2, <1>7 DEF EventOf, Keys
<1>10. /\ EventList(s, {kind})
       /\ \A x \in there : IsUpdate(f[x], x) /\ (\A y \in there : ~IsDelete(f[y], x)) => Ends(s, x)
  BY <1>2, <1>4, <1>8, <1>9, ListedEvents, ZenonT(60)
<1>11. /\ UNCHANGED <<api, queue, podsByIP, ipByPods, needResync>>
       /\ store' = CASE kind = "svc" -> [store EXCEPT !.svc = api.svc]
                     [] kind = "pod" -> [store EXCEPT !.pod = api.pod]
                     [] kind = "slice" -> [store EXCEPT !.slice = api.slice]
  BY <1>1 DEF List, Unprocessed
<1>12. /\ "pod" \in DOMAIN store' /\ (kind # "pod" => store.pod' = store.pod)
       /\ (kind = "pod" => store.pod' = api.pod)
  BY <1>11 DEF PodsInv, ObjectsTyped, Kinds
<1>13. ObjectsTyped'
  BY <1>11, <1>12 DEF PodsInv, ObjectsTyped
<1>14. ASSUME kind = "pod", NEW x \in Pod, store.pod'[x] # nil PROVE Ends(s, x)
  <2>1. x \in there
    BY <1>2, <1>12, <1>14 DEF Keys, Object
  <2>2. IsUpdate(f[x], x) /\ \A y \in there : ~IsDelete(f[y], x)
    BY <1>7, <1>14, <2>1 DEF IsUpdate, IsDelete
  <2> QED BY <1>10, <2>1, <2>2
<1> QED BY <1>2, <1>6, <1>10, <1>11, <1>12, <1>13, <1>14, NotesChanged, ZenonT(60)

\* The watch brings an event with each change of the store.
LEMMA PodsInformed == ASSUME PodsInv, KInform PROVE PodsInv'
<1>1. PICK kind \in Kinds : \E key \in Keys(kind) : Inform(kind, key)
  BY DEF KInform
<1>2. PICK key \in Keys(kind) : Inform(kind, key)
  BY <1>1
<1>3. PICK e : e = Event(kind, key, Object(store, kind, key), Object(api, kind, key))
  OBVIOUS
<1>4. PICK s : s = Append(notes[kind], e)
  OBVIOUS
<1>5. /\ UNCHANGED <<api, queue, podsByIP, ipByPods, needResync>>
      /\ store' = CASE kind = "svc" -> [store EXCEPT !.svc = api.svc]
                    [] kind = "pod" -> [store EXCEPT !.pod[key] = api.pod[key]]
                    [] kind = "slice" -> [store EXCEPT !.slice[key] = api.slice[key]]
  BY <1>2 DEF Inform, Unprocessed
<1>6. notes' = [notes EXCEPT ![kind] = s]
  BY <1>2, <1>3, <1>4 DEF Inform
<1>7. /\ "pod" \in DOMAIN store' /\ (kind # "pod" => store.pod' = store.pod)
      /\ (kind = "pod" => store.pod' = [store.pod EXCEPT ![key] = api.pod[key]])
  BY <1>5 DEF PodsInv, ObjectsTyped, Kinds
<1>8. kind = "pod" => key \in Pod
  BY DEF Keys
<1>9. ObjectsTyped'
  BY <1>5, <1>7, <1>8 DEF PodsInv, ObjectsTyped
<1>10. EventOf(e, {kind})
  <2>1. e.kind = kind /\ e.key = key /\ e.old = Object(store, kind, key) /\ (e.ev # "add" => e.old # nil)
    BY <1>3 DEF Event
  <2>2. kind = "pod" => Object(store, kind, key) \in PodSpecs \cup {nil}
    BY <1>8 DEF Object, PodsInv, ObjectsTyped
  <2> QED BY <1>8, <2>1, <2>2 DEF EventOf, Keys
<1>11. EventList(notes[kind], {kind})
  BY DEF PodsInv, EventsTyped
<1>12. /\ EventList(s, {kind})
       /\ \A x : IsUpdate(e, x) => Ends(s, x)
       /\ \A x : ~IsDelete(e, x) /\ Ends(notes[kind], x) => Ends(s, x)
       /\ \A x : ~IsDelete(e, x) /\ NoDelete(notes[kind], x) => NoDelete(s, x)
  BY <1>4, <1>10, <1>11, EventAdded
<1>13. ASSUME kind = "pod", NEW x \in Pod, store.pod'[x] # nil
       PROVE \/ Ends(s, x)
             \/ store.pod'[x] = store.pod[x] /\ (Ends(notes["pod"], x) => Ends(s, x))
                /\ (NoDelete(notes["pod"], x) => NoDelete(s, x))
  <2>1. CASE x = key
    <3>1. api.pod[key] # nil
      BY <1>7, <1>8, <1>13, <2>1 DEF PodsInv, ObjectsTyped
    <3>2. IsUpdate(e, x)
      BY <1>3, <1>13, <2>1, <3>1 DEF IsUpdate, Event, Object
    <3> QED BY <1>12, <3>2
  <2>2. CASE x # key
    <3>1. ~IsDelete(e, x)
      BY <1>3, <2>2 DEF IsDelete, Event
    <3>2. store.pod'[x] = store.pod[x]
      BY <1>7, <1>8, <1>13, <2>2 DEF PodsInv, ObjectsTyped
    <3> QED BY <1>12, <1>13, <3>1, <3>2
  <2> QED BY <2>1, <2>2
<1> QED BY <1>5, <1>6, <1>7, <1>9, <1>12, <1>13, NotesChanged, ZenonT(60)

\* A listener's event goes from its notes to the queue.
LEMMA PodsPushed == ASSUME PodsInv, KPushEvent PROVE PodsInv'
<1>1. PICK kind \in Kinds : PushEvent(kind)
  BY DEF KPushEvent
<1>2. PICK e, s : e = Head(notes[kind]) /\ s = Tail(notes[kind])
  OBVIOUS
<1>3. /\ notes[kind] # <<>> /\ queue' = Append(queue, e) /\ notes' = [notes EXCEPT ![kind] = Tail(@)]
      /\ UNCHANGED <<api, store, podsByIP, ipByPods, needResync>>
  BY <1>1, <1>2 DEF PushEvent, Unprocessed
<1>4. EventList(notes[kind], {kind}) /\ EventList(queue, Tasks) /\ DOMAIN notes = Kinds
  BY DEF PodsInv, EventsTyped
<1>5. /\ EventList(s, {kind}) /\ EventOf(e, {kind})
      /\ \A x : Ends(notes[kind], x) => Ends(s, x) \/ (IsUpdate(e, x) /\ NoDelete(s, x))
      /\ \A x : NoDelete(notes[kind], x) => NoDelete(s, x) /\ ~IsDelete(e, x)
  BY <1>2, <1>3, <1>4, EventTaken
<1>6. EventOf(e, Tasks)
  BY <1>5 DEF EventOf, Tasks
<1>7. /\ EventList(queue', Tasks)
      /\ \A x : IsUpdate(e, x) => Ends(queue', x)
      /\ \A x : ~IsDelete(e, x) /\ Ends(queue, x) => Ends(queue', x)
      /\ \A x : ~IsDelete(e, x) /\ NoDelete(queue, x) => NoDelete(queue', x)
  BY <1>3, <1>4, <1>6, EventAdded
<1>8. DOMAIN notes' = Kinds /\ notes'[kind] = s /\ \A k \in Kinds : k # kind => notes'[k] = notes[k]
  BY <1>2, <1>3, <1>4
<1>9. EventsTyped'
  BY <1>5, <1>7, <1>8 DEF PodsInv, EventsTyped
<1>10. ObjectsTyped' /\ MapsTyped' /\ MapsInverse'
  BY <1>3 DEF PodsInv, ObjectsTyped, MapsTyped, MapsInverse
<1>11. ASSUME NEW x \in Pod, store.pod'[x] # nil PROVE Waits(x)' \/ Settled(x)'
  <2>1. (Waits(x) \/ Settled(x)) /\ (Cached(x) => Cached(x)')
    BY <1>3, <1>11 DEF PodsInv, PodsAwaited, Cached
  <2>2. CASE kind # "pod"
    <3>1. notes'["pod"] = notes["pod"] /\ ~IsDelete(e, x)
      BY <1>5, <1>8, <2>2 DEF Kinds, EventOf, IsDelete
    <3> QED BY <1>7, <2>1, <3>1 DEF Waits, Settled
  <2>3. CASE kind = "pod"
    <3>1. notes'["pod"] = s
      BY <1>8, <2>3
    <3>2. ~(IsUpdate(e, x) /\ IsDelete(e, x))
      BY DEF IsUpdate, IsDelete
    <3> QED BY <1>5, <1>7, <2>1, <2>3, <3>1, <3>2, ZenonT(60) DEF Waits, Settled
  <2> QED BY <2>2, <2>3
<1> QED BY <1>9, <1>10, <1>11 DEF PodsInv, PodsAwaited

\* The marker of the first sync is no event of a pod.
LEMMA PodsRun == ASSUME PodsInv, KRun PROVE PodsInv'
<1>1. /\ queue' = Append(queue, SyncTask)
      /\ UNCHANGED <<api, store, notes, podsByIP, ipByPods, needResync>>
  BY DEF KRun, Run, Unprocessed
<1>2. EventOf(SyncTask, Tasks) /\ \A x : ~IsDelete(SyncTask, x)
  BY DEF EventOf, SyncTask, Tasks, IsDelete
<1>3. EventList(queue, Tasks)
  BY DEF PodsInv, EventsTyped
<1>4. /\ EventList(queue', Tasks)
      /\ \A x : Ends(queue, x) => Ends(queue', x)
      /\ \A x : NoDelete(queue, x) => NoDelete(queue', x)
  BY <1>1, <1>2, <1>3, EventAdded
<1>5. ObjectsTyped' /\ EventsTyped' /\ MapsTyped' /\ MapsInverse'
  BY <1>1, <1>4 DEF PodsInv, ObjectsTyped, EventsTyped, MapsTyped, MapsInverse
<1>6. PodsAwaited'
  BY <1>1, <1>4 DEF PodsInv, PodsAwaited, Waits, Settled, Cached
<1> QED BY <1>5, <1>6 DEF PodsInv

\* A task that is not a pod's leaves the pods cached.
LEMMA OtherTask ==
  ASSUME PodsInv, queue # <<>>, Head(queue).kind # "pod", queue' = Tail(queue),
         UNCHANGED <<api, store, notes, podsByIP, ipByPods>>, needResync' \in [IP -> SUBSET Slice]
  PROVE PodsInv'
<1>1. EventList(queue, Tasks)
  BY DEF PodsInv, EventsTyped
<1>2. /\ EventList(queue', Tasks)
      /\ \A x : Ends(queue, x) => Ends(queue', x) \/ IsUpdate(Head(queue), x)
      /\ \A x : NoDelete(queue, x) => NoDelete(queue', x)
  BY <1>1, EventTaken
<1>3. \A x : ~IsUpdate(Head(queue), x)
  BY DEF IsUpdate
<1>4. ObjectsTyped' /\ EventsTyped' /\ MapsTyped' /\ MapsInverse'
  BY <1>2 DEF PodsInv, ObjectsTyped, EventsTyped, MapsTyped, MapsInverse
<1>5. PodsAwaited'
  BY <1>2, <1>3 DEF PodsInv, PodsAwaited, Waits, Settled, Cached
<1> QED BY <1>4, <1>5 DEF PodsInv

LEMMA PodsOtherTask == ASSUME PodsInv, KProcessSync \/ KProcessService \/ KProcessSlice PROVE PodsInv'
<1>1. /\ queue # <<>> /\ Head(queue).kind \in {"sync", "svc", "slice"} /\ queue' = Tail(queue)
      /\ UNCHANGED <<api, store, notes>>
  BY DEF KProcessSync, KProcessService, KProcessSlice, ProcessSync, ProcessService, ProcessSlice, Take
<1>2. needResync \in [IP -> SUBSET Slice] /\ EventList(queue, Tasks)
  BY DEF PodsInv, MapsTyped, EventsTyped
<1>3. ASSUME Ignore \/ addOrUpdateService \/ deleteService PROVE UNCHANGED <<podsByIP, ipByPods, needResync>>
  BY <1>3 DEF Ignore, addOrUpdateService, deleteService, podCacheVars
<1>4. CASE KProcessSync \/ KProcessService
  <2>1. UNCHANGED <<podsByIP, ipByPods, needResync>>
    BY <1>3, <1>4 DEF KProcessSync, KProcessService, ProcessSync, ProcessService
  <2> QED BY <1>1, <1>2, <2>1, OtherTask
<1>5. CASE KProcessSlice
  <2>1. PICK key : key = Head(queue).key
    OBVIOUS
  <2>2. key \in Slice
    <3>1. Head(queue).kind = "slice"
      BY <1>5 DEF KProcessSlice, ProcessSlice, Take
    <3> QED BY <1>1, <1>2, <2>1, <3>1, EventTaken DEF EventOf
  <2>3. Ignore \/ \E slice : UpdateSlice(key, slice) \/ DeleteSlice(key, slice)
    BY <1>5, <2>1 DEF KProcessSlice, ProcessSlice
  <2>4. CASE Ignore
    BY <1>1, <1>2, <1>3, <2>4, OtherTask
  <2>5. ASSUME NEW slice, UpdateSlice(key, slice) \/ DeleteSlice(key, slice)
        PROVE UNCHANGED <<podsByIP, ipByPods>> /\ needResync' \in [IP -> SUBSET Slice]
    <3>1. CASE UpdateSlice(key, slice)
      <4>1. PICK waiting : needResync' = [ip \in IP |-> IF ip \in waiting THEN needResync[ip] \cup {key}
                                                        ELSE needResync[ip]]
        BY <3>1 DEF UpdateSlice
      <4> QED BY <1>2, <2>2, <3>1, <4>1, ZenonT(60) DEF UpdateSlice
    <3>2. CASE DeleteSlice(key, slice)
      <4>1. needResync' = [ip \in IP |-> IF \E e \in slice.endpoints : e.ip = ip THEN needResync[ip] \ {key}
                                         ELSE needResync[ip]]
        BY <3>2 DEF DeleteSlice
      <4> QED BY <1>2, <3>2, <4>1, SMT DEF DeleteSlice
    <3> QED BY <2>5, <3>1, <3>2
  <2> QED BY <1>1, <2>3, <2>4, <2>5, OtherTask
<1> QED BY <1>4, <1>5

\* What PodCache.onEvent does to its maps: they stay inverse, no other pod moves,
\* and a ready pod is under its address afterwards.
MapsMoved(e, pod) ==
  /\ MapsTyped' /\ MapsInverse'
  /\ \A x \in Pod, ip \in IP : x # e.key => (x \in podsByIP'[ip] <=> x \in podsByIP[ip])
  /\ e.ev # "delete" /\ Cacheable(pod) => e.key \in podsByIP'[pod.ip]

LEMMA PodMoves ==
  ASSUME MapsTyped, MapsInverse, NEW e, e.key \in Pod, NEW pod \in PodSpecs, PodEvent(e, pod)
  PROVE MapsMoved(e, pod)
<1>1. PICK x \in Pod : x = e.key
  OBVIOUS
<1>2. PICK ip : ip = IF pod.ip = nil THEN ipByPods[x] ELSE pod.ip
  OBVIOUS
<1>3. ip \in IP \cup {nil} /\ nil \notin IP
  BY <1>1, <1>2, StartsAssumption DEF MapsTyped
<1>4. Cacheable(pod) => ip = pod.ip /\ ip # nil
  BY <1>2 DEF Cacheable, shouldPodBeInEndpoints
<1>5. \/ Ignore /\ (e.ev # "delete" /\ Cacheable(pod) => ip = nil \/ x \in podsByIP[ip])
      \/ ip # nil /\ (e.ev = "delete" \/ ~Cacheable(pod)) /\ deleteIP(x, ip)
      \/ ip # nil /\ x \notin podsByIP[ip] /\ CachePod(x, ip)
      \/ ip # nil /\ x \in podsByIP[ip] /\ recomputeServiceForPod(pod)
  BY <1>1, <1>2 DEF PodEvent, Cacheable
<1>6. ASSUME UNCHANGED <<podsByIP, ipByPods>>, needResync' \in [IP -> SUBSET Slice],
             e.ev # "delete" /\ Cacheable(pod) => x \in podsByIP[ip]
      PROVE MapsMoved(e, pod)
  BY <1>1, <1>4, <1>6 DEF MapsMoved, MapsTyped, MapsInverse
<1>7. CASE Ignore /\ (e.ev # "delete" /\ Cacheable(pod) => ip = nil \/ x \in podsByIP[ip])
  <2>1. UNCHANGED <<podsByIP, ipByPods, needResync>>
    BY <1>7 DEF Ignore, podCacheVars
  <2> QED BY <1>4, <1>6, <1>7, <2>1 DEF MapsTyped
<1>8. CASE ip # nil /\ (e.ev = "delete" \/ ~Cacheable(pod)) /\ deleteIP(x, ip)
  <2>1. CASE x \in podsByIP[ip]
    <3>1. /\ podsByIP' = [podsByIP EXCEPT ![ip] = @ \ {x}] /\ ipByPods' = [ipByPods EXCEPT ![x] = nil]
          /\ needResync' = needResync
      BY <1>8, <2>1 DEF deleteIP
    <3>2. ip \in IP /\ ipByPods[x] = ip
      BY <1>3, <1>8, <2>1 DEF MapsInverse
    <3>3. MapsTyped'
      BY <3>1, <3>2 DEF MapsTyped
    <3>4. \A y \in Pod, a \in IP : /\ y \in podsByIP'[a] <=> y \in podsByIP[a] /\ ~(y = x /\ a = ip)
                                   /\ ipByPods'[y] = IF y = x THEN nil ELSE ipByPods[y]
      BY <3>1, <3>2 DEF MapsTyped
    <3>5. MapsInverse'
      BY <1>3, <3>2, <3>4, SMT DEF MapsInverse
    <3> QED BY <1>1, <1>8, <3>3, <3>4, <3>5 DEF MapsMoved
  <2>2. CASE x \notin podsByIP[ip]
    <3>1. UNCHANGED <<podsByIP, ipByPods, needResync>>
      BY <1>8, <2>2 DEF deleteIP, podCacheVars
    <3> QED BY <1>6, <1>8, <3>1 DEF MapsTyped
  <2> QED BY <2>1, <2>2
<1>9. CASE ip # nil /\ x \notin podsByIP[ip] /\ CachePod(x, ip)
  <2>1. /\ podsByIP' = [a \in IP |-> IF a = ip THEN podsByIP[a] \cup {x}
                                     ELSE IF a = ipByPods[x] THEN podsByIP[a] \ {x} ELSE podsByIP[a]]
        /\ ipByPods' = [ipByPods EXCEPT ![x] = ip] /\ needResync' = [needResync EXCEPT ![ip] = {}]
    BY <1>9 DEF CachePod
  <2>2. ip \in IP
    BY <1>3, <1>9
  <2>3. MapsTyped'
    BY <2>1, <2>2 DEF MapsTyped
  <2>4. \A y \in Pod, a \in IP : /\ y # x => (y \in podsByIP'[a] <=> y \in podsByIP[a])
                                 /\ x \in podsByIP'[a] <=> a = ip \/ (a # ipByPods[x] /\ x \in podsByIP[a])
                                 /\ ipByPods'[y] = IF y = x THEN ip ELSE ipByPods[y]
    BY <2>1 DEF MapsTyped
  <2>5. MapsInverse'
    <3>1. \A a \in IP : x \in podsByIP'[a] <=> a = ip
      BY <2>4, SMT DEF MapsInverse
    <3> QED BY <2>4, <3>1, SMT DEF MapsInverse
  <2>6. x \in podsByIP'[ip]
    BY <2>2, <2>4
  <2> QED BY <1>1, <1>4, <2>3, <2>4, <2>5, <2>6 DEF MapsMoved
<1>10. CASE ip # nil /\ x \in podsByIP[ip] /\ recomputeServiceForPod(pod)
  <2>1. UNCHANGED <<podsByIP, ipByPods>> /\ needResync' \in [IP -> SUBSET Slice]
    <3>1. CASE store.svc # nil /\ Matches(store.svc, pod) /\ servicesMap # nil
      <4>1. PICK built \in SUBSET Slice :
              needResync' = [a \in IP |-> needResync[a]
                               \cup {s \in built : a \in registerEndpointResync(store.slice[s])}]
        BY <1>10, <3>1 DEF recomputeServiceForPod
      <4> QED BY <1>10, <3>1, <4>1 DEF recomputeServiceForPod, MapsTyped
    <3>2. CASE ~(store.svc # nil /\ Matches(store.svc, pod) /\ servicesMap # nil)
      BY <1>10, <3>2 DEF recomputeServiceForPod, podCacheVars, MapsTyped
    <3> QED BY <3>1, <3>2
  <2> QED BY <1>6, <1>10, <2>1
<1> QED BY <1>5, <1>7, <1>8, <1>9, <1>10

\* The slices a pod that becomes cached sends to the queue come last, and are no
\* events of pods.
LEMMA SlicesQueued ==
  ASSUME PodsInv, KProcessPod
  PROVE /\ EventList(queue', Tasks)
        /\ \A x : Ends(Tail(queue), x) => Ends(queue', x)
        /\ \A x : NoDelete(Tail(queue), x) => NoDelete(queue', x)
<1>1. PICK S : S = Arrived(Head(queue))
  OBVIOUS
<1>2. queue # <<>> /\ Head(queue).kind = "pod"
  BY DEF KProcessPod, ProcessPod, Take
<1>3. PICK order \in Orders(S) : queue' = Tail(queue) \o [k \in DOMAIN order |-> ResyncTask(order[k])]
  BY <1>1 DEF KProcessPod, ProcessPod
<1>4. EventList(Tail(queue), Tasks) /\ EventOf(Head(queue), Tasks)
  BY <1>2, EventTaken DEF PodsInv, EventsTyped
<1>5. S \subseteq Slice
  <2>1. CASE S = {}
    BY <2>1
  <2>2. CASE S # {}
    <3>1. PICK pod : /\ pod = store.pod[Head(queue).key] /\ pod # nil /\ shouldPodBeInEndpoints(pod)
                     /\ S = needResync[pod.ip]
      BY <1>1, <2>2 DEF Arrived
    <3>2. Head(queue).key \in Pod
      BY <1>2, <1>4 DEF EventOf
    <3>3. pod \in PodSpecs
      BY <3>1, <3>2 DEF PodsInv, ObjectsTyped
    <3>4. pod.ip \in IP
      BY <3>1, <3>3, StartsAssumption DEF shouldPodBeInEndpoints
    <3> QED BY <3>1, <3>4 DEF PodsInv, MapsTyped
  <2> QED BY <2>1, <2>2
<1>6. IsFiniteSet(S)
  BY <1>5, FS_Subset, StartsAssumption
<1>7. PICK f : f = [s \in S |-> ResyncTask(s)]
  OBVIOUS
<1>8. \A s \in S : EventOf(f[s], Tasks) /\ \A x : ~IsDelete(f[s], x)
  BY <1>5, <1>7 DEF ResyncTask, EventOf, Tasks, Kinds, IsDelete
<1>9. PICK t : t = [k \in DOMAIN order |-> f[order[k]]]
  OBVIOUS
<1>10. EventList(t, Tasks) /\ \A x : NoDelete(t, x)
  BY <1>3, <1>6, <1>8, <1>9, ListedEvents
<1>11. queue' = Tail(queue) \o t
  <2>1. \A k \in DOMAIN order : order[k] \in S
    BY <1>3 DEF Orders, Bijection, Injection
  <2>2. t = [k \in DOMAIN order |-> ResyncTask(order[k])]
    BY <1>7, <1>9, <2>1
  <2> QED BY <1>3, <2>2
<1> QED BY <1>4, <1>10, <1>11, EventsFollow

\* The handler of pods reads the pod again, and caches what it finds.
LEMMA PodsProcessed == ASSUME PodsInv, KProcessPod PROVE PodsInv'
<1>1. PICK e : e = Head(queue)
  OBVIOUS
<1>2. queue # <<>> /\ e.kind = "pod" /\ UNCHANGED <<api, store, notes>>
  BY <1>1 DEF KProcessPod, ProcessPod, Take
<1>3. EventList(queue, Tasks)
  BY DEF PodsInv, EventsTyped
<1>4. /\ EventOf(e, Tasks)
      /\ \A x : Ends(queue, x) => Ends(Tail(queue), x) \/ (IsUpdate(e, x) /\ NoDelete(Tail(queue), x))
      /\ \A x : NoDelete(queue, x) => NoDelete(Tail(queue), x) /\ ~IsDelete(e, x)
  BY <1>1, <1>2, <1>3, EventTaken
<1>5. /\ EventList(queue', Tasks)
      /\ \A x : Ends(Tail(queue), x) => Ends(queue', x)
      /\ \A x : NoDelete(Tail(queue), x) => NoDelete(queue', x)
  BY SlicesQueued
<1>6. PICK key \in Pod : key = e.key /\ (e.ev # "add" => e.old \in PodSpecs)
  BY <1>2, <1>4 DEF EventOf
<1>7. ObjectsTyped' /\ EventsTyped'
  BY <1>2, <1>5 DEF PodsInv, ObjectsTyped, EventsTyped
<1>8. /\ MapsTyped' /\ MapsInverse'
      /\ \A x \in Pod, ip \in IP : x # key => (x \in podsByIP'[ip] <=> x \in podsByIP[ip])
      /\ e.ev # "delete" /\ store.pod[key] # nil => Cached(key)'
  <2>1. CASE e.ev = "delete"
    <3>1. e.old \in PodSpecs /\ PodEvent(e, e.old)
      BY <1>1, <1>6, <2>1 DEF KProcessPod, ProcessPod
    <3> QED BY <1>6, <2>1, <3>1, PodMoves DEF PodsInv, MapsMoved
  <2>2. CASE e.ev # "delete" /\ store.pod[key] = nil
    <3>1. UNCHANGED <<podsByIP, ipByPods, needResync>>
      BY <1>1, <1>6, <2>2 DEF KProcessPod, ProcessPod, Ignore, podCacheVars
    <3> QED BY <2>2, <3>1 DEF PodsInv, MapsTyped, MapsInverse
  <2>3. CASE e.ev # "delete" /\ store.pod[key] # nil
    <3>1. PICK pod \in PodSpecs : pod = store.pod[key]
      BY <2>3 DEF PodsInv, ObjectsTyped
    <3>2. PodEvent(e, pod)
      BY <1>1, <1>6, <2>3, <3>1 DEF KProcessPod, ProcessPod
    <3>3. MapsMoved(e, pod)
      BY <1>6, <3>2, PodMoves DEF PodsInv
    <3>4. Cached(key)'
      BY <1>2, <1>6, <2>3, <3>1, <3>3 DEF MapsMoved, Cached
    <3> QED BY <1>6, <3>3, <3>4 DEF MapsMoved
  <2> QED BY <2>1, <2>2, <2>3
<1>9. ASSUME NEW x \in Pod, store.pod'[x] # nil PROVE Waits(x)' \/ Settled(x)'
  <2>1. Waits(x) \/ Settled(x)
    BY <1>2, <1>9 DEF PodsInv, PodsAwaited
  <2>2. CASE Ends(notes["pod"], x)
    BY <1>2, <2>2 DEF Waits
  <2>3. CASE NoDelete(notes["pod"], x) /\ Ends(Tail(queue), x)
    BY <1>2, <1>5, <2>3 DEF Waits
  <2>4. ASSUME NoDelete(notes["pod"], x), NoDelete(Tail(queue), x), Cached(x)' PROVE Settled(x)'
    BY <1>2, <1>5, <2>4 DEF Settled
  <2>5. CASE x # key
    <3>1. ~IsUpdate(e, x)
      BY <1>6, <2>5 DEF IsUpdate
    <3>2. Cached(x) => Cached(x)'
      <4>1. Cacheable(store.pod[x]) => store.pod[x].ip \in IP
        <5>1. store.pod[x] \in PodSpecs
          BY <1>2, <1>9 DEF PodsInv, ObjectsTyped
        <5> QED BY <5>1, StartsAssumption DEF Cacheable, shouldPodBeInEndpoints
      <4> QED BY <1>2, <1>8, <2>5, <4>1 DEF Cached
    <3> QED BY <1>4, <2>1, <2>2, <2>3, <2>4, <3>1, <3>2 DEF Waits, Settled
  <2>6. CASE x = key /\ e.ev = "delete"
    <3>1. IsDelete(e, x) /\ ~IsUpdate(e, x)
      BY <1>2, <1>6, <2>6 DEF IsDelete, IsUpdate
    <3> QED BY <1>4, <2>1, <2>2, <2>3, <3>1 DEF Waits, Settled
  <2>7. CASE x = key /\ e.ev # "delete"
    <3>1. Cached(x)'
      BY <1>2, <1>8, <1>9, <2>7
    <3> QED BY <1>4, <2>1, <2>2, <2>3, <2>4, <3>1, ZenonT(60) DEF Waits, Settled
  <2> QED BY <2>5, <2>6, <2>7
<1> QED BY <1>7, <1>8, <1>9 DEF PodsInv, PodsAwaited

LEMMA InitPodsInv == Init => PodsInv
<1> SUFFICES ASSUME Init PROVE PodsInv
  OBVIOUS
<1>1. PICK start \in Starts :
        /\ api = InitialObjects(start) /\ store = NoObjects /\ notes = [k \in Kinds |-> <<>>] /\ queue = <<>>
        /\ podsByIP = [ip \in IP |-> {}] /\ ipByPods = [x \in Pod |-> nil] /\ needResync = [ip \in IP |-> {}]
  BY DEF Init, KubeInit
<1>2. ObjectsTyped
  BY <1>1, StartsAssumption DEF ObjectsTyped, InitialObjects, NoObjects
<1>3. EventsTyped
  <2>1. \A K : EventsFrom(<<>>, {}, K)
    BY SMT DEF EventsFrom
  <2>2. \A K : EventList(<<>>, K)
    BY <2>1 DEF EventList
  <2> QED BY <1>1, <2>2 DEF EventsTyped
<1>4. MapsTyped
  BY <1>1 DEF MapsTyped
<1>5. MapsInverse
  BY <1>1, StartsAssumption DEF MapsInverse
<1>6. PodsAwaited
  BY <1>1 DEF PodsAwaited, NoObjects
<1> QED BY <1>2, <1>3, <1>4, <1>5, <1>6 DEF PodsInv

LEMMA StepPodsInv == PodsInv /\ [Next]_vars => PodsInv'
<1> SUFFICES ASSUME PodsInv, [Next]_vars PROVE PodsInv'
  OBVIOUS
<1>1. CASE KubeAction
  BY <1>1, ClusterChanges, PodsListed, PodsInformed, PodsPushed, PodsRun, PodsOtherTask, PodsProcessed, ZenonT(60)
     DEF KubeAction
<1>2. CASE ~KubeAction
  <2>1. UNCHANGED kubeVars
    BY <1>2 DEF Next, vars, KubeAction, EChangeEntry, EChangeWorkload, EListEntries, EReconcile, EntryStep,
                IEmpty, IGetOrCreate, IUpdate, IDelete, IndexStep, Push
  <2>2. UNCHANGED <<api, store, notes, queue, podsByIP, ipByPods, needResync>>
    BY <2>1, ZenonT(60) DEF kubeVars
  <2> QED BY <2>2, PodsUnchanged DEF PodsInv, ObjectsTyped
<1> QED BY <1>1, <1>2

\* podsByIP and ipByPods are always inverse, and once the events of the cluster
\* are processed every ready pod is found under its address, however changes,
\* lists and the queue interleave and whatever addresses pods take over from each
\* other (PodCache).
THEOREM PodsReach == Spec => []PodsFound
<1>1. PodsInv => PodsFound
  <2> SUFFICES ASSUME PodsInv PROVE PodsFound
    OBVIOUS
  <2>1. \A x \in Pod, ip \in IP : x \in podsByIP[ip] <=> ipByPods[x] = ip
    BY DEF PodsInv, MapsInverse
  <2>2. ASSUME KubeQuiet, NEW x \in Pod, api.pod[x] # nil, shouldPodBeInEndpoints(api.pod[x]), api.pod[x].ready
        PROVE x \in podsByIP[api.pod[x].ip]
    <3>1. store.pod = api.pod /\ queue = <<>> /\ notes["pod"] = <<>>
      BY <2>2 DEF KubeQuiet, StoreCurrent, Kinds
    <3>2. ~Waits(x)
      BY <3>1, SMT DEF Waits, Ends
    <3>3. Settled(x)
      BY <2>2, <3>1, <3>2 DEF PodsInv, PodsAwaited
    <3> QED BY <2>2, <3>1, <3>3 DEF Settled, Cached, Cacheable
  <2> QED BY <2>1, <2>2 DEF PodsFound
<1> QED BY <1>1, InitPodsInv, StepPodsInv, PTL DEF Spec

\* What the registries keep is what there is once their events are processed: the
\* pod cache for any pods, addresses and changes, the service entry registry for
\* any entries and workloads (PodCache.onEvent, reconcile).
THEOREM RegistriesSettled == Spec => []RegistriesSettle
BY PodsReach, EntriesReach, PTL DEF RegistriesSettle

=============================================================================
