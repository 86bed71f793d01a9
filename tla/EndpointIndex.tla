--------------------------- MODULE EndpointIndex ---------------------------
(***************************************************************************)
(* The endpoint index (dubbod/discovery/pkg/model/endpointshards.go) for   *)
(* one hostname, and the calls of the registries that update it            *)
(* (DiscoveryServer.EDSUpdate and ServiceUpdate).  A registry makes its    *)
(* calls one after the other; two registries may hold endpoints of the     *)
(* same host and namespace.                                                *)
(*                                                                         *)
(* An EndpointShards object is a number: the index holds the current one   *)
(* of each namespace, and a registry that looked it up keeps its pointer.  *)
(***************************************************************************)
EXTENDS Naturals, FiniteSets, Sequences

CONSTANTS
  Registry,    \* shard keys: the provider of a registry
  Ns,          \* the namespaces the host is served from
  nil,
  SerialDeletes,  \* TRUE: no registry deletes the service while another updates it
  MaxObjects   \* bound on the objects made

VARIABLES
  index,     \* per namespace: its EndpointShards, nil when it has none
  objects,   \* per object: [shards, accounts]
  made,      \* objects made so far
  registry,  \* per registry: [at, object, created], where it is in UpdateServiceEndpoints
  calls,     \* per registry: the calls it has yet to return from
  wanted,    \* history, per registry and namespace: the endpoints it reported last
  queued     \* the pushes asked for and not yet made: "none", "eds" or "full"

indexVars == <<index, objects, made, registry, calls, wanted, queued>>

(***************************************************************************)
(* An endpoint has at least a key, healthy, sendUnhealthy and account; a   *)
(* list has one endpoint per key.                                          *)
(***************************************************************************)
Accounts(eps) == {e.account : e \in eps} \ {nil}
Idle == [at |-> "idle", object |-> nil, created |-> FALSE]
NewShards == [shards |-> [r \in Registry |-> {}], accounts |-> {}]

EDSUpdateCall(ns, eps) == [op |-> "eds", ns |-> ns, eps |-> eps]
ServiceDeleteCall(ns) == [op |-> "delete", ns |-> ns, eps |-> {}]

IndexInit ==
  /\ index = [n \in Ns |-> nil]
  /\ objects = [o \in 1..MaxObjects |-> NewShards] /\ made = 0
  /\ registry = [r \in Registry |-> Idle] /\ calls = [r \in Registry |-> <<>>]
  /\ wanted = [r \in Registry |-> [n \in Ns |-> {}]]
  /\ queued = "none"

\* What a push finds for the host in a namespace (ShardsForService).
ShardsForService(ns) ==
  IF index[ns] = nil THEN {} ELSE UNION {objects[index[ns]].shards[r] : r \in Registry}
ShardAccounts(ns) == IF index[ns] = nil THEN {} ELSE objects[index[ns]].accounts

\* The debounced request: a full push absorbs the others.
ConfigUpdate(push) == IF "full" \in {push, queued} THEN "full" ELSE push

-----------------------------------------------------------------------------
(* The index *)

\* Mutant: an endpoint that only changed its health needs no push.
RequiresPushByKey(old, new) ==
  IF old = {} THEN new # {}
  ELSE {e.key : e \in old} # {e.key : e \in new}

endpointUpdateRequiresPush(old, new) ==
  \/ old = {} /\ new # {}
  \/ old # {} /\ new = {}
  \/ \E n \in new : \A o \in old : o.key # n.key /\ (n.healthy \/ n.sendUnhealthy)
  \/ \E n \in new, o \in old : o.key = n.key /\ o # n
  \/ \E o \in old : \A n \in new : o.key # n.key

\* The registry drops its shard.  Only a deleted service gives up its object,
\* and only when no other registry has endpoints in it.
deleteServiceInner(r, ns, preserveKeys) ==
  IF index[ns] = nil THEN UNCHANGED <<index, objects>>
  ELSE LET left == [objects[index[ns]].shards EXCEPT ![r] = {}]
       IN /\ objects' = [objects EXCEPT ![index[ns]].shards = left]
          /\ index' = IF ~preserveKeys /\ \A s \in Registry : left[s] = {}
                      THEN [index EXCEPT ![ns] = nil] ELSE index

Calling(r, op) ==
  /\ registry[r].at = "idle" /\ calls[r] # <<>> /\ Head(calls[r]).op = op

\* Mutant: a registry that has no endpoints left asks for no push.
EmptyNeedsNoPush(r) ==
  /\ Calling(r, "eds") /\ Head(calls[r]).eps = {}
  /\ deleteServiceInner(r, Head(calls[r]).ns, TRUE)
  /\ wanted' = [wanted EXCEPT ![r][Head(calls[r]).ns] = {}]
  /\ calls' = [calls EXCEPT ![r] = Tail(@)]
  /\ UNCHANGED <<made, registry, queued>>

\* UpdateServiceEndpoints with no endpoints: always an incremental push.
EDSUpdateEmpty(r) ==
  /\ Calling(r, "eds") /\ Head(calls[r]).eps = {}
  /\ deleteServiceInner(r, Head(calls[r]).ns, TRUE)
  /\ wanted' = [wanted EXCEPT ![r][Head(calls[r]).ns] = {}]
  /\ calls' = [calls EXCEPT ![r] = Tail(@)]
  /\ queued' = ConfigUpdate("eds")
  /\ UNCHANGED <<made, registry>>

\* UpdateServiceEndpoints looks the object up, or makes it, under the index's
\* lock, and gives that lock back.
GetOrCreateEndpointShard(r) ==
  /\ Calling(r, "eds") /\ Head(calls[r]).eps # {}
  /\ LET ns == Head(calls[r]).ns
         o == IF index[ns] = nil THEN made + 1 ELSE index[ns]
     IN /\ o \in DOMAIN objects
        /\ index' = [index EXCEPT ![ns] = o]
        /\ made' = IF index[ns] = nil THEN made + 1 ELSE made
        /\ registry' = [registry EXCEPT ![r] =
             [at |-> "update", object |-> o, created |-> index[ns] = nil]]
        /\ wanted' = [wanted EXCEPT ![r][ns] = Head(calls[r]).eps]
  /\ UNCHANGED <<objects, calls, queued>>

\* Mutant: the accounts are those of the registry that updates.
AccountsOfShard(shards, r) == Accounts(shards[r])

\* The accounts of all the shards.
updateShardServiceAccount(shards, r) == UNION {Accounts(shards[s]) : s \in Registry}

PushType(created, needPush, saUpdated) ==
  IF created \/ saUpdated THEN "full" ELSE IF needPush THEN "eds" ELSE "none"

\* The rest of UpdateServiceEndpoints, under the lock of the object, and the
\* push EDSUpdate asks for.
UpdateServiceEndpoints(r) ==
  /\ registry[r].at = "update"
  /\ LET o == registry[r].object
         incoming == Head(calls[r]).eps
         shards == [objects[o].shards EXCEPT ![r] = incoming]
         accounts == updateShardServiceAccount(shards, r)
         push == PushType(registry[r].created,
                          endpointUpdateRequiresPush(objects[o].shards[r], incoming),
                          accounts # objects[o].accounts)
     IN /\ objects' = [objects EXCEPT ![o] = [shards |-> shards, accounts |-> accounts]]
        /\ queued' = IF push = "none" THEN queued ELSE ConfigUpdate(push)
  /\ registry' = [registry EXCEPT ![r] = Idle]
  /\ calls' = [calls EXCEPT ![r] = Tail(@)]
  /\ UNCHANGED <<index, made, wanted>>

\* ServiceUpdate of a deleted service: its shard goes.  No push is asked for.
ServiceDelete(r) ==
  /\ SerialDeletes => \A s \in Registry : registry[s].at = "idle"
  /\ Calling(r, "delete")
  /\ deleteServiceInner(r, Head(calls[r]).ns, FALSE)
  /\ wanted' = [wanted EXCEPT ![r][Head(calls[r]).ns] = {}]
  /\ calls' = [calls EXCEPT ![r] = Tail(@)]
  /\ UNCHANGED <<made, registry, queued>>
=============================================================================
