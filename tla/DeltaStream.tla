---------------------------- MODULE DeltaStream ----------------------------
(***************************************************************************)
(* A delta xDS stream (dubbod/discovery/pkg/xds/delta.go): requests carry  *)
(* subscriptions and unsubscriptions, responses carry changed and removed  *)
(* resources.  pushDeltaXds (xdsgen.go) asks the cluster, endpoint and     *)
(* route generators for what changed and rewrites the names it watches for *)
(* clusters and routes after every response.                               *)
(*                                                                         *)
(* A name stands for a service; its cluster, endpoints and route carry it. *)
(* A resource's content is the version it was generated at.  The client is *)
(* external: it subscribes at will, keeps what it subscribed to and        *)
(* acknowledges or rejects every response.  A nonce is a number, 0 none.   *)
(***************************************************************************)
EXTENDS Naturals, Sequences, FiniteSets

CONSTANTS Name, nil,
          MaxChanges,        \* bound on changes of the configuration
          MaxSubscriptions,  \* bound on the client's subscription requests
          MaxNacks,          \* bound on responses the client rejects
          MaxTotal           \* bound on the three together

DeltaTypes == {"CDS", "EDS", "RDS"}

VARIABLES
  world,     \* [svc, eps : Name -> version, policy]: what the registries hold
  pending,   \* the merged push request on its way to this connection, or nil
  last,      \* proxy.LastPushContext: the services and policies last pushed
  deltaWatch,  \* proxy.WatchedResources: nil or [names, sent, acked]
  deltaNonce,
  toDelta, fromDelta,   \* the two directions: to the client, from the client
  wanted, held,         \* client: subscriptions and contents, nil for none
  refused,   \* history: types of which the client rejected a response
  again,     \* history: types the client sent a second subscription for
  dropped,   \* history: [type, name] of requests dropped for an expired nonce
  steps, subscriptions, nacked  \* bound counters

deltaVars == <<world, pending, last, deltaWatch, deltaNonce, toDelta, fromDelta, wanted, held,
               refused, again, dropped, steps, subscriptions, nacked>>

MayStep == steps + subscriptions + nacked < MaxTotal

Init ==
  /\ world \in [svc : [Name -> {0, 1}], eps : {[n \in Name |-> 1]}, policy : {1}]
  /\ last = [svc |-> world.svc, policy |-> 1]   \* initConnection
  /\ pending = nil
  /\ deltaWatch = [t \in DeltaTypes |-> nil] /\ deltaNonce = 0
  /\ toDelta = <<>> /\ fromDelta = <<>>
  /\ wanted = [t \in DeltaTypes |-> {}] /\ held = [t \in DeltaTypes |-> [n \in Name |-> nil]]
  /\ refused = {} /\ again = {} /\ dropped = {}
  /\ steps = 0 /\ subscriptions = 0 /\ nacked = 0

-----------------------------------------------------------------------------
(* Generators.  A request is [full, forced, kinds, updated, subscribed,    *)
(* partial]: kinds changed, the services among them, and the names of a    *)
(* client request.                                                         *)

Exists(push, n) == push.svc[n] # 0

Content(t, push, eps, n) ==
  IF t = "EDS" THEN <<"endpoints", IF Exists(push, n) THEN eps[n] ELSE 0>>
  ELSE <<"config", push.svc[n], push.policy>>

\* skippedEdsConfigs
Skipped == {"PeerAuthentication"}

\* edsUpdatedServicesForRequest: whether only services changed.
Targeted(req) == req.kinds \ Skipped = {"Service"}

\* Mutant: a forced push is not told from one that changed nothing.
NeedsPushByKind(req) == req.kinds \ Skipped # {}

edsNeedsPush(req) == req.forced \/ req.kinds \ Skipped # {}

shouldUseDeltaEds(req) == req.full /\ ~req.forced /\ Targeted(req)

grpcCanUseDeltaClusters(req) == ~req.forced /\ req.kinds = {"Service"}

Generated(send, names, removed, usedDelta) ==
  [send |-> send, names |-> names, removed |-> removed, usedDelta |-> usedDelta]

\* The GenerateDeltas of GrpcConfigGenerator and EdsGenerator.  Endpoints are
\* sent for a service that is gone as an empty list, unless the delta form
\* removes them; a response without resources is not sent for endpoints.
GenerateDeltas(t, push, req, names) ==
  LET changed == names \intersect req.updated
      found(S) == {n \in S : Exists(push, n)}
  IN CASE t = "CDS" /\ grpcCanUseDeltaClusters(req) ->
            Generated(changed # {}, found(changed), changed \ found(changed), TRUE)
       [] t = "EDS" /\ ~edsNeedsPush(req) -> Generated(FALSE, {}, {}, FALSE)
       [] t = "EDS" /\ shouldUseDeltaEds(req) ->
            Generated(changed # {}, found(changed), changed \ found(changed), TRUE)
       [] t = "EDS" /\ ~shouldUseDeltaEds(req) /\ edsNeedsPush(req) ->
            LET S == IF Targeted(req) THEN changed ELSE names
            IN Generated(S # {}, S, {}, FALSE)
       [] OTHER -> Generated(TRUE, found(names), {}, FALSE)

shouldSetWatchedResources(t) == t \in {"CDS", "RDS"}

\* pushDeltaXds and sendDelta over s = [watch, nonce, out].  A client request
\* narrows the names to the ones it subscribes to.
pushDeltaXds(s, t, push, eps, req) ==
  LET names == IF req.partial THEN req.subscribed ELSE s.watch[t].names
      g == GenerateDeltas(t, push, req, names)
      removed == IF g.usedDelta THEN g.removed
                 ELSE IF req.full THEN names \ g.names ELSE {}
      after == IF ~shouldSetWatchedResources(t) THEN s.watch[t].names
               ELSE IF g.usedDelta THEN (names \ removed) \union g.names
               ELSE g.names
  IN IF ~g.send THEN s
     ELSE [watch |-> [s.watch EXCEPT ![t].names = after, ![t].sent = s.nonce + 1],
           nonce |-> s.nonce + 1,
           out   |-> Append(s.out, [type |-> t, nonce |-> s.nonce + 1, removed |-> removed,
                                    resources |-> [n \in g.names |-> Content(t, push, eps, n)]])]

Server == [watch |-> deltaWatch, nonce |-> deltaNonce, out |-> <<>>]

Apply(s) == deltaWatch' = s.watch /\ deltaNonce' = s.nonce /\ toDelta' = toDelta \o s.out

-----------------------------------------------------------------------------
(* Requests.                                                               *)

\* deltaWatchedResources
Subscribed(names, q) == (names \union q.sub) \ q.unsub

\* shouldRespondDelta: whether to answer, and the watch after it.
ExpiredNonce(w, q) == q.nonce # 0 /\ q.nonce # w.sent

shouldRespondDelta(w, q) ==
  IF q.nack THEN [respond |-> FALSE, watch |-> w]
  ELSE IF w = nil THEN [respond |-> TRUE, watch |-> [names |-> Subscribed({}, q), sent |-> 0, acked |-> 0]]
  ELSE IF ExpiredNonce(w, q) THEN [respond |-> FALSE, watch |-> w]
  ELSE [respond |-> Subscribed(w.names, q) # w.names,
        watch |-> [w EXCEPT !.names = Subscribed(w.names, q),
                            !.acked = IF q.nonce = 0 THEN @ ELSE q.nonce]]

\* forceEDSPush: clusters sent for a request are followed by all endpoints.
forceEDSPush(s, push, eps) ==
  IF s.watch["EDS"] = nil THEN s
  ELSE pushDeltaXds(s, "EDS", push, eps,
         [full |-> TRUE, forced |-> TRUE, kinds |-> {}, updated |-> {}, subscribed |-> {}, partial |-> FALSE])

processDeltaRequest ==
  /\ fromDelta # <<>>
  /\ LET q == Head(fromDelta)
         d == shouldRespondDelta(deltaWatch[q.type], q)
         s == [Server EXCEPT !.watch[q.type] = d.watch]
         subs == Subscribed({}, q)
         req == [full |-> TRUE, forced |-> TRUE, kinds |-> {}, updated |-> {},
                 subscribed |-> subs, partial |-> subs # {} \/ q.unsub # {}]
         r == pushDeltaXds(s, q.type, last, world.eps, req)
     IN /\ Apply(IF ~d.respond THEN s
                 ELSE IF q.type = "CDS" THEN forceEDSPush(r, last, world.eps)
                 ELSE r)
        /\ dropped' = IF ~q.nack /\ deltaWatch[q.type] # nil /\ ExpiredNonce(deltaWatch[q.type], q)
                      THEN dropped \union ({q.type} \X (q.sub \union q.unsub)) ELSE dropped
  /\ fromDelta' = Tail(fromDelta)
  /\ UNCHANGED <<world, pending, last, wanted, held, refused, again, steps, subscriptions, nacked>>

-----------------------------------------------------------------------------
(* Pushes.                                                                 *)

Merged(full, kind, names) ==
  IF pending = nil
  THEN [full |-> full, forced |-> FALSE, kinds |-> {kind}, updated |-> names,
        subscribed |-> {}, partial |-> FALSE]
  ELSE [pending EXCEPT !.full = @ \/ full, !.kinds = @ \union {kind}, !.updated = @ \union names]

\* A service appears, changes or goes: a full push that names it.
ChangeService(n) ==
  /\ steps < MaxChanges /\ MayStep /\ steps' = steps + 1
  /\ \E v \in {0, world.svc[n] + 1} \ {world.svc[n]} : world' = [world EXCEPT !.svc[n] = v]
  /\ pending' = Merged(TRUE, "Service", {n})
  /\ UNCHANGED <<last, deltaWatch, deltaNonce, toDelta, fromDelta, wanted, held, refused, again, dropped,
                 subscriptions, nacked>>

\* Endpoints change: an incremental push.
ChangeEndpoints(n) ==
  /\ steps < MaxChanges /\ MayStep /\ steps' = steps + 1
  /\ world' = [world EXCEPT !.eps[n] = @ + 1]
  /\ pending' = Merged(FALSE, "Service", {n})
  /\ UNCHANGED <<last, deltaWatch, deltaNonce, toDelta, fromDelta, wanted, held, refused, again, dropped,
                 subscriptions, nacked>>

ChangePolicy(kind) ==
  /\ steps < MaxChanges /\ MayStep /\ steps' = steps + 1
  /\ world' = [world EXCEPT !.policy = @ + 1]
  /\ pending' = Merged(TRUE, kind, {})
  /\ UNCHANGED <<last, deltaWatch, deltaNonce, toDelta, fromDelta, wanted, held, refused, again, dropped,
                 subscriptions, nacked>>

\* A full push carries a new context, an incremental one the context in use.
PushOf(req) == IF req.full THEN [svc |-> world.svc, policy |-> world.policy] ELSE last

\* pushConnectionDelta: every watched type in PushOrder.
pushConnectionDelta ==
  /\ pending # nil
  /\ LET push == PushOf(pending)
         step(s, t) == IF deltaWatch[t] = nil THEN s
                       ELSE pushDeltaXds(s, t, push, world.eps, pending)
     IN /\ Apply(step(step(step(Server, "CDS"), "EDS"), "RDS"))
        /\ last' = push
  /\ pending' = nil
  /\ UNCHANGED <<world, fromDelta, wanted, held, refused, again, dropped, steps, subscriptions, nacked>>

-----------------------------------------------------------------------------
(* The client (external).                                                  *)

Request(t, sub, unsub, nonce, nack) ==
  [type |-> t, sub |-> sub, unsub |-> unsub, nonce |-> nonce, nack |-> nack]

\* The client changes what it wants of t by a request that carries nonce.
Resubscribe(t, sub, unsub, nonce) ==
  /\ wanted' = [wanted EXCEPT ![t] = (@ \union sub) \ unsub]
  /\ fromDelta' = Append(fromDelta, Request(t, sub, unsub, nonce, FALSE))
  /\ again' = IF sub \union unsub # {} /\ wanted[t] # {} THEN again \union {t} ELSE again
  /\ subscriptions' = subscriptions + (IF sub \union unsub = {} THEN 0 ELSE 1)

MaySubscribe == subscriptions < MaxSubscriptions /\ MayStep

Subscribe(t) ==
  /\ MaySubscribe
  /\ \E sub \in SUBSET (Name \ wanted[t]), unsub \in SUBSET wanted[t] :
       /\ sub \union unsub # {}
       /\ Resubscribe(t, sub, unsub, 0)
       /\ held' = [held EXCEPT ![t] = [n \in Name |-> IF n \in unsub THEN nil ELSE @[n]]]
  /\ UNCHANGED <<world, pending, last, deltaWatch, deltaNonce, toDelta, refused, dropped, steps, nacked>>

\* The acknowledgement of a response may carry a subscription too; its nonce
\* has expired if the server has sent another response of the type meanwhile.
Accept ==
  /\ toDelta # <<>>
  /\ LET r == Head(toDelta)
     IN \E sub \in SUBSET (Name \ wanted[r.type]), unsub \in SUBSET wanted[r.type] :
          /\ sub \union unsub = {} \/ MaySubscribe
          /\ Resubscribe(r.type, sub, unsub, r.nonce)
          /\ held' = [held EXCEPT ![r.type] =
                        [n \in Name |-> IF n \in unsub THEN nil
                                        ELSE IF n \in DOMAIN r.resources \intersect wanted[r.type] THEN r.resources[n]
                                        ELSE IF n \in r.removed THEN nil ELSE @[n]]]
  /\ toDelta' = Tail(toDelta)
  /\ UNCHANGED <<world, pending, last, deltaWatch, deltaNonce, refused, dropped, steps, nacked>>

Reject ==
  /\ toDelta # <<>> /\ nacked < MaxNacks /\ MayStep /\ nacked' = nacked + 1
  /\ LET r == Head(toDelta)
     IN /\ fromDelta' = Append(fromDelta, Request(r.type, {}, {}, r.nonce, TRUE))
        /\ refused' = refused \union {r.type}
  /\ toDelta' = Tail(toDelta)
  /\ UNCHANGED <<world, pending, last, deltaWatch, deltaNonce, wanted, held, again, dropped, steps, subscriptions>>

Next ==
  \/ processDeltaRequest \/ pushConnectionDelta \/ Accept \/ Reject
  \/ \E n \in Name : ChangeService(n) \/ ChangeEndpoints(n)
  \/ \E k \in {"PeerAuthentication", "HTTPRoute"} : ChangePolicy(k)
  \/ \E t \in DeltaTypes : Subscribe(t)

Spec == Init /\ [][Next]_deltaVars

-----------------------------------------------------------------------------
Quiet == pending = nil /\ toDelta = <<>> /\ fromDelta = <<>>

Current(t, n) == held[t][n] = Content(t, last, world.eps, n)

\* Once nothing is on its way a delta client holds the current endpoints of
\* every name it subscribed to, however its requests crossed the responses,
\* but for the names of a request that shouldRespondDelta dropped because its
\* nonce had expired; and a cluster or route it holds is current as long as
\* it subscribed to that type once (responses it rejected aside).
DeltaServed ==
  Quiet =>
    /\ "EDS" \notin refused => \A n \in wanted["EDS"] :
         (Exists(last, n) /\ <<"EDS", n>> \notin dropped) => Current("EDS", n)
    /\ \A t \in {"CDS", "RDS"} \ (refused \union again) : \A n \in wanted[t] :
         held[t][n] # nil => Current(t, n)

\* "Keep the names we actually sent so later policy pushes can rebuild those
\* routes" (xdsgen.go): a route the client holds and subscribes to is current
\* once nothing is on its way.
SentNamesKept ==
  Quiet => \A n \in wanted["RDS"] : ("RDS" \notin refused /\ held["RDS"][n] # nil) => Current("RDS", n)
=============================================================================
