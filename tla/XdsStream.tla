----------------------------- MODULE XdsStream -----------------------------
(***************************************************************************)
(* One aggregated stream between the server and a gRPC client: requests,   *)
(* responses and nonces.  ShouldRespond (pkg/xds/server.go) decides which  *)
(* requests are answered; pushXds (dubbod/discovery/pkg/xds/xdsgen.go)     *)
(* answers, follows a listener with the clusters and routes it refers to   *)
(* and remembers the endpoints a cluster refers to; pushConnection         *)
(* (ads.go) pushes every watched type.  All three run on the stream's loop *)
(* (PushDelivery), so each request and each push is one step here.         *)
(*                                                                         *)
(* A name stands for a service: its listener, its cluster, its route and   *)
(* its endpoints.  The content of a resource is the version it was         *)
(* generated at.  A nonce is a number, 0 the empty string.  The client is  *)
(* the gRPC library: external, as the server's comments and tests describe *)
(* it.                                                                     *)
(***************************************************************************)
EXTENDS Naturals, Sequences, FiniteSets

CONSTANTS
  Name,
  nil,
  MaxPushes,         \* bound on configuration pushes
  MaxSubscriptions,  \* bound on changes of the client's subscription
  MaxNacks           \* bound on responses the client rejects

TypeUrl == {"LDS", "CDS", "RDS", "EDS"}
IsWildcardTypeURL(t) == t \in {"LDS", "CDS"}
NoNonce == 0

VARIABLES
  watch,      \* proxy.WatchedResources: nil or [names, sent, acked]
  nonce,      \* the last nonce made
  version,    \* version of everything but endpoints, and of the endpoints
  toClient, toServer,   \* the two directions of the stream
  sub, got, lastNonce,  \* client: subscriptions, cached versions, nonces
  rejected,   \* client: types whose last response it rejected
  shrunk,     \* history: the client has given up a listener
  changes, nacks  \* bound counters

serverVars == <<watch, nonce, version>>
clientVars == <<sub, got, lastNonce, rejected>>
vars == <<watch, nonce, version, toClient, toServer, sub, got, lastNonce, rejected,
          shrunk, changes, nacks>>

Versions == [config : Nat, endpoints : Nat]
VersionOf(t, v) == IF t = "EDS" THEN v.endpoints ELSE v.config

Init ==
  /\ watch = [t \in TypeUrl |-> nil] /\ nonce = NoNonce
  /\ version = [config |-> 1, endpoints |-> 1]
  /\ toClient = <<>> /\ toServer = <<>>
  /\ sub = [t \in TypeUrl |-> {}] /\ got = [t \in TypeUrl |-> [n \in Name |-> 0]]
  /\ lastNonce = [t \in TypeUrl |-> NoNonce] /\ rejected = {}
  /\ shrunk = FALSE /\ changes = 0 /\ nacks = 0

-----------------------------------------------------------------------------
(* pushXds, as functions of the server's state s = [watch, nonce, out],    *)
(* where out is what is sent.                                              *)

NewWatchedResource(names) == [names |-> names, sent |-> NoNonce, acked |-> NoNonce]

Sent(s, t) == s.watch[t] # nil /\ s.watch[t].sent # NoNonce

\* A watch without names takes them from the parent type, if that was sent.
RequestedNames(s, t) ==
  LET parent == CASE t = "EDS" -> "CDS" [] t \in {"CDS", "RDS"} -> "LDS" [] t = "LDS" -> nil
  IN IF s.watch[t].names = {} /\ parent # nil /\ Sent(s, parent)
       THEN s.watch[parent].names
       ELSE s.watch[t].names

\* Mutant: the counter behind the nonces is not advanced.
RespondReusesNonce(s, t, v) ==
  LET names == RequestedNames(s, t)
  IN IF t = "EDS" /\ names = {} THEN s
     ELSE [watch |-> [s.watch EXCEPT ![t].names = names, ![t].sent = s.nonce + 1],
           nonce |-> s.nonce,
           out |-> Append(s.out, [type |-> t, nonce |-> s.nonce + 1, names |-> names,
                                  version |-> VersionOf(t, v)])]

\* Mutant: the nonce sent is not recorded in the watch.
RespondUnrecorded(s, t, v) ==
  LET names == RequestedNames(s, t)
  IN IF t = "EDS" /\ names = {} THEN s
     ELSE [watch |-> [s.watch EXCEPT ![t].names = names],
           nonce |-> s.nonce + 1,
           out |-> Append(s.out, [type |-> t, nonce |-> s.nonce + 1, names |-> names,
                                  version |-> VersionOf(t, v)])]

\* Generate, filter, and Send with a new nonce.  No endpoints: no response.
Respond(s, t, v) ==
  LET names == RequestedNames(s, t)
  IN IF t = "EDS" /\ names = {} THEN s
     ELSE [watch |-> [s.watch EXCEPT ![t].names = names, ![t].sent = s.nonce + 1],
           nonce |-> s.nonce + 1,
           out |-> Append(s.out, [type |-> t, nonce |-> s.nonce + 1, names |-> names,
                                  version |-> VersionOf(t, v)])]

SetWatch(s, t, w) == [s EXCEPT !.watch[t] = w]

Extended(w, names) ==
  IF w = nil THEN NewWatchedResource(names) ELSE [w EXCEPT !.names = @ \union names]

\* Clusters are followed by a watch on their endpoints, not by the endpoints.
PushClusters(s, v) ==
  LET r == Respond(s, "CDS", v)
      names == r.watch["CDS"].names
  IN IF names = {} THEN r ELSE SetWatch(r, "EDS", Extended(r.watch["EDS"], names))

\* Listeners sent for a request are followed by the clusters, unless some are
\* watched, and by the routes, unless all are watched.
PushListeners(s, v, isRequest) ==
  LET r == Respond(s, "LDS", v)
      names == r.watch["LDS"].names
      unwatched(x, t) == x.watch[t] = nil \/ x.watch[t].names = {}
      c == IF unwatched(r, "CDS")
             THEN PushClusters(SetWatch(r, "CDS", NewWatchedResource(names)), v) ELSE r
      routes == IF unwatched(c, "RDS") THEN NewWatchedResource(names)
                                       ELSE Extended(c.watch["RDS"], names)
  IN IF ~isRequest \/ names = {} THEN r
     ELSE IF c.watch["RDS"] = routes THEN c
     ELSE Respond(SetWatch(c, "RDS", routes), "RDS", v)

pushXds(s, t, v, isRequest) ==
  CASE t = "LDS" -> PushListeners(s, v, isRequest)
    [] t = "CDS" -> PushClusters(s, v)
    [] OTHER     -> Respond(s, t, v)

Server == [watch |-> watch, nonce |-> nonce, out |-> <<>>]

Apply(s) ==
  /\ watch' = s.watch /\ nonce' = s.nonce /\ toClient' = toClient \o s.out

-----------------------------------------------------------------------------
(* ShouldRespond: whether a request is answered, and the watch after it.   *)

shouldUnsubscribe(q) == q.names = {} /\ ~IsWildcardTypeURL(q.type)

Decide(respond, after) == [respond |-> respond, watch |-> after]
Acked(w, q) == [w EXCEPT !.acked = q.nonce]

\* No names, for a type that needs them: an acknowledgement if the nonce is
\* the one last sent, otherwise the end of the watch.
NoNames(w, q) ==
  IF w # nil /\ q.nonce # NoNonce /\ q.nonce = w.sent
    THEN Decide(FALSE, Acked(w, q))
    ELSE Decide(FALSE, nil)

\* A type that is not watched: answered only without a nonce.
UnknownType(q) == Decide(q.nonce = NoNonce, NewWatchedResource(q.names))

\* Mutant: a first request for a type that is watched already is not answered.
InitialRequestOnce(q) == Decide(FALSE, NewWatchedResource(q.names))

\* A watched type, without a nonce.
InitialRequest(q) == Decide(TRUE, NewWatchedResource(q.names))

\* Mutant: an old nonce ends the watch.
StaleNonceExpires(w, q) ==
  IF q.names # w.names /\ q.names # {}
    THEN Decide(TRUE, [w EXCEPT !.names = q.names])
    ELSE Decide(FALSE, nil)

\* A nonce that is not the one last sent.
StaleNonce(w, q) ==
  IF q.names # w.names /\ q.names # {}
    THEN Decide(TRUE, [w EXCEPT !.names = q.names])
    ELSE Decide(FALSE, w)

\* Mutant: every acknowledgement is answered.
NonceMatchAnswered(w, q) == Decide(TRUE, [Acked(w, q) EXCEPT !.names = q.names])

\* Mutant: the nonce last sent always acknowledges, whatever the names.
NonceMatchSilent(w, q) == Decide(FALSE, [Acked(w, q) EXCEPT !.names = q.names])

\* The nonce last sent: an acknowledgement, unless the names have changed.
NonceMatch(w, q) ==
  IF q.names = {} /\ w.names # {}
    THEN Decide(FALSE, Acked(w, q))
    ELSE Decide(IF IsWildcardTypeURL(q.type) THEN q.names # w.names
                                             ELSE ~(q.names \subseteq w.names),
                [Acked(w, q) EXCEPT !.names = q.names])

\* A rejection only leaves its message in the watch.
ShouldRespond(w, q) ==
  IF q.nack THEN Decide(FALSE, w)
  ELSE IF shouldUnsubscribe(q) THEN NoNames(w, q)
  ELSE IF w = nil THEN UnknownType(q)
  ELSE IF q.nonce = NoNonce THEN InitialRequest(q)
  ELSE IF q.nonce # w.sent THEN StaleNonce(w, q)
  ELSE NonceMatch(w, q)

\* processRequest
ProcessRequest ==
  /\ toServer # <<>>
  /\ LET q == Head(toServer)
         decision == ShouldRespond(watch[q.type], q)
         s == [Server EXCEPT !.watch[q.type] = decision.watch]
     IN /\ Apply(IF decision.respond THEN pushXds(s, q.type, version, TRUE) ELSE s)
  /\ toServer' = Tail(toServer)
  /\ UNCHANGED <<version, clientVars, shrunk, changes, nacks>>

\* pushConnection: the types watched when the push starts, in PushOrder.  A
\* change of PeerAuthentications alone leaves the endpoints out.
PushConnection(endpoints) ==
  /\ version.config <= MaxPushes
  /\ LET v == [config |-> version.config + 1,
               endpoints |-> version.endpoints + (IF endpoints THEN 1 ELSE 0)]
         step(s, t) == IF watch[t] = nil \/ (t = "EDS" /\ ~endpoints) THEN s
                       ELSE pushXds(s, t, v, FALSE)
     IN /\ version' = v
        /\ Apply(step(step(step(step(Server, "CDS"), "EDS"), "LDS"), "RDS"))
  /\ UNCHANGED <<toServer, clientVars, shrunk, changes, nacks>>
-----------------------------------------------------------------------------
(* The client (external): one nonce per type, a request whenever the names *)
(* it wants change, an acknowledgement for every response to a type it     *)
(* subscribed to, and no notice of the others.                             *)

Request(t, names, n, nack) == [type |-> t, names |-> names, nonce |-> n, nack |-> nack]

\* The subscriptions that follow from the listeners wanted and the resources held.
Wanted(listeners, have) ==
  LET held(t, S) == {n \in S : have[t][n] # 0}
      routes == held("LDS", listeners)
  IN [t \in TypeUrl |-> CASE t = "LDS" -> listeners
                       [] t \in {"CDS", "RDS"} -> routes
                       [] t = "EDS" -> held("CDS", routes)]

\* Resources no longer subscribed to leave the cache.
Cached(have, s) == [t \in TypeUrl |-> [n \in Name |-> IF n \in s[t] THEN have[t][n] ELSE 0]]

\* Requests for the types whose subscription changes, except those in skip.
Resubscribe(s, nonces, skip) ==
  LET one(t) == IF t \in skip \/ s[t] = sub[t] THEN <<>>
                ELSE <<Request(t, s[t], nonces[t], FALSE)>>
  IN one("LDS") \o one("CDS") \o one("RDS") \o one("EDS")

Subscribe(listeners) ==
  /\ changes < MaxSubscriptions /\ listeners # sub["LDS"]
  /\ shrunk' = (shrunk \/ ~(sub["LDS"] \subseteq listeners))
  /\ LET s == Wanted(listeners, got)
     IN /\ sub' = s /\ got' = Cached(got, s)
        /\ toServer' = toServer \o Resubscribe(s, lastNonce, {})
  /\ changes' = changes + 1
  /\ UNCHANGED <<serverVars, toClient, lastNonce, rejected, nacks>>

\* A response to a type without subscription is dropped.
Drop ==
  /\ toClient # <<>> /\ sub[Head(toClient).type] = {}
  /\ toClient' = Tail(toClient)
  /\ UNCHANGED <<serverVars, toServer, clientVars, shrunk, changes, nacks>>

Accept ==
  /\ toClient # <<>>
  /\ LET r == Head(toClient)
         have == [got EXCEPT ![r.type] =
                    [n \in Name |-> IF n \in r.names \intersect sub[r.type] THEN r.version ELSE @[n]]]
         s == Wanted(sub["LDS"], have)
         nonces == [lastNonce EXCEPT ![r.type] = r.nonce]
     IN /\ sub[r.type] # {}
        /\ got' = Cached(have, s) /\ sub' = s /\ lastNonce' = nonces
        /\ rejected' = rejected \ {r.type}
        /\ toServer' = toServer \o <<Request(r.type, s[r.type], r.nonce, FALSE)>>
                                 \o Resubscribe(s, nonces, {r.type})
  /\ toClient' = Tail(toClient)
  /\ UNCHANGED <<serverVars, shrunk, changes, nacks>>

Reject ==
  /\ toClient # <<>> /\ nacks < MaxNacks
  /\ LET r == Head(toClient)
     IN /\ sub[r.type] # {}
        /\ lastNonce' = [lastNonce EXCEPT ![r.type] = r.nonce]
        /\ rejected' = rejected \union {r.type}
        /\ toServer' = Append(toServer, Request(r.type, sub[r.type], r.nonce, TRUE))
  /\ toClient' = Tail(toClient) /\ nacks' = nacks + 1
  /\ UNCHANGED <<serverVars, sub, got, shrunk, changes>>

-----------------------------------------------------------------------------
Receive == Drop \/ Accept \/ Reject

Next ==
  \/ ProcessRequest \/ Receive
  \/ \E endpoints \in BOOLEAN : PushConnection(endpoints)
  \/ \E listeners \in SUBSET Name : Subscribe(listeners)

Spec == Init /\ [][Next]_vars

-----------------------------------------------------------------------------
TypeOK ==
  /\ \A t \in TypeUrl : \/ watch[t] = nil
                      \/ watch[t] \in [names : SUBSET Name, sent : 0..nonce, acked : 0..nonce]
  /\ nonce \in Nat /\ version \in Versions
  /\ \A i \in DOMAIN toClient :
       toClient[i] \in [type : TypeUrl, nonce : 1..nonce, names : SUBSET Name, version : Nat]
  /\ \A i \in DOMAIN toServer :
       toServer[i] \in [type : TypeUrl, names : SUBSET Name, nonce : 0..nonce, nack : BOOLEAN]
  /\ sub \in [TypeUrl -> SUBSET Name] /\ got \in [TypeUrl -> [Name -> Nat]]
  /\ lastNonce \in [TypeUrl -> 0..nonce] /\ rejected \subseteq TypeUrl /\ shrunk \in BOOLEAN

Quiet == toClient = <<>> /\ toServer = <<>>

Served(t) == \A n \in sub[t] : got[t][n] = VersionOf(t, version)

\* Once nothing is on its way, a client that never gave up a listener holds
\* the current listeners, clusters and routes it subscribes to (types whose
\* last response it rejected aside): "We should respond if they change"
\* (pkg/xds/server.go).
ServedWhenQuiet ==
  (Quiet /\ ~shrunk) => \A t \in TypeUrl \ (rejected \union {"EDS"}) : Served(t)

\* And the endpoints: "When the client requests EDS, we will push it with the
\* correct state" (xdsgen.go).
EndpointsServedWhenQuiet ==
  (Quiet /\ ~shrunk /\ "EDS" \notin rejected) => Served("EDS")

\* The endpoints of a client that subscribes once.
EndpointsServedAtFirst == changes <= 1 => EndpointsServedWhenQuiet

\* Once nothing is on its way, the last response of every subscribed type is
\* acknowledged under the nonce the server sent, for the names it watches.
AckedWhenQuiet ==
  (Quiet /\ ~shrunk) => \A t \in TypeUrl \ rejected :
             sub[t] # {} => /\ watch[t] # nil /\ sub[t] \subseteq watch[t].names
                            /\ watch[t].sent = lastNonce[t] /\ watch[t].acked = lastNonce[t]

\* Neither acknowledgements nor the pushes that follow listeners and clusters
\* provoke each other for ever (the "push loop" of the comments in ads.go and
\* xdsgen.go): a push sends one response for each type, the first change of
\* the client's listeners at most six, and each later one at most seven more.
NoPushLoop ==
  nonce <= 4 * (version.config - 1) + (IF changes = 0 THEN 0 ELSE 7 * changes - 1)

\* A rejection finds the watch whose error it records, as long as the client
\* has not given up listeners; ShouldRespond does not look whether there is one.
RejectionFindsWatch ==
  ~shrunk => \A i \in DOMAIN toServer : toServer[i].nack => watch[toServer[i].type] # nil
=============================================================================
