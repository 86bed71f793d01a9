----------------------------- MODULE AdsClient -----------------------------
(***************************************************************************)
(* ADSC (pkg/adsc/adsc.go), the client with which dubbod reads             *)
(* configuration from another xDS server.  Run opens a stream and sends    *)
(* the initial requests; handleReceive handles one response after the      *)
(* other: clusters are followed by a request for their endpoints, the      *)
(* first endpoints by a request for listeners, listeners by a request for  *)
(* their routes, and every response is acknowledged.  A broken stream is   *)
(* opened again after a back-off, or for good closed without a policy.     *)
(*                                                                         *)
(* The server decides with ShouldRespond of XdsStream, answers a wildcard  *)
(* type with everything and another with the names that exist, and pushes  *)
(* every watched type.  A nonce is a number; the wall clock that Send puts *)
(* there is one no server ever made.                                       *)
(***************************************************************************)
EXTENDS Naturals, Sequences, FiniteSets

CONSTANTS
  Name,        \* clusters, and the ports of listeners with their routes
  Setups,      \* [initial: requests, backoff: BackoffPolicy is set, pushes, breaks, changes]
  MaxNonce,    \* bound on responses
  nil

VARIABLES
  setup,
  state,      \* "new", "open", "waiting" for the back-off, "down" without a policy, "closed"
  loaded,     \* initialLoad # 0
  initialLds,
  received,   \* Received: the nonce of the last response of a type
  edsClusters, eds, listeners, routes,
  toServer, toClient,   \* the stream
  watch, nonce,         \* the server: watches of the stream, and nonces
  clusters, ports,      \* the server: what exists
  closed,     \* ADSC.closed
  pushes, breaks, changes    \* bound counters

clientVars == <<loaded, initialLds, received, edsClusters, eds, listeners, routes>>
serverVars == <<watch, nonce, clusters, ports>>
bounds == <<pushes, breaks, changes>>
vars == <<setup, state, loaded, initialLds, received, edsClusters, eds, listeners,
          routes, toServer, toClient, watch, nonce, clusters, ports, closed,
          pushes, breaks, changes>>

S == INSTANCE XdsStream WITH MaxPushes <- 0, MaxSubscriptions <- 0, MaxNacks <- 0,
       version <- nil, sub <- nil, got <- nil, lastNonce <- nil, rejected <- nil,
       shrunk <- nil, nacks <- nil

TypeUrl == S!TypeUrl
NoNonce == S!NoNonce
Clock == MaxNonce + 1   \* time.Now().String()
PushOrder == <<"CDS", "EDS", "LDS", "RDS">>

Nothing == [t \in TypeUrl |-> nil]

Init ==
  /\ setup \in Setups /\ state = "new" /\ closed = FALSE
  /\ loaded = FALSE /\ initialLds = FALSE
  /\ received = [t \in TypeUrl |-> NoNonce]
  /\ edsClusters = {} /\ eds = {} /\ listeners = {} /\ routes = {}
  /\ toServer = <<>> /\ toClient = <<>>
  /\ watch = Nothing /\ nonce = NoNonce
  /\ clusters \in SUBSET Name /\ ports \in SUBSET Name
  /\ pushes = 0 /\ breaks = 0 /\ changes = 0

-----------------------------------------------------------------------------
(* The server of the stream.                                               *)

Request(t, n, names) == [type |-> t, nonce |-> n, names |-> names, nack |-> FALSE]

Content(t, names) ==
  CASE t = "CDS" -> clusters
    [] t = "LDS" -> ports
    [] t = "EDS" -> clusters \cap names
    [] t = "RDS" -> ports \cap names

Response(t, n, w) == [type |-> t, nonce |-> n, names |-> Content(t, w.names)]

Process ==
  /\ toServer # <<>> /\ nonce < MaxNonce
  /\ LET q == Head(toServer)
         d == S!ShouldRespond(watch[q.type], q)
     IN IF d.respond
          THEN /\ nonce' = nonce + 1
               /\ watch' = [watch EXCEPT ![q.type] = [d.watch EXCEPT !.sent = nonce + 1]]
               /\ toClient' = Append(toClient, Response(q.type, nonce + 1, d.watch))
          ELSE /\ watch' = [watch EXCEPT ![q.type] = d.watch]
               /\ UNCHANGED <<nonce, toClient>>
  /\ toServer' = Tail(toServer)
  /\ UNCHANGED <<setup, state, closed, clientVars, clusters, ports, bounds>>

\* A push sends every watched type, in the order of PushOrder.
Push ==
  /\ state = "open" /\ pushes < setup.pushes
  /\ LET order == SelectSeq(PushOrder, LAMBDA t : watch[t] # nil)
         at(i) == nonce + i
     IN /\ nonce + Len(order) <= MaxNonce
        /\ nonce' = nonce + Len(order)
        /\ watch' = [t \in TypeUrl |->
             IF \E i \in DOMAIN order : order[i] = t
               THEN [watch[t] EXCEPT !.sent = at(CHOOSE i \in DOMAIN order : order[i] = t)]
               ELSE watch[t]]
        /\ toClient' = toClient \o [i \in DOMAIN order |->
                                      Response(order[i], at(i), watch[order[i]])]
  /\ pushes' = pushes + 1
  /\ UNCHANGED <<setup, state, closed, clientVars, toServer, clusters, ports, breaks, changes>>

Change ==
  /\ changes < setup.changes /\ changes' = changes + 1
  /\ \E n \in Name :
       \/ clusters' = (clusters \ {n}) \union ({n} \ clusters) /\ UNCHANGED ports
       \/ ports' = (ports \ {n}) \union ({n} \ ports) /\ UNCHANGED clusters
  /\ UNCHANGED <<setup, state, closed, clientVars, toServer, toClient, watch, nonce,
                 pushes, breaks>>

-----------------------------------------------------------------------------
(* Streams.                                                                *)

Send(t) == Request(t, Clock, {})

\* A new stream, the initial requests, and handleReceive.  What was received
\* on an earlier stream is kept.
Run ==
  /\ state' = "open" /\ loaded' = FALSE /\ initialLds' = FALSE
  /\ toServer' = [i \in DOMAIN setup.initial |-> Send(setup.initial[i])]
  /\ toClient' = <<>> /\ watch' = Nothing
  /\ UNCHANGED <<setup, closed, received, edsClusters, eds, listeners, routes, nonce,
                 clusters, ports, bounds>>

Start == state = "new" /\ ~closed /\ Run

\* The timer: a client closed in the meantime is left alone.
reconnect ==
  /\ state = "waiting"
  /\ IF closed
       THEN /\ state' = "closed"
            /\ UNCHANGED <<setup, closed, clientVars, toServer, toClient, serverVars, bounds>>
       ELSE Run

\* The stream breaks, or Close broke it: the receive loop ends, and plans
\* another stream only with a back-off policy.
RecvFails ==
  /\ state = "open" /\ (closed \/ breaks < setup.breaks)
  /\ breaks' = IF closed THEN breaks ELSE breaks + 1
  /\ state' = IF setup.backoff THEN "waiting" ELSE "down"
  /\ closed' = (closed \/ ~setup.backoff)
  /\ toServer' = <<>> /\ toClient' = <<>> /\ watch' = Nothing
  /\ UNCHANGED <<setup, clientVars, nonce, clusters, ports, pushes, changes>>

Close ==
  /\ ~closed /\ state \in {"open", "waiting"} /\ breaks < setup.breaks
  /\ closed' = TRUE
  /\ UNCHANGED <<setup, state, clientVars, toServer, toClient, serverVars, bounds>>

-----------------------------------------------------------------------------
(* handleReceive: one response.                                            *)

sendResources(t, names) == Request(t, received[t], names)

\* The acknowledgement names the clusters, or the routes received.
ack(m, eds_, clusters_, routes_) ==
  Request(m.type, m.nonce, CASE m.type = "EDS" -> clusters_ [] m.type = "RDS" -> routes_
                             [] OTHER -> {})

Handled(m, requests) ==
  /\ state = "open" /\ ~closed /\ toClient # <<>> /\ m = Head(toClient)
  /\ toClient' = Tail(toClient)
  /\ received' = [received EXCEPT ![m.type] = m.nonce]
  /\ toServer' = Append(toServer \o requests, ack(m, eds', edsClusters', routes'))
  /\ UNCHANGED <<setup, state, closed, serverVars, bounds>>

\* Mutant: endpoints are asked for the clusters that were not known before.
handleCDSNew ==
  /\ toClient # <<>> /\ Head(toClient).type = "CDS"
  /\ LET m == Head(toClient)
         new == m.names \ edsClusters
     IN /\ edsClusters' = m.names
        /\ UNCHANGED <<loaded, initialLds, eds, listeners, routes>>
        /\ Handled(m, IF new = {} THEN <<>> ELSE <<sendResources("EDS", new)>>)

handleCDS ==
  /\ toClient # <<>> /\ Head(toClient).type = "CDS"
  /\ LET m == Head(toClient)
     IN /\ edsClusters' = m.names
        /\ UNCHANGED <<loaded, initialLds, eds, listeners, routes>>
        /\ Handled(m, IF m.names = {} THEN <<>> ELSE <<sendResources("EDS", m.names)>>)

\* The first endpoints of a stream ask for the listeners.
handleEDS ==
  /\ toClient # <<>> /\ Head(toClient).type = "EDS"
  /\ LET m == Head(toClient)
         first == ~loaded /\ ~initialLds
     IN /\ eds' = m.names /\ initialLds' = (initialLds \/ first)
        /\ UNCHANGED <<loaded, edsClusters, listeners, routes>>
        /\ Handled(m, IF first THEN <<Request("LDS", NoNonce, {})>> ELSE <<>>)

handleLDS ==
  /\ toClient # <<>> /\ Head(toClient).type = "LDS"
  /\ LET m == Head(toClient)
     IN /\ listeners' = m.names
        /\ UNCHANGED <<loaded, initialLds, edsClusters, eds, routes>>
        /\ Handled(m, IF m.names = {} THEN <<>> ELSE <<sendResources("RDS", m.names)>>)

handleRDS ==
  /\ toClient # <<>> /\ Head(toClient).type = "RDS"
  /\ routes' = Head(toClient).names /\ loaded' = TRUE
  /\ UNCHANGED <<initialLds, edsClusters, eds, listeners>>
  /\ Handled(Head(toClient), <<>>)

Next ==
  \/ Process \/ Push \/ Change
  \/ Start \/ reconnect \/ RecvFails \/ Close
  \/ handleCDS \/ handleEDS \/ handleLDS \/ handleRDS

Spec == Init /\ [][Next]_vars

-----------------------------------------------------------------------------
(* Properties.                                                             *)

\* The types of the client's and the server's state.
TypeOK ==
  /\ state \in {"new", "open", "waiting", "down", "closed"}
  /\ received \in [TypeUrl -> 0 .. MaxNonce] /\ nonce \in 0 .. MaxNonce
  /\ edsClusters \subseteq Name /\ eds \subseteq Name
  /\ listeners \subseteq Name /\ routes \subseteq Name
  /\ \A t \in TypeUrl : watch[t] # nil => watch[t].names \subseteq Name

Quiet == state = "open" /\ toServer = <<>> /\ toClient = <<>>

\* Once the exchange is quiet, the server watches, for this stream, endpoints
\* of exactly the clusters the client was last given on it: a nonce left from
\* an earlier stream, or made stale by a push that crossed the request, must
\* not lose or narrow what handleCDS asked for.
EndpointsSubscribed ==
  Quiet /\ watch["CDS"] # nil /\ watch["CDS"].acked # NoNonce /\ edsClusters # {}
    => watch["EDS"] # nil /\ watch["EDS"].names = edsClusters

\* "We should always respond with the current resource names": a client that
\* comes back to a server that does not know it is answered, so a quiet
\* stream has brought the clusters it asked for first.
ReconnectAnswered ==
  Quiet /\ watch["CDS"] # nil => watch["CDS"].sent # NoNonce
=============================================================================
