----------------------------- MODULE MCStreams ------------------------------
(*****************************************************************************)
(* The protocols between the server and its clients, each on a small         *)
(* instance of its own: the standard-ADS adapter, a stream of the whole      *)
(* state, a delta stream and the ADS client.  A behaviour picks one of them  *)
(* and only its variables move.                                              *)
(*****************************************************************************)
EXTENDS StandardStream, Sequences, FiniteSets, TLC

CONSTANTS
  a, b, x, y, nil

VARIABLES
  part,  \* the component this behaviour is about; the others are not there
  watch, nonce, version, toClient, toServer, sub, got, lastNonce, rejected, shrunk, changes,
  nacks, world, deltasPending, last, deltaWatch, deltaNonce, toDelta, fromDelta, wanted,
  held, refused, again, dropped, steps, subscriptions, nacked, setup, state, loaded,
  initialLds, received, edsClusters, eds, listeners, routes, clusters, ports, closed,
  pushes, breaks

allVars == <<part, watched, named, pending, writer, recv, send, made, wire, watch, nonce, version,
             toClient, toServer, sub, got, lastNonce, rejected, shrunk, changes, nacks,
             world, deltasPending, last, deltaWatch, deltaNonce, toDelta, fromDelta, wanted,
             held, refused, again, dropped, steps, subscriptions, nacked, setup, state,
             loaded, initialLds, received, edsClusters, eds, listeners, routes, clusters,
             ports, closed, pushes, breaks>>


AdsSetups ==
  {[initial |-> <<"CDS">>, backoff |-> backoff, pushes |-> 2, breaks |-> 1, changes |-> 1] : backoff \in BOOLEAN}
  \union {[initial |-> <<"CDS", "LDS">>, backoff |-> TRUE, pushes |-> 2, breaks |-> 1, changes |-> 1]}
Symmetry == Permutations({a, b})

Stream == INSTANCE XdsStream WITH Name <- {x, y}, MaxPushes <- 1, MaxSubscriptions <- 2,
  MaxNacks <- 1
Deltas == INSTANCE DeltaStream WITH Name <- {a, b}, MaxChanges <- 2, MaxSubscriptions <- 2,
  MaxNacks <- 1, MaxTotal <- 4, pending <- deltasPending
Client == INSTANCE AdsClient WITH Name <- {x, y}, Setups <- AdsSetups, MaxNonce <- 8

-----------------------------------------------------------------------------
(* StandardStream *)

adapterRest == <<watch, nonce, version, toClient, toServer, sub, got, lastNonce, rejected,
               shrunk, changes, nacks, world, deltasPending, last, deltaWatch, deltaNonce,
               toDelta, fromDelta, wanted, held, refused, again, dropped, steps,
               subscriptions, nacked, setup, state, loaded, initialLds, received,
               edsClusters, eds, listeners, routes, clusters, ports, closed, pushes, breaks>>
AdapterInit ==
  /\ part = "adapter" /\ Init
  /\ watch = 0 /\ nonce = 0 /\ version = 0 /\ toClient = 0 /\ toServer = 0 /\ sub = 0
  /\ got = 0 /\ lastNonce = 0 /\ rejected = 0 /\ shrunk = 0 /\ changes = 0 /\ nacks = 0
  /\ world = 0 /\ deltasPending = 0 /\ last = 0 /\ deltaWatch = 0 /\ deltaNonce = 0
  /\ toDelta = 0 /\ fromDelta = 0 /\ wanted = 0 /\ held = 0 /\ refused = 0 /\ again = 0
  /\ dropped = 0 /\ steps = 0 /\ subscriptions = 0 /\ nacked = 0 /\ setup = 0 /\ state = 0
  /\ loaded = 0 /\ initialLds = 0 /\ received = 0 /\ edsClusters = 0 /\ eds = 0
  /\ listeners = 0 /\ routes = 0 /\ clusters = 0 /\ ports = 0 /\ closed = 0 /\ pushes = 0
  /\ breaks = 0
InAdapter == part = "adapter"
OnlyAdapter == UNCHANGED <<part, adapterRest>>
AdapterSend == InAdapter /\ (\E t \in Type : Send(t)) /\ OnlyAdapter
AdapterRecv == InAdapter /\ (\E t \in Type, names \in BOOLEAN : Recv(t, names)) /\ OnlyAdapter
AdapterSubscribe == InAdapter /\ Subscribe /\ OnlyAdapter
AdapterDrain == InAdapter /\ Drain /\ OnlyAdapter
AdapterRecvFails == InAdapter /\ RecvFails /\ OnlyAdapter
AdapterLock == InAdapter /\ Lock /\ OnlyAdapter
AdapterKeep == InAdapter /\ Keep /\ OnlyAdapter
AdapterDecide == InAdapter /\ Decide /\ OnlyAdapter
AdapterWrite == InAdapter /\ Write /\ OnlyAdapter
AdapterSendFails == InAdapter /\ SendFails /\ OnlyAdapter
AdapterNext ==
  \/ AdapterSend \/ AdapterRecv \/ AdapterSubscribe \/ AdapterDrain \/ AdapterRecvFails
  \/ AdapterLock \/ AdapterKeep \/ AdapterDecide \/ AdapterWrite \/ AdapterSendFails

-----------------------------------------------------------------------------
(* XdsStream *)

streamRest == <<watched, named, pending, writer, recv, send, made, wire, world, deltasPending,
              last, deltaWatch, deltaNonce, toDelta, fromDelta, wanted, held, refused,
              again, dropped, steps, subscriptions, nacked, setup, state, loaded,
              initialLds, received, edsClusters, eds, listeners, routes, clusters, ports,
              closed, pushes, breaks>>
StreamInit ==
  /\ part = "stream" /\ Stream!Init
  /\ Init /\ world = 0 /\ deltasPending = 0 /\ last = 0 /\ deltaWatch = 0 /\ deltaNonce = 0
  /\ toDelta = 0 /\ fromDelta = 0 /\ wanted = 0 /\ held = 0 /\ refused = 0 /\ again = 0
  /\ dropped = 0 /\ steps = 0 /\ subscriptions = 0 /\ nacked = 0 /\ setup = 0 /\ state = 0
  /\ loaded = 0 /\ initialLds = 0 /\ received = 0 /\ edsClusters = 0 /\ eds = 0
  /\ listeners = 0 /\ routes = 0 /\ clusters = 0 /\ ports = 0 /\ closed = 0 /\ pushes = 0
  /\ breaks = 0
InStream == part = "stream"
OnlyStream == UNCHANGED <<part, streamRest>>
StreamProcessRequest == InStream /\ Stream!ProcessRequest /\ OnlyStream
StreamDrop == InStream /\ Stream!Drop /\ OnlyStream
StreamAccept == InStream /\ Stream!Accept /\ OnlyStream
StreamReject == InStream /\ Stream!Reject /\ OnlyStream
StreamPushConnection == InStream /\ (\E endpoints \in BOOLEAN : Stream!PushConnection(endpoints)) /\ OnlyStream
StreamSubscribe == InStream /\ (\E names \in SUBSET {x, y} : Stream!Subscribe(names)) /\ OnlyStream
StreamNext ==
  \/ StreamProcessRequest \/ StreamDrop \/ StreamAccept \/ StreamReject
  \/ StreamPushConnection \/ StreamSubscribe

-----------------------------------------------------------------------------
(* DeltaStream *)

deltasRest == <<watched, named, pending, writer, recv, send, made, wire, watch, nonce,
              version, toClient, toServer, sub, got, lastNonce, rejected, shrunk, changes,
              nacks, setup, state, loaded, initialLds, received, edsClusters, eds,
              listeners, routes, clusters, ports, closed, pushes, breaks>>
DeltasInit ==
  /\ part = "deltas" /\ Deltas!Init
  /\ Init /\ watch = 0 /\ nonce = 0 /\ version = 0 /\ toClient = 0 /\ toServer = 0
  /\ sub = 0 /\ got = 0 /\ lastNonce = 0 /\ rejected = 0 /\ shrunk = 0 /\ changes = 0
  /\ nacks = 0 /\ setup = 0 /\ state = 0 /\ loaded = 0 /\ initialLds = 0 /\ received = 0
  /\ edsClusters = 0 /\ eds = 0 /\ listeners = 0 /\ routes = 0 /\ clusters = 0 /\ ports = 0
  /\ closed = 0 /\ pushes = 0 /\ breaks = 0
InDeltas == part = "deltas"
OnlyDeltas == UNCHANGED <<part, deltasRest>>
DeltasProcessDeltaRequest == InDeltas /\ Deltas!processDeltaRequest /\ OnlyDeltas
DeltasPushConnectionDelta == InDeltas /\ Deltas!pushConnectionDelta /\ OnlyDeltas
DeltasAccept == InDeltas /\ Deltas!Accept /\ OnlyDeltas
DeltasReject == InDeltas /\ Deltas!Reject /\ OnlyDeltas
DeltasChangeService == InDeltas /\ (\E n \in {a, b} : Deltas!ChangeService(n)) /\ OnlyDeltas
DeltasChangeEndpoints == InDeltas /\ (\E n \in {a, b} : Deltas!ChangeEndpoints(n)) /\ OnlyDeltas
DeltasChangePolicy == InDeltas /\ (\E k \in {"PeerAuthentication", "HTTPRoute"} : Deltas!ChangePolicy(k)) /\ OnlyDeltas
DeltasSubscribe == InDeltas /\ (\E t \in Deltas!DeltaTypes : Deltas!Subscribe(t)) /\ OnlyDeltas
DeltasNext ==
  \/ DeltasProcessDeltaRequest \/ DeltasPushConnectionDelta \/ DeltasAccept \/ DeltasReject
  \/ DeltasChangeService \/ DeltasChangeEndpoints \/ DeltasChangePolicy \/ DeltasSubscribe

-----------------------------------------------------------------------------
(* AdsClient *)

clientRest == <<watched, named, pending, writer, recv, send, made, wire, version, sub, got,
              lastNonce, rejected, shrunk, nacks, world, deltasPending, last, deltaWatch,
              deltaNonce, toDelta, fromDelta, wanted, held, refused, again, dropped, steps,
              subscriptions, nacked>>
ClientInit ==
  /\ part = "client" /\ Client!Init
  /\ Init /\ version = 0 /\ sub = 0 /\ got = 0 /\ lastNonce = 0 /\ rejected = 0
  /\ shrunk = 0 /\ nacks = 0 /\ world = 0 /\ deltasPending = 0 /\ last = 0
  /\ deltaWatch = 0 /\ deltaNonce = 0 /\ toDelta = 0 /\ fromDelta = 0 /\ wanted = 0
  /\ held = 0 /\ refused = 0 /\ again = 0 /\ dropped = 0 /\ steps = 0 /\ subscriptions = 0
  /\ nacked = 0
InClient == part = "client"
OnlyClient == UNCHANGED <<part, clientRest>>
ClientProcess == InClient /\ Client!Process /\ OnlyClient
ClientPush == InClient /\ Client!Push /\ OnlyClient
ClientChange == InClient /\ Client!Change /\ OnlyClient
ClientStart == InClient /\ Client!Start /\ OnlyClient
ClientReconnect == InClient /\ Client!reconnect /\ OnlyClient
ClientRecvFails == InClient /\ Client!RecvFails /\ OnlyClient
ClientClose == InClient /\ Client!Close /\ OnlyClient
ClientHandleCDS == InClient /\ Client!handleCDS /\ OnlyClient
ClientHandleEDS == InClient /\ Client!handleEDS /\ OnlyClient
ClientHandleLDS == InClient /\ Client!handleLDS /\ OnlyClient
ClientHandleRDS == InClient /\ Client!handleRDS /\ OnlyClient
ClientNext ==
  \/ ClientProcess \/ ClientPush \/ ClientChange \/ ClientStart \/ ClientReconnect
  \/ ClientRecvFails \/ ClientClose \/ ClientHandleCDS \/ ClientHandleEDS \/ ClientHandleLDS
  \/ ClientHandleRDS

-----------------------------------------------------------------------------
AllInit == AdapterInit \/ StreamInit \/ DeltasInit \/ ClientInit
AllNext == AdapterNext \/ StreamNext \/ DeltasNext \/ ClientNext
AllSpec == AllInit /\ [][AllNext]_allVars

\* Neither acknowledgements nor the pushes that follow listeners and clusters
\* provoke each other for ever (the "push loop" of the comments in ads.go and
\* xdsgen.go): a push sends one response for each type, the first change of
\* the client's listeners at most six, and each later one at most seven more.
NoPushLoop == part = "stream" => Stream!NoPushLoop

\* Once nothing is on its way a delta client holds the current endpoints of
\* every name it subscribed to, however its requests crossed the responses,
\* but for the names of a request that shouldRespondDelta dropped because its
\* nonce had expired; and a cluster or route it holds is current as long as
\* it subscribed to that type once (responses it rejected aside).
DeltaServed == part = "deltas" => Deltas!DeltaServed

\* Once the exchange is quiet, the server watches, for this stream, endpoints
\* of exactly the clusters the client was last given on it: a nonce left from
\* an earlier stream, or made stale by a push that crossed the request, must
\* not lose or narrow what handleCDS asked for.
EndpointsSubscribed == part = "client" => Client!EndpointsSubscribed

\* Once nothing is on its way, a client that never gave up a listener holds
\* the current listeners, clusters and routes it subscribes to, and the
\* endpoints of its first subscription; the server knows what it has
\* acknowledged, and a rejection always finds the watch whose error it
\* records (ShouldRespond, pushXds).
StreamServed ==
  /\ part = "stream" => Stream!ServedWhenQuiet
  /\ part = "stream" => Stream!EndpointsServedAtFirst
  /\ part = "stream" => Stream!AckedWhenQuiet
  /\ part = "stream" => Stream!RejectionFindsWatch

=============================================================================
