---------------------------- MODULE PushContexts ----------------------------
(***************************************************************************)
(* How a push context reaches the clients                                  *)
(* (dubbod/discovery/pkg/xds/discovery.go and ads.go).  A full push builds *)
(* a context from the configuration of the moment, publishes it, lists the *)
(* clients and enqueues a request for each; an incremental push does the   *)
(* last two with the context already published; ProxyUpdate enqueues one   *)
(* client from a controller's goroutine; a new connection starts from the  *)
(* context published when it was initialised.  The stream loop of a        *)
(* connection takes what the queue holds for it and answers the client's   *)
(* requests from the context of its last full push.                        *)
(*                                                                         *)
(* The queue is PushMailbox, which PushQueue implements: owed and underway *)
(* per connection.  A context is its version; built[v] is the state of the *)
(* configuration store that context v was built from.                      *)
(***************************************************************************)
EXTENDS PushRequest, Sequences

CONSTANTS
  Conn,
  Pushers,          \* goroutines running DiscoveryServer.Push
  MainPusher,       \* the debounced one; the others push endpoint updates only
  MaxChanges,       \* bound on configuration changes
  MaxProxyUpdates   \* bound on calls of ProxyUpdate

ASSUME PushContextsAssumption ==
  /\ MainPusher \in Pushers
  /\ MaxChanges \in Nat /\ MaxProxyUpdates \in Nat

VARIABLES
  enableEDSDebounce,  \* the option, set when the server starts
  store,        \* the configuration store: the number of changes made to it
  unnotified,   \* kinds of updates ("full", "eds") not yet handed to a pusher
  edsChanges,   \* bound counter: endpoint changes
  built,        \* built[v]: the store when context v was built
  global,       \* Env.pushContext (its version)
  pusher,       \* what each pusher is doing
  status,       \* connection -> stage of its life
  last,         \* connection -> proxy.LastPushContext
  owed, underway,  \* the push queue, as mailboxes
  lastSent,     \* connection -> version of the last response, 0 for none
  updater,      \* the ProxyUpdate goroutine: <<>> or <<connection, context it read>>
  proxyUpdates, \* bound counter: calls of ProxyUpdate
  stale         \* history: connections that were left out of a full push while
                \* they were initialised, or were handed a context that was no
                \* longer the published one, and not yet served the published one

storeVars == <<enableEDSDebounce, store, unnotified, edsChanges>>
queueVars == <<owed, underway>>
proxyVars == <<updater, proxyUpdates>>
vars == <<enableEDSDebounce, store, unnotified, edsChanges, built, global, pusher, status, last, owed,
          underway, lastSent, updater, proxyUpdates, stale>>

Idle == [step |-> "idle", full |-> FALSE, push |-> NoContext, todo |-> {}]
Registered == {c \in Conn : status[c] \in {"registered", "serving"}}
Request(full, forced, push) ==
  [full |-> full, forced |-> forced, push |-> push, configs |-> {}]

Init ==
  /\ enableEDSDebounce \in BOOLEAN
  /\ store = 0 /\ unnotified = {} /\ edsChanges = 0
  /\ built = <<0>> /\ global = 1
  /\ pusher = [p \in Pushers |-> Idle]
  /\ status = [c \in Conn |-> "new"]
  /\ last = [c \in Conn |-> NoContext]
  /\ owed = [c \in Conn |-> nil] /\ underway = [c \in Conn |-> nil]
  /\ lastSent = [c \in Conn |-> NoContext]
  /\ updater = <<>> /\ proxyUpdates = 0
  /\ stale = {}

\* PushQueue.Enqueue, as PushMailbox!Post.
Enqueue(c, r) ==
  /\ owed' = [owed EXCEPT ![c] = Merge(owed[c], r)]
  /\ stale' = IF r.push < global THEN stale \union {c} ELSE stale

\* The updates the main pusher pushes; endpoint updates that are not debounced
\* are pushed by goroutines of their own.
Debounced == IF enableEDSDebounce THEN {"full", "eds"} ELSE {"full"}

-----------------------------------------------------------------------------
(* Changes, and the updates they become (ConfigUpdate and the debounce     *)
(* loop, modelled in Debounce).                                            *)

ConfigChange ==
  /\ store < MaxChanges
  /\ store' = store + 1
  /\ unnotified' = unnotified \union {"full"}
  /\ UNCHANGED <<enableEDSDebounce, edsChanges, built, global, pusher, status, last, queueVars, lastSent,
                 proxyVars, stale>>

EndpointChange ==
  /\ edsChanges < MaxChanges
  /\ edsChanges' = edsChanges + 1
  /\ unnotified' = unnotified \union {"eds"}
  /\ UNCHANGED <<enableEDSDebounce, store, built, global, pusher, status, last, queueVars, lastSent,
                 proxyVars, stale>>

-----------------------------------------------------------------------------
(* DiscoveryServer.Push                                                    *)

\* A full push: NextVersion and ReconcileConfig build the new context.
BuildContext(p) ==
  /\ p = MainPusher
  /\ pusher[p].step = "idle" /\ "full" \in unnotified
  /\ unnotified' = unnotified \ Debounced
  /\ built' = Append(built, store)
  /\ pusher' = [pusher EXCEPT ![p] =
       [step |-> "publish", full |-> TRUE, push |-> Len(built) + 1, todo |-> {}]]
  /\ UNCHANGED <<enableEDSDebounce, store, edsChanges, global, status, last, queueVars, lastSent, proxyVars, stale>>

\* Mutant: the context is pushed but never published.
PublishContextNever(p) ==
  /\ pusher[p].step = "publish"
  /\ pusher' = [pusher EXCEPT ![p].step = "list"]
  /\ UNCHANGED <<storeVars, built, global, status, last, queueVars, lastSent, proxyVars, stale>>

\* SetPushContext
PublishContext(p) ==
  /\ pusher[p].step = "publish"
  /\ global' = pusher[p].push
  /\ pusher' = [pusher EXCEPT ![p].step = "list"]
  /\ UNCHANGED <<storeVars, built, status, last, queueVars, lastSent, proxyVars, stale>>

\* An incremental push takes the published context.
ReadContext(p) ==
  /\ pusher[p].step = "idle"
  /\ "eds" \in unnotified
  /\ enableEDSDebounce <=> p = MainPusher
  /\ p = MainPusher => "full" \notin unnotified
  /\ unnotified' = unnotified \ {"eds"}
  /\ pusher' = [pusher EXCEPT ![p] =
       [step |-> "list", full |-> FALSE, push |-> global, todo |-> {}]]
  /\ UNCHANGED <<enableEDSDebounce, store, edsChanges, built, global, status, last, queueVars, lastSent, proxyVars, stale>>

\* Mutant: a push skips the clients that are not initialised yet, as Clients does.
ListClientsInitialized(p) ==
  /\ pusher[p].step = "list"
  /\ pusher' = [pusher EXCEPT ![p].step = "enqueue",
                              ![p].todo = {c \in Conn : status[c] = "serving"}]
  /\ stale' = IF pusher[p].full
                THEN stale \union {c \in Conn : status[c] = "initializing"
                                                 /\ last[c] < pusher[p].push}
                ELSE stale
  /\ UNCHANGED <<storeVars, built, global, status, last, queueVars, lastSent, proxyVars>>

\* AdsPushAll and StartPush: clientsForPush under the client lock.  A full
\* push lists every client, one for endpoints those that watch the service.
ListClients(p) ==
  /\ pusher[p].step = "list"
  /\ \E listed \in (IF pusher[p].full THEN {Registered} ELSE SUBSET Registered) :
       pusher' = [pusher EXCEPT ![p].step = "enqueue", ![p].todo = listed]
  /\ stale' = IF pusher[p].full
                THEN stale \union {c \in Conn : status[c] = "initializing"
                                                 /\ last[c] < pusher[p].push}
                ELSE stale
  /\ UNCHANGED <<storeVars, built, global, status, last, queueVars, lastSent, proxyVars>>

EnqueueNext(p, c) ==
  /\ pusher[p].step = "enqueue" /\ c \in pusher[p].todo
  /\ Enqueue(c, Request(pusher[p].full, FALSE, pusher[p].push))
  /\ pusher' = [pusher EXCEPT ![p].todo = @ \ {c}]
  /\ UNCHANGED <<storeVars, built, global, status, last, underway, lastSent, proxyVars>>

PushEnds(p) ==
  /\ pusher[p].step = "enqueue" /\ pusher[p].todo = {}
  /\ pusher' = [pusher EXCEPT ![p] = Idle]
  /\ UNCHANGED <<storeVars, built, global, status, last, queueVars, lastSent, proxyVars, stale>>

-----------------------------------------------------------------------------
(* ProxyUpdate, called by the pod and workload controllers: the request is *)
(* built, with the context of that moment, before Enqueue takes the lock.  *)

ProxyUpdateRead(c) ==
  /\ updater = <<>> /\ proxyUpdates < MaxProxyUpdates
  /\ status[c] = "serving"                \* Clients() skips uninitialised ones
  /\ updater' = <<c, global>>
  /\ proxyUpdates' = proxyUpdates + 1
  /\ UNCHANGED <<storeVars, built, global, pusher, status, last, queueVars, lastSent, stale>>

ProxyUpdateEnqueue ==
  /\ updater # <<>>
  /\ Enqueue(updater[1], Request(TRUE, TRUE, updater[2]))
  /\ updater' = <<>>
  /\ UNCHANGED <<storeVars, built, global, pusher, status, last, underway, lastSent,
                 proxyUpdates>>

-----------------------------------------------------------------------------
(* The life of a connection.                                               *)

\* initConnection up to addCon: LastPushContext is read first, authorization
\* runs, and only then are pushes directed at the connection.
InitConnection(c) ==
  /\ status[c] = "new"
  /\ status' = [status EXCEPT ![c] = "initializing"]
  /\ last' = [last EXCEPT ![c] = global]
  /\ UNCHANGED <<storeVars, built, global, pusher, queueVars, lastSent, proxyVars, stale>>

\* Authorize refuses the workload.
Unauthorized(c) ==
  /\ status[c] = "initializing"
  /\ status' = [status EXCEPT ![c] = "closed"]
  /\ UNCHANGED <<storeVars, built, global, pusher, last, queueVars, lastSent, proxyVars, stale>>

AddCon(c) ==
  /\ status[c] = "initializing"
  /\ status' = [status EXCEPT ![c] = "registered"]
  /\ UNCHANGED <<storeVars, built, global, pusher, last, queueVars, lastSent, proxyVars, stale>>

\* initializeProxy leaves LastPushContext as it is; MarkInitialized lets the
\* stream loop start.
MarkInitialized(c) ==
  /\ status[c] = "registered"
  /\ status' = [status EXCEPT ![c] = "serving"]
  /\ UNCHANGED <<storeVars, built, global, pusher, last, queueVars, lastSent, proxyVars, stale>>

\* The queue hands out the request (PushMailbox!Take).
Dequeue(c) ==
  /\ owed[c] # nil /\ underway[c] = nil
  /\ underway' = [underway EXCEPT ![c] = owed[c]]
  /\ owed' = [owed EXCEPT ![c] = nil]
  /\ UNCHANGED <<storeVars, built, global, pusher, status, last, lastSent, proxyVars, stale>>

\* Mutant: a full push does not become the proxy's LastPushContext.
PushConnectionKeepsContext(c) ==
  /\ status[c] = "serving" /\ underway[c] # nil
  /\ lastSent' = [lastSent EXCEPT ![c] = underway[c].push]
  /\ underway' = [underway EXCEPT ![c] = nil]
  /\ stale' = IF underway[c].full /\ underway[c].push = global /\ owed[c] = nil
                THEN stale \ {c} ELSE stale
  /\ UNCHANGED <<storeVars, built, global, pusher, status, last, owed, proxyVars>>

\* Connection.Push: pushConnection on the stream loop, then done.
PushConnection(c) ==
  /\ status[c] = "serving" /\ underway[c] # nil
  /\ last' = IF underway[c].full THEN [last EXCEPT ![c] = underway[c].push] ELSE last
  /\ lastSent' = [lastSent EXCEPT ![c] = underway[c].push]
  /\ underway' = [underway EXCEPT ![c] = nil]
  /\ stale' = IF underway[c].full /\ underway[c].push = global /\ owed[c] = nil
                THEN stale \ {c} ELSE stale
  /\ UNCHANGED <<storeVars, built, global, pusher, status, owed, proxyVars>>

\* processRequest: a client's request is answered from LastPushContext.
ProcessRequest(c) ==
  /\ status[c] = "serving"
  /\ lastSent' = [lastSent EXCEPT ![c] = last[c]]
  /\ UNCHANGED <<storeVars, built, global, pusher, status, last, queueVars, proxyVars, stale>>

\* The client goes away; what the queue holds for it is dropped when the
\* sender finds the stream closed.
CloseConnection(c) ==
  /\ status[c] \in {"registered", "serving"}
  /\ status' = [status EXCEPT ![c] = "closed"]
  /\ UNCHANGED <<storeVars, built, global, pusher, last, queueVars, lastSent, proxyVars, stale>>

DropClosed(c) ==
  /\ status[c] = "closed" /\ underway[c] # nil
  /\ underway' = [underway EXCEPT ![c] = nil]
  /\ UNCHANGED <<storeVars, built, global, pusher, status, last, owed, lastSent, proxyVars, stale>>

-----------------------------------------------------------------------------
PushStep(p) ==
  \/ BuildContext(p) \/ PublishContext(p) \/ ReadContext(p) \/ ListClients(p) \/ PushEnds(p)
  \/ \E c \in Conn : EnqueueNext(p, c)

Next ==
  \/ ConfigChange \/ EndpointChange
  \/ \E p \in Pushers : PushStep(p)
  \/ \E c \in Conn :
       \/ ProxyUpdateRead(c)
       \/ InitConnection(c) \/ Unauthorized(c) \/ AddCon(c) \/ MarkInitialized(c)
       \/ Dequeue(c) \/ PushConnection(c) \/ ProcessRequest(c)
       \/ CloseConnection(c) \/ DropClosed(c)
  \/ ProxyUpdateEnqueue

Spec == Init /\ [][Next]_vars

\* Pushers, the sender and the stream loops keep going.
FairSpec ==
  /\ Spec
  /\ \A p \in Pushers : WF_vars(PushStep(p))
  /\ \A c \in Conn : /\ WF_vars(AddCon(c) \/ Unauthorized(c)) /\ WF_vars(MarkInitialized(c))
                      /\ WF_vars(Dequeue(c)) /\ WF_vars(PushConnection(c)) /\ WF_vars(DropClosed(c))

-----------------------------------------------------------------------------
\* A client is never sent a context older than one it was sent before, pushes
\* and answers to its own requests together, unless it is one of the stale.
\* (Not so when endpoint updates are pushed beside a full push: theirs may
\* bring the new context before the full push makes it the client's.)
NeverBackwards ==
  [][enableEDSDebounce => \A c \in Conn \ stale : lastSent'[c] >= lastSent[c]]_vars

Quiet ==
  /\ unnotified = {} /\ updater = <<>>
  /\ \A p \in Pushers : pusher[p].step = "idle"
  /\ \A c \in Conn : owed[c] = nil /\ underway[c] = nil

\* When nothing is left to do, a served client answers its requests from the
\* published context, built from the configuration as it is now - unless it
\* was left out of a push or handed an old context, and no later full push
\* has reached it.
UpToDateWhenQuiet ==
  Quiet => \A c \in Conn \ stale :
             status[c] = "serving" => (last[c] = global /\ built[last[c]] = store)

\* A configuration change eventually reaches every client that stays
\* connected, with the same exception.
EventuallyUpToDate ==
  \A c \in Conn :
    []<>(status[c] \in {"new", "closed"} \/ c \in stale
         \/ (status[c] = "serving" /\ built[last[c]] = store))
=============================================================================
