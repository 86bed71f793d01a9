--------------------------- MODULE CaDistribution ---------------------------
(***************************************************************************)
(* The three controllers that copy the CA bundle of the key and            *)
(* certificate watcher into the cluster: the namespace controller, into    *)
(* every namespace; the webhook patcher, into the mutating webhook         *)
(* configurations of its revision; the validation controller, into the     *)
(* validating ones.  Each has a reconciler queue, fed by its informers     *)
(* and by the watcher's notifications.  A setup chooses the controller.    *)
(*                                                                         *)
(* A bundle is a number, 0 one that VerifyCABundle refuses.  The object of *)
(* a name is its webhook configuration.  The namespace controller keeps    *)
(* two ConfigMaps in a namespace, one with the CA bundle and one with the  *)
(* CRL, by the same code one after the other: the object is one of them,   *)
(* chosen by the setup ("root" or "crl"), and of the other one the model   *)
(* has what reaches the first, its events and whether its upsert failed.   *)
(***************************************************************************)
EXTENDS Naturals, Sequences, FiniteSets

CONSTANTS
  Name,
  Setups,        \* [controller, names, bundle, objects, changes, errors]
  maxRetries,    \* of the namespace controller; 5 in the code
  MaxBundle,     \* bound on changes of the CA bundle
  MaxRequeues,   \* bound on the retries of the others
  SyncSignal, NoKey, none

VARIABLES
  setup,
  bundle, token, watching,  \* the watcher: its CA bundle, its channel, and AddWatcher was called
  object,      \* per name: none or [ca, mine, ignore, version]
  namespace,   \* the namespaces there are
  cache, known,        \* the informers' objects and namespaces
  pending, nsPending,  \* names with an event that is not handled yet
  hand,        \* the write under way: none or [name, ca, version], version 0 for a create
  gaveUp,      \* history: names whose last write was refused and is not tried again
  early,       \* history: the bundle changed before AddWatcher
  version, changes, refusals,
  ready, dirty, processing, requeues, backoff, worker, running, shutDown, synced

Key == {"object", "other", "namespace"} \X Name
QN == INSTANCE ControllerQueue WITH maxAttempts <- maxRetries
Q == INSTANCE ControllerQueue WITH maxAttempts <- MaxRequeues + 2
queueVars == <<ready, dirty, processing, requeues, backoff, worker, running, shutDown, synced>>
watcherVars == <<bundle, token, watching, early>>
apiVars == <<object, namespace, pending, nsPending, version>>
bounds == <<changes, refusals>>
distributionVars == <<setup, watcherVars, apiVars, cache, known, hand, gaveUp, bounds, queueVars>>

Namespaces == setup.controller \in {"root", "crl"}

\* An object that carries a bundle, and a write to one.
CaObject == [ca : 0 .. MaxBundle, mine : BOOLEAN, ignore : BOOLEAN, version : Nat \ {0}]
Hand == [name : Name, ca : 0 .. MaxBundle, version : Nat]

\* What the constants are.  A patch of a mutating configuration that the API
\* server refuses stays in the cache and is not tried again, so that there
\* the calls succeed.
Configured ==
  /\ IsFiniteSet(Name) /\ maxRetries \in Nat /\ MaxBundle \in Nat /\ MaxRequeues \in Nat
  /\ none \notin CaObject /\ none \notin Hand /\ SyncSignal \notin Key /\ NoKey \notin Key
  /\ \A s \in Setups :
       /\ s.controller \in {"root", "crl", "mutating", "validating"}
       /\ s.names \subseteq Name /\ s.bundle \in 0 .. MaxBundle
       /\ s.objects \in [Name -> CaObject \cup {none}]
       /\ s.changes \in Nat /\ s.errors \in Nat
       /\ s.controller = "mutating" => s.errors = 0

DistributionInit ==
  /\ setup \in Setups
  /\ bundle = setup.bundle /\ token = FALSE /\ watching = FALSE /\ early = FALSE
  /\ object = setup.objects /\ namespace = setup.names
  /\ cache = [n \in Name |-> none] /\ known = {}
  /\ pending = {n \in Name : object[n] # none} /\ nsPending = IF Namespaces THEN setup.names ELSE {}
  /\ hand = none /\ gaveUp = {} /\ version = 1 /\ changes = 0 /\ refusals = 0
  /\ Q!Init

-----------------------------------------------------------------------------
(* The bundle, and its watcher.                                            *)

SetAndNotify ==
  /\ bundle < MaxBundle /\ bundle' = bundle + 1
  /\ token' = (token \/ watching) /\ early' = (early \/ ~watching)
  /\ UNCHANGED <<setup, watching, apiVars, cache, known, hand, gaveUp, bounds, queueVars>>

\* The watcher's goroutine: the patcher starts it before its informers.
AddWatcher ==
  /\ ~watching /\ (running \/ setup.controller = "mutating") /\ watching' = TRUE
  /\ UNCHANGED <<setup, bundle, token, early, apiVars, cache, known, hand, gaveUp, bounds, queueVars>>

\* Everything in the cache is queued again: webhook configurations, or
\* namespaces.
syncAll ==
  IF Namespaces THEN {<<"namespace", n>> : n \in known}
  ELSE {<<"object", n>> : n \in {n \in Name : cache[n] # none}}

startCaBundleWatcher ==
  /\ token /\ token' = FALSE
  /\ Q!AddAll(syncAll)
  /\ UNCHANGED <<processing, requeues, backoff, worker, running, shutDown, synced>>
  /\ UNCHANGED <<setup, bundle, watching, early, apiVars, cache, known, hand, gaveUp, bounds>>

-----------------------------------------------------------------------------
(* The cluster and the informers.                                          *)

SetObject(n, o) == object' = [object EXCEPT ![n] = o] /\ pending' = pending \cup {n}

\* Somebody makes, edits or deletes an object, or takes it over.
ChangeObject(n) ==
  /\ changes < setup.changes /\ changes' = changes + 1 /\ version' = version + 1
  /\ IF object[n] = none
       THEN /\ n \in namespace
            /\ SetObject(n, [ca |-> 0, mine |-> TRUE, ignore |-> TRUE, version |-> version + 1])
       ELSE \/ SetObject(n, none)
            \/ SetObject(n, [object[n] EXCEPT !.ca = 0, !.version = version + 1])
            \/ SetObject(n, [object[n] EXCEPT !.mine = ~@, !.version = version + 1])
  /\ UNCHANGED <<setup, watcherVars, namespace, nsPending, cache, known, hand, gaveUp, refusals, queueVars>>

\* A namespace goes, with its ConfigMap, or comes.
ChangeNamespace(n) ==
  /\ Namespaces /\ changes < setup.changes /\ changes' = changes + 1 /\ version' = version + 1
  /\ nsPending' = nsPending \cup {n}
  /\ IF n \in namespace
       THEN /\ namespace' = namespace \ {n}
            /\ IF object[n] # none THEN SetObject(n, none) ELSE UNCHANGED <<object, pending>>
       ELSE namespace' = namespace \cup {n} /\ UNCHANGED <<object, pending>>
  /\ UNCHANGED <<setup, watcherVars, cache, known, hand, gaveUp, refusals, queueVars>>

ObserveObject(n) ==
  /\ n \in pending /\ pending' = pending \ {n}
  /\ cache' = [cache EXCEPT ![n] = object[n]]
  /\ Q!Add(<<"object", n>>)
  /\ UNCHANGED <<setup, watcherVars, object, namespace, nsPending, version, known, hand, gaveUp, bounds>>

ObserveNamespace(n) ==
  /\ n \in nsPending /\ nsPending' = nsPending \ {n}
  /\ known' = IF n \in namespace THEN known \cup {n} ELSE known \ {n}
  /\ Q!Add(<<"namespace", n>>)
  /\ UNCHANGED <<setup, watcherVars, object, namespace, pending, version, cache, hand, gaveUp, bounds>>

\* An event of a namespace's other ConfigMap.
ObserveOther(n) ==
  /\ Namespaces /\ changes < setup.changes /\ changes' = changes + 1
  /\ Q!Add(<<"other", n>>)
  /\ UNCHANGED <<setup, watcherVars, apiVars, cache, known, hand, gaveUp, refusals>>

\* The queue runs once the informers have delivered what there was; for that
\* of the CRL's ConfigMaps nobody waits.
Run ==
  /\ setup.controller = "crl" \/ pending = {}
  /\ nsPending = {} /\ Q!Run
  /\ UNCHANGED <<setup, watcherVars, apiVars, cache, known, hand, gaveUp, bounds>>

GetKey == Q!Get /\ UNCHANGED <<setup, watcherVars, apiVars, cache, known, hand, gaveUp, bounds>>
ProcessSignal == Q!ProcessSignal /\ UNCHANGED <<setup, watcherVars, apiVars, cache, known, hand, gaveUp, bounds>>
BackoffEnds(k) ==
  /\ Namespaces \/ requeues[k] <= MaxRequeues
  /\ Q!BackoffEnds(k)
  /\ UNCHANGED <<setup, watcherVars, apiVars, cache, known, hand, gaveUp, bounds>>

-----------------------------------------------------------------------------
(* Reconcilers: what is read from the cache, and the write that follows.   *)

Working == worker \in Key /\ hand = none

\* The key is done, after r refusals.  The reconciliation of a namespace fails
\* if the upsert of its other ConfigMap does.
EndWork(ok, r) ==
  /\ hand' = none
  /\ \/ refusals' = r /\ IF Namespaces THEN QN!Process(ok) ELSE Q!Process(ok)
     \/ Namespaces /\ r < setup.errors /\ refusals' = r + 1 /\ QN!Process(FALSE)

Done(n, ok) == EndWork(ok, refusals) /\ gaveUp' = IF ok THEN gaveUp \ {n} ELSE gaveUp

LastTry == Namespaces /\ requeues[worker] + 1 >= maxRetries
GivesUp(n, ok) == gaveUp' = IF ok \/ LastTry THEN gaveUp \cup {n} ELSE gaveUp

\* Mutant: the reconciler logs the error and returns none.
LoggedOnly(n, ok) == EndWork(TRUE, refusals + 1) /\ GivesUp(n, ok)

\* The API server refuses the write of n, which the reconciler may take for
\* success.
WriteFails(n, ok) == EndWork(ok, refusals + 1) /\ GivesUp(n, ok)

StartWrite(n, base) ==
  /\ hand' = [name |-> n, ca |-> bundle, version |-> IF base = none THEN 0 ELSE base.version]
  /\ UNCHANGED <<gaveUp, refusals, queueVars>>

\* InsertDataToConfigMap
reconcileCACertAndCRL ==
  /\ Working /\ Namespaces
  /\ LET n == worker[2]
     IN IF cache[n] # none /\ (IF cache[n] = none THEN FALSE ELSE cache[n].ca = bundle)
          THEN Done(n, TRUE) ELSE StartWrite(n, cache[n])
  /\ UNCHANGED <<setup, watcherVars, apiVars, cache, known, changes>>

\* The bundle is put into the object of the cache itself.
patchMutatingWebhookConfig ==
  /\ Working /\ setup.controller = "mutating"
  /\ LET n == worker[2]
         c == cache[n]
     IN IF c = none THEN Done(n, TRUE) /\ UNCHANGED cache
        ELSE IF ~c.mine THEN Done(n, TRUE) /\ UNCHANGED cache
        ELSE IF bundle = 0 THEN Done(n, FALSE) /\ UNCHANGED cache
        ELSE /\ cache' = [cache EXCEPT ![n].ca = bundle]
             /\ IF c.ca = bundle THEN Done(n, TRUE) ELSE StartWrite(n, c)
  /\ UNCHANGED <<setup, watcherVars, apiVars, known, changes>>

caBundleUpdateRequired(c) == c.ca # bundle
failurePolicyIsIgnore(c) == c.ignore

\* readyForFailClose queues all of them again, whenever the policy has to
\* change.
updateValidatingWebhookConfiguration(n, c) ==
  IF ~caBundleUpdateRequired(c) /\ ~failurePolicyIsIgnore(c) THEN Done(n, TRUE)
  ELSE IF ~failurePolicyIsIgnore(c) THEN StartWrite(n, c)
  ELSE /\ hand' = [name |-> n, ca |-> bundle, version |-> c.version]
       /\ Q!AddAll(syncAll)
       /\ UNCHANGED <<gaveUp, refusals, processing, requeues, backoff, worker, running, shutDown, synced>>

\* A bundle that cannot be loaded is no error here.
Reconcile ==
  /\ Working /\ setup.controller = "validating"
  /\ LET n == worker[2]
         c == cache[n]
     IN IF c = none \/ bundle = 0 THEN Done(n, TRUE)
        ELSE IF ~c.mine THEN Done(n, TRUE)
        ELSE updateValidatingWebhookConfiguration(n, c)
  /\ UNCHANGED <<setup, watcherVars, apiVars, cache, known, changes>>

\* A create meets an object, an update another version or none.
Conflict(o, v) == IF v = 0 THEN o # none ELSE IF o = none THEN TRUE ELSE o.version # v

\* A create that comes too late, or into a namespace that is gone, is not an
\* error; nor is a mutating configuration that is gone.
WriteObject ==
  /\ hand # none
  /\ LET n == hand.name
         missing == hand.version = 0 /\ n \notin namespace
         forgiven == hand.version = 0 \/ (setup.controller = "mutating" /\ object[n] = none)
     IN IF missing \/ Conflict(object[n], hand.version)
          THEN Done(n, forgiven) /\ UNCHANGED apiVars
          ELSE /\ version' = version + 1
               /\ SetObject(n, [ca |-> hand.ca, version |-> version + 1, ignore |-> FALSE,
                                mine |-> IF object[n] = none THEN TRUE ELSE object[n].mine])
               /\ UNCHANGED <<namespace, nsPending>>
               /\ Done(n, TRUE)
  /\ UNCHANGED <<setup, watcherVars, cache, known, changes>>

\* The API server does not take the call.
CallFails ==
  /\ hand # none /\ refusals < setup.errors
  /\ WriteFails(hand.name, FALSE)
  /\ UNCHANGED <<setup, watcherVars, apiVars, cache, known, changes>>

\* It forbids dubbod to create a ConfigMap there, which is skipped.
CreateForbidden ==
  /\ hand # none /\ refusals < setup.errors
  /\ hand.version = 0 /\ WriteFails(hand.name, TRUE)
  /\ UNCHANGED <<setup, watcherVars, apiVars, cache, known, changes>>

DistributionNext ==
  \/ SetAndNotify \/ AddWatcher \/ startCaBundleWatcher
  \/ \E n \in setup.names : ChangeObject(n) \/ ChangeNamespace(n) \/ ObserveObject(n)
                             \/ ObserveNamespace(n) \/ ObserveOther(n)
  \/ Run \/ GetKey \/ ProcessSignal \/ \E k \in Key : BackoffEnds(k)
  \/ reconcileCACertAndCRL \/ patchMutatingWebhookConfig \/ Reconcile
  \/ WriteObject \/ CallFails \/ CreateForbidden

DistributionSpec == DistributionInit /\ [][DistributionNext]_distributionVars

-----------------------------------------------------------------------------
(* Properties.                                                             *)

\* The types of the watcher, the cluster and the write under way.
DistributionTypeOK ==
  /\ bundle \in 0 .. MaxBundle /\ token \in BOOLEAN /\ watching \in BOOLEAN
  /\ namespace \subseteq Name /\ known \subseteq Name
  /\ pending \subseteq Name /\ nsPending \subseteq Name /\ gaveUp \subseteq Name
  /\ \A n \in Name : object[n] # none => object[n].ca \in 0 .. MaxBundle

Quiet ==
  /\ running /\ watching /\ ~token /\ Q!Drained /\ hand = none
  /\ pending = {} /\ nsPending = {}

\* Whose bundle a controller is to keep.
Wanted(n) ==
  IF Namespaces THEN n \in namespace
  ELSE IF object[n] = none THEN FALSE ELSE object[n].mine /\ bundle # 0

UpToDate(n) ==
  IF object[n] = none THEN FALSE
  ELSE object[n].ca = bundle /\ (setup.controller = "validating" => ~object[n].ignore)

\* When nothing is left to do, both ConfigMaps of every namespace, or every
\* webhook configuration of the revision, hold what the watcher has, whatever
\* was edited, deleted or rotated in between: the watcher's notification, the
\* informers' events and the retries of startCaBundleWatcher and the
\* reconcilers cover every order.  Left out is a namespace whose last write
\* the API server refused for good: InsertDataToConfigMap skips a create that
\* is forbidden, and the queue drops a key after maxRetries.  (A bundle set
\* before AddWatcher is called is not announced.)
BundleDistributed ==
  Quiet /\ ~early => \A n \in Name : Wanted(n) => UpToDate(n) \/ n \in gaveUp
=============================================================================
