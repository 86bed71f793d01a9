--------------------------- MODULE KrtCollection ----------------------------
(***************************************************************************)
(* A derived krt collection (pkg/kube/krt/collection.go, manyCollection):  *)
(* every object of the input collection is transformed into a set of       *)
(* outputs, the transformation may Fetch from a second collection, and a   *)
(* change of either collection recomputes what depends on it.  Both are    *)
(* static collections (static.go), and the transformation also writes a    *)
(* status object per input (status.go).                                    *)
(*                                                                         *)
(* An input says what its transformation fetches: one key, the objects an  *)
(* index has under a key, or the objects a predicate selects.  The outputs *)
(* are one per fetched object.  A strict input discards its result when it *)
(* fetched a bad object, returning a default for the first time, as the    *)
(* mesh configuration does (mesh/meshwatcher/collection.go).               *)
(*                                                                         *)
(* The second half of the module is a join of several collections, a       *)
(* machine of its own with its own variables, JoinInit and JoinNext.       *)
(***************************************************************************)
EXTENDS Integers, Sequences, FiniteSets

CONSTANTS
    InputKey, DepKey, Group,   \* keys of both collections, keys of the index
    Starts,       \* initial objects, the objects an input may become, and how many
                  \* changes of either collection are made
    DepObjects,   \* the objects of the second collection
    nil

VARIABLES
    objects,      \* the objects the inputs may become (chosen initially)
    inputs, deps, \* the two static collections: key -> object or nil
    changes,      \* changes still to be made (a bound)
    inEvents, depEvents,   \* notifications on their way to the handlers
    depSynced,    \* the second collection has synced
    phase,        \* of runQueue
    queue, synced,
    current,      \* the task being run: its items, some already transformed
    collectionDependencies,  \* the second collection has our handler
    objectDependencies, indexedDependencies, extractors,   \* dependencyState
    mappings, outputs, index,   \* multiIndex and one index; an input's keys are nil when it has no entry
    replica,      \* what the events published so far say the outputs are
    status        \* the status collection: key -> input or nil

inputVars == <<inputs, inEvents>>
depVars == <<deps, depEvents, depSynced>>
stateVars == <<objectDependencies, indexedDependencies, extractors, mappings, outputs, index, replica>>
vars == <<objects, inputs, deps, changes, inEvents, depEvents, depSynced, phase, queue, synced,
          current, collectionDependencies, objectDependencies, indexedDependencies,
          extractors, mappings, outputs, index, replica, status>>

Present(c) == {k \in DOMAIN c : c[k] # nil}
Mapped(i) == IF mappings[i] = nil THEN {} ELSE mappings[i]
OutputKey == InputKey \X (DepKey \cup {nil})
NoOutputs == [o \in {} |-> nil]

Init ==
    \E s \in Starts :
      /\ objects = s.objects
      /\ inputs = s.inputs
      /\ deps = s.deps
      /\ changes = s.changes
      /\ inEvents = <<>> /\ depEvents = <<>>
      /\ depSynced = FALSE
      /\ phase = "waiting"
      /\ queue = <<>> /\ synced = FALSE
      /\ current = nil
      /\ collectionDependencies = FALSE
      /\ objectDependencies = [i \in InputKey |-> {}]
      /\ indexedDependencies = {}
      /\ extractors = {}
      /\ mappings = [i \in InputKey |-> nil]
      /\ outputs = NoOutputs
      /\ index = [g \in Group |-> {}]
      /\ replica = NoOutputs
      /\ status = [i \in InputKey |-> nil]

-----------------------------------------------------------------------------
\* The static collections: every change is made and published under their lock.

Event(k, old, new) == [key |-> k, old |-> old, new |-> new]
Items(e) == {e.old, e.new} \ {nil}

\* A handler gets events only once it is registered.
InPublished(events) ==
    IF phase = "waiting" THEN inEvents ELSE Append(inEvents, events)
DepPublished(events) ==
    IF collectionDependencies THEN Append(depEvents, events) ELSE depEvents

ChangeInput(new) ==
    /\ changes.input > 0
    /\ changes' = [changes EXCEPT !.input = @ - 1]
    /\ inputs' = new
    /\ inEvents' = InPublished({Event(i, inputs[i], new[i]) : i \in {k \in InputKey : inputs[k] # new[k]}})
    /\ UNCHANGED <<objects, depVars, phase, queue, synced, current, collectionDependencies, stateVars, status>>

\* updateObject and DeleteObject of the input collection.
UpdateInput == \E i \in InputKey : \E obj \in objects[i] \ {inputs[i]} :
    ChangeInput([inputs EXCEPT ![i] = obj])

DeleteInput == \E i \in Present(inputs) : ChangeInput([inputs EXCEPT ![i] = nil])

\* Reset of the input collection to the contents a start with these objects has:
\* one batch.
ResetInputs == \E s \in Starts :
    /\ s.objects = objects
    /\ Cardinality({i \in InputKey : inputs[i] # s.inputs[i]}) > 1
    /\ ChangeInput(s.inputs)

ChangeDep == \E d \in DepKey : \E new \in (DepObjects \cup {nil}) \ {deps[d]} :
    /\ changes.dep > 0
    /\ changes' = [changes EXCEPT !.dep = @ - 1]
    /\ deps' = [deps EXCEPT ![d] = new]
    /\ depEvents' = DepPublished({Event(d, deps[d], new)})
    /\ UNCHANGED <<objects, inputVars, depSynced, phase, queue, synced, current,
                   collectionDependencies, stateVars, status>>

DepsSync ==
    /\ ~depSynced
    /\ depSynced' = TRUE
    /\ UNCHANGED <<objects, inputVars, changes, deps, depEvents, phase, queue, synced, current,
                   collectionDependencies, stateVars, status>>

-----------------------------------------------------------------------------
\* runQueue: register with the input collection, wait until the handler has
\* enqueued the initial state, then run the queue, which ends its initial
\* part with the callback that marks the collection synced.

PrimaryTask(keys) == [kind |-> "primary", keys |-> keys, events |-> {}]
SecondaryTask(events) == [kind |-> "secondary", keys |-> {}, events |-> events]
SyncedTask == [kind |-> "synced", keys |-> {}, events |-> {}]

Register ==
    /\ phase = "waiting"
    /\ phase' = "registered"
    /\ inEvents' = <<{Event(i, nil, inputs[i]) : i \in Present(inputs)}>>
    /\ UNCHANGED <<objects, inputs, changes, depVars, queue, synced, current,
                   collectionDependencies, stateVars, status>>

\* The handler of the input collection: onPrimaryInputEventHandler removes the
\* status of what was deleted, then the task is pushed.
OnPrimary ==
    /\ inEvents # <<>>
    /\ LET events == Head(inEvents) IN
         /\ status' = [i \in InputKey |->
              IF \E e \in events : e.key = i /\ e.new = nil THEN nil ELSE status[i]]
         /\ queue' = Append(queue, PrimaryTask({e.key : e \in events}))
    /\ inEvents' = Tail(inEvents)
    /\ UNCHANGED <<objects, inputs, changes, depVars, phase, synced, current,
                   collectionDependencies, stateVars>>

RunQueue ==
    /\ phase = "registered" /\ queue # <<>>
    /\ phase' = "running"
    /\ queue' = Append(queue, SyncedTask)
    /\ UNCHANGED <<objects, inputVars, changes, depVars, synced, current,
                   collectionDependencies, stateVars, status>>

\* The handler that registerDependency gave the second collection.
OnSecondary ==
    /\ depEvents # <<>>
    /\ queue' = Append(queue, SecondaryTask(Head(depEvents)))
    /\ depEvents' = Tail(depEvents)
    /\ UNCHANGED <<objects, inputVars, changes, deps, depSynced, phase, synced, current,
                   collectionDependencies, stateVars, status>>

-----------------------------------------------------------------------------
\* Fetch and the transformation.

\* filter.Matches, of a dependency of an input on the second collection.
Matches(f, d, o) == IF f.fetch = "key" THEN d = f.at ELSE o.group = f.at

Fetched(f) == {d \in Present(deps) : f.fetch # "none" /\ Matches(f, d, deps[d])}

Discards(obj) == obj.strict /\ \E d \in Fetched(obj) : deps[d].bad

\* The result of a transformation, with the dependencies it registered.
Transformation(i, obj) ==
    [results |-> IF Discards(obj)
                 THEN [o \in {<<i, nil>>} |-> [group |-> obj.at, bad |-> TRUE]]
                 ELSE [o \in {i} \X Fetched(obj) |-> deps[o[2]]],
     discard |-> Discards(obj),
     deps |-> {[fetch |-> obj.fetch, at |-> obj.at]} \ {[fetch |-> "none", at |-> obj.at]}]

\* reverseIndexKey: a dependency on keys or on an index can be looked up.
Reversible(f) == f.fetch \in {"key", "index"}

\* objectKeyExtractor of a kind of reverse index.
ExtractKey(typ, d, o) == IF typ = "key" THEN d ELSE o.group

\* A lookup with the keys of the new object only.
ChangedByNew(events) ==
    {i \in InputKey : /\ objectDependencies[i] # {}
                      /\ \E e \in events, t \in extractors :
                           /\ e.new # nil
                           /\ <<t, ExtractKey(t, e.key, e.new), i>> \in indexedDependencies}

\* dependencyState.changedInputKeys.  As soon as some dependency on the second
\* collection can be looked up, only those are: the others are not scanned.
ChangedInputKeys(events) ==
    LET viaIndex(e) == {i \in InputKey :
            /\ objectDependencies[i] # {}
            /\ \E t \in extractors, o \in Items(e) :
                 <<t, ExtractKey(t, e.key, o), i>> \in indexedDependencies}
        scan(e) == {i \in InputKey : \E f \in objectDependencies[i], o \in Items(e) :
                       Matches(f, e.key, o)}
    IN UNION {IF extractors # {} THEN viaIndex(e) ELSE scan(e) : e \in events}

-----------------------------------------------------------------------------
\* One task of the queue.

Untransformed == [results |-> nil]
Item(obj) == [obj |-> obj, done |-> IF obj = nil THEN nil ELSE Untransformed]

\* onPrimaryInputEvent reads the inputs again; onSecondaryDependencyEvent looks
\* for the inputs that depend on what changed.
TakeTask ==
    /\ phase = "running" /\ current = nil
    /\ queue # <<>>
    /\ LET task == Head(queue)
           changed == ChangedInputKeys(task.events)
           keys == CASE task.kind = "primary" -> task.keys
                     [] task.kind = "secondary" ->
                          {i \in changed : inputs[i] # nil \/ Mapped(i) # {}}
                     [] OTHER -> {}
       IN /\ current' = [i \in keys |-> Item(inputs[i])]
          /\ synced' = (synced \/ task.kind = "synced")
    /\ queue' = Tail(queue)
    /\ UNCHANGED <<objects, inputVars, changes, depVars, phase, collectionDependencies,
                   stateVars, status>>

Untouched == {i \in DOMAIN current : current[i].done = Untransformed}

\* registerDependency, on the first Fetch from the second collection: wait for
\* it to sync, then register a handler, without its existing state.
RegisterDependency ==
    /\ current # nil
    /\ \E i \in Untouched : current[i].obj.fetch # "none"
    /\ ~collectionDependencies /\ depSynced
    /\ collectionDependencies' = TRUE
    /\ UNCHANGED <<objects, inputVars, changes, depVars, phase, queue, synced, current,
                   stateVars, status>>

MayFetch(obj) == obj.fetch = "none" \/ collectionDependencies

Transform(i) ==
    /\ current # nil /\ i \in Untouched
    /\ MayFetch(current[i].obj)
    /\ current' = [current EXCEPT ![i].done = Transformation(i, current[i].obj)]
    /\ status' = [status EXCEPT ![i] = current[i].obj]
    /\ UNCHANGED <<objects, inputVars, changes, depVars, phase, queue, synced,
                   collectionDependencies, stateVars>>

\* The items whose result replaces what is stored.
Deleted == {i \in DOMAIN current : current[i].obj = nil}
Kept == {i \in DOMAIN current \ Deleted :
           /\ current[i].done.discard
           /\ mappings[i] # nil \/ DOMAIN current[i].done.results = {}}
Replaced == DOMAIN current \ (Deleted \cup Kept)

NewKeys(i) == IF i \in Replaced THEN DOMAIN current[i].done.results ELSE {}

\* The events of the task: one for every output that appears, changes or goes.
OutputEvents ==
    {e \in {Event(o, IF o \in DOMAIN outputs THEN outputs[o] ELSE nil,
                     IF o \in NewKeys(o[1])
                     THEN current[o[1]].done.results[o] ELSE nil) :
              o \in UNION {Mapped(i) \cup NewKeys(i) : i \in Deleted \cup Replaced}} :
       e.old # e.new}

\* collectionState.outputs after the events, and what a reader of the events holds.
Applied(c, events) ==
    LET gone == {e.key : e \in {x \in events : x.new = nil}}
        set == {e \in events : e.new # nil}
    IN [o \in (DOMAIN c \ gone) \cup {e.key : e \in set} |->
          IF \E e \in set : e.key = o THEN (CHOOSE e \in set : e.key = o).new ELSE c[o]]

\* An index that does not leave the key of the old object.
IndexJoined(events) ==
    [g \in Group |->
       (index[g] \ {e.key : e \in {x \in events : x.new = nil /\ x.old.group = g}})
         \cup {e.key : e \in {x \in events : x.new # nil /\ x.new.group = g}}]

\* collectionIndex.update: the old key is left, the new one joined.
IndexUpdated(events) ==
    [g \in Group |->
       (index[g] \ {e.key : e \in {x \in events : x.old # nil /\ x.old.group = g}})
         \cup {e.key : e \in {x \in events : x.new # nil /\ x.new.group = g}}]

\* dependencyState.update and delete.  update leaves the entries of earlier
\* dependencies in the reverse index.
Reversed(i, fs) == {<<f.fetch, f.at, i>> : f \in {x \in fs : Reversible(x)}}

Dependencies ==
    /\ objectDependencies' = [i \in InputKey |->
         IF i \in Deleted THEN {} ELSE IF i \in Replaced THEN current[i].done.deps
         ELSE objectDependencies[i]]
    /\ indexedDependencies' =
         (indexedDependencies \ UNION {Reversed(i, objectDependencies[i]) : i \in Deleted})
           \cup UNION {Reversed(i, current[i].done.deps) : i \in Replaced}
    /\ extractors' = extractors \cup
         {f.fetch : f \in {x \in UNION {current[i].done.deps : i \in Replaced} : Reversible(x)}}

\* handleChangedPrimaryInputEvents from its lock on: the results replace what
\* was stored, the indexes follow, and the handlers get the events.
Apply ==
    /\ current # nil /\ Untouched = {}
    /\ Dependencies
    /\ mappings' = [i \in InputKey |-> IF i \in Deleted THEN nil
                                     ELSE IF i \in Replaced THEN NewKeys(i) ELSE mappings[i]]
    /\ outputs' = [o \in {o \in DOMAIN outputs : o[1] \notin Deleted \cup Replaced}
                           \cup UNION {NewKeys(i) : i \in Replaced} |->
                     IF o[1] \in Replaced THEN current[o[1]].done.results[o] ELSE outputs[o]]
    /\ index' = IndexUpdated(OutputEvents)
    /\ replica' = Applied(replica, OutputEvents)
    /\ current' = nil
    /\ UNCHANGED <<objects, inputVars, changes, depVars, phase, queue, synced,
                   collectionDependencies, status>>

Next ==
    \/ UpdateInput
    \/ DeleteInput
    \/ ResetInputs
    \/ ChangeDep
    \/ DepsSync
    \/ Register
    \/ OnPrimary
    \/ RunQueue
    \/ OnSecondary
    \/ TakeTask
    \/ RegisterDependency
    \/ \E i \in InputKey : Transform(i)
    \/ Apply

Spec == Init /\ [][Next]_vars

-----------------------------------------------------------------------------
Settled ==
    /\ phase = "running" /\ current = nil
    /\ queue = <<>> /\ inEvents = <<>> /\ depEvents = <<>>

\* When nothing is left to process, the outputs are the transformation of the
\* objects both collections hold now, and every status is of the present input,
\* whatever changed while tasks were queued or a transformation was running, and
\* no output outlives its input.  A discarded result leaves what was there.
DerivedCurrent ==
    Settled =>
      /\ \A o \in DOMAIN outputs : o \in Mapped(o[1]) /\ o[1] \in Present(inputs)
      /\ \A i \in Present(inputs) :
           /\ status[i] = inputs[i]
           /\ Discards(inputs[i]) \/
                /\ Mapped(i) = DOMAIN Transformation(i, inputs[i]).results
                /\ \A o \in Mapped(i) : outputs[o] = Transformation(i, inputs[i]).results[o]

\* Whoever follows the events holds exactly the outputs, each event starts from
\* what the previous ones said, and the index has every output under its
\* present key and under no other: the outputs and what is said of them are
\* written in different places of handleChangedPrimaryInputEvents.
EventsDescribeOutputs ==
    /\ replica = outputs
    /\ \A g \in Group : index[g] = {o \in DOMAIN outputs : outputs[o].group = g}

-----------------------------------------------------------------------------
(* A krt collection that merges the objects of several collections         *)
(* (pkg/kube/krt/join.go and nestedjoin.go), and one handler of it.  Every *)
(* inner collection calls the handler on a goroutine of its own; the       *)
(* merged value of a key is computed from what all the collections hold    *)
(* now, the cache of the handler turns it into an event.  A nested join    *)
(* also follows a changing set of collections.                             *)
(*                                                                         *)
(* One key; the merge of several objects is the set of them.               *)

CONSTANTS
    Coll,          \* the collections
    Static,        \* those joined when the handler was registered
    Value,         \* what a collection may hold under the key
    MaxChanges, MaxMembership    \* bounds

VARIABLES
    val,           \* what each collection holds: a value or nil
    members,       \* the outer collection of collections
    gone,          \* collections that have left it: a new one has a new uid
    membership,    \* its events, on their way to collectionChangeHandlers
    registered,    \* djhr.removes: the collections with a handler of ours
    pending,       \* notifications of a collection not yet taken by its goroutine
    unsynced,      \* how many of them are its existing state
    worker,        \* handleInnerCollectionEvent of a collection
    deleting,      \* the collection whose removal holds the lock of djhr
    cache,         \* mergedCache[key, handler].current
    joinReplica,       \* what the handler was told
    raced,         \* two goroutines were at work at the same time, or a change of a
                   \* collection was missed while it joined or left
    budget         \* changes that may still be made

joinVars == <<val, members, gone, membership, registered, pending, unsynced, worker, deleting,
          cache, joinReplica, raced, budget>>

Idle == [at |-> "idle", merged |-> nil, event |-> nil]

JoinInit ==
    /\ val \in [Coll -> Value \cup {nil}]
    /\ members = Static
    /\ gone = {}
    /\ membership = <<>>
    /\ registered = Static
    /\ pending = [c \in Coll |-> IF c \in Static /\ val[c] # nil THEN 1 ELSE 0]
    /\ unsynced = pending
    /\ worker = [c \in Coll |-> Idle]
    /\ deleting = nil
    /\ cache = nil /\ joinReplica = nil
    /\ raced = FALSE
    /\ budget = [values |-> MaxChanges, membership |-> MaxMembership]

-----------------------------------------------------------------------------
\* calculateMerged.
CalculateMerged ==
    LET found == {c \in members : val[c] # nil}
    IN IF found = {} THEN nil ELSE {val[c] : c \in found}

\* updateMergeCacheLocked keeps what it is given and returns what was there.
Entry(merged) == [prev |-> cache, current |-> merged]

\* The event handleInnerCollectionEvent makes of the entry: none when the key
\* is gone and was never known.
EntryEvent(entry) ==
    IF entry.prev = nil /\ entry.current = nil THEN nil
    ELSE [old |-> entry.prev, new |-> entry.current]

Busy(c) == worker[c].at # "idle"

\* A goroutine starts: while another is at work, or the removal of a
\* collection is, they raced.
Overlaps == \/ \E c \in Coll : Busy(c)
            \/ deleting # nil

-----------------------------------------------------------------------------
\* The join has yet to follow c joining or leaving.
Joining(c) == deleting = c \/ \E n \in DOMAIN membership : membership[n].coll = c

ChangeValue(c) ==
    /\ budget.values > 0
    /\ budget' = [budget EXCEPT !.values = @ - 1]
    /\ \E v \in (Value \cup {nil}) \ {val[c]} : val' = [val EXCEPT ![c] = v]
    /\ pending' = [pending EXCEPT ![c] = IF c \in registered THEN @ + 1 ELSE @]
    /\ raced' = (raced \/ Joining(c))
    /\ UNCHANGED <<members, gone, membership, registered, unsynced, worker, deleting, cache,
                   joinReplica>>

ChangeMembers(c) ==
    /\ budget.membership > 0 /\ c \notin gone
    /\ gone' = IF c \in members THEN gone \cup {c} ELSE gone
    /\ budget' = [budget EXCEPT !.membership = @ - 1]
    /\ members' = IF c \in members THEN members \ {c} ELSE members \cup {c}
    /\ membership' = Append(membership, [coll |-> c, add |-> c \notin members])
    /\ UNCHANGED <<val, registered, pending, unsynced, worker, deleting, cache, joinReplica, raced>>

\* handleInnerCollectionEvent on the goroutine of a collection, in three steps:
\* the merged value, the cache (under its lock), the handler.
MergeKey(c) ==
    /\ ~Busy(c) /\ pending[c] > 0
    /\ worker' = [worker EXCEPT ![c] = [at |-> "merged", merged |-> CalculateMerged, event |-> nil]]
    /\ raced' = (raced \/ Overlaps)
    /\ UNCHANGED <<val, members, gone, membership, registered, pending, unsynced, deleting, cache,
                   joinReplica, budget>>

UpdateMergedCache(c) ==
    /\ worker[c].at = "merged"
    /\ worker' = [worker EXCEPT ![c] =
         [at |-> "handler", merged |-> nil, event |-> EntryEvent(Entry(worker[c].merged))]]
    /\ cache' = worker[c].merged
    /\ UNCHANGED <<val, members, gone, membership, registered, pending, unsynced, deleting,
                   joinReplica, raced, budget>>

\* The handler of a collection that was added later takes djhr's lock and drops
\* the events of a collection that has been removed.
CallHandler(c) ==
    /\ worker[c].at = "handler"
    /\ c \notin Static => deleting = nil
    /\ joinReplica' = IF worker[c].event = nil \/ (c \notin Static /\ c \notin registered)
                  THEN joinReplica ELSE worker[c].event.new
    /\ worker' = [worker EXCEPT ![c] = Idle]
    /\ pending' = [pending EXCEPT ![c] = IF @ > 0 THEN @ - 1 ELSE 0]
    /\ unsynced' = [unsynced EXCEPT ![c] = IF @ > 0 THEN @ - 1 ELSE 0]
    /\ UNCHANGED <<val, members, gone, membership, registered, deleting, cache, raced, budget>>

-----------------------------------------------------------------------------
\* A nested join that never looks at what an added collection already holds.
AddWithoutState ==
    /\ membership # <<>> /\ Head(membership).add /\ deleting = nil
    /\ LET c == Head(membership).coll IN
         /\ registered' = registered \cup {c}
         /\ UNCHANGED <<pending, unsynced>>
    /\ membership' = Tail(membership)
    /\ UNCHANGED <<val, members, gone, worker, deleting, cache, joinReplica, raced, budget>>

\* handleCollectionChangeEvent, a collection was added: its existing state is
\* run through the handler.
AddCollection ==
    /\ membership # <<>> /\ Head(membership).add /\ deleting = nil
    /\ LET c == Head(membership).coll
           existing == IF val[c] = nil THEN 0 ELSE 1
       IN /\ registered' = registered \cup {c}
          /\ pending' = [pending EXCEPT ![c] = existing]
          /\ unsynced' = [unsynced EXCEPT ![c] = existing]
    /\ membership' = Tail(membership)
    /\ UNCHANGED <<val, members, gone, worker, deleting, cache, joinReplica, raced, budget>>

\* A collection was removed: its handler is waited for with djhr's lock held.
StartDelete ==
    /\ membership # <<>> /\ ~Head(membership).add /\ deleting = nil
    /\ deleting' = Head(membership).coll
    /\ raced' = (raced \/ Overlaps)
    /\ membership' = Tail(membership)
    /\ UNCHANGED <<val, members, gone, registered, pending, unsynced, worker, cache, joinReplica, budget>>

\* Its handler has synced: it is unregistered, and the handler is told what is
\* left of the objects the collection still holds.
FinishDelete ==
    /\ deleting # nil
    /\ deleting \in registered => unsynced[deleting] = 0
    /\ registered' = registered \ {deleting}
    /\ pending' = [pending EXCEPT ![deleting] = 0]
    /\ IF deleting \in registered /\ val[deleting] # nil
       THEN cache' = CalculateMerged /\ joinReplica' = CalculateMerged
       ELSE UNCHANGED <<cache, joinReplica>>
    /\ deleting' = nil
    /\ raced' = (raced \/ pending[deleting] > 0)
    /\ UNCHANGED <<val, members, gone, membership, unsynced, worker, budget>>

JoinNext ==
    \/ \E c \in Coll : \/ ChangeValue(c)
                       \/ ChangeMembers(c)
                       \/ MergeKey(c)
                       \/ UpdateMergedCache(c)
                       \/ CallHandler(c)
    \/ AddCollection
    \/ StartDelete
    \/ FinishDelete

JoinSpec == JoinInit /\ [][JoinNext]_vars

-----------------------------------------------------------------------------
JoinSettled ==
    /\ membership = <<>> /\ deleting = nil
    /\ \A c \in Coll : ~Busy(c) /\ pending[c] = 0

\* When all events have been handled, the goroutines of two collections never
\* worked on the key at the same time, and no collection changed while the join
\* had yet to follow it joining or leaving, or left with events of its own still
\* queued, the handler was last told the
\* merge of what the collections hold, and its cache agrees ("accurate
\* eventing", join.go), although every event is computed from the present state
\* and the set of collections changed meanwhile.
JoinConverges == (JoinSettled /\ ~raced) => joinReplica = CalculateMerged /\ cache = joinReplica
=============================================================================
