---------------------------- MODULE FileWatcher -----------------------------
(***************************************************************************)
(* The file watcher of pkg/filewatcher with the consumers of               *)
(* pkg/kube/krt/files (watchFile): one directory, one worker goroutine     *)
(* that compares hashes when the directory changes, and per file a         *)
(* consumer that debounces events and reads the file again.                *)
(*                                                                         *)
(* The second half of the module is the folder watch of the file           *)
(* collections (pkg/kube/krt/files), a machine of its own.                 *)
(***************************************************************************)
EXTENDS Naturals, FiniteSets

CONSTANTS File, MaxWrites, MaxRemoves

VARIABLES
  nested,      \* the directory is not the root: its Split form ends in a slash
  content,     \* per file: its version
  notified,    \* the kernel has an event for the directory
  workers,     \* the key the worker is registered under, {} when there is none
  count,       \* watched paths of the worker
  watched,     \* watchedFiles
  hash,        \* per file: the version its tracker hashed last
  live,        \* per file: its tracker's channels are open
  loop,        \* the worker: [at, todo, file]
  caller,      \* who holds the watcher's lock: [op, file]
  consumer,    \* per file: "off", "read", "listening" or "timer"
  seen,        \* per file: the version the consumer read last
  missed,      \* history: files written between their first read and Add, or whose
               \* event was given up for a retired tracker
  removes

fwVars == <<nested, content, notified, workers, count, watched, hash, live, loop, caller, consumer, seen, missed, removes>>

Select == [at |-> "select", todo |-> {}, file |-> "none"]
Free == [op |-> "none", file |-> "none"]

Init ==
  /\ nested \in BOOLEAN
  /\ content = [f \in File |-> 0] /\ notified = FALSE
  /\ workers = {} /\ count = 0
  /\ watched = {} /\ hash = [f \in File |-> 0] /\ live = [f \in File |-> FALSE]
  /\ loop = Select /\ caller = Free
  /\ consumer = [f \in File |-> "off"] /\ seen = [f \in File |-> 0]
  /\ missed = {} /\ removes = 0

Write(f) ==
  /\ content[f] < MaxWrites
  /\ content' = [content EXCEPT ![f] = @ + 1] /\ notified' = (workers # {})
  /\ UNCHANGED <<nested, workers, count, watched, hash, live, loop, caller, consumer, seen, missed, removes>>

\* getWorker cleans the parent path, findWorker does not: filepath.Split
\* leaves the slash of every directory but the root.
CleanParent == "dir"
SplitParent == IF nested THEN "dir/" ELSE "dir"
findWorker == SplitParent \in workers

-----------------------------------------------------------------------------
(* The callers *)

\* NewFileSingleton reads the file, adds it and starts the consumer; addPath
\* takes the hash of what the file holds by then.
ReadFile(f) ==
  /\ consumer[f] = "off" /\ f \notin watched /\ ~live[f]
  /\ consumer' = [consumer EXCEPT ![f] = "read"] /\ seen' = [seen EXCEPT ![f] = content[f]]
  /\ UNCHANGED <<nested, content, notified, workers, count, watched, hash, live, loop, caller, missed, removes>>

Add(f) ==
  /\ caller = Free /\ consumer[f] = "read" /\ loop.at # "closed"
  /\ workers' = {CleanParent} /\ count' = count + 1
  /\ watched' = watched \cup {f} /\ hash' = [hash EXCEPT ![f] = content[f]] /\ live' = [live EXCEPT ![f] = TRUE]
  /\ consumer' = [consumer EXCEPT ![f] = "listening"]
  /\ missed' = IF seen[f] = content[f] THEN missed ELSE missed \cup {f}
  /\ UNCHANGED <<nested, content, notified, loop, caller, seen, removes>>

\* Remove: the path leaves the map and its tracker waits to be retired.
Remove(f) ==
  /\ caller = Free /\ f \in watched /\ removes < MaxRemoves
  /\ watched' = watched \ {f} /\ removes' = removes + 1
  /\ caller' = [op |-> "retire", file |-> f]
  /\ consumer' = [consumer EXCEPT ![f] = "off"]
  /\ UNCHANGED <<nested, content, notified, workers, count, hash, live, loop, seen, missed>>

\* Close terminates the worker.
Close ==
  /\ caller = Free /\ workers # {}
  /\ caller' = [op |-> "terminate", file |-> "none"]
  /\ UNCHANGED <<nested, content, notified, workers, count, watched, hash, live, loop, consumer, seen, missed, removes>>

-----------------------------------------------------------------------------
(* The worker *)

ReceiveEvent ==
  /\ workers # {} /\ loop.at = "select" /\ notified
  /\ notified' = FALSE
  /\ loop' = [at |-> "scan", todo |-> watched, file |-> "none"]
  /\ UNCHANGED <<nested, content, workers, count, watched, hash, live, caller, consumer, seen, missed, removes>>

\* Mutant: the hashes of all trackers are stored with the first one.
StoreHashOfAll(f) == content
\* The new hash is stored before the event is handed over.
StoreHash(f) == [hash EXCEPT ![f] = content[f]]

Scan(f) ==
  /\ loop.at = "scan" /\ f \in loop.todo
  /\ IF live[f] /\ hash[f] # content[f]
     THEN hash' = StoreHash(f) /\ loop' = [at |-> "send", todo |-> loop.todo \ {f}, file |-> f]
     ELSE loop' = [loop EXCEPT !.todo = @ \ {f}] /\ UNCHANGED hash
  /\ UNCHANGED <<nested, content, notified, workers, count, watched, live, caller, consumer, seen, missed, removes>>

ScanEnds ==
  /\ loop.at = "scan" /\ loop.todo = {} /\ loop' = Select
  /\ UNCHANGED <<nested, content, notified, workers, count, watched, hash, live, caller, consumer, seen, missed, removes>>

\* The consumer waits on the channel Events found and starts its timer.
Deliver ==
  /\ loop.at = "send" /\ findWorker /\ consumer[loop.file] \in {"listening", "timer"}
  /\ consumer' = [consumer EXCEPT ![loop.file] = "timer"]
  /\ loop' = [loop EXCEPT !.at = "scan", !.file = "none"]
  /\ UNCHANGED <<nested, content, notified, workers, count, watched, hash, live, caller, seen, missed, removes>>

\* The timer runs out: the file is read again.
Reload(f) ==
  /\ consumer[f] = "timer"
  /\ consumer' = [consumer EXCEPT ![f] = "listening"] /\ seen' = [seen EXCEPT ![f] = content[f]]
  /\ UNCHANGED <<nested, content, notified, workers, count, watched, hash, live, loop, caller, missed, removes>>

\* A tracker is retired, also in the middle of handing over another one's
\* event, which is given up; Remove goes on to end a worker without paths.
Retire ==
  /\ caller.op = "retire" /\ loop.at \in {"select", "send"}
  /\ live' = [live EXCEPT ![caller.file] = FALSE]
  /\ count' = count - 1
  /\ caller' = IF count = 1 THEN [op |-> "terminate", file |-> "none"] ELSE Free
  /\ missed' = IF loop.at = "send" THEN missed \cup {loop.file} ELSE missed
  /\ loop' = IF loop.at = "send" THEN [loop EXCEPT !.at = "scan", !.file = "none"] ELSE loop
  /\ UNCHANGED <<nested, content, notified, workers, watched, hash, consumer, seen, removes>>

\* The worker is told to exit: every tracker left is retired.
Terminate ==
  /\ caller.op = "terminate" /\ loop.at \in {"select", "send"}
  /\ loop' = [Select EXCEPT !.at = IF count = 0 THEN "select" ELSE "closed"]
  /\ workers' = {} /\ count' = 0 /\ notified' = FALSE
  /\ live' = [f \in File |-> FALSE] /\ watched' = {}
  /\ caller' = Free
  /\ UNCHANGED <<nested, content, hash, consumer, seen, missed, removes>>

Next ==
  \/ \E f \in File : Write(f) \/ ReadFile(f) \/ Add(f) \/ Remove(f) \/ Scan(f) \/ Reload(f)
  \/ Close \/ ReceiveEvent \/ ScanEnds \/ Deliver \/ Retire \/ Terminate

Spec == Init /\ [][Next]_fwVars

-----------------------------------------------------------------------------
\* Once the worker and the consumer have nothing left to do, the consumer of a
\* file of the root directory has read the file as it is, unless the change was
\* missed in one of the two ways above. The consumer of a file of any other
\* directory keeps what it read first, whatever the file holds: Events finds no
\* worker for it, and the worker waits in the hand-over until a Remove or a Close
\* takes it out. That wait locks nobody up: whenever a caller waits there is a
\* worker to take its request, and when it is through exactly the watched files
\* have open channels, so none is closed twice and the worker ends with its last.
FilesNoticed ==
  /\ \A f \in File : (~nested /\ f \in watched /\ ~notified /\ loop.at = "select" /\ consumer[f] = "listening") =>
                     (seen[f] = content[f] \/ f \in missed)
  /\ \A f \in File : nested => consumer[f] # "timer"
  /\ caller # Free => (workers # {} /\ loop.at # "closed")
  /\ caller = Free => (watched = {f \in File : live[f]} /\ count = Cardinality(watched))

-----------------------------------------------------------------------------
(* Watching a configuration folder (pkg/kube/krt/files): fsnotify events   *)
(* are debounced into a reload, a reload that parses replaces the state    *)
(* and calls the subscribers, and a file collection copies the state.      *)

CONSTANTS
  MaxEdits,
  Broken       \* the versions of the folder that do not parse

VARIABLES
  folder,      \* version of the files
  watching,    \* the directory is watched
  event,       \* fsnotify has an event
  trigger,     \* the debounce timer runs
  chan,        \* reloads asked for, at most 1
  state,       \* version FolderWatch read last
  builder,     \* NewFileCollection: "none", "read", "subscribed"
  collection,  \* version the file collection holds
  early        \* history: the folder changed before it was watched, or the state
               \* between the collection's first read and its subscription

folderVars == <<folder, watching, event, trigger, chan, state, builder, collection, early>>

FolderInit ==
  /\ folder = 0 /\ watching = FALSE /\ event = FALSE /\ trigger = FALSE /\ chan = 0 /\ state = 0
  /\ builder = "none" /\ collection = 0 /\ early = FALSE

Edit ==
  /\ folder < MaxEdits /\ folder' = folder + 1
  /\ event' = watching /\ early' = (early \/ ~watching)
  /\ UNCHANGED <<watching, trigger, chan, state, builder, collection>>

\* NewFolderWatch has read the folder and now watches it.
Watch ==
  /\ ~watching /\ watching' = TRUE
  /\ UNCHANGED <<folder, event, trigger, chan, state, builder, collection, early>>

\* fileTrigger: the first event of a burst starts the timer.
SeeEvent ==
  /\ event /\ event' = FALSE /\ trigger' = TRUE
  /\ UNCHANGED <<folder, watching, chan, state, builder, collection, early>>

Fire ==
  /\ trigger /\ chan = 0 /\ trigger' = FALSE /\ chan' = 1
  /\ UNCHANGED <<folder, watching, event, state, builder, collection, early>>

\* Mutant: subscribers are not told.
NotifyNobody == UNCHANGED collection
\* The subscriber resets the collection to the state.
Notify == collection' = IF builder = "subscribed" THEN state' ELSE collection

\* readOnce: a folder that does not parse keeps the old state.
readOnce ==
  /\ chan = 1 /\ chan' = 0
  /\ IF folder \in Broken THEN UNCHANGED <<state, collection, early>>
     ELSE /\ state' = folder /\ Notify
          /\ early' = (early \/ (builder = "read" /\ folder # state))
  /\ UNCHANGED <<folder, watching, event, trigger, builder>>

\* NewFileCollection reads the state and then subscribes.
ReadSnapshot ==
  /\ builder = "none" /\ builder' = "read" /\ collection' = state
  /\ UNCHANGED <<folder, watching, event, trigger, chan, state, early>>
Subscribe ==
  /\ builder = "read" /\ builder' = "subscribed"
  /\ UNCHANGED <<folder, watching, event, trigger, chan, state, collection, early>>

FolderNext == Edit \/ Watch \/ SeeEvent \/ Fire \/ readOnce \/ ReadSnapshot \/ Subscribe

FolderSpec == FolderInit /\ [][FolderNext]_folderVars

-----------------------------------------------------------------------------
\* An edit of the folder reaches the collection: once it parses and the events
\* are worked off, the collection holds the folder, unless an edit fell between
\* a first read and the watch or subscription that follows it.
FolderFollowed ==
  (~event /\ ~trigger /\ chan = 0 /\ builder = "subscribed" /\ ~early) =>
    /\ collection = state
    /\ folder \notin Broken => collection = folder
=============================================================================
