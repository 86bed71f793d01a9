---------------------------- MODULE ConfigStores ----------------------------
(***************************************************************************)
(* The configuration stores under discovery/pkg/config: the in-memory      *)
(* store (memory/store.go), the Kubernetes client (crdclient/client.go and *)
(* the per-kind calls of types.gen.go), the read-only file store and the   *)
(* aggregate of several stores (aggregate/config.go).  Clients read,       *)
(* modify and write back; a reader lists the aggregate, one store after    *)
(* another.                                                                *)
(*                                                                         *)
(* A configuration is the set of clients whose modification it carries,    *)
(* and its resource version.  The Kubernetes client reads the informer's   *)
(* cache, the in-memory store itself.                                      *)
(***************************************************************************)
EXTENDS Naturals, Sequences, FiniteSets, TLC

CONSTANTS
  Key,         \* <<namespace, name>>
  Client,
  Setups,      \* [backend, keys, operations, files, writes]
  nil

VARIABLES
  setup,
  version,     \* the last resource version given out
  stored,      \* Key -> nil or [parts, version]: the API server's object or the store's
  cache,       \* the informer's view of it
  file,        \* keys in the file store
  hand,        \* per client: nil or [key, read]: what it read
  applied,     \* Key -> the clients whose write succeeded since the object was made
  replaced,    \* history: keys an in-memory Patch, or an Update without a version, wrote as a whole
  list,        \* a List in progress: nil or [first, kept], the first store's answer and the
               \* <<key, store>> present since it began
  result       \* the last answer of List: nil or [keys, kept]

vars == <<setup, version, stored, cache, file, hand, applied, replaced, list, result>>
readerVars == <<list, result>>

Kube == setup.backend = "kube"
Seen(k) == IF Kube THEN cache[k] ELSE stored[k]

Init ==
  /\ setup \in Setups /\ version = 0
  /\ stored = [k \in Key |-> nil] /\ cache = stored
  /\ file = {} /\ hand = [c \in Client |-> nil]
  /\ applied = [k \in Key |-> {}] /\ replaced = {}
  /\ list = nil /\ result = nil

(***************************************************************************)
(* Clients.                                                                *)
(***************************************************************************)
Get(c, k) ==
  /\ hand[c] = nil /\ k \in setup.keys /\ hand' = [hand EXCEPT ![c] = [key |-> k, read |-> Seen(k)]]
  /\ UNCHANGED <<setup, version, stored, cache, file, applied, replaced, readerVars>>

\* Dropped from a List in progress: the key was not in the store throughout.
Absent(k, store) ==
  list' = IF list = nil THEN nil ELSE [list EXCEPT !.kept = @ \ {<<k, store>>}]

\* The outcome of a write: nil for an error, "gone" for a deletion, or the parts stored.
Finish(c, outcome) ==
  LET k == hand[c].key IN
  /\ hand' = [hand EXCEPT ![c] = nil]
  /\ CASE outcome = nil -> UNCHANGED <<version, stored, applied, replaced, list>>
       [] outcome # nil /\ outcome.gone ->
            /\ stored' = [stored EXCEPT ![k] = nil] /\ applied' = [applied EXCEPT ![k] = {}]
            /\ replaced' = replaced \ {k} /\ UNCHANGED version
            /\ IF Kube THEN UNCHANGED list ELSE Absent(k, "main")
       [] OTHER ->
            /\ version' = version + 1
            /\ stored' = [stored EXCEPT ![k] = [parts |-> outcome.parts, version |-> version + 1]]
            /\ applied' = [applied EXCEPT ![k] = @ \cup {c}]
            /\ replaced' = IF outcome.whole THEN replaced \cup {k} ELSE replaced
            /\ UNCHANGED list
  /\ UNCHANGED <<setup, cache, file, result>>

Writing(c, op) == op \in setup.operations /\ hand[c] # nil /\ version < setup.writes
Written(parts) == [gone |-> FALSE, parts |-> parts, whole |-> FALSE]
Gone == [gone |-> TRUE]
Modified(c) == (IF hand[c].read = nil THEN {} ELSE hand[c].read.parts) \cup {c}
Current(c) == stored[hand[c].key]

\* Mutant: no version is ever a conflict.
NeverConflict(existing, read) == FALSE

\* A replacement without a version (0) overwrites whatever there is.
hasConflict(existing, read) == read.version # 0 /\ read.version # existing.version

\* The Kubernetes client: the API server compares the version read, which goes
\* with an update (getObjectMetadata), and a deletion's if one is given.
create(c) ==
  /\ Kube /\ Writing(c, "create") /\ hand[c].read = nil
  /\ Finish(c, IF Current(c) # nil THEN nil ELSE Written({c}))

update(c) ==
  /\ Kube /\ Writing(c, "update") /\ hand[c].read # nil
  /\ Finish(c, IF Current(c) = nil THEN nil
               ELSE IF hasConflict(Current(c), hand[c].read) THEN nil ELSE Written(Modified(c)))

\* What was read and its modification differ in the client's own part only, and
\* that difference is sent.
genPatchBytes(c) == {c}

patch(c) ==
  /\ Kube /\ Writing(c, "patch") /\ hand[c].read # nil
  /\ Finish(c, IF Current(c) = nil THEN nil ELSE Written(Current(c).parts \cup genPatchBytes(c)))

delete(c, versioned) ==
  /\ Kube /\ "delete" \in setup.operations /\ hand[c] # nil /\ hand[c].read # nil
  /\ Finish(c, IF Current(c) = nil THEN nil
               ELSE IF versioned /\ hasConflict(Current(c), hand[c].read) THEN nil ELSE Gone)

\* The in-memory store: it validates, and hands out versions of its own.
Create(c, valid) ==
  /\ ~Kube /\ Writing(c, "create") /\ hand[c].read = nil
  /\ Finish(c, IF ~valid \/ Current(c) # nil THEN nil ELSE Written({c}))

Update(c, valid) ==
  /\ ~Kube /\ Writing(c, "update") /\ hand[c].read # nil
  /\ \E v \in {0, hand[c].read.version} :
       Finish(c, IF ~valid \/ Current(c) = nil THEN nil
                 ELSE IF hasConflict(Current(c), [version |-> v]) THEN nil
                 ELSE [Written(Modified(c)) EXCEPT !.whole = (v = 0)])

\* The modification of what was read is stored as a whole.
Patch(c, valid) ==
  /\ ~Kube /\ Writing(c, "patch") /\ hand[c].read # nil
  /\ Finish(c, IF ~valid THEN nil ELSE [Written(Modified(c)) EXCEPT !.whole = TRUE])

\* The version is not looked at.
Delete(c) ==
  /\ ~Kube /\ "delete" \in setup.operations /\ hand[c] # nil /\ hand[c].read # nil
  /\ Finish(c, IF Current(c) = nil THEN nil ELSE Gone)

\* The informer and the translated collection.
translate(k) ==
  /\ Kube /\ cache[k] # stored[k] /\ cache' = [cache EXCEPT ![k] = stored[k]]
  /\ IF stored[k] = nil THEN Absent(k, "main") ELSE UNCHANGED list
  /\ UNCHANGED <<setup, version, stored, file, hand, applied, replaced, result>>

\* The file store follows the folder.
ChangeFile(k) ==
  /\ setup.files
  /\ file' = IF k \in file THEN file \ {k} ELSE file \cup {k}
  /\ IF k \in file THEN Absent(k, "file") ELSE UNCHANGED list
  /\ UNCHANGED <<setup, version, stored, cache, hand, applied, replaced, result>>

(***************************************************************************)
(* The aggregate: the file store, then the other.                          *)
(***************************************************************************)
List == {k \in Key : Seen(k) # nil}

ListFirst ==
  /\ setup.files /\ list = nil
  /\ list' = [first |-> file, kept |-> {<<k, "file">> : k \in file} \cup {<<k, "main">> : k \in List}]
  /\ UNCHANGED <<setup, version, stored, cache, file, hand, applied, replaced, result>>

\* Mutant: duplicates are told by name only.
DedupByName(first, second) ==
  [k \in first \cup {x \in second : \A y \in first : y[2] # x[2]} |-> IF k \in first THEN "file" ELSE "main"]

\* A key keeps the configuration of the first store that has it.
Dedup(first, second) == [k \in first \cup second |-> IF k \in first THEN "file" ELSE "main"]

ListSecond ==
  /\ list # nil
  /\ result' = [from |-> Dedup(list.first, List), kept |-> list.kept] /\ list' = nil
  /\ UNCHANGED <<setup, version, stored, cache, file, hand, applied, replaced>>

Next ==
  \/ \E c \in Client :
       \/ \E k \in Key : Get(c, k)
       \/ \E valid \in BOOLEAN : Create(c, valid) \/ Update(c, valid) \/ Patch(c, valid)
       \/ Delete(c) \/ create(c) \/ update(c) \/ patch(c)
       \/ \E versioned \in BOOLEAN : delete(c, versioned)
  \/ \E k \in Key : translate(k) \/ ChangeFile(k)
  \/ ListFirst \/ ListSecond

Spec == Init /\ [][Next]_vars

TypeOK ==
  /\ version \in 0..setup.writes /\ file \subseteq Key /\ replaced \subseteq Key
  /\ \A k \in Key : applied[k] \subseteq Client /\ (stored[k] # nil => stored[k].parts \subseteq Client /\ stored[k].version \in 1..version)

(* NoLostUpdate: a modification that was written back successfully stays in  *)
(* the object until the object is deleted: an Update of what has changed     *)
(* since it was read fails (hasConflict, the version getObjectMetadata       *)
(* sends), and a Patch carries only its own change (genPatchBytes).  The     *)
(* in-memory Patch, and an Update without a version, replace the object and  *)
(* are excepted.                                                             *)
NoLostUpdate == \A k \in Key \ replaced : stored[k] # nil => applied[k] \subseteq stored[k].parts

(* ListComplete: a List of the aggregate, which asks one store after the     *)
(* other while both change, has every configuration that was in a store      *)
(* throughout, taken from the first store that had it (store.List).          *)
ListComplete ==
  result # nil => \A e \in result.kept :
    /\ e[1] \in DOMAIN result.from
    /\ (e[2] = "file" \/ <<e[1], "file">> \in result.kept) => result.from[e[1]] = "file"

-----------------------------------------------------------------------------
(* The mesh configuration of the control plane: where it is read from     *)
(* (bootstrap/mesh.go), how its sources are watched (krt file singletons  *)
(* and ConfigMap informers), how they are merged (config/mesh) and how a  *)
(* component that keeps a copy of it is told of a change                  *)
(* (meshwatcher).                                                         *)
(*                                                                         *)
(* A source is a YAML text or nothing.  Every krt singleton on the way is *)
(* a value and a place in "dirty": it is recomputed by its own goroutine, *)
(* some time after one of its inputs has changed.                         *)

CONSTANTS
    MeshSetups   \* [kube, shared, rooted: BOOLEAN, texts: YAML texts, changes: bound on their
                 \*  changes]; rooted: the file is in the root directory

VARIABLES
    meshSetup,
    phase,       \* how far initMeshConfig is
    base,        \* where the primary source is: "file", "configmap" or nil
    meshFile,        \* the mesh config file: a text, or nil when it is absent
    touched,     \* the file has changed since it is watched
    fileEvent,   \* the file watcher has an event to deliver
    timer,       \* the debounce timer of watchFile is set
    cur,         \* the text last read from the file
    configMaps,  \* "user", "base" -> the text in the ConfigMap, or nil
    store,       \* the informers' copies of them
    listed,      \* the informers that have listed
    out,         \* "user", "base" -> the value of the source's singleton
    computed,    \* the source singletons that have a first result
    dirty,       \* singletons to be recomputed
    mesh,        \* the value of the MeshConfig singleton, nil before the first
    copy,        \* the mesh config a component keeps
    pushed,      \* the mesh config of the last full push, nil before the first
    registered,  \* the handlers: "server" (initMeshHandlers) and "component"
    told,        \* calls that are due
    changes

fileVars == <<meshFile, touched, fileEvent, timer, cur>>
mapVars == <<configMaps, store, listed>>
copyVars == <<copy, pushed, registered, told>>
meshVars == <<meshSetup, phase, base, fileVars, mapVars, out, computed, dirty, mesh, copyVars, changes>>

Source == {"user", "base"}

-----------------------------------------------------------------------------
(* Texts and what they mean. *)

\* A text sets some fields; "broken" is "yaml" for what is no YAML and
\* "field" for a field of the wrong type.
DefaultMeshConfig == [trust |-> "default", aliases |-> {}, address |-> "default", metadata |-> <<>>]

MergeProxyConfig(y, m) ==
    [m EXCEPT !.address = IF y.address = nil THEN @ ELSE y.address,
              !.metadata = y.metadata @@ @]

\* The message is decoded in place, field by field: a field that is present
\* replaces the old value.
ApplyYAML(y, m, Fields) ==
    [m EXCEPT !.trust = IF "trust" \in Fields /\ y.trust # nil THEN y.trust ELSE @,
              !.aliases = IF "aliases" \in Fields /\ y.aliases # {} THEN y.aliases ELSE @,
              !.address = IF "proxy" \in Fields /\ y.address # nil THEN y.address ELSE @,
              !.metadata = IF "proxy" \in Fields THEN y.metadata ELSE @]

ResetProxy(m) ==
    [m EXCEPT !.address = DefaultMeshConfig.address, !.metadata = <<>>]

\* A mutant: the aliases of an earlier source are replaced.
ReplaceAliases(y, m) ==
    {[ok |-> y.broken = "no",
      mesh |-> MergeProxyConfig(y, ApplyYAML(y, m, {"trust", "aliases"}))]}

\* The outcomes of applying a text to a mesh config: the caller's message is
\* changed also when an error is returned.
ApplyMeshConfig(y, m) ==
    CASE y.broken = "yaml" -> {[ok |-> FALSE, mesh |-> ResetProxy(m)]}
      [] y.broken = "field" ->
             {[ok |-> FALSE, mesh |-> ApplyYAML(y, ResetProxy(m), Fields)] :
                 Fields \in SUBSET {"trust", "aliases", "proxy"}}
      [] OTHER ->
             {[ok |-> TRUE,
               mesh |-> [MergeProxyConfig(y, ApplyYAML(y, m, {"trust", "aliases"}))
                            EXCEPT !.aliases = @ \cup m.aliases]]}

\* The user's ConfigMap is applied first and the primary source over it.
toSources ==
    (IF meshSetup.shared /\ meshSetup.kube THEN <<"user">> ELSE <<>>)
        \o (IF base # nil THEN <<"base">> ELSE <<>>)

\* NewCollection's loop from the i-th source on.
RECURSIVE Merged(_, _)
Merged(i, m) ==
    IF i > Len(toSources) THEN {[discard |-> FALSE, mesh |-> m]}
    ELSE LET y == out[toSources[i]]
         IN  IF y = nil THEN Merged(i + 1, m)
             ELSE UNION {IF r.ok \/ Len(toSources) # 1 THEN Merged(i + 1, r.mesh)
                         ELSE {[discard |-> TRUE, mesh |-> DefaultMeshConfig]} :
                            r \in ApplyMeshConfig(y, m)}

NewCollection == Merged(1, DefaultMeshConfig)

-----------------------------------------------------------------------------
MeshInit ==
    /\ meshSetup \in MeshSetups
    /\ phase = "start"
    /\ base = nil
    /\ meshFile \in meshSetup.texts \cup {nil}
    /\ touched = FALSE /\ fileEvent = FALSE /\ timer = FALSE /\ cur = nil
    /\ configMaps \in [Source -> IF meshSetup.kube THEN meshSetup.texts \cup {nil} ELSE {nil}]
    /\ store = [s \in Source |-> nil] /\ listed = {}
    /\ out = [s \in Source |-> nil] /\ computed = {} /\ dirty = {"mesh"}
    /\ mesh = nil
    /\ copy = nil /\ pushed = nil /\ registered = {} /\ told = {}
    /\ changes = 0

\* getConfigurationSources, when the file is there: it is read and its
\* singleton computed.
NewFileSource ==
    /\ phase = "start" /\ meshFile # nil
    /\ phase' = "watch"
    /\ base' = "file"
    /\ cur' = meshFile
    /\ out' = [out EXCEPT !["base"] = meshFile]
    /\ computed' = computed \cup {"base"}
    /\ UNCHANGED <<meshSetup, meshFile, touched, fileEvent, timer, mapVars, dirty, mesh, copyVars, changes>>

\* ... and from now on watched.
watchFile ==
    /\ phase = "watch"
    /\ phase' = "run"
    /\ UNCHANGED <<meshSetup, base, fileVars, mapVars, out, computed, dirty, mesh, copyVars, changes>>

\* getConfigurationSources without a file: the ConfigMap, if there is a
\* client, or no source.
NewConfigMapSource ==
    /\ phase = "start" /\ meshFile = nil
    /\ phase' = "run"
    /\ base' = IF meshSetup.kube THEN "configmap" ELSE nil
    /\ UNCHANGED <<meshSetup, fileVars, mapVars, out, computed, dirty, mesh, copyVars, changes>>

Informers == {s \in Source : s = "user" \/ base = "configmap"} \cap {toSources[i] : i \in DOMAIN toSources}

\* The informer of a ConfigMap source lists, or hears of a change.
InformerEvent(s) ==
    /\ phase = "run" /\ s \in Informers
    /\ s \notin listed \/ store[s] # configMaps[s]
    /\ store' = [store EXCEPT ![s] = configMaps[s]]
    /\ listed' = listed \cup {s}
    /\ dirty' = dirty \cup {s}
    /\ UNCHANGED <<meshSetup, phase, base, fileVars, configMaps, out, computed, mesh, copyVars, changes>>

\* The loop of watchFile's goroutine.
FileEvent ==
    /\ phase = "run" /\ fileEvent
    /\ fileEvent' = FALSE
    /\ timer' = TRUE
    /\ UNCHANGED <<meshSetup, phase, base, meshFile, touched, cur, mapVars, out, computed, dirty, mesh, copyVars, changes>>

\* The trigger is a static singleton whose value changes at every call, so
\* that the dependent singleton is recomputed.
TriggerRecomputation == dirty' = dirty \cup {"base"}

FileTimer ==
    /\ timer
    /\ timer' = FALSE
    /\ IF meshFile = nil THEN UNCHANGED <<cur, dirty>>
       ELSE cur' = meshFile /\ TriggerRecomputation
    /\ UNCHANGED <<meshSetup, phase, base, meshFile, touched, fileEvent, mapVars, out, computed, mesh, copyVars, changes>>

\* The singleton of a source is recomputed; its dependents hear of it when
\* the value changes.
Recompute(s) ==
    /\ s \in dirty
    /\ LET value == IF s = "base" /\ base = "file" THEN cur ELSE store[s]
       IN  /\ out' = [out EXCEPT ![s] = value]
           /\ dirty' = (dirty \ {s}) \cup (IF value = out[s] THEN {} ELSE {"mesh"})
    /\ computed' = computed \cup {s}
    /\ UNCHANGED <<meshSetup, phase, base, fileVars, mapVars, mesh, copyVars, changes>>

\* The MeshConfig singleton is recomputed, after its sources have synced.  A
\* discarded result is used only when there was none before.
RecomputeMesh ==
    /\ phase = "run" /\ "mesh" \in dirty
    /\ \A i \in DOMAIN toSources : toSources[i] \in computed
    /\ dirty' = dirty \ {"mesh"}
    /\ \E r \in NewCollection :
           mesh' = IF r.discard /\ mesh # nil THEN mesh ELSE r.mesh
    /\ told' = IF mesh' # mesh THEN told \cup registered ELSE told
    /\ UNCHANGED <<meshSetup, phase, base, fileVars, mapVars, out, computed, copy, pushed, registered, changes>>

\* Once the mesh config is there NewServer registers the handler that is to
\* push it.
initMeshHandlers ==
    /\ mesh # nil /\ "server" \notin registered
    /\ registered' = registered \cup {"server"}
    /\ UNCHANGED <<meshSetup, phase, base, fileVars, mapVars, out, computed, dirty, mesh, copy, pushed, told, changes>>

\* The first push of the server, after NewServer.
FirstPush ==
    /\ "server" \in registered /\ pushed = nil
    /\ pushed' = mesh
    /\ UNCHANGED <<meshSetup, phase, base, fileVars, mapVars, out, computed, dirty, mesh, copy, registered, told, changes>>

\* A component takes the mesh config when NewServer builds it, and registers
\* its handler later.
ReadMesh ==
    /\ copy = nil /\ "server" \in registered
    /\ copy' = mesh
    /\ UNCHANGED <<meshSetup, phase, base, fileVars, mapVars, out, computed, dirty, mesh, pushed, registered, told, changes>>

AddMeshHandler ==
    /\ copy # nil /\ "component" \notin registered
    /\ registered' = registered \cup {"component"}
    /\ UNCHANGED <<meshSetup, phase, base, fileVars, mapVars, out, computed, dirty, mesh, copy, pushed, told, changes>>

CallHandler ==
    /\ "component" \in told
    /\ told' = told \ {"component"}
    /\ copy' = mesh
    /\ UNCHANGED <<meshSetup, phase, base, fileVars, mapVars, out, computed, dirty, mesh, pushed, registered, changes>>

\* The server's handler calls the change handler NewServer gave it, which is
\* nil, before it asks for the push: the process ends and is started again.
CallServerHandler ==
    /\ "server" \in told
    /\ phase' = "start" /\ base' = nil
    /\ touched' = FALSE /\ fileEvent' = FALSE /\ timer' = FALSE /\ cur' = nil
    /\ store' = [s \in Source |-> nil] /\ listed' = {}
    /\ out' = [s \in Source |-> nil] /\ computed' = {} /\ dirty' = {"mesh"}
    /\ mesh' = nil
    /\ copy' = nil /\ pushed' = nil /\ registered' = {} /\ told' = {}
    /\ UNCHANGED <<meshSetup, meshFile, configMaps, changes>>

\* The operator edits the file or a ConfigMap.  The watcher has a channel only
\* for a file of the root directory (FileWatcher).
MeshChangeFile(y) ==
    /\ changes < meshSetup.changes /\ y # meshFile
    /\ phase = "run" => base = "file"
    /\ changes' = changes + 1
    /\ meshFile' = y
    /\ touched' = (touched \/ (phase = "run" /\ meshSetup.rooted))
    /\ fileEvent' = (fileEvent \/ (phase = "run" /\ meshSetup.rooted))
    /\ UNCHANGED <<meshSetup, phase, base, timer, cur, mapVars, out, computed, dirty, mesh, copyVars>>

ChangeConfigMap(s, y) ==
    /\ changes < meshSetup.changes /\ meshSetup.kube /\ y # configMaps[s]
    /\ changes' = changes + 1
    /\ configMaps' = [configMaps EXCEPT ![s] = y]
    /\ UNCHANGED <<meshSetup, phase, base, fileVars, store, listed, out, computed, dirty, mesh, copyVars>>

Change == \E y \in meshSetup.texts \cup {nil} :
              MeshChangeFile(y) \/ \E s \in Source : ChangeConfigMap(s, y)

MeshNext ==
    \/ NewFileSource
    \/ watchFile
    \/ NewConfigMapSource
    \/ \E s \in Source : InformerEvent(s)
    \/ FileEvent
    \/ FileTimer
    \/ \E s \in Source : Recompute(s)
    \/ RecomputeMesh
    \/ initMeshHandlers
    \/ FirstPush
    \/ ReadMesh
    \/ AddMeshHandler
    \/ CallHandler
    \/ CallServerHandler
    \/ Change

MeshSpec == MeshInit /\ [][MeshNext]_meshVars

-----------------------------------------------------------------------------
(* What an operator expects. *)

\* What the server knows of a source: a ConfigMap; the file, if it was edited
\* while its events are delivered and can be read; else the file as read last.
Text(s) ==
    IF s # "base" \/ base # "file" THEN configMaps[s]
    ELSE IF touched /\ meshFile # nil THEN meshFile ELSE cur

Quiet ==
    /\ phase = "run" /\ dirty = {} /\ ~fileEvent /\ ~timer /\ told = {}
    /\ \A s \in Informers : s \in listed /\ store[s] = configMaps[s]

\* Each scalar comes from the last text that sets it, aliases and metadata add up.
Last(texts, field) ==
    LET Setting == {i \in DOMAIN texts : texts[i][field] # nil}
    IN  IF Setting = {} THEN DefaultMeshConfig[field]
        ELSE texts[CHOOSE i \in Setting : \A j \in Setting : j <= i][field]

MetadataOf(texts) ==
    LET Keys == UNION {DOMAIN texts[i].metadata : i \in DOMAIN texts}
    IN  [k \in Keys |->
            LET Setting == {i \in DOMAIN texts : k \in DOMAIN texts[i].metadata}
            IN  texts[CHOOSE i \in Setting : \A j \in Setting : j <= i].metadata[k]]

Expected(texts) ==
    [trust |-> Last(texts, "trust"),
     aliases |-> UNION {texts[i].aliases : i \in DOMAIN texts},
     address |-> Last(texts, "address"),
     metadata |-> MetadataOf(texts)]

Texts(Ok(_)) ==
    LET present == SelectSeq(toSources, LAMBDA s : Text(s) # nil /\ Ok(Text(s)))
    IN  [i \in DOMAIN present |-> Text(present[i])]

MeshTypeOK ==
    /\ phase \in {"start", "watch", "run"} /\ base \in {"file", "configmap", nil}
    /\ dirty \subseteq Source \cup {"mesh"} /\ computed \subseteq Source /\ listed \subseteq Source
    /\ told \subseteq registered /\ registered \subseteq {"server", "component"}

\* Once nothing is left to do, and as long as every source is well formed,
\* Mesh() is the merge of what the server knows of its sources: the primary
\* source wins over the user's ConfigMap, and neither loses the aliases or the
\* proxy metadata of the other.  That is the sources as they are, but for a file
\* that was edited before it was watched or that is outside the root directory:
\* it stays as it was when the process started.  Every component's copy and the
\* last push have the same mesh config, because a process whose mesh config
\* changes ends in the server's mesh handler and starts again.
MeshCurrent ==
    Quiet =>
        /\ (\A i \in DOMAIN toSources :
               LET y == Text(toSources[i]) IN y # nil => y.broken = "no")
           => mesh = Expected(Texts(LAMBDA y : TRUE))
        /\ copy \in {nil, mesh} /\ pushed \in {nil, mesh}

\* What the call of the server's handler is to have done when it ends.
HandlerPushes == ("server" \in told /\ "server" \notin told') => pushed' = mesh
=============================================================================
