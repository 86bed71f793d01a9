----------------------------- MODULE Installer ------------------------------
(***************************************************************************)
(* The installer of the operator: rendering the components an installation *)
(* enables, applying them in dependency order from one goroutine per       *)
(* component, waiting until they are ready, pruning what earlier           *)
(* installations left, and removing everything again.                      *)
(*                                                                         *)
(* The commands of one scenario run one after the other against the same   *)
(* cluster; a command may be killed.                                       *)
(***************************************************************************)
EXTENDS Integers, Sequences, FiniteSets

-----------------------------------------------------------------------------
(* The untyped configuration trees of operator/pkg/values and how          *)
(* operator/pkg/render merges profiles, files and --set flags into one.    *)
(*                                                                         *)
(* A node is [map |-> f], f a function from keys to nodes, [list |-> s],   *)
(* or [leaf |-> v]; nil is the leaf of a YAML null.  A path is a sequence  *)
(* of the segments splitPath cuts: [key |-> k], [index |-> i] counting     *)
(* from 0, or [match |-> <<k, v>>].                                        *)

CONSTANTS Overlay,     \* the flags compiled in for repo and tag (repoTagOverlay)
          nil

Node(f) == [map |-> f]
Leaf(v) == [leaf |-> v]
Str(text) == Leaf(<<"string", text>>)
Null == Leaf(nil)
Empty == [k \in {} |-> nil]

IsMap(node) == "map" \in DOMAIN node
IsList(node) == "list" \in DOMAIN node
Key(k) == [key |-> k]
IsKey(seg) == "key" \in DOMAIN seg
Keys(names) == [i \in DOMAIN names |-> Key(names[i])]

(* The elements of a list that [k:v] selects; every element is a map.      *)
Matches(list, kv) ==
  {i \in DOMAIN list : kv[1] \in DOMAIN list[i].map /\ list[i].map[kv[1]] = Str(kv[2])}

(* GetPath.  A [k:v] segment finds the element that matches and then takes *)
(* the one at idx, which is 0: the index the segment failed to parse as.   *)
RECURSIVE GetPath(_, _)
GetPath(node, path) ==
  IF path = <<>> THEN node
  ELSE LET seg == Head(path) IN
    CASE IsKey(seg) ->
           IF IsMap(node) /\ seg.key \in DOMAIN node.map
           THEN GetPath(node.map[seg.key], Tail(path)) ELSE nil
      [] "index" \in DOMAIN seg ->
           IF IsList(node) /\ seg.index \in 0..Len(node.list) - 1
           THEN GetPath(node.list[seg.index + 1], Tail(path)) ELSE nil
      [] OTHER ->
           IF IsList(node) /\ Matches(node.list, seg.match) /= {}
           THEN GetPath(node.list[1], Tail(path)) ELSE nil

(* GetPathMap: keys only, and a map at the end.                            *)
GetPathMap(f, names) ==
  LET node == GetPath(Node(f), Keys(names))
  IN IF node /= nil /\ IsMap(node) THEN node.map ELSE nil

Put(f, k, node) == [x \in DOMAIN f \cup {k} |-> IF x = k THEN node ELSE f[x]]

(* setPathRecurse; nil for an error or a panic, either of which ends the   *)
(* command.  MustCastAsMap of a null is a new map that base does not hold, *)
(* so what is set below it is not kept.                                    *)
RECURSIVE setPathRecurse(_, _, _)
setPathRecurse(base, path, value) ==
  LET k == Head(path).key
      old == IF k \in DOMAIN base THEN base[k] ELSE nil
      under(f, rest) == IF rest = <<>> THEN value
                        ELSE LET g == setPathRecurse(f, rest, value)
                             IN IF g = nil THEN nil ELSE Node(g)
      at(node) == IF node = nil THEN nil ELSE Put(base, k, node)
  IN IF Len(path) = 1 THEN Put(base, k, value)
     ELSE IF IsKey(path[2])
     THEN CASE old = nil   -> at(under(Empty, Tail(path)))
            [] old = Null  -> IF under(Empty, Tail(path)) = nil THEN nil ELSE base
            [] OTHER       -> IF IsMap(old) THEN at(under(old.map, Tail(path))) ELSE nil
     ELSE LET rest == SubSeq(path, 3, Len(path))
              list == IF old = nil THEN <<>> ELSE old.list
              index == IF "index" \in DOMAIN path[2] THEN path[2].index + 1
                       ELSE IF Matches(list, path[2].match) = {} THEN 0
                       ELSE CHOOSE i \in Matches(list, path[2].match) :
                              \A j \in Matches(list, path[2].match) : i <= j
              new == IF index \in DOMAIN list
                     THEN under(list[index].map, rest) ELSE under(Empty, rest)
          IN IF \/ old /= nil /\ ~IsList(old)
                \/ "match" \in DOMAIN path[2] /\ index = 0
                \/ index \in DOMAIN list /\ rest = <<>>
                \/ new = nil
             THEN nil
             ELSE at([list |-> IF index \in DOMAIN list THEN [list EXCEPT ![index] = new]
                               ELSE Append(list, new)])

(* parseValue: the texts of numbers and truth values become such.          *)
parseValue(text) ==
  CASE text \in {"0", "1"} -> Leaf(<<"int", text>>)
    [] text \in {"true", "false"} -> Leaf(<<"bool", text>>)
    [] OTHER -> Str(text)

isAlwaysString(path) ==
  \/ path[1] = Key("tag")
  \/ Len(path) > 1 /\ path[1] = Key("values") /\ path[2] = Key("tag")
  \/ Len(path) > 2 /\ SubSeq(path, 1, 3) = Keys(<<"values", "global", "tag">>)

FlagValue(flag) ==
  IF isAlwaysString(flag.path) THEN Str(flag.text) ELSE parseValue(flag.text)

(* SetSpecPaths: the flags in order, under spec.                           *)
RECURSIVE SetSpecPaths(_, _)
SetSpecPaths(f, flags) ==
  IF f = nil \/ flags = <<>> THEN f
  ELSE SetSpecPaths(setPathRecurse(f, <<Key("spec")>> \o Head(flags).path,
                                   FlagValue(Head(flags))),
                    Tail(flags))

(* MergeFrom: key by key, the other map's values first.                    *)
RECURSIVE MergeFrom(_, _)
MergeFrom(m, other) ==
  [k \in DOMAIN m \cup DOMAIN other |->
     IF k \notin DOMAIN other THEN m[k]
     ELSE IF k \in DOMAIN m /\ IsMap(m[k]) /\ IsMap(other[k])
     THEN Node(MergeFrom(m[k].map, other[k].map))
     ELSE other[k]]

---------------------------------------------------------------------------
(* operator/pkg/render *)

Components(enabled) ==
  Node([c \in {"base", "dubbod"} |-> Node([e \in {"enabled"} |-> Leaf(<<"bool", enabled>>)])])

(* The built-in profiles; any other name is an error.                      *)
readBuiltinProfile(profile) ==
  CASE profile = "default" ->
         [metadata |-> Node([namespace |-> Str("dubbo-system")]),
          spec |-> Node([profile |-> Str("default"), components |-> Components("true"),
                         values |-> Node(Empty)])]
    [] profile = "empty" -> [spec |-> Node([components |-> Components("false")])]
    [] OTHER -> nil

readProfile(profile) ==
  IF readBuiltinProfile(profile) = nil THEN nil
  ELSE MergeFrom(readBuiltinProfile("default"), readBuiltinProfile(profile))

(* The files in order; a null spec is dropped.                             *)
RECURSIVE MergeFiles(_, _)
MergeFiles(f, files) ==
  IF files = <<>> THEN f
  ELSE LET m == Head(files)
           kept == {k \in DOMAIN m : ~(k = "spec" /\ m[k] = Null)}
       IN MergeFiles(MergeFrom(f, [k \in kept |-> m[k]]), Tail(files))

(* translateDubboOperatorToHelm: repo and tag as chart values.             *)
RECURSIVE Translate(_, _)
Translate(base, names) ==
  IF base = nil \/ names = <<>> THEN base
  ELSE LET k == Head(names)
           node == GetPath(Node(base), Keys(<<"spec", k>>))
           text == IF node = Null THEN "<nil>" ELSE node.leaf[2]
           flag == [path |-> Keys(<<"values", "global", k>>), text |-> text]
       IN Translate(IF node = nil THEN base ELSE SetSpecPaths(base, <<flag>>), Tail(names))

translateDubboOperatorToHelm(base) == Translate(base, <<"repo", "tag">>)

ProfileName(f) ==
  LET node == GetPath(Node(f), Keys(<<"spec", "profile">>))
  IN IF node = nil \/ node = Null \/ IsMap(node) THEN "default" ELSE node.leaf[2]

NoUserValues(config) == nil

(* The user's values, copied before anything is merged into them.          *)
UserValues(config) == GetPathMap(config, <<"spec", "values">>)

(* MergeInputs: base < profile < built-in repo and tag < files < flags,    *)
(* with explicit chart values above the top-level settings; nil for an     *)
(* error.                                                                  *)
MergeInputs(files, flags) ==
  LET config == SetSpecPaths(MergeFiles([metadata |-> Node(Empty), spec |-> Node(Empty)],
                                        files), flags)
      profile == IF config = nil THEN nil ELSE readProfile(ProfileName(config))
      base == IF profile = nil THEN nil ELSE SetSpecPaths(profile, Overlay)
      translated == IF base = nil THEN nil
                    ELSE translateDubboOperatorToHelm(MergeFrom(base, config))
      user == IF translated = nil THEN nil ELSE UserValues(config)
  IN IF translated = nil \/ user = nil THEN translated
     ELSE MergeFrom(translated, [spec |-> Node([values |-> Node(user)])])

-----------------------------------------------------------------------------

CONSTANT Setups        \* [commands, cluster, errors, kills]

VARIABLES setup, phase, merged, enabled, at, channel, fed, failed, skipped, left, cluster

vars == <<setup, phase, merged, enabled, at, channel, fed, failed, skipped, left, cluster>>
command == Head(setup.commands)

Component == {"Base", "Dubbod"}
SpecName(c) == IF c = "Base" THEN "base" ELSE "dubbod"
componentDependencies(c) == IF c = "Base" THEN {"Dubbod"} ELSE {}
dependenciesChannels == UNION {componentDependencies(c) : c \in Component}

(* Objects are <<kind, name>>.  PrunedResourcesSchemas leaves out CRDs,    *)
(* which only a purge deletes.                                             *)
Pruned == {"Deployment", "Service", "ClusterRole"}
AllKinds == Pruned \cup {"CustomResourceDefinition"}
Waited == {"Deployment", "CustomResourceDefinition"}

Idle == [c \in Component |-> "none"]
Manifests(c) == IF c \in enabled THEN command.chart[c] ELSE {}
Owned(o) == cluster[o] /= nil /\ cluster[o].component /= nil

EndCommand ==
  /\ setup' = [setup EXCEPT !.commands = Tail(@)]
  /\ phase' = "start"
  /\ at' = Idle
  /\ UNCHANGED <<merged, enabled, channel, fed, failed, skipped, left, cluster>>

---------------------------------------------------------------------------
(* Rendering *)

(* Component.Get: enabled unless the specification is missing or says not. *)
Get(c) ==
  LET spec == GetPathMap(merged', <<"spec", "components", SpecName(c)>>)
  IN spec /= nil /\ ("enabled" \in DOMAIN spec => spec.enabled # Leaf(<<"bool", "false">>))

(* validateDubboOperator: only known fields, of their types; a repository  *)
(* and a tag that can name an image; and components.  apiVersion and kind, *)
(* which every profile has, are left out.                                  *)
IllFormed == {"!"}
validateDubboOperator(f) ==
  LET Field(names) == GetPath(Node(f), Keys(names))
      Unset(names) == Field(names) \in {nil, Null}
      Of(type, names) == Unset(names) \/ (IF "leaf" \in DOMAIN Field(names) THEN Field(names).leaf[1] = type ELSE FALSE)
      Known(fields, names) == Unset(names) \/ (IF IsMap(Field(names)) THEN DOMAIN Field(names).map \subseteq fields ELSE FALSE)
      WellFormed(names) == Unset(names) \/ (IF "leaf" \in DOMAIN Field(names) THEN Field(names).leaf[2] \notin IllFormed ELSE FALSE)
  IN /\ DOMAIN f \subseteq {"metadata", "spec"}
     /\ Known({"profile", "repo", "tag", "components", "values"}, <<"spec">>)
     /\ Of("string", <<"spec", "profile">>)
     /\ Of("string", <<"spec", "repo">>) /\ WellFormed(<<"spec", "repo">>) /\ WellFormed(<<"spec", "tag">>)
     /\ ~Unset(<<"spec", "components">>) /\ Known({"base", "dubbod"}, <<"spec", "components">>)
     /\ \A c \in Component : /\ Known({"enabled"}, <<"spec", "components", SpecName(c)>>)
                              /\ Of("bool", <<"spec", "components", SpecName(c), "enabled">>)
     /\ Known({"global", "revision", "replicaCount", "image", "tag", "repo"}, <<"spec", "values">>)
     /\ Known({"trustDomain", "statusPort", "configValidation", "gateway", "repo", "tag"}, <<"spec", "values", "global">>)
     /\ Of("string", <<"spec", "values", "repo">>) /\ Of("string", <<"spec", "values", "global", "repo">>)

(* GenerateManifest; without a map of values helm.Render fails.            *)
GenerateManifest ==
  /\ phase = "start"
  /\ setup.commands /= <<>>
  /\ command.op = "install"
  /\ merged' = MergeInputs(command.files, command.flags)
  /\ enabled' = IF merged' = nil THEN {} ELSE {c \in Component : Get(c)}
  /\ phase' = IF \/ merged' = nil \/ (IF merged' = nil THEN TRUE ELSE ~validateDubboOperator(merged'))
                 \/ enabled' /= {} /\ GetPathMap(merged', <<"spec", "values">>) = nil
              THEN "failed" ELSE "rendered"
  /\ UNCHANGED <<setup, at, channel, fed, failed, skipped, left, cluster>>

---------------------------------------------------------------------------
(* Installing *)

(* The namespace is created first; then a goroutine per component starts.  *)
installSystemNamespace ==
  /\ phase = "rendered"
  /\ phase' = "install"
  /\ at' = [c \in Component |-> IF c \in enabled THEN "wait" ELSE "none"]
  /\ channel' = [c \in dependenciesChannels |-> 0]
  /\ fed' = {}
  /\ failed' = FALSE
  /\ skipped' = {}
  /\ left' = [c \in Component |-> Manifests(c)]
  /\ UNCHANGED <<setup, merged, enabled, cluster>>

(* What install does for the components that have no manifests.            *)
FeedNobody(c) ==
  /\ fed' = fed \cup {c}
  /\ UNCHANGED channel

FeedDisabled(c) ==
  /\ \A d \in componentDependencies(c) : channel[d] = 0
  /\ channel' = [d \in DOMAIN channel |->
                   IF d \in componentDependencies(c) THEN 1 ELSE channel[d]]
  /\ fed' = fed \cup {c}

install(c) ==
  /\ phase = "install"
  /\ c \notin enabled \cup fed
  /\ FeedDisabled(c)
  /\ UNCHANGED <<setup, phase, merged, enabled, at, failed, skipped, left, cluster>>

WaitDependency(c) ==
  /\ at[c] = "wait"
  /\ c \in DOMAIN channel => channel[c] = 1
  /\ channel' = [d \in DOMAIN channel |-> IF d = c THEN 0 ELSE channel[d]]
  /\ at' = [at EXCEPT ![c] = IF Manifests(c) = {} THEN "signal" ELSE "apply"]
  /\ UNCHANGED <<setup, phase, merged, enabled, fed, failed, skipped, left, cluster>>

(* applyLabelsAndAnnotations and serverSideApply of one object.            *)
serverSideApply(c, o) ==
  /\ at[c] = "apply"
  /\ o \in left[c]
  /\ left' = [left EXCEPT ![c] = @ \ {o}]
  /\ cluster' = [cluster EXCEPT ![o] =
       [component |-> c, keep |-> cluster[o] /= nil /\ cluster[o].keep,
        ready |-> cluster[o] /= nil /\ cluster[o].ready]]
  /\ at' = [at EXCEPT ![c] = IF left'[c] = {} THEN "poll" ELSE "apply"]
  /\ UNCHANGED <<setup, phase, merged, enabled, channel, fed, failed, skipped>>

(* waitForResources: deployments with their replicas, CRDs established.    *)
waitForResources(c) ==
  /\ at[c] = "poll"
  /\ \A o \in Manifests(c) : o[1] \in Waited => cluster[o] /= nil /\ cluster[o].ready
  /\ at' = [at EXCEPT ![c] = "signal"]
  /\ UNCHANGED <<setup, phase, merged, enabled, channel, fed, failed, skipped, left, cluster>>

(* WaitForResources polls until waitTimeout; then the set has failed.      *)
WaitForResources(c) ==
  /\ at[c] = "poll"
  /\ setup.errors > 0
  /\ setup' = [setup EXCEPT !.errors = @ - 1]
  /\ failed' = TRUE
  /\ at' = [at EXCEPT ![c] = "signal"]
  /\ UNCHANGED <<phase, merged, enabled, channel, fed, skipped, left, cluster>>

(* A request of applyManifestSet fails, and the rest of the set is left.   *)
applyManifestSetFails(c) ==
  /\ at[c] = "apply"
  /\ setup.errors > 0
  /\ setup' = [setup EXCEPT !.errors = @ - 1]
  /\ failed' = TRUE
  /\ at' = [at EXCEPT ![c] = "signal"]
  /\ UNCHANGED <<phase, merged, enabled, channel, fed, skipped, left, cluster>>

(* The components that wait for this one go on, even if it failed.         *)
SignalDependents(c) ==
  /\ at[c] = "signal"
  /\ \A d \in componentDependencies(c) : channel[d] = 0
  /\ channel' = [d \in DOMAIN channel |->
                   IF d \in componentDependencies(c) THEN 1 ELSE channel[d]]
  /\ at' = [at EXCEPT ![c] = "done"]
  /\ UNCHANGED <<setup, phase, merged, enabled, fed, failed, skipped, left, cluster>>

(* wg.Wait; with errors nothing is pruned.                                 *)
Installed ==
  /\ phase = "install"
  /\ \A c \in Component : IF c \in enabled THEN at[c] = "done" ELSE c \in fed
  /\ phase' = IF failed THEN "failed" ELSE "prune"
  /\ left' = [c \in Component |-> Pruned]
  /\ UNCHANGED <<setup, merged, enabled, at, channel, fed, failed, skipped, cluster>>

---------------------------------------------------------------------------
(* Pruning and removing *)

OfAnyComponent(o, c) == TRUE

(* compLabels.Matches: the object is labelled with the component.          *)
OfComponent(o, c) == cluster[o].component = c

PruneFor(o, c) ==
  Owned(o) /\ o \notin Manifests(c) /\ ~cluster[o].keep /\ OfComponent(o, c)

(* One kind: what it lists is deleted unless a component still has it.     *)
(* A deletion that finds nothing counts as done.                           *)
prune(kind) ==
  /\ phase = "prune"
  /\ kind \in left["Base"]
  /\ left' = [c \in Component |-> left[c] \ {kind}]
  /\ cluster' = [o \in DOMAIN cluster |->
       IF o[1] = kind /\ \E c \in Component : PruneFor(o, c) THEN nil ELSE cluster[o]]
  /\ UNCHANGED <<setup, phase, merged, enabled, at, channel, fed, failed, skipped>>

(* A kind that cannot be listed is skipped; a deletion that fails is an    *)
(* error after the others.                                                 *)
PruneFails(kind, listing) ==
  /\ phase = "prune"
  /\ kind \in left["Base"]
  /\ setup.errors > 0
  /\ setup' = [setup EXCEPT !.errors = @ - 1]
  /\ left' = [c \in Component |-> left[c] \ {kind}]
  /\ skipped' = IF listing THEN skipped \cup {kind} ELSE skipped
  /\ failed' = (failed \/ ~listing)
  /\ UNCHANGED <<phase, merged, enabled, at, channel, fed, cluster>>

PruneDone ==
  /\ phase = "prune"
  /\ left["Base"] = {}
  /\ phase' = IF failed THEN "failed" ELSE "complete"
  /\ UNCHANGED <<setup, merged, enabled, at, channel, fed, failed, skipped, left, cluster>>

(* GetRemovedResources with --purge lists every labelled object, kind by   *)
(* kind, and a list that fails ends the command; the command asks, and     *)
(* deletes the objects it listed.                                          *)
GetRemovedResources(fails) ==
  /\ phase = "start"
  /\ setup.commands /= <<>>
  /\ command.op = "uninstall"
  /\ failed' = fails
  /\ IF fails
     THEN /\ setup.errors > 0
          /\ setup' = [setup EXCEPT !.errors = @ - 1]
          /\ phase' = "failed"
          /\ UNCHANGED left
     ELSE /\ left' = [c \in Component |-> {o \in DOMAIN cluster : Owned(o) /\ o[1] \in AllKinds}]
          /\ phase' = "confirm"
          /\ UNCHANGED setup
  /\ UNCHANGED <<merged, enabled, at, channel, fed, skipped, cluster>>

preCheck(answer) ==
  /\ phase = "confirm"
  /\ phase' = IF answer THEN "delete" ELSE "failed"
  /\ UNCHANGED <<setup, merged, enabled, at, channel, fed, failed, skipped, left, cluster>>

DeleteResource(o, fails) ==
  /\ phase = "delete"
  /\ o \in left["Base"]
  /\ left' = [c \in Component |-> left[c] \ {o}]
  /\ IF fails
     THEN /\ setup.errors > 0
          /\ setup' = [setup EXCEPT !.errors = @ - 1]
          /\ failed' = TRUE
          /\ UNCHANGED cluster
     ELSE /\ cluster' = [cluster EXCEPT ![o] = nil]
          /\ UNCHANGED <<setup, failed>>
  /\ UNCHANGED <<phase, merged, enabled, at, channel, fed, skipped>>

DeleteObjectsList ==
  /\ phase = "delete"
  /\ left["Base"] = {}
  /\ phase' = IF failed THEN "failed" ELSE "removed"
  /\ UNCHANGED <<setup, merged, enabled, at, channel, fed, failed, skipped, left, cluster>>

---------------------------------------------------------------------------
(* The cluster and the user *)

BecomesReady(o) ==
  /\ cluster[o] /= nil
  /\ ~cluster[o].ready
  /\ cluster' = [cluster EXCEPT ![o].ready = TRUE]
  /\ UNCHANGED <<setup, phase, merged, enabled, at, channel, fed, failed, skipped, left>>

NextCommand ==
  /\ phase \in {"failed", "complete", "removed"}
  /\ EndCommand

Kill ==
  /\ phase \in {"install", "prune", "delete"}
  /\ setup.kills > 0
  /\ setup' = [setup EXCEPT !.commands = Tail(@), !.kills = @ - 1]
  /\ phase' = "start"
  /\ at' = Idle
  /\ UNCHANGED <<merged, enabled, channel, fed, failed, skipped, left, cluster>>

---------------------------------------------------------------------------
Init ==
  /\ setup \in Setups
  /\ phase = "start"
  /\ merged = nil
  /\ enabled = {}
  /\ at = Idle
  /\ channel = [c \in dependenciesChannels |-> 0]
  /\ fed = {}
  /\ failed = FALSE
  /\ skipped = {}
  /\ left = [c \in Component |-> {}]
  /\ cluster = setup.cluster

Work(c) ==
  \/ install(c) \/ WaitDependency(c) \/ waitForResources(c) \/ WaitForResources(c)
  \/ applyManifestSetFails(c)
  \/ SignalDependents(c) \/ \E o \in DOMAIN cluster : serverSideApply(c, o)

Next ==
  \/ GenerateManifest \/ installSystemNamespace \/ Installed \/ PruneDone
  \/ DeleteObjectsList \/ NextCommand \/ Kill
  \/ \E c \in Component : Work(c)
  \/ \E kind \in Pruned : prune(kind) \/ \E b \in BOOLEAN : PruneFails(kind, b)
  \/ \E b \in BOOLEAN : GetRemovedResources(b) \/ preCheck(b)
  \/ \E o \in DOMAIN cluster : BecomesReady(o) \/ \E b \in BOOLEAN : DeleteResource(o, b)

Spec == Init /\ [][Next]_vars

---------------------------------------------------------------------------
(* Types of the variables.                                                 *)
TypeOK ==
  /\ phase \in {"start", "rendered", "install", "prune", "confirm", "delete", "failed",
                "complete", "removed"}
  /\ enabled \subseteq Component
  /\ at \in [Component -> {"none", "wait", "apply", "poll", "signal", "done"}]
  /\ channel \in [dependenciesChannels -> 0..1]

(* An installation that reports success has left in the cluster every      *)
(* object it rendered and, of the kinds it could list, no object of an     *)
(* earlier installation that it did not render, whatever that one managed  *)
(* to apply before it failed or was killed; a purge leaves nothing the     *)
(* operator labelled (Installer.install and prune, DeleteObjectsList).     *)
InstalledExactly ==
  /\ phase = "complete" =>
       \A o \in DOMAIN cluster :
         IF \E c \in enabled : o \in Manifests(c) THEN cluster[o] /= nil
         ELSE Owned(o) /\ o[1] \in Pruned \ skipped => cluster[o].keep
  /\ phase = "removed" => \A o \in DOMAIN cluster : ~Owned(o)

(* A component's objects are applied only after those of the components    *)
(* it depends on were applied and waited for, or failed; the goroutines    *)
(* and the feeding of disabled components never leave one waiting forever  *)
(* (install, dependenciesChannels).                                        *)
DependenciesServed ==
  phase = "install" =>
    /\ \A c \in enabled : \A d \in componentDependencies(c) \cap enabled :
         at[d] /= "wait" => at[c] = "done"
    /\ \A c \in enabled : at[c] = "wait" /\ c \in DOMAIN channel /\ channel[c] = 0 =>
         \E p \in Component : /\ c \in componentDependencies(p)
                              /\ IF p \in enabled THEN at[p] /= "done" ELSE p \notin fed

(* Every --set flag is in the configuration an installation renders from,  *)
(* the later of two winning: MergeInputs promises "base < profile <        *)
(* auto-detected settings < files (in order) < --set flags (in order)".    *)
FlagsApplied ==
  phase = "rendered" =>
    \A i \in DOMAIN command.flags :
      LET flag == command.flags[i]
      IN (\A j \in i + 1..Len(command.flags) : command.flags[j].path /= flag.path) =>
           GetPath(Node(merged), <<Key("spec")>> \o flag.path) = FlagValue(flag)
=============================================================================
