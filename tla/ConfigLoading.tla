--------------------------- MODULE ConfigLoading ---------------------------
(***************************************************************************)
(* Loading a project configuration (config/loader.py): the bounded read,   *)
(* the two passes over the YAML text, the preflight, the overrides of the  *)
(* command line, the model, and the metadata check of every path against a *)
(* file system that others may change meanwhile.  Paths are looked at one  *)
(* node at a time.  On Windows each node is pinned by an open handle and   *)
(* all pins are probed again at the end, one by one; the handles keep      *)
(* nobody from renaming or deleting what they pin.                         *)
(*                                                                         *)
(* A document is a record of what each stage finds in it; its nodes are in *)
(* the order of the parser.  A path reference is [parts, want, optional,   *)
(* lexical, secret, root]: the nodes from the project root down, the kind  *)
(* it must have, whether the last may be missing, what the text itself     *)
(* breaks, and whether it names a secret file or a root for secret files.  *)
(***************************************************************************)
EXTENDS Gates

CONSTANTS
  MaxConfigNodes, MaxConfigDepth, MaxDiagnostics,
  InitialTree,   \* kind of every file system node a configuration may name
  RootChain,     \* the nodes from the drive down to the project root
  MaxSwaps       \* changes by others while a configuration is loaded

VARIABLES
  tree,     \* file system node -> [kind, id]
  load      \* the loader

loadVars == <<tree, load>>

-----------------------------------------------------------------------------
(* YAML.  A node is [depth, value, event, composed]: its depth, whether it  *)
(* is a value or a key, and what either pass finds wrong with it.           *)

\* The first pass reads events and stops at the first thing it does not like; the
\* text may break off anywhere.
ScanYaml(doc) ==
  FirstError(
    <<Gate(doc.version \in {"none", "1.2"}, "CFG_YAML_VERSION"),
      Gate(~doc.directives, "CFG_YAML_TAG")>>
    \o [i \in DOMAIN doc.nodes |->
          FirstError(<<Gate(i <= MaxConfigNodes /\ doc.nodes[i].depth <= MaxConfigDepth,
                            "CFG_RESOURCE_LIMIT"),
                       doc.nodes[i].event>>)]
    \o <<Gate(doc.syntax, "CFG_YAML_SYNTAX")>>)

\* The second pass reads composed nodes, whose tags are resolved, and notes all that
\* is wrong with them, up to a limit.
ValidateYamlNodes(doc) ==
  LET wrong == SelectSeq([i \in DOMAIN doc.nodes |-> doc.nodes[i].composed],
                         LAMBDA code : code # "ok")
  IN  SubSeq(wrong, 1, IF Len(wrong) < MaxDiagnostics THEN Len(wrong) ELSE MaxDiagnostics)

ParseYaml(doc) ==
  FirstError(<<Gate(doc.encoding = "utf-8", "CFG_YAML_ENCODING"),
               ScanYaml(doc)>>
             \o ValidateYamlNodes(doc))

-----------------------------------------------------------------------------
(* The other stages that look at no path. *)

\* Opening a node below the handle of its parent, as the kind it must have and
\* without following a link.
OpenRelative(node, want) ==
  LET kind == tree[node].kind
  IN  FirstError(<<Gate(kind # "absent", "missing"), Gate(kind # "unreadable", "denied"),
                   Gate(kind # "link", "reparse"), Gate(kind = want, "wrong-kind")>>)

\* Each directory of a chain is opened below the one before.
OpenDirectoryChain == FirstError([i \in DOMAIN RootChain |-> OpenRelative(RootChain[i], "directory")])

ReadBoundedWindows(doc) ==
  FirstError(<<Gate(OpenDirectoryChain # "wrong-kind", "CFG_FILE_NOT_REGULAR"),
               Gate(OpenDirectoryChain = "ok", "CFG_FILE_UNREADABLE"),
               Gate(doc.source # "missing", "CFG_FILE_UNREADABLE"),
               Gate(doc.source # "special", "CFG_FILE_NOT_REGULAR"),
               Gate(doc.source # "over-limit", "CFG_RESOURCE_LIMIT")>>)

\* POSIX resolves the path of the file first, links and all.
ReadBounded(doc) ==
  FirstError(<<Gate(doc.source # "missing", "CFG_FILE_UNREADABLE"),
               Gate(doc.source # "special", "CFG_FILE_NOT_REGULAR"),
               Gate(doc.source # "over-limit", "CFG_RESOURCE_LIMIT")>>)

DeferredMutations == {"duplicate-json-key-v1", "invalid-utf8-v1"}

SchemaVersionError(doc) ==
  FirstError(<<Gate(doc.schema # "none", "CFG_SCHEMA_VERSION_REQUIRED"),
               Gate(doc.schema # "other", "CFG_SCHEMA_VERSION_INVALID"),
               Gate(doc.schema = "1", "CFG_SCHEMA_VERSION_UNSUPPORTED")>>)

\* The values again count against the limits; a key is no value.
ResourceLimitError(doc) ==
  LET values == {i \in DOMAIN doc.nodes : doc.nodes[i].value}
  IN  Gate(/\ Cardinality(values) <= MaxConfigNodes
           /\ \A i \in values : doc.nodes[i].depth <= MaxConfigDepth, "CFG_RESOURCE_LIMIT")

\* Limits, the schema version, then the first mutation that is deferred.
ConfigurationPreflight(doc) ==
  FirstError(<<ResourceLimitError(doc),
               SchemaVersionError(doc),
               Gate(doc.mutations \cap DeferredMutations = {}, "CFG_MUTATION_UNSUPPORTED")>>)

CoerceOverrides(overrides) ==
  FirstError(<<Gate(overrides.mapping, "CFG_CLI_OVERRIDE_INVALID"),
               Gate(overrides.names \subseteq {"project_root", "output"},
                    "CFG_CLI_OVERRIDE_UNDECLARED"),
               Gate(overrides.typed, "CFG_CLI_OVERRIDE_INVALID")>>)

\* The text of an output directory; the check of its nodes comes with the paths.
NormalizeOutputOverride(overrides) ==
  CASE overrides.output \in {"none", "relative"} -> "ok"
    [] overrides.output \in {"empty", "remote"} -> "CFG_CLI_OUTPUT_INVALID"
    [] overrides.output = "unc" -> "CFG_CLI_OUTPUT_UNC"
    [] overrides.output = "backslash" -> "CFG_CLI_OUTPUT_ALTERNATE_SEPARATOR"
    [] overrides.output = "drive" -> "CFG_CLI_OUTPUT_DRIVE"
    [] overrides.output = "absolute" -> "CFG_CLI_OUTPUT_ABSOLUTE"
    [] overrides.output = "traversal" -> "CFG_CLI_OUTPUT_TRAVERSAL"

ValidateModel(doc) == Gate(doc.model, "CFG_MODEL_INVALID")

\* POSIX looks at the root itself, Windows opens the whole chain and keeps it open.
SelectProjectRoot(overrides, platform) ==
  Gate(/\ overrides.root # "malformed"
       /\ IF platform = "windows" THEN OpenDirectoryChain = "ok"
          ELSE tree[RootChain[Len(RootChain)]].kind = "directory",
       "CFG_CLI_PROJECT_ROOT_INVALID")

\* Everything before the first path.
LoadDocument(doc, platform) ==
  FirstError(<<Gate(doc.source # "remote", "CFG_FILE_UNREADABLE"),
               IF platform = "windows" THEN ReadBoundedWindows(doc) ELSE ReadBounded(doc),
               ParseYaml(doc), ConfigurationPreflight(doc),
               CoerceOverrides(doc.overrides), NormalizeOutputOverride(doc.overrides),
               ValidateModel(doc), SelectProjectRoot(doc.overrides, platform)>>)

\* The result category of a refusal is that of its first diagnostic.
LoadCategory(code) ==
  IF code \in {"CFG_MUTATION_UNSUPPORTED", "CFG_SCHEMA_VERSION_UNSUPPORTED"} THEN "unsupported"
  ELSE "invalid_input"

-----------------------------------------------------------------------------
(* Paths. *)

\* The order in which a configuration's paths are checked; an executable is a path
\* only when it is written as one.
ConfigPaths(doc) ==
  doc.paths.secret_roots
  \o <<[doc.paths.artifacts EXCEPT !.optional = TRUE]>>
  \o doc.paths.test_ca
  \o [i \in DOMAIN doc.paths.fixtures |->
        [doc.paths.fixtures[i] EXCEPT !.optional = doc.bundled]]
  \o doc.paths.signers
  \o doc.paths.observers
  \o doc.paths.lifecycles

KindError(want) ==
  IF want = "file" THEN "CFG_PATH_NOT_REGULAR_FILE" ELSE "CFG_PATH_NOT_DIRECTORY"

Root == RootChain[Len(RootChain)]
\* What a path names in the end; without parts it is the project root.
NamedNode(ref) == IF ref.parts = <<>> THEN Root ELSE ref.parts[Len(ref.parts)]
Parent(ref, i) == IF i = 1 THEN Root ELSE ref.parts[i - 1]

\* POSIX: one look at each node, top down, then one more at the last.
ContainedMetadataPath(ref, i) ==
  LET above == i < Len(ref.parts)
      last == i > Len(ref.parts)
      kind == tree[IF last THEN NamedNode(ref) ELSE ref.parts[i]].kind
  IN  FirstError(
        <<Gate(kind = "absent" => ref.optional /\ ~above /\ ref.parts # <<>>, "CFG_PATH_MISSING"),
          Gate(kind # "unreadable", "CFG_PATH_METADATA_ERROR"),
          Gate(kind # "link", "CFG_PATH_SYMLINK"),
          Gate(above => kind = "directory", "CFG_PATH_PARENT_NOT_DIRECTORY"),
          Gate(last /\ kind # "absent" => kind = ref.want, KindError(ref.want))>>)

\* A handle follows its file, so a pin is stable while its file is at its path.
PinStable(pin) == tree[pin.node].id = pin.id /\ tree[pin.node].kind = pin.kind

PinOf(node, parent) ==
  [node |-> node, parent |-> parent, id |-> tree[node].id, kind |-> tree[node].kind]

PinsOf(node, pins) == {pins[i] : i \in {j \in DOMAIN pins : pins[j].node = node}}
PinsStable(node, pins) == \A pin \in PinsOf(node, pins) : PinStable(pin)

\* What the failed opening of node i means for the path.
OpenError(ref, i) ==
  LET final == i = Len(ref.parts)
      opened == OpenRelative(ref.parts[i], IF final THEN ref.want ELSE "directory")
  IN  FirstError(
        <<Gate(opened = "missing" => ref.optional /\ final, "CFG_PATH_MISSING"),
          Gate(opened # "denied", "CFG_PATH_METADATA_ERROR"),
          Gate(opened # "reparse", "CFG_PATH_SYMLINK"),
          Gate(opened = "wrong-kind" => final, "CFG_PATH_PARENT_NOT_DIRECTORY"),
          Gate(opened # "wrong-kind", KindError(ref.want))>>)

\* Windows: a node that is pinned must have the right kind and be where it was; any
\* other is opened below its parent, which must be where it was, and pinned.
ValidateRelative(ref, i, pins) ==
  LET final == i = Len(ref.parts)
      want == IF final THEN ref.want ELSE "directory"
      pinned == PinsOf(ref.parts[i], pins)
  IN  IF ref.parts = <<>>
        THEN FirstError(<<Gate(ref.want = "directory", "CFG_PATH_NOT_REGULAR_FILE"),
                          Gate(PinsStable(Root, pins), "CFG_PATH_SYMLINK")>>)
      ELSE IF pinned = {}
        THEN FirstError(<<Gate(PinsStable(Parent(ref, i), pins), "CFG_PATH_SYMLINK"),
                          OpenError(ref, i)>>)
      ELSE FirstError(
             <<Gate(\A pin \in pinned : pin.kind = want,
                    IF final THEN KindError(want) ELSE "CFG_PATH_PARENT_NOT_DIRECTORY"),
               Gate(PinsStable(ref.parts[i], pins), "CFG_PATH_SYMLINK")>>)

\* Mutant of Probes: a path noted as missing is not looked at again.
ProbesOfPins(pins, missing) == pins

\* revalidate: the chain to the root, the pins in their order, what was missing.
Probes(pins, missing) == pins \o missing

\* Below a parent that is where it was, the name still leads to the pinned file, or
\* to nothing where nothing was.
ProbeMatchesPin(probe, pins) ==
  /\ PinsStable(probe.parent, pins)
  /\ IF probe.kind = "absent" THEN tree[probe.node].kind = "absent" ELSE PinStable(probe)

\* A secret file lies below a root for secret files that was found good before it.
SecretReference(ref, roots) ==
  Gate(ref.secret => \E root \in roots : \E i \in 1 .. Len(ref.parts) :
                       SubSeq(ref.parts, 1, i) = root,
       "CFG_SECRET_PATH_OUTSIDE_ROOT")

-----------------------------------------------------------------------------
(* Steps of the loader. *)

IdleLoad ==
  [pc |-> "idle", platform |-> "posix", paths |-> <<>>, at |-> 0, pins |-> <<>>, missing |-> <<>>,
   probes |-> <<>>, roots |-> {}, found |-> <<>>, swaps |-> 0, late |-> {}]

LoadInit ==
  /\ tree = [node \in DOMAIN InitialTree |-> [kind |-> InitialTree[node], id |-> 0]]
  /\ load = IdleLoad

Refused(code) == [IdleLoad EXCEPT !.pc = "refused", !.found = <<code>>]

ReadConfiguration(doc, platform) ==
  LET code == LoadDocument(doc, platform)
      chain == [i \in DOMAIN RootChain |-> PinOf(RootChain[i], RootChain[IF i = 1 THEN 1 ELSE i - 1])]
  IN
  /\ load.pc = "idle"
  /\ load' = IF code # "ok" THEN Refused(code)
             ELSE [load EXCEPT !.pc = "paths", !.platform = platform, !.paths = ConfigPaths(doc),
                               !.pins = IF platform = "windows" THEN chain ELSE <<>>]
  /\ UNCHANGED tree

\* The path is done with: what is wrong with it is noted, and the others follow.
PathDone(l, ref, code) ==
  LET error == FirstError(<<code, SecretReference(ref, l.roots)>>)
  IN  [l EXCEPT
        !.paths = Tail(@), !.at = 0,
        !.found = IF error = "ok" \/ Len(@) = MaxDiagnostics THEN @ ELSE Append(@, error),
        !.roots = IF error = "ok" /\ ref.root THEN @ \cup {ref.parts} ELSE @]

\* The text of the next path.
PathText ==
  /\ load.pc = "paths" /\ load.paths # <<>> /\ load.at = 0
  /\ load' = LET ref == Head(load.paths)
             IN IF ref.lexical = "ok" THEN [load EXCEPT !.at = 1]
                ELSE PathDone(load, ref, ref.lexical)
  /\ UNCHANGED tree

\* The next node of a path, on POSIX and on Windows.
LookAtNode ==
  LET ref == Head(load.paths)
      code == ContainedMetadataPath(ref, load.at)
  IN
  /\ load.pc = "paths" /\ load.at # 0 /\ load.platform = "posix"
  /\ load' = IF code # "ok" \/ load.at > Len(ref.parts) \/ tree[ref.parts[load.at]].kind = "absent"
               THEN PathDone(load, ref, code)
               ELSE [load EXCEPT !.at = @ + 1]
  /\ UNCHANGED tree

PinNode ==
  LET ref == Head(load.paths)
      code == ValidateRelative(ref, load.at, load.pins)
      node == ref.parts[load.at]
      pin == <<PinOf(node, Parent(ref, load.at))>>
      pinned ==
        IF code # "ok" \/ ref.parts = <<>> \/ PinsOf(node, load.pins) # {} THEN load
        ELSE IF tree[node].kind = "absent" THEN [load EXCEPT !.missing = @ \o pin]
        ELSE [load EXCEPT !.pins = @ \o pin]
  IN
  /\ load.pc = "paths" /\ load.at # 0 /\ load.platform = "windows"
  /\ load' = IF code # "ok" \/ load.at >= Len(ref.parts) THEN PathDone(pinned, ref, code)
             ELSE [pinned EXCEPT !.at = @ + 1]
  /\ UNCHANGED tree

\* All paths are done with; on Windows the revalidation begins.
FinishPaths ==
  /\ load.pc = "paths" /\ load.paths = <<>>
  /\ load' = IF load.found # <<>> THEN Refused(Head(load.found))
             ELSE IF load.platform = "windows"
               THEN [load EXCEPT !.pc = "probes", !.probes = Probes(load.pins, load.missing)]
             ELSE [load EXCEPT !.pc = "accepted"]
  /\ UNCHANGED tree

\* One probe of the revalidation.
Revalidate ==
  /\ load.pc = "probes"
  /\ load' = IF load.probes = <<>> THEN [load EXCEPT !.pc = "accepted"]
             ELSE IF ProbeMatchesPin(Head(load.probes), load.pins)
               THEN [load EXCEPT !.probes = Tail(@)]
             ELSE Refused("CFG_PATH_METADATA_ERROR")
  /\ UNCHANGED tree

NormalizePath == PathText \/ LookAtNode \/ PinNode

\* The nodes the loader has yet to look at, or to look at again; POSIX looks at the
\* root as a root only when it selects it.
Ahead(i) ==
  LET ref == load.paths[i]
      last == Len(ref.parts)
  IN  {ref.parts[j] : j \in {k \in DOMAIN ref.parts : i > 1 \/ k >= load.at \/ k = last}}
LooksAhead ==
  CASE load.pc = "idle" \/ (load.pc = "paths" /\ load.platform = "windows") -> DOMAIN tree
    [] load.pc = "paths" /\ load.platform = "posix" -> UNION {Ahead(i) : i \in DOMAIN load.paths}
    [] load.pc = "probes" ->
         UNION {{load.probes[i].node, load.probes[i].parent} : i \in DOMAIN load.probes}

\* Someone else replaces, removes or creates a file system node.
Swap(node, kind) ==
  /\ load.pc \in {"idle", "paths", "probes"}
  /\ load.swaps < MaxSwaps
  /\ tree[node].kind # kind
  /\ tree' = [tree EXCEPT ![node] = [kind |-> kind, id |-> @.id + 1]]
  /\ load' = [load EXCEPT !.swaps = @ + 1,
                          !.late = IF node \in LooksAhead THEN @ ELSE @ \cup {node}]
=============================================================================
