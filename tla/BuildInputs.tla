------------------------------ MODULE BuildInputs ------------------------------
(***************************************************************************)
(* What a verified build takes as its inputs (cli/main.rs): the checks on  *)
(* the environment, the project root and the generated paths, the files    *)
(* and path packages cargo_input_selection finds, the context captured     *)
(* from them, and its revalidation before and after the commands that      *)
(* compile, while files appear, change, vanish or become links.            *)
(* A path is a sequence of names.  The disk maps a path to [kind, v]: what *)
(* stands there and the version of its contents.                           *)
(***************************************************************************)
EXTENDS Naturals, Sequences, FiniteSets, SequencesExt

CONSTANTS
    InpProject,  \* the root of the project
    InpOutput,   \* project.output, below the project
    InpState,    \* the directory of the build's own state, below the project
    InpRoot,     \* the local packages and their roots; "site" is the project's
                 \* own package and "ssg" the framework
    InpDepends,  \* the path dependencies the manifests declare at first
    InpOptional, \* Cargo configuration files, which need not be there
    InpSources,  \* source files
    InpHomes,    \* Cargo homes a run may start with
    InpTargets,  \* Cargo target directories a run may start with
    InpEnvs,     \* sets of environment variables a run may start with
    InpTouches   \* bound: changes to the disk

InpPackages == DOMAIN InpRoot

ASSUME InpAssumption ==
    /\ {"site", "ssg"} \subseteq InpPackages
    /\ InpProject \in Seq(STRING)
    /\ \A p \in InpPackages : InpRoot[p] \in Seq(STRING)
    /\ \A f \in InpOptional \cup InpSources : f \in Seq(STRING)

InpManifests == {InpProject \o <<n>> : n \in {"pliego.toml", "Cargo.toml", "Cargo.lock"}}
InpFiles == InpOptional \cup InpManifests \cup InpSources
InpPrefixes(path) == {SubSeq(path, 1, i) : i \in 1..Len(path)}
InpDirs == UNION {InpPrefixes(f) : f \in InpFiles} \ InpFiles

VARIABLES
    inpDisk,   \* path -> [kind: "dir" | "file" | "link" | "none", v]
    inpGraph,  \* the path dependencies the manifests on disk declare
    inpEnv,    \* the process: Cargo home, target directory, environment
    inpRun,    \* the build: where it is, metadata's graph, what it captured
    inpUsed,   \* history: what the compiler read, with the graph it resolved
    inpLeft    \* changes left

inpVars == <<inpDisk, inpGraph, inpEnv, inpRun, inpUsed, inpLeft>>

InpInit ==
    /\ \E present \in SUBSET InpOptional :
          inpDisk = [p \in InpFiles \cup InpDirs |->
                        [kind |-> IF p \in InpDirs THEN "dir"
                                  ELSE IF p \in InpOptional \ present THEN "none" ELSE "file",
                         v |-> 1]]
    /\ inpGraph = InpDepends
    /\ inpEnv \in [home : InpHomes, target : InpTargets, vars : InpEnvs]
    /\ inpRun = [pc |-> "start", graph |-> inpGraph, specs |-> {}, evidence |-> <<>>]
    /\ inpUsed = [files |-> {}, graph |-> inpGraph]
    /\ inpLeft = InpTouches

-----------------------------------------------------------------------------
(* Paths.                                                                  *)

InpAt(path) == IF path \in DOMAIN inpDisk THEN inpDisk[path].kind ELSE "none"

InpBelow(path, root) == IsPrefix(root, path)
InpOverlaps(a, b) == InpBelow(a, b) \/ InpBelow(b, a)

\* canonical_unlinked_directory: no component is a link or a file.
InpUnlinked(path, allowMissing) ==
    /\ \A q \in InpPrefixes(path) : InpAt(q) \in {"dir", "none"}
    /\ allowMissing \/ InpAt(path) = "dir"

\* existing_regular_file_beneath: "none", "file", or "error" for a link or
\* anything that is neither a directory on the way nor a file at the end.
InpBeneath(root, name) ==
    LET path == root \o name
        way == {SubSeq(path, 1, i) : i \in (Len(root) + 1)..(Len(path) - 1)}
    IN  IF \E q \in way : InpAt(q) \in {"link", "file"} THEN "error"
        ELSE IF InpAt(path) \in {"none", "file"} THEN InpAt(path)
        ELSE "error"

\* validate_generated_write_paths.
InpGeneratedClear ==
    \A g \in {InpOutput, InpState} : \A q \in InpPrefixes(g) : InpAt(InpProject \o q) \in {"dir", "none"}

\* validate_loaded_context: the root and pliego.toml as they were discovered;
\* every edit of pliego.toml is taken to change what it says.
InpContextLoaded ==
    /\ InpUnlinked(InpProject, FALSE)
    /\ inpDisk[InpProject \o <<"pliego.toml">>] = [kind |-> "file", v |-> 1]

\* forbidden_build_environment_name.
InpForbidden(name) ==
    \/ name \in {"RUSTC", "RUSTC_WRAPPER", "RUSTC_WORKSPACE_WRAPPER", "RUSTC_BOOTSTRAP",
                 "RUSTFLAGS", "CARGO_ENCODED_RUSTFLAGS", "CARGO_INCREMENTAL"}
    \/ name \in {"CARGO_BUILD_", "CARGO_PROFILE_", "CARGO_TARGET_"}   \* by prefix, but CARGO_TARGET_DIR

\* validate_reproducible_command_context.
InpReproducible ==
    /\ \A name \in inpEnv.vars : ~InpForbidden(name)
    /\ InpContextLoaded
    /\ InpGeneratedClear

\* effective_configuration_materials: a file of an ancestor, unless it is the
\* Cargo home's own, and the files of the home.
InpAncestors == {SubSeq(InpProject, 1, i) : i \in 0..Len(InpProject)}

InpConfigPlaces ==
    {<<root, <<".cargo", "config.toml">>>> : root \in InpAncestors} \cup {<<inpEnv.home, <<"config.toml">>>>}

\* configured_cargo_build_targets: no configuration file is a link or worse.
InpConfigReadable == \A c \in InpConfigPlaces : InpBeneath(c[1], c[2]) /= "error"

\* cargo_owned_target_children, looks_like_rust_target_triple; targets that
\* only a configuration file names are not among them.
InpCargoOwned == {"debug", "release", "doc", "package", "tmp", "wasm32-unknown-unknown"}

\* validate_cargo_target_directory: below the default target/ the generated
\* directories avoid Cargo's own; any other target directory avoids them.
InpTargetValid ==
    /\ InpUnlinked(inpEnv.target, TRUE)
    /\ IF inpEnv.target = InpProject \o <<"target">>
       THEN InpConfigReadable /\ \A g \in {InpOutput, InpState} : g[2] \notin InpCargoOwned
       ELSE \A g \in {InpOutput, InpState} : ~InpOverlaps(inpEnv.target, InpProject \o g)

-----------------------------------------------------------------------------
(* The selection.                                                          *)

\* reachable_package_ids: what the site's package reaches in a graph.
InpReachable(graph) ==
    {p \in InpPackages :
        \A closed \in SUBSET InpPackages :
            "site" \in closed /\ (\A q \in closed : graph[q] \subseteq closed) => p \in closed}

InpConfigFiles == {at[1] \o at[2] : at \in {c \in InpConfigPlaces : InpBeneath(c[1], c[2]) = "file"}}

\* Path packages outside the project, captured as whole trees.
InpTrees(graph) == {p \in InpReachable(graph) : p = "ssg" \/ ~InpBelow(InpRoot[p], InpProject)}

\* cargo_input_selection_with_home, when it is refused.
InpSelectionFails ==
    \/ ~InpUnlinked(InpProject, FALSE) \/ ~InpUnlinked(inpEnv.home, TRUE)
    \/ InpOverlaps(inpEnv.home, InpProject)
    \/ ~InpConfigReadable
    \/ \E n \in {"pliego.toml", "Cargo.toml", "Cargo.lock"} : InpBeneath(InpProject, <<n>>) /= "file"
    \/ \E p \in InpTrees(inpRun.graph) :
          \/ ~InpUnlinked(InpRoot[p], FALSE)
          \/ InpBelow(InpProject, InpRoot[p])
          \/ \E q \in InpTrees(inpRun.graph) \ {p} : InpOverlaps(InpRoot[p], InpRoot[q])

\* cargo_input_selection: configuration files and package trees.
InpSelection ==
    [files |-> InpManifests \cup InpConfigFiles, trees |-> InpTrees(inpRun.graph)]

\* capture_build_context_with_materials: the contents of every selected file,
\* of the selected trees and of the project itself.  A link is refused.
InpSelectedPaths(selection) ==
    selection.files \cup {f \in InpFiles :
                            \/ InpBelow(f, InpProject)
                            \/ \E p \in selection.trees : InpBelow(f, InpRoot[p])}

InpCapturable(selection) == \A f \in InpSelectedPaths(selection) : InpAt(f) \in {"file", "none"}

InpEvidence(selection) ==
    [f \in {g \in InpSelectedPaths(selection) : InpAt(g) = "file"} |-> inpDisk[f].v]

\* resolved_framework_package, resolved_framework_evidence: exactly one
\* framework package, and a local one has its tree among the materials.
InpFrameworkKnown(selection) == "ssg" \in InpReachable(inpRun.graph) /\ "ssg" \in selection.trees

-----------------------------------------------------------------------------
(* The build.                                                              *)

\* prepare_cargo_metadata: the graph the manifests declare now.
InpMetadata ==
    /\ inpRun.pc = "start" /\ InpReproducible /\ InpTargetValid
    /\ inpRun' = [inpRun EXCEPT !.pc = "resolved", !.graph = inpGraph]
    /\ UNCHANGED <<inpDisk, inpGraph, inpEnv, inpUsed, inpLeft>>

\* capture_project_build_context.
InpCapture ==
    /\ inpRun.pc = "resolved"
    /\ ~InpSelectionFails /\ InpCapturable(InpSelection) /\ InpFrameworkKnown(InpSelection)
    /\ inpRun' = [inpRun EXCEPT !.pc = "captured", !.specs = InpSelection,
                                !.evidence = InpEvidence(InpSelection)]
    /\ UNCHANGED <<inpDisk, inpGraph, inpEnv, inpUsed, inpLeft>>

\* Mutant: only the files captured before are looked at again.
InpRevalidatedFiles ==
    /\ InpReproducible /\ InpTargetValid /\ InpCapturable(inpRun.specs)
    /\ InpEvidence(inpRun.specs) = inpRun.evidence

\* revalidate_build_inputs: the same selection again, and the same contents.
InpRevalidated ==
    /\ InpReproducible /\ InpTargetValid
    /\ ~InpSelectionFails /\ InpSelection = inpRun.specs
    /\ InpCapturable(inpRun.specs) /\ InpEvidence(inpRun.specs) = inpRun.evidence

InpAdmit ==
    /\ inpRun.pc = "captured" /\ InpRevalidated
    /\ inpRun' = [inpRun EXCEPT !.pc = "admitted"]
    /\ UNCHANGED <<inpDisk, inpGraph, inpEnv, inpUsed, inpLeft>>

\* What Cargo and the compiler read, through links too: the project, every
\* configuration file that applies and every package the manifests reach.
InpCompile ==
    /\ inpRun.pc = "admitted"
    /\ inpUsed' = [graph |-> inpGraph,
                   files |-> {<<f, inpDisk[f].v>> :
                                f \in {g \in InpFiles :
                                        /\ InpAt(g) \in {"file", "link"}
                                        /\ \/ InpBelow(g, InpProject)
                                           \/ \E c \in InpConfigPlaces : g = c[1] \o c[2]
                                           \/ \E p \in InpReachable(inpGraph) : InpBelow(g, InpRoot[p])}}]
    /\ inpRun' = [inpRun EXCEPT !.pc = "compiled"]
    /\ UNCHANGED <<inpDisk, inpGraph, inpEnv, inpLeft>>

InpFinish ==
    /\ inpRun.pc = "compiled" /\ InpRevalidated
    /\ inpRun' = [inpRun EXCEPT !.pc = "done"]
    /\ UNCHANGED <<inpDisk, inpGraph, inpEnv, inpUsed, inpLeft>>

InpRefuse ==
    /\ \/ inpRun.pc = "start" /\ ~(InpReproducible /\ InpTargetValid)
       \/ inpRun.pc = "resolved" /\ (InpSelectionFails \/ ~InpCapturable(InpSelection)
                                     \/ ~InpFrameworkKnown(InpSelection))
       \/ inpRun.pc \in {"captured", "compiled"} /\ ~InpRevalidated
       \/ inpRun.pc = "admitted"   \* a command fails
    /\ inpRun' = [inpRun EXCEPT !.pc = "refused"]
    /\ UNCHANGED <<inpDisk, inpGraph, inpEnv, inpUsed, inpLeft>>

-----------------------------------------------------------------------------
(* The world.  A change gives contents a version they never had.           *)

InpTouch ==
    /\ inpLeft > 0 /\ inpRun.pc \notin {"done", "refused"}
    /\ \E f \in InpFiles, kind \in {"file", "none", "link"} :
          inpDisk' = [inpDisk EXCEPT ![f] = [kind |-> kind, v |-> @.v + 1]]
    /\ inpLeft' = inpLeft - 1
    /\ UNCHANGED <<inpGraph, inpEnv, inpRun, inpUsed>>

\* A manifest is edited to depend on one more local package, with its lock.
InpDepend ==
    /\ inpLeft > 0 /\ inpRun.pc \notin {"done", "refused"}
    /\ \E p \in InpPackages \ (inpGraph["site"] \cup {"site"}) :
          inpGraph' = [inpGraph EXCEPT !["site"] = @ \cup {p}]
    /\ inpDisk' = [f \in DOMAIN inpDisk |->
                      IF f \in {InpProject \o <<"Cargo.toml">>, InpProject \o <<"Cargo.lock">>}
                      THEN [inpDisk[f] EXCEPT !.v = @ + 1] ELSE inpDisk[f]]
    /\ inpLeft' = inpLeft - 1
    /\ UNCHANGED <<inpEnv, inpRun, inpUsed>>

InpNext ==
    \/ InpMetadata \/ InpCapture \/ InpAdmit \/ InpCompile \/ InpFinish \/ InpRefuse
    \/ InpTouch \/ InpDepend

InpSpec == InpInit /\ [][InpNext]_inpVars

-----------------------------------------------------------------------------
(* Properties.                                                             *)

\* The evidence of a build that finished names every file its commands read,
\* at the version they read, whatever appeared, changed, vanished or became a
\* link between the capture, the two revalidations and the compilation.  Two
\* windows are left: a file that came after one revalidation and is gone at the
\* next, and a package the manifests came to reach after Cargo's metadata was
\* read.
InpNothingIsUnobserved ==
    inpRun.pc = "done" =>
        \A use \in inpUsed.files :
            \/ use[1] \in DOMAIN inpRun.evidence /\ inpRun.evidence[use[1]] = use[2]
            \/ use[1] \notin DOMAIN inpRun.evidence /\ inpDisk[use[1]].kind = "none"
            \/ \E p \in InpReachable(inpUsed.graph) \ InpReachable(inpRun.graph) :
                  InpBelow(use[1], InpRoot[p])

-----------------------------------------------------------------------------
(* What makes InpNothingIsUnobserved inductive.                            *)

InpTypes ==
    /\ inpDisk \in [InpFiles \cup InpDirs -> [kind : {"dir", "file", "link", "none"}, v : Nat \ {0}]]
    /\ DOMAIN inpRun = {"pc", "graph", "specs", "evidence"}

\* Where the build looks: what it selected, and where configuration may appear.
InpWatched == InpSelectedPaths(inpRun.specs) \cup {c[1] \o c[2] : c \in InpConfigPlaces}

\* A file is captured at the version it has or one it had.
InpCapturedBefore ==
    inpRun.pc \in {"captured", "admitted", "compiled"} =>
        \A f \in DOMAIN inpRun.evidence :
            f \in InpFiles \cup InpDirs /\ inpRun.evidence[f] \in Nat /\ inpDisk[f].v >= inpRun.evidence[f]

\* A version the compiler read lies between the one captured and the one on
\* disk.
InpReadBetween ==
    inpRun.pc = "compiled" =>
        \A use \in inpUsed.files :
            /\ use[1] \in InpFiles /\ use[2] \in Nat \ {0} /\ use[2] <= inpDisk[use[1]].v
            /\ use[1] \in InpWatched \/ \E p \in InpReachable(inpUsed.graph) : InpBelow(use[1], InpRoot[p])
            /\ use[1] \in DOMAIN inpRun.evidence => inpRun.evidence[use[1]] <= use[2]

InpInvariant == InpTypes /\ InpCapturedBefore /\ InpReadBetween /\ InpNothingIsUnobserved
================================================================================
