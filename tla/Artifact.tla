------------------------------- MODULE Artifact -------------------------------
(***************************************************************************)
(* pliego-artifact: portable paths and namespaces, the evidence captured   *)
(* from a project tree, receipts, build graphs, and what verifying an      *)
(* output directory compares.  A path is a sequence of components; what    *)
(* Unicode normalisation and case folding do to a component is ArtNames.   *)
(* SHA-256 is taken to be injective: a digest is the value it digests.     *)
(***************************************************************************)
EXTENDS Naturals, Sequences, SequencesExt, FiniteSets

CONSTANTS
    ArtNames,          \* component |-> [nfc, key, sensitive]; others are not portable
    ArtMaxComponents,  \* MAX_PATH_COMPONENTS
    ArtMaxFiles        \* MAX_ARTIFACT_FILES

ArtLedger == <<"pliego.build.json">>
ArtGraph == <<"pliego.graph.json">>
ArtReserved == {".git", "target", "node_modules"}

-----------------------------------------------------------------------------
(* PortablePath and OutputNamespace.                                       *)

\* PortablePath::parse accepts it.
ArtPortable(p) ==
    /\ p /= <<>> /\ Len(p) <= ArtMaxComponents
    /\ \A i \in DOMAIN p : p[i] \in DOMAIN ArtNames

\* The path in NFC, and the key two spellings of one portable name share.
ArtNfc(p) == [i \in DOMAIN p |-> ArtNames[p[i]].nfc]
ArtKey(p) == [i \in DOMAIN p |-> ArtNames[p[i]].key]

ArtIsCanonical(p) == ArtPortable(p) /\ ArtNfc(p) = p

ArtDirs(p) == {SubSeq(p, 1, n) : n \in 1..(Len(p) - 1)}

\* The files a namespace accepts one after another: no two of one key, none
\* that is a directory of another, no directory in two spellings.
ArtNamespace(files) ==
    /\ \A i \in DOMAIN files : ArtPortable(files[i])
    /\ \A i, j \in DOMAIN files : i /= j =>
          /\ ArtKey(files[i]) /= ArtKey(files[j])
          /\ \A d \in ArtDirs(files[i]) :
                /\ ArtKey(d) /= ArtKey(files[j])
                /\ \A e \in ArtDirs(files[j]) : ArtKey(d) = ArtKey(e) => ArtNfc(d) = ArtNfc(e)

ArtFileSet(paths) == ArtNamespace(SetToSeq(paths)) /\ \A p \in paths : ArtIsCanonical(p)

-----------------------------------------------------------------------------
(* Capturing evidence.  A tree maps a path to [kind, version, links].      *)

ArtIgnored(p, excluded) == p[1] \in ArtReserved \/ \E e \in excluded : IsPrefix(e, p)

\* reject_reserved_root_alias: target is ignored, Target is refused.
ArtAliasesReserved(c) ==
    c \notin ArtReserved /\ \E r \in ArtReserved : ArtNames[c].key = ArtNames[r].key

\* open_regular_beneath and hash_open_file_stable, of a file nobody else links.
ArtReadable(t, p) == p \in DOMAIN t /\ t[p].kind = "file" /\ t[p].links = 1

ArtSensitive(p) == ArtNames[p[Len(p)]].sensitive

\* The walk of collect_project_directory and the configuration files read
\* before it: one entry that is refused refuses the capture.
ArtCapturable(t, configuration, excluded) ==
    LET seen == {p \in DOMAIN t : ~ArtIgnored(p, excluded)} IN
    /\ \A p \in DOMAIN t : p[1] \in DOMAIN ArtNames /\ ~ArtAliasesReserved(p[1])
    /\ \A p \in configuration : ArtReadable(t, p) /\ ~ArtSensitive(p)
    /\ \A p \in seen \ configuration :
          ArtIsCanonical(p) /\ ArtReadable(t, p) /\ ~ArtSensitive(p)
    /\ Cardinality(seen) <= ArtMaxFiles

ArtEvidence(t, paths) == [p \in paths |-> t[p].version]

\* source_set_sha256.
ArtSourceSet(sources, materials) == <<sources, materials>>

\* normalize_material_specs and capture_input_material: an exact selection
\* reads its files, a tree all that is not excluded; never both.
ArtSpecValid(specs) ==
    \A id \in DOMAIN specs :
        /\ specs[id].included = {} \/ specs[id].excluded = {}
        /\ ArtFileSet(specs[id].included) /\ ArtFileSet(specs[id].excluded)

ArtMaterial(spec, t) ==
    LET paths == IF spec.included = {}
                 THEN {p \in DOMAIN t : ~ArtIgnored(p, spec.excluded)} ELSE spec.included
    IN [selection |-> IF spec.included = {} THEN "tree-v1" ELSE "exact-files-v1",
        files |-> ArtEvidence(t, paths)]

ArtMaterialCaptured(spec, t) ==
    IF spec.included = {} THEN ArtCapturable(t, {}, spec.excluded)
    ELSE \A p \in spec.included : ArtReadable(t, p) /\ ~ArtSensitive(p)

\* capture_build_context_with_materials, once nothing is refused.
ArtCapture(owner, framework, project, specs) ==
    LET sources == ArtEvidence(project.tree,
            {p \in DOMAIN project.tree : ~ArtIgnored(p, project.excluded)} \ project.configuration)
        materials == [id \in DOMAIN specs |-> ArtMaterial(specs[id], project.outside[id])]
    IN [owner |-> owner, framework |-> framework, toolchain |-> project.tools,
        configuration |-> ArtEvidence(project.tree, project.configuration),
        sources |-> sources, materials |-> materials,
        sourceSet |-> ArtSourceSet(sources, materials), excluded |-> project.excluded]

\* normalize_context, of a context whose lists are maps.
ArtContextValid(c) ==
    /\ {"cargo", "rustc"} \subseteq DOMAIN c.toolchain
    /\ DOMAIN c.toolchain \subseteq {"cargo", "rustc", "wasm-bindgen"}
    /\ ArtFileSet(DOMAIN c.configuration \cup DOMAIN c.sources)
    /\ \A id \in DOMAIN c.materials : c.materials[id].files /= <<>>
    /\ \A e \in c.excluded : ArtIsCanonical(e)
    /\ c.sourceSet = ArtSourceSet(c.sources, c.materials)

ArtCaptured(project, specs) ==
    /\ ArtCapturable(project.tree, project.configuration, project.excluded)
    /\ ArtSpecValid(specs)
    /\ \A id \in DOMAIN specs : ArtMaterialCaptured(specs[id], project.outside[id])

\* Mutant: the second capture compares the sources and forgets the configuration.
ArtInputsUnchangedSources(project, specs, expected) ==
    /\ ArtCaptured(project, specs)
    /\ ArtCapture(expected.owner, expected.framework, project, specs).sources = expected.sources

\* verify_build_context_with_materials: capture again, compare everything.
ArtInputsUnchanged(project, specs, expected) ==
    /\ ArtCaptured(project, specs)
    /\ ArtCapture(expected.owner, expected.framework, project, specs) = expected

\* validate_invocation: the output is not an input, the material roots stand
\* apart from one another and from the project.
ArtInvocationValid(output, context, specs) ==
    /\ ArtIsCanonical(output) /\ output \in context.excluded
    /\ DOMAIN specs = DOMAIN context.materials
    /\ \A id \in DOMAIN specs :
          context.materials[id].selection =
              IF specs[id].included = {} THEN "tree-v1" ELSE "exact-files-v1"
    /\ \A id, other \in {s \in DOMAIN specs : specs[s].included = {}} :
          /\ ~IsPrefix(specs[id].root, <<"project">>) /\ ~IsPrefix(<<"project">>, specs[id].root)
          /\ id /= other => ~IsPrefix(specs[id].root, specs[other].root)

-----------------------------------------------------------------------------
(* Receipts, reports and graphs.                                           *)

\* validate_outputs: files maps a path to [kind, producer, bytes].
ArtOutputsValid(files) ==
    /\ Cardinality(DOMAIN files) <= ArtMaxFiles
    /\ ArtLedger \notin DOMAIN files
    /\ ArtFileSet(DOMAIN files \cup {ArtLedger})
    /\ \A p \in DOMAIN files : files[p].kind /= "" /\ files[p].producer /= <<>>

ArtReceipt(context, files, previous) ==
    [context |-> context, policy |-> context.owner, previous |-> previous, files |-> files]

ArtSameCore(a, b) ==
    a.context = b.context /\ a.policy = b.policy /\ a.files = b.files

NoPrevious == [owner |-> "none", sha |-> <<>>]
ArtReport(receipt) == [receipt |-> receipt, sha |-> <<receipt>>]

\* validate_report.
ArtReportValid(r) ==
    /\ ArtContextValid(r.receipt.context)
    /\ ArtOutputsValid(r.receipt.files)
    /\ r.sha = <<r.receipt>>
    /\ r.receipt.policy = r.receipt.context.owner
    /\ r.receipt.previous /= NoPrevious =>
          /\ r.receipt.previous.owner = r.receipt.policy
          /\ r.receipt.previous.sha /= r.sha

\* validate_graph_dependencies.
ArtDependenciesValid(d, sources) == d.all \/ (d.paths /= {} /\ d.paths \subseteq sources)

\* validate_build_graph: a route and its artifact agree on their edge.
ArtGraphValid(g) ==
    /\ Cardinality(DOMAIN g.artifacts) <= ArtMaxFiles
    /\ \A p \in DOMAIN g.sources : ArtIsCanonical(p)
    /\ \A r \in DOMAIN g.routes :
          /\ ArtDependenciesValid(g.routes[r].sources, DOMAIN g.sources)
          /\ g.routes[r].artifacts \subseteq DOMAIN g.artifacts
          /\ \A p \in g.routes[r].artifacts :
                g.artifacts[p].route = r /\ g.artifacts[p].sources = g.routes[r].sources
    /\ \A p \in DOMAIN g.artifacts :
          /\ ArtIsCanonical(p)
          /\ g.artifacts[p].route /= <<>> => g.artifacts[p].route \in DOMAIN g.routes
          /\ ArtDependenciesValid(g.artifacts[p].sources, DOMAIN g.sources)

\* validate_build_graph_against_report.
ArtGraphMatches(g, r) ==
    LET files == r.receipt.files IN
    /\ ArtGraphValid(g) /\ ArtReportValid(r)
    /\ g.owner = r.receipt.context.owner /\ g.sourceSet = r.receipt.context.sourceSet
    /\ g.sources = r.receipt.context.sources
    /\ DOMAIN g.artifacts = DOMAIN files \ {ArtGraph}
    /\ \A p \in DOMAIN g.artifacts :
          /\ g.artifacts[p].kind = files[p].kind /\ g.artifacts[p].producer = files[p].producer
          /\ g.artifacts[p].bytes = files[p].bytes

-----------------------------------------------------------------------------
(* verify_build_report, of a directory [id, files, dirs, report]: files    *)
(* maps a path on disk to [bytes, links].                                  *)

ArtExpectedDirs(paths) == UNION {ArtDirs(p) : p \in paths}

ArtVerified(d) ==
    LET expected == d.report.receipt.files IN
    /\ ArtReportValid(d.report)
    /\ DOMAIN d.files = DOMAIN expected
    /\ d.dirs \subseteq ArtExpectedDirs(DOMAIN expected)
    /\ ArtFileSet(DOMAIN d.files)
    /\ \A p \in DOMAIN d.files : d.files[p].bytes = expected[p].bytes /\ d.files[p].links = 1
================================================================================
