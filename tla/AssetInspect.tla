------------------------------ MODULE AssetInspect ------------------------------
(***************************************************************************)
(* pliego-inspect: the manifest of a work's assets is checked against      *)
(* itself, its budgets, and the files of a directory that may change while *)
(* it is read; a baseline puts the reports of several works together.      *)
(*                                                                         *)
(* A path is a sequence of components; the manifest may spell one with a   *)
(* dot the directory walk never produces.  Sizes are counted in a width of *)
(* InsWidth bits and saturate.                                             *)
(***************************************************************************)
EXTENDS Naturals, Sequences, FiniteSets, FiniteSetsExt, SequencesExt

CONSTANTS
    InsFiles,       \* files of the directory: their paths, extensions and first contents
    InsSize,        \* sizes of the contents a file may have
    InsManifests,   \* manifests inspected, by the name of the work they are kept for
    InsTargets,     \* target sets: sequences of [id, work, confined]
    InsWidth,       \* bits of a size
    InsTouches      \* bound: changes to the directory

VARIABLES
    insDisk,    \* per file: "none", "link" or the content it has
    insRun,     \* the inspection under way
    insSeen,    \* history: what each file has been since verification began
    insBase,    \* the baseline report, or why there is none
    insLeft

insVars == <<insDisk, insRun, insSeen, insBase, insLeft>>

InsMax == 2^InsWidth - 1

\* The walk of a directory meets no dot, and a content is neither of the words
\* for no file and a link.
ASSUME InsFilesAssumption ==
    /\ \A f \in DOMAIN InsFiles : "." \notin ToSet(InsFiles[f].path)
    /\ {"none", "link"} \cap DOMAIN InsSize = {}

\* Sizes and limits have the width of a size.
ASSUME InsManifestsAssumption ==
    /\ InsMax \in Nat
    /\ \A w \in DOMAIN InsManifests :
          LET m == InsManifests[w]
          IN  /\ m.variants \in Seq(ToSet(m.variants))
              /\ \A v \in ToSet(m.variants) : v.bytes \in 0..InsMax /\ v.path \in Seq(ToSet(v.path))
              /\ \A b \in m.budgets : b.limit \subseteq 0..InsMax

InsIdle == [at |-> "idle"]

InsInit ==
    /\ insDisk = [f \in DOMAIN InsFiles |-> InsFiles[f].first]
    /\ insRun = InsIdle /\ insSeen = [f \in DOMAIN InsFiles |-> {}]
    /\ insBase = InsIdle /\ insLeft = InsTouches

-----------------------------------------------------------------------------
(* The manifest.                                                           *)

\* validate_relative_path lets a dot component pass.
InsPathOk(path) == path /= <<>> /\ ".." \notin ToSet(path)
InsNamed(path) == FoldLeft(LAMBDA kept, c : IF c = "." THEN kept ELSE Append(kept, c), <<>>, path)

InsDistinct(seq, Field(_)) == IsInjective([i \in DOMAIN seq |-> Field(seq[i])])
InsKnown(m) == {v.id : v \in ToSet(m.variants)}
InsDeclared(m) == {v.path : v \in ToSet(m.variants)}

\* The variant of an id: one declared twice counts as the last.
InsVariant(m, id) == m.variants[Max({i \in DOMAIN m.variants : m.variants[i].id = id})]

\* The extensions as they are compared: trackedExtensions is folded too.
InsLower(ext) == IF ext = ".PNG" THEN ".png" ELSE ext

\* inspect: identities, paths, digests, tiers and fallbacks of the variants;
\* sound stands for the version, the spelling of identifiers and routes, the ids
\* of assets and budgets, and the reasons of exclusions.
InsVariantsOk(m) ==
    /\ m.sound
    /\ InsDistinct(m.variants, LAMBDA v : v.id) /\ InsDistinct(m.variants, LAMBDA v : v.path)
    /\ \A v \in ToSet(m.variants) :
          /\ InsPathOk(v.path) /\ v.digest /= "malformed"
          /\ v.tiers /= <<>> /\ IsInjective(v.tiers)
          /\ v.id \notin v.fallbackFor
          /\ v.fallbackFor \subseteq InsKnown(m)

\* Coverage: distinct extensions, reasoned exclusions, of nothing declared.
InsCoverageOk(m) ==
    /\ InsDistinct(m.extensions, InsLower)
    /\ InsDistinct(m.excluded, LAMBDA x : x)
    /\ \A x \in ToSet(m.excluded) : InsPathOk(x) /\ x \notin InsDeclared(m)

InsPlus(a, b) == Min({a + b, InsMax})
InsTotal(variants) == FoldLeft(LAMBDA sum, v : InsPlus(sum, v.bytes), 0, variants)

\* The variants a budget counts: each named one once, if it is declared.
InsCounted(m, b) ==
    LET once == SetToSeq(ToSet(b.variants) \cap InsKnown(m))
    IN  [i \in DOMAIN once |-> InsVariant(m, once[i])]

\* A budget has a limit and names declared variants of its tier and phase, once.
InsBudgetOk(m, b) ==
    /\ b.limit /= {} /\ IsInjective(b.variants)
    /\ ToSet(b.variants) \subseteq InsKnown(m)
    /\ \A v \in ToSet(InsCounted(m, b)) :
          b.tier \in ToSet(v.tiers) /\ b.phase = v.delivery

InsBudgetPasses(m, b) == \A max \in b.limit : InsTotal(InsCounted(m, b)) <= max

\* inspect without files: every issue makes the report invalid.
InsMetadata(m) ==
    [at |-> "reported", manifest |-> m, files |-> FALSE,
     valid |-> InsVariantsOk(m) /\ InsCoverageOk(m) /\ \A b \in m.budgets : InsBudgetOk(m, b),
     pass |-> \A b \in m.budgets : InsBudgetPasses(m, b), total |-> InsTotal(m.variants),
     todo |-> {}, left |-> {}, found |-> {}]

-----------------------------------------------------------------------------
(* verify_files.                                                           *)

\* inspect_path: a manifest above its limit is refused; then the asset root.
InsInspect ==
    /\ insRun.at = "idle"
    /\ \E w \in DOMAIN InsManifests, files \in BOOLEAN :
          LET m == InsManifests[w]
              report == InsMetadata(m)
          IN  IF m.large THEN insRun' = [at |-> "refused"]
              ELSE IF ~files THEN insRun' = report
              ELSE insRun' = [report EXCEPT !.at = "hash", !.files = TRUE, !.todo = InsKnown(m),
                                            !.left = DOMAIN InsFiles]
    /\ insSeen' = [f \in DOMAIN InsFiles |-> {insDisk[f]}]
    /\ UNCHANGED <<insDisk, insBase, insLeft>>

\* hash_confined_file: a real file below the root, opened without following a
\* link, with the declared size and digest.
InsMatches(v) ==
    \E f \in DOMAIN InsFiles : /\ InsFiles[f].path = InsNamed(v.path)
                               /\ insDisk[f] = v.digest /\ v.bytes = InsSize[v.digest]

InsHash ==
    /\ insRun.at = "hash"
    /\ \/ \E id \in insRun.todo :
             insRun' = [insRun EXCEPT !.todo = @ \ {id},
                            !.valid = @ /\ InsMatches(InsVariant(insRun.manifest, id))]
       \/ insRun.todo = {} /\ insRun' = [insRun EXCEPT !.at = "scan"]
    /\ UNCHANGED <<insDisk, insSeen, insBase, insLeft>>

\* Mutant: the extension of a file is compared as it is spelled.
InsTrackedExact(m, f) == InsFiles[f].ext \in {InsLower(e) : e \in ToSet(m.extensions)}

InsTracked(m, f) == InsLower(InsFiles[f].ext) \in {InsLower(e) : e \in ToSet(m.extensions)}

\* collect_tracked_files meets the entries one by one; a link ends the walk
\* with an issue and nothing else is compared.
InsScan ==
    /\ insRun.at = "scan"
    /\ \E f \in insRun.left :
          insRun' = IF insDisk[f] = "link" THEN [insRun EXCEPT !.at = "reported", !.valid = FALSE]
                    ELSE [insRun EXCEPT !.left = @ \ {f}, !.found = @ \cup
                             (IF insDisk[f] /= "none" /\ InsTracked(insRun.manifest, f)
                              THEN {InsFiles[f].path} ELSE {})]
    /\ UNCHANGED <<insDisk, insSeen, insBase, insLeft>>

\* What was found is declared or excluded, and what is declared was found.
InsCompare ==
    /\ insRun.at = "scan" /\ insRun.left = {}
    /\ LET m == insRun.manifest
       IN  insRun' = [insRun EXCEPT !.at = "reported",
                 !.valid = @ /\ insRun.found \subseteq InsDeclared(m) \cup ToSet(m.excluded)
                             /\ InsDeclared(m) \subseteq insRun.found]
    /\ UNCHANGED <<insDisk, insSeen, insBase, insLeft>>

InsReset ==
    /\ insRun.at \in {"reported", "refused"}
    /\ insRun' = InsIdle /\ insSeen' = [f \in DOMAIN InsFiles |-> {}]
    /\ UNCHANGED <<insDisk, insBase, insLeft>>

\* Someone works in the directory.
InsTouch ==
    /\ insLeft > 0 /\ insRun.at \in {"hash", "scan"}
    /\ \E f \in DOMAIN InsFiles, now \in {"none", "link"} \cup DOMAIN InsSize :
          /\ now /= insDisk[f]
          /\ insDisk' = [insDisk EXCEPT ![f] = now]
          /\ insSeen' = [insSeen EXCEPT ![f] = @ \cup {now}]
    /\ insLeft' = insLeft - 1 /\ UNCHANGED <<insRun, insBase>>

-----------------------------------------------------------------------------
(* baseline.                                                               *)

\* A target is a manifest below the target set's directory, of the work it names.
InsTargetOk(t) ==
    /\ t.confined /\ ~InsManifests[t.work].large
    /\ InsManifests[t.work].work = t.id

\* The sum of the targets is a plain sum: it wraps in a release build.
InsBaseline ==
    /\ insBase = InsIdle
    /\ \E ts \in InsTargets :
          LET reports == [i \in DOMAIN ts |-> InsMetadata(InsManifests[ts[i].work])]
          IN  insBase' =
                IF ~InsDistinct(ts, LAMBDA t : t.id) \/ \E i \in DOMAIN ts : ~InsTargetOk(ts[i])
                THEN [at |-> "refused"]
                ELSE [at |-> "reported", targets |-> ts,
                      valid |-> \A i \in DOMAIN ts : reports[i].valid,
                      pass |-> \A i \in DOMAIN ts : reports[i].pass,
                      total |-> FoldLeft(LAMBDA sum, r : (sum + r.total) % 2^InsWidth, 0, reports)]
    /\ UNCHANGED <<insDisk, insRun, insSeen, insLeft>>

InsNext ==
    \/ InsInspect \/ InsHash \/ InsScan \/ InsCompare \/ InsReset \/ InsTouch \/ InsBaseline

InsSpec == InsInit /\ [][InsNext]_insVars

-----------------------------------------------------------------------------
(* Properties.                                                             *)

InsExact(m, b) == MapThenSumSet(LAMBDA v : v.bytes, ToSet(InsCounted(m, b)))

\* A report that finds nothing wrong is true of a directory that changes while
\* it is read: a declared file had the declared content while it was verified,
\* one that was there all along under a tracked extension is declared or
\* excluded, and a budget that passes below the largest size fits, although
\* sizes saturate (verify_files, collect_tracked_files, within_limit).
InsCleanReportsHold ==
    (insRun.at = "reported" /\ insRun.valid) =>
        LET m == insRun.manifest
        IN  /\ insRun.files =>
                 /\ \A v \in ToSet(m.variants) : \E f \in DOMAIN InsFiles :
                       InsFiles[f].path = v.path /\ v.digest \in insSeen[f]
                 /\ \A f \in DOMAIN InsFiles :
                       (/\ insSeen[f] \subseteq DOMAIN InsSize
                        /\ InsLower(InsFiles[f].ext) \in {InsLower(e) : e \in ToSet(m.extensions)}) =>
                           InsFiles[f].path \in InsDeclared(m) \cup ToSet(m.excluded)
            /\ insRun.pass => \A b \in m.budgets : \A max \in b.limit \ {InsMax} : InsExact(m, b) <= max

-----------------------------------------------------------------------------
(* What makes InsCleanReportsHold inductive.                               *)

InsRunning == insRun.at \in {"hash", "scan", "reported"}

InsShape(r) ==
    r = [at |-> r.at, manifest |-> r.manifest, files |-> r.files, valid |-> r.valid, pass |-> r.pass,
         total |-> r.total, todo |-> r.todo, left |-> r.left, found |-> r.found]

\* What a report says of its manifest alone.
InsMetadataHolds(r) ==
    /\ \E w \in DOMAIN InsManifests : r.manifest = InsManifests[w]
    /\ r.valid => InsVariantsOk(r.manifest)
    /\ r.pass => \A b \in r.manifest.budgets : InsBudgetPasses(r.manifest, b)

\* A variant that was hashed had its content, under the name the root has for it.
InsHashed(r) ==
    \A id \in InsKnown(r.manifest) \ r.todo : \E f \in DOMAIN InsFiles :
        /\ InsFiles[f].path = InsNamed(InsVariant(r.manifest, id).path)
        /\ InsVariant(r.manifest, id).digest \in insSeen[f]

\* A tracked file the walk has passed was found, unless it was missing.
InsScanned(r) ==
    /\ r.left \subseteq DOMAIN InsFiles
    /\ \A p \in r.found : \E f \in DOMAIN InsFiles : p = InsFiles[f].path
    /\ \A f \in DOMAIN InsFiles \ r.left :
          insSeen[f] \subseteq DOMAIN InsSize /\ InsTracked(r.manifest, f) => InsFiles[f].path \in r.found

InsCompared(r) ==
    /\ r.left = {}
    /\ r.found \subseteq InsDeclared(r.manifest) \cup ToSet(r.manifest.excluded)
    /\ InsDeclared(r.manifest) \subseteq r.found

InsInvariant ==
    /\ insRun.at \in {"idle", "refused", "hash", "scan", "reported"}
    /\ DOMAIN insDisk = DOMAIN InsFiles /\ DOMAIN insSeen = DOMAIN InsFiles
    /\ InsRunning =>
          /\ InsShape(insRun) /\ InsMetadataHolds(insRun)
          /\ insRun.at = "reported" \/ insRun.files
          /\ insRun.files /\ insRun.valid => InsHashed(insRun) /\ InsScanned(insRun)
          /\ insRun.at /= "hash" => insRun.todo = {}
          /\ insRun.at = "reported" /\ insRun.files /\ insRun.valid => InsCompared(insRun)
    /\ insRun.at \in {"hash", "scan"} => \A f \in DOMAIN InsFiles : insDisk[f] \in insSeen[f]
=============================================================================
