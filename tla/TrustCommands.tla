----------------------------- MODULE TrustCommands -----------------------------
(***************************************************************************)
(* pliego doctor, report --bundle and upgrade --check (pliego-cli,         *)
(* trust.rs): commands that read a project while its author may be editing *)
(* it, and a bundle that is written beside its destination and renamed.    *)
(*                                                                         *)
(* A file is its form (what the commands tell apart) and an edit number:   *)
(* two edits never write the same bytes.                                   *)
(***************************************************************************)
EXTENDS Naturals, FiniteSets

CONSTANTS
    TruProcs,       \* commands that may run
    TruPid,         \* their process ids: a dead one's, or another container's, may be the same
    TruCommand,     \* the command each of them runs
    TruManifests,   \* forms of pliego.toml
    TruLocks,       \* forms of Cargo.lock
    TruBuilds,      \* forms of the build report
    TruToolsets,    \* sets of installed tools
    TruEdits,       \* bound: edits
    TruCrashes      \* bound: commands killed

ASSUME TruAssumption == TruEdits \in Nat /\ TruCrashes \in Nat

VARIABLES
    truDisk,    \* pliego.toml, Cargo.lock and the build report
    truTools,   \* installed tools
    truOut,     \* the report at the destination: {} or one bundle
    truTmp,     \* process ids whose temporary file exists
    truProc,    \* where each command is and what it has read
    truTogether,\* history: manifest and lock that were on disk at one time
    truLeft

truVars == <<truDisk, truTools, truOut, truTmp, truProc, truTogether, truLeft>>

TruFresh == [at |-> "start", manifest |-> {}, lock |-> {}, build |-> {}, doctor |-> {}, result |-> "none"]

TruInit ==
    /\ \E m \in TruManifests, l \in TruLocks, b \in TruBuilds :
          truDisk = [manifest |-> [form |-> m, edit |-> 0], lock |-> [form |-> l, edit |-> 0],
                     build |-> [form |-> b, edit |-> 0]]
    /\ truTools \in TruToolsets
    /\ truOut = {} /\ truTmp = {}
    /\ \E running \in SUBSET TruProcs :
          truProc = [p \in TruProcs |->
                        IF p \in running THEN TruFresh ELSE [TruFresh EXCEPT !.at = "off"]]
    /\ truTogether = {<<truDisk.manifest, truDisk.lock>>}
    /\ truLeft = [edits |-> TruEdits, crashes |-> TruCrashes]

TruGo(p, q) == truProc' = [truProc EXCEPT ![p] = q]
TruEnds(p, result) == TruGo(p, [TruFresh EXCEPT !.at = "done", !.result = result])
TruReads == UNCHANGED <<truDisk, truTools, truOut, truTmp, truTogether, truLeft>>

\* find_project_root: no manifest, no project.
TruFound == truDisk.manifest.form.there

\* validate_checked_manifest, after the strict schema.
TruManifestOk(m) == m.form.toml /\ m.form.fields

\* locked_packages.
TruLockOk(l) == l.form.there /\ l.form.toml

-----------------------------------------------------------------------------
(* doctor.                                                                 *)

TruDoctored(fails, quotes, saw, client) ==
    [fails |-> fails, quotes |-> quotes, saw |-> saw, client |-> client]

\* check_project: an invalid manifest is quoted by the parser's message, an
\* unsafe output path by its own; nothing is known of an invalid one's client.
TruDoctorManifest(p) ==
    /\ truProc[p].at = "doctor"
    /\ LET m == truDisk.manifest
       IN  IF ~TruFound THEN TruGo(p, [truProc[p] EXCEPT !.at = "tools",
                                           !.doctor = {TruDoctored({}, FALSE, m, FALSE)}])
           ELSE TruGo(p, [truProc[p] EXCEPT !.at = IF m.form.toml THEN "lockfile" ELSE "tools",
                    !.doctor = {TruDoctored(
                        (IF TruManifestOk(m) THEN {} ELSE {"manifest"})
                          \cup (IF m.form.toml /\ ~m.form.safe THEN {"output"} ELSE {}),
                        m.form.private /\ (~m.form.toml \/ ~m.form.safe), m,
                        m.form.toml /\ m.form.client)}])
    /\ TruReads

TruFail(p, at, ids) ==
    \E d \in truProc[p].doctor :
        TruGo(p, [truProc[p] EXCEPT !.at = at, !.doctor = {[d EXCEPT !.fails = @ \cup ids]}])

\* check_lockfile looks whether it is there, check_first_party_versions reads
\* it later, and skips the check if it is gone.
TruDoctorLockfile(p) ==
    /\ truProc[p].at = "lockfile"
    /\ TruFail(p, "versions", IF truDisk.lock.form.there THEN {} ELSE {"lockfile"})
    /\ TruReads

TruDoctorVersions(p) ==
    /\ truProc[p].at = "versions"
    /\ LET l == truDisk.lock.form
       IN  TruFail(p, "tools", IF l.there /\ (~l.toml \/ l.versions \ {"cli"} /= {}) THEN {"versions"} ELSE {})
    /\ TruReads

\* command_check and wasm_target_check: rustup and the client's tools are
\* required when the manifest declares a client.
TruNeeded(client) ==
    {"rustc", "cargo"} \cup (IF client THEN {"rustup", "wasm-target", "wasm-bindgen"} ELSE {})

TruDoctorTools(p) ==
    /\ truProc[p].at = "tools"
    /\ \E d \in truProc[p].doctor :
          LET fails == d.fails \cup (TruNeeded(d.client) \ truTools)
          IN  IF TruCommand[p] = "report"
              THEN TruGo(p, [truProc[p] EXCEPT !.at = "manifest", !.doctor = {[d EXCEPT !.fails = fails]}])
              ELSE TruGo(p, [TruFresh EXCEPT !.at = "done", !.doctor = {[d EXCEPT !.fails = fails]},
                                             !.result = IF fails = {} THEN "healthy" ELSE "failed"])
    /\ TruReads

-----------------------------------------------------------------------------
(* report --bundle.                                                        *)

TruStart(p) ==
    /\ truProc[p].at = "start"
    /\ \/ TruCommand[p] = "doctor" /\ TruGo(p, [TruFresh EXCEPT !.at = "doctor"])
       \/ TruCommand[p] = "report"
          /\ IF TruFound /\ truOut = {} THEN TruGo(p, [TruFresh EXCEPT !.at = "doctor"])
             ELSE TruEnds(p, "error")
       \/ TruCommand[p] = "upgrade"
          /\ IF TruFound THEN TruGo(p, [TruFresh EXCEPT !.at = "read"]) ELSE TruEnds(p, "error")
    /\ TruReads

\* validate_report_payload: bounded, without NUL, private paths or markers.
TruPayloadOk(f) == f.form.fits /\ ~f.form.private

TruReportManifest(p) ==
    /\ truProc[p].at = "manifest"
    /\ LET m == truDisk.manifest
       IN  IF TruFound /\ TruPayloadOk(m) /\ TruManifestOk(m)
           THEN TruGo(p, [truProc[p] EXCEPT !.at = "lock", !.manifest = {m}])
           ELSE TruEnds(p, "error")
    /\ TruReads

TruReportLock(p) ==
    /\ truProc[p].at = "lock"
    /\ IF TruLockOk(truDisk.lock) THEN TruGo(p, [truProc[p] EXCEPT !.at = "build", !.lock = {truDisk.lock}])
       ELSE TruEnds(p, "error")
    /\ TruReads

\* The build report is bundled if it may be, or named among the omissions; one
\* that cannot be read after it was found fails the report.
TruReportBuild(p) ==
    /\ truProc[p].at = "build"
    /\ LET b == truDisk.build.form
           fits == b.there /\ TruPayloadOk(truDisk.build) /\ b.json
       IN  \/ TruGo(p, [truProc[p] EXCEPT !.at = "write",
                           !.build = IF fits THEN {truDisk.build} ELSE {}])
           \/ b.there /\ TruEnds(p, "error")
    /\ TruReads

\* write_report_tar: a new temporary file, removed if it cannot be written.
TruReportWrite(p) ==
    /\ truProc[p].at = "write"
    /\ \/ TruPid[p] \notin truTmp
          /\ truTmp' = truTmp \cup {TruPid[p]}
          /\ TruGo(p, [truProc[p] EXCEPT !.at = "rename"])
       \/ TruEnds(p, "error") /\ UNCHANGED truTmp
    /\ UNCHANGED <<truDisk, truTools, truOut, truTogether, truLeft>>

\* rename replaces whatever came to the destination since it was looked at.
TruReportRename(p) ==
    /\ truProc[p].at = "rename" /\ truTmp' = truTmp \ {TruPid[p]}
    /\ \/ truOut' = {[manifest |-> truProc[p].manifest, lock |-> truProc[p].lock,
                      build |-> truProc[p].build, doctor |-> truProc[p].doctor]}
          /\ TruEnds(p, "bundled")
       \/ TruEnds(p, "error") /\ UNCHANGED truOut
    /\ UNCHANGED <<truDisk, truTools, truTogether, truLeft>>

-----------------------------------------------------------------------------
(* upgrade --check.                                                        *)

TruUpgradeManifest(p) ==
    /\ truProc[p].at = "read"
    /\ IF TruFound /\ TruManifestOk(truDisk.manifest)
       THEN TruGo(p, [truProc[p] EXCEPT !.at = "judge", !.manifest = {truDisk.manifest}])
       ELSE TruEnds(p, "error")
    /\ TruReads

\* The target is the running version, or one the running command cannot judge.
TruVerdict(l, target) ==
    IF l.form.versions = {} \/ target /= "cli" THEN "blocked"
    ELSE IF l.form.versions = {target} THEN "compatible" ELSE "migration-required"

TruUpgradeLock(p) ==
    /\ truProc[p].at = "judge"
    /\ IF TruLockOk(truDisk.lock)
       THEN \E target \in {"cli", "other"} :
               TruGo(p, [truProc[p] EXCEPT !.at = "recheck", !.lock = {truDisk.lock},
                                           !.result = TruVerdict(truDisk.lock, target)])
       ELSE TruEnds(p, "error")
    /\ TruReads

\* Mutant: only the lockfile is read again.
TruManifestUnchangedAssumed(p) == TRUE

\* Both files are read again before the verdict is given, one after the other.
TruManifestUnchanged(p) == truProc[p].manifest = {truDisk.manifest}
TruLockUnchanged(p) == truProc[p].lock = {truDisk.lock}

TruUpgradeRecheck(p) ==
    /\ truProc[p].at = "recheck"
    /\ IF TruManifestUnchanged(p) THEN TruGo(p, [truProc[p] EXCEPT !.at = "return"])
       ELSE TruEnds(p, "error")
    /\ TruReads

TruUpgradeReturn(p) ==
    /\ truProc[p].at = "return"
    /\ IF TruLockUnchanged(p) THEN TruGo(p, [truProc[p] EXCEPT !.at = "done"])
       ELSE TruEnds(p, "error")
    /\ TruReads

-----------------------------------------------------------------------------
(* Around the commands.                                                    *)

TruEdit ==
    /\ truLeft.edits > 0
    /\ LET n == 1 + TruEdits - truLeft.edits
       IN  \/ \E m \in TruManifests : truDisk' = [truDisk EXCEPT !.manifest = [form |-> m, edit |-> n]]
           \/ \E l \in TruLocks : truDisk' = [truDisk EXCEPT !.lock = [form |-> l, edit |-> n]]
           \/ \E b \in TruBuilds : truDisk' = [truDisk EXCEPT !.build = [form |-> b, edit |-> n]]
    /\ truTogether' = truTogether \cup {<<truDisk'.manifest, truDisk'.lock>>}
    /\ truLeft' = [truLeft EXCEPT !.edits = @ - 1]
    /\ UNCHANGED <<truTools, truOut, truTmp, truProc>>

TruCrash(p) ==
    /\ truLeft.crashes > 0 /\ truProc[p].at = "rename"
    /\ TruGo(p, [TruFresh EXCEPT !.at = "dead"])
    /\ truLeft' = [truLeft EXCEPT !.crashes = @ - 1]
    /\ UNCHANGED <<truDisk, truTools, truOut, truTmp, truTogether>>

TruStep(p) ==
    \/ TruStart(p) \/ TruDoctorManifest(p) \/ TruDoctorLockfile(p) \/ TruDoctorVersions(p)
    \/ TruDoctorTools(p) \/ TruReportManifest(p) \/ TruReportLock(p) \/ TruReportBuild(p)
    \/ TruReportWrite(p) \/ TruReportRename(p) \/ TruUpgradeManifest(p) \/ TruUpgradeLock(p)
    \/ TruUpgradeRecheck(p) \/ TruUpgradeReturn(p) \/ TruCrash(p)

TruNext == TruEdit \/ \E p \in TruProcs : TruStep(p)

TruSpec == TruInit /\ [][TruNext]_truVars

-----------------------------------------------------------------------------
(* Properties.                                                             *)

\* An upgrade verdict is about a manifest and a lockfile that were on disk at
\* one time, although each is read twice and edits fall in between (check_upgrade).
TruVerdictsAreOfOneProject ==
    \A p \in TruProcs : \A m \in truProc[p].manifest, l \in truProc[p].lock :
        (truProc[p].at = "done" /\ TruCommand[p] = "upgrade") => <<m, l>> \in truTogether

\* A published bundle is whole and holds nothing private; its doctor report
\* quotes nothing private either unless the manifest was edited between the
\* doctor's look and the collector's (collect_report_files).
TruBundlesAreClean ==
    \A bundle \in truOut : \A m \in bundle.manifest :
        /\ bundle.lock /= {} /\ ~m.form.private /\ \A b \in bundle.build : ~b.form.private
        /\ \A d \in bundle.doctor : d.quotes => d.saw /= m

\* A temporary file belongs to a report about to be renamed or to a command
\* that was killed (create_report, write_report_tar).
TruNothingIsLeft ==
    truTmp \subseteq {TruPid[p] : p \in {q \in TruProcs : truProc[q].at \in {"rename", "dead"}}}

\* A doctor that finds nothing wrong in a project with a client has found the
\* client's tools, whatever is optional elsewhere (doctor, command_check).
TruHealthyIsReady ==
    \A p \in TruProcs : \A d \in truProc[p].doctor :
        (truProc[p].result = "healthy" /\ d.saw.form.there /\ d.saw.form.client) =>
            {"rustc", "cargo", "rustup", "wasm-target", "wasm-bindgen"} \subseteq truTools

\* What the diagnostic commands promise of a project that is being edited.
TruGuarantees ==
    /\ TruVerdictsAreOfOneProject
    /\ TruBundlesAreClean
    /\ TruNothingIsLeft
    /\ TruHealthyIsReady

-----------------------------------------------------------------------------
(* The inductive invariant.                                                *)

TruFiles(forms) == [form : forms, edit : Nat]
TruChecks ==
    {"manifest", "output", "lockfile", "versions", "rustc", "cargo", "rustup", "wasm-target", "wasm-bindgen"}
TruDoctors == [fails : SUBSET TruChecks, quotes : BOOLEAN, saw : TruFiles(TruManifests), client : BOOLEAN]

TruPlaces ==
    {"off", "start", "doctor", "lockfile", "versions", "tools", "manifest", "lock", "build", "write",
     "rename", "read", "judge", "recheck", "return", "done", "dead"}
TruResults ==
    {"none", "error", "healthy", "failed", "bundled", "blocked", "compatible", "migration-required"}

TruRecords ==
    [at : TruPlaces, manifest : SUBSET TruFiles(TruManifests), lock : SUBSET TruFiles(TruLocks),
     build : SUBSET TruFiles(TruBuilds), doctor : SUBSET TruDoctors, result : TruResults]

TruTyped ==
    /\ truDisk \in [manifest : TruFiles(TruManifests), lock : TruFiles(TruLocks),
                    build : TruFiles(TruBuilds)]
    /\ truLeft \in [edits : 0..TruEdits, crashes : Nat]
    /\ truProc \in [TruProcs -> TruRecords]

\* The project on disk is one that was there, and no edit has its number twice.
TruDiskIsKnown ==
    /\ <<truDisk.manifest, truDisk.lock>> \in truTogether
    /\ truDisk.lock.edit + truLeft.edits <= TruEdits

\* A lockfile read is on disk or older; before the return of an upgrade check,
\* if it is still the one on disk, it was there with the manifest.
TruUpgradeHolds(q) ==
    /\ q.at \in {"recheck", "return"} =>
          \A l \in q.lock : l = truDisk.lock \/ l.edit < truDisk.lock.edit
    /\ q.at = "return" =>
          \A m \in q.manifest, l \in q.lock : l = truDisk.lock => <<m, l>> \in truTogether

\* What a report has collected so far is whole and holds nothing private.
TruReportHolds(q) ==
    /\ q.at \in {"lock", "build", "write", "rename"} => \A m \in q.manifest : ~m.form.private
    /\ q.at \in {"build", "write", "rename"} => q.lock /= {}
    /\ q.at \in {"write", "rename"} => \A b \in q.build : ~b.form.private
    /\ \A d \in q.doctor : d.quotes => d.saw.form.private

\* A doctor that does not know of a client has failed or has seen none.
TruDoctorHolds(q) ==
    /\ q.at \in {"lockfile", "versions", "tools"} =>
          \A d \in q.doctor :
             (d.saw.form.there /\ d.saw.form.client) => d.client \/ d.fails /= {}
    /\ q.at /= "done" => q.result /= "healthy"

TruInvariant ==
    /\ TruTyped
    /\ TruDiskIsKnown
    /\ \A p \in TruProcs : /\ TruUpgradeHolds(truProc[p]) /\ TruReportHolds(truProc[p])
                         /\ TruDoctorHolds(truProc[p])
    /\ TruGuarantees
=============================================================================
