----------------------------- MODULE ToolingProofs -----------------------------
(***************************************************************************)
(* What the command-line tools, the component SDK and the development      *)
(* loop promise, for any number of commands, edits, messages and effects.  *)
(***************************************************************************)
EXTENDS TrustCommands, ProjectScaffold, ComponentSdk, DevSession,
        SequenceTheorems, TLAPS

-----------------------------------------------------------------------------
(* TrustCommands.                                                          *)

\* The record of a command that begins or ends.
LEMMA TruFreshIsRecord ==
  ASSUME NEW at \in TruPlaces, NEW result \in TruResults
  PROVE  /\ TruFresh \in TruRecords
         /\ [TruFresh EXCEPT !.at = at] \in TruRecords
         /\ [TruFresh EXCEPT !.at = at, !.result = result] \in TruRecords
<1> DEFINE M == SUBSET TruFiles(TruManifests)
           L == SUBSET TruFiles(TruLocks)
           B == SUBSET TruFiles(TruBuilds)
           D == SUBSET TruDoctors
<1>1. {} \in M /\ {} \in L /\ {} \in B /\ {} \in D
  OBVIOUS
<1>2. TruRecords = [at : TruPlaces, manifest : M, lock : L, build : B, doctor : D, result : TruResults]
  BY DEF TruRecords
<1> HIDE DEF M, L, B, D
<1>3. TruFresh \in TruRecords
  BY <1>1, <1>2 DEF TruFresh, TruPlaces, TruResults
<1> QED BY <1>2, <1>3

\* The initial states satisfy the invariant.
LEMMA TruInitHolds == TruInit => TruInvariant
<1> SUFFICES ASSUME TruInit PROVE TruInvariant
  OBVIOUS
<1> USE DEF TruInit
<1>1. TruTyped
  BY TruAssumption, TruFreshIsRecord DEF TruFiles, TruPlaces, TruResults, TruTyped
<1>2. TruDiskIsKnown
  BY TruAssumption DEF TruDiskIsKnown
<1>3. ASSUME NEW p \in TruProcs
      PROVE  /\ truProc[p].at \in {"start", "off"} /\ truProc[p].manifest = {}
             /\ truProc[p].doctor = {} /\ truProc[p].result = "none"
  BY DEF TruFresh
<1>4. \A p \in TruProcs : TruUpgradeHolds(truProc[p]) /\ TruReportHolds(truProc[p]) /\ TruDoctorHolds(truProc[p])
  BY <1>3 DEF TruUpgradeHolds, TruReportHolds, TruDoctorHolds
<1>5. TruGuarantees
  BY <1>3 DEF TruGuarantees, TruVerdictsAreOfOneProject, TruBundlesAreClean, TruNothingIsLeft,
              TruHealthyIsReady
<1> QED BY <1>1, <1>2, <1>4, <1>5 DEF TruInvariant

\* An edit by the author: a lockfile read earlier is not the new one.
LEMMA TruEditHolds == TruInvariant /\ TruEdit => TruInvariant'
<1> SUFFICES ASSUME TruInvariant, TruEdit PROVE TruInvariant'
  OBVIOUS
<1> DEFINE n == 1 + TruEdits - truLeft.edits
<1>0. /\ TruTyped /\ TruDiskIsKnown /\ TruGuarantees
      /\ \A p \in TruProcs : TruUpgradeHolds(truProc[p]) /\ TruReportHolds(truProc[p]) /\ TruDoctorHolds(truProc[p])
  BY DEF TruInvariant
<1>1. /\ truLeft.edits \in 0..TruEdits /\ truLeft.edits > 0
      /\ truLeft' = [truLeft EXCEPT !.edits = @ - 1]
      /\ UNCHANGED <<truTools, truOut, truTmp, truProc>>
      /\ truTogether' = truTogether \cup {<<truDisk'.manifest, truDisk'.lock>>}
  BY <1>0 DEF TruEdit, TruTyped
<1>2. n \in Nat /\ truDisk.lock.edit \in Nat /\ truDisk.lock.edit < n
  BY <1>0, <1>1, TruAssumption DEF TruTyped, TruFiles, TruDiskIsKnown
<1>3. /\ truDisk' \in [manifest : TruFiles(TruManifests), lock : TruFiles(TruLocks),
                       build : TruFiles(TruBuilds)]
      /\ truDisk'.lock = truDisk.lock \/ truDisk'.lock.edit = n
  BY <1>0, <1>2 DEF TruTyped, TruFiles, TruEdit
<1> HIDE DEF n
<1>4. TruTyped'
  BY <1>0, <1>1, <1>3, TruAssumption DEF TruTyped
<1>5. TruDiskIsKnown'
  BY <1>0, <1>1, <1>2, <1>3, TruAssumption DEF TruDiskIsKnown, TruTyped, TruFiles, n
<1>6. ASSUME NEW p \in TruProcs PROVE TruUpgradeHolds(truProc[p])'
  BY <1>0, <1>2, <1>3, <1>1 DEF TruTyped, TruRecords, TruFiles, TruUpgradeHolds
<1>7. ASSUME NEW p \in TruProcs PROVE TruReportHolds(truProc[p])' /\ TruDoctorHolds(truProc[p])'
  BY <1>0, <1>1 DEF TruReportHolds, TruDoctorHolds
<1>8. TruGuarantees'
  BY <1>0, <1>1 DEF TruGuarantees, TruVerdictsAreOfOneProject, TruBundlesAreClean, TruNothingIsLeft,
                    TruHealthyIsReady
<1> QED BY <1>4, <1>5, <1>6, <1>7, <1>8 DEF TruInvariant

\* What a command that goes on as q has to keep, apart from the files it writes.
TruKeeps(p, q) ==
    /\ q \in TruRecords
    /\ TruUpgradeHolds(q) /\ TruReportHolds(q) /\ TruDoctorHolds(q)
    /\ (q.at = "done" /\ TruCommand[p] = "upgrade") =>
          \A m \in q.manifest, l \in q.lock : <<m, l>> \in truTogether
    /\ q.result = "healthy" =>
          \A d \in q.doctor : (d.saw.form.there /\ d.saw.form.client) =>
             {"rustc", "cargo", "rustup", "wasm-target", "wasm-bindgen"} \subseteq truTools

\* A step of one command keeps everything but the bundle and the temporary
\* files, if what the command goes on as does.
LEMMA TruMoveHolds ==
  ASSUME TruInvariant, NEW p \in TruProcs, NEW q, TruGo(p, q), TruKeeps(p, q),
         UNCHANGED <<truDisk, truTools, truTogether>>,
         truLeft' \in [edits : {truLeft.edits}, crashes : Nat]
  PROVE  /\ TruTyped' /\ TruDiskIsKnown' /\ TruVerdictsAreOfOneProject' /\ TruHealthyIsReady'
         /\ (\A r \in TruProcs : /\ TruUpgradeHolds(truProc[r]) /\ TruReportHolds(truProc[r])
                                 /\ TruDoctorHolds(truProc[r]))'
<1>1. truProc' = [truProc EXCEPT ![p] = q] /\ truProc \in [TruProcs -> TruRecords] /\ q \in TruRecords
  BY DEF TruInvariant, TruTyped, TruGo, TruKeeps
<1>2. truProc' \in [TruProcs -> TruRecords] /\ truProc'[p] = q
      /\ \A r \in TruProcs : r # p => truProc'[r] = truProc[r]
  BY <1>1
<1>3. TruTyped' /\ TruDiskIsKnown'
  BY <1>2 DEF TruInvariant, TruTyped, TruDiskIsKnown
<1>4. ASSUME NEW r \in TruProcs
      PROVE  TruUpgradeHolds(truProc'[r]) /\ TruReportHolds(truProc'[r]) /\ TruDoctorHolds(truProc'[r])
  BY <1>2 DEF TruInvariant, TruKeeps
<1>5. (\A r \in TruProcs : /\ TruUpgradeHolds(truProc[r]) /\ TruReportHolds(truProc[r])
                           /\ TruDoctorHolds(truProc[r]))'
  BY <1>4 DEF TruUpgradeHolds, TruReportHolds, TruDoctorHolds
<1>6. TruVerdictsAreOfOneProject'
  BY <1>2 DEF TruInvariant, TruGuarantees, TruVerdictsAreOfOneProject, TruKeeps
<1>7. TruHealthyIsReady'
  BY <1>2 DEF TruInvariant, TruGuarantees, TruHealthyIsReady, TruKeeps
<1> QED BY <1>3, <1>5, <1>6, <1>7

\* A step that only reads: nothing on disk moves, and the temporary file of the
\* command, if there is one, is not about to be renamed.
LEMMA TruReadHolds ==
  ASSUME TruInvariant, NEW p \in TruProcs, NEW q, TruGo(p, q), TruKeeps(p, q), TruReads,
         truProc[p].at \notin {"rename", "dead"}
  PROVE  TruInvariant'
<1>1. UNCHANGED <<truDisk, truTools, truOut, truTmp, truTogether, truLeft>>
  BY DEF TruReads
<1>2. truLeft' \in [edits : {truLeft.edits}, crashes : Nat]
  BY <1>1 DEF TruInvariant, TruTyped
<1>3. /\ TruTyped' /\ TruDiskIsKnown' /\ TruVerdictsAreOfOneProject' /\ TruHealthyIsReady'
      /\ (\A r \in TruProcs : /\ TruUpgradeHolds(truProc[r]) /\ TruReportHolds(truProc[r])
                              /\ TruDoctorHolds(truProc[r]))'
  BY <1>1, <1>2, TruMoveHolds
<1>4. TruBundlesAreClean'
  BY <1>1 DEF TruInvariant, TruGuarantees, TruBundlesAreClean
<1>5. \A r \in TruProcs : truProc[r].at \in {"rename", "dead"} => truProc'[r] = truProc[r]
  BY DEF TruGo, TruInvariant, TruTyped
<1>6. TruNothingIsLeft'
  BY <1>1, <1>5 DEF TruInvariant, TruGuarantees, TruNothingIsLeft
<1> QED BY <1>3, <1>4, <1>6 DEF TruInvariant, TruGuarantees

\* A command that begins or gives up has nothing to keep.
LEMMA TruFreshKeeps ==
  ASSUME NEW p \in TruProcs, NEW at \in TruPlaces \ {"build", "write", "rename"},
         NEW result \in TruResults \ {"healthy"}
  PROVE  /\ TruKeeps(p, [TruFresh EXCEPT !.at = at])
         /\ TruKeeps(p, [TruFresh EXCEPT !.at = at, !.result = result])
  BY TruFreshIsRecord DEF TruKeeps, TruUpgradeHolds, TruReportHolds, TruDoctorHolds, TruFresh

LEMMA TruEndsKeeps ==
  ASSUME TruInvariant, NEW p \in TruProcs, TruEnds(p, "error"), TruReads,
         truProc[p].at \notin {"rename", "dead"}
  PROVE  TruInvariant'
  BY TruFreshKeeps, TruReadHolds DEF TruPlaces, TruResults, TruEnds

\* The start of a command.
LEMMA TruStartHolds ==
  ASSUME TruInvariant, NEW p \in TruProcs, TruStart(p)
  PROVE  TruInvariant'
<1>1. /\ truProc[p].at = "start" /\ TruReads
      /\ \/ TruGo(p, [TruFresh EXCEPT !.at = "doctor"])
         \/ TruGo(p, [TruFresh EXCEPT !.at = "read"])
         \/ TruEnds(p, "error")
  BY DEF TruStart
<1>2. ASSUME NEW at \in {"doctor", "read"}, TruGo(p, [TruFresh EXCEPT !.at = at])
      PROVE  TruInvariant'
  <2> DEFINE q == [TruFresh EXCEPT !.at = at]
  <2>2. at \in TruPlaces \ {"build", "write", "rename"} /\ "none" \in TruResults \ {"healthy"}
    BY DEF TruPlaces, TruResults
  <2>3. TruKeeps(p, q)
    BY <2>2, TruFreshKeeps
  <2>4. TruGo(p, q)
    BY <1>2
  <2> HIDE DEF q
  <2> QED BY <1>1, <2>3, <2>4, TruReadHolds
<1>3. CASE TruEnds(p, "error")
  BY <1>1, <1>3, TruEndsKeeps
<1> QED BY <1>1, <1>2, <1>3

\* The doctor's look at the manifest: it quotes only what is private, and does
\* not know of a client only if the manifest fails or has none.
LEMMA TruDoctorManifestHolds ==
  ASSUME TruInvariant, NEW p \in TruProcs, TruDoctorManifest(p)
  PROVE  TruInvariant'
<1> DEFINE m == truDisk.manifest
           absent == TruDoctored({}, FALSE, m, FALSE)
           found == TruDoctored(
                        (IF TruManifestOk(m) THEN {} ELSE {"manifest"})
                          \cup (IF m.form.toml /\ ~m.form.safe THEN {"output"} ELSE {}),
                        m.form.private /\ (~m.form.toml \/ ~m.form.safe), m,
                        m.form.toml /\ m.form.client)
<1>1. /\ truProc[p].at = "doctor" /\ TruReads /\ truProc[p] \in TruRecords
      /\ TruReportHolds(truProc[p]) /\ TruDoctorHolds(truProc[p]) /\ m \in TruFiles(TruManifests)
  BY DEF TruDoctorManifest, TruInvariant, TruTyped
<1>2. PICK at \in {"lockfile", "tools"}, d \in {absent, found} :
         /\ TruGo(p, [truProc[p] EXCEPT !.at = at, !.doctor = {d}])
         /\ (d = absent /\ ~m.form.there) \/ d = found
  BY DEF TruDoctorManifest, TruFound
<1>3. /\ d \in TruDoctors
      /\ d.quotes => d.saw.form.private
      /\ (d.saw.form.there /\ d.saw.form.client) => d.client \/ d.fails /= {}
  <2>1. CASE d = absent /\ ~m.form.there
    BY <2>1, <1>1, <1>2 DEF TruDoctored, TruDoctors, TruChecks
  <2>2. CASE d = found
    BY <2>2, <1>1 DEF TruDoctored, TruDoctors, TruChecks, TruManifestOk
  <2> QED BY <2>1, <2>2, <1>2
<1> HIDE DEF absent, found, m
<1> DEFINE q == [truProc[p] EXCEPT !.at = at, !.doctor = {d}]
<1>4. /\ q \in TruRecords /\ q.at = at /\ q.doctor = {d} /\ q.result = truProc[p].result
  BY <1>1, <1>3 DEF TruRecords, TruPlaces
<1> HIDE DEF q
<1>5. TruKeeps(p, q)
  BY <1>1, <1>3, <1>4 DEF TruKeeps, TruUpgradeHolds, TruReportHolds, TruDoctorHolds
<1>6. TruGo(p, q)
  BY <1>2 DEF q
<1> QED BY <1>1, <1>5, <1>6, TruReadHolds

\* The checks of the lockfile and of its versions only add failures.
LEMMA TruFailHolds ==
  ASSUME TruInvariant, NEW p \in TruProcs, NEW at \in {"versions", "tools"}, NEW ids \in SUBSET TruChecks,
         TruFail(p, at, ids), TruReads, truProc[p].at \in {"lockfile", "versions"}
  PROVE  TruInvariant'
<1>1. /\ truProc[p] \in TruRecords /\ TruReportHolds(truProc[p]) /\ TruDoctorHolds(truProc[p])
  BY DEF TruInvariant, TruTyped
<1>2. PICK c \in truProc[p].doctor :
         TruGo(p, [truProc[p] EXCEPT !.at = at, !.doctor = {[c EXCEPT !.fails = @ \cup ids]}])
  BY DEF TruFail
<1> DEFINE d == [c EXCEPT !.fails = @ \cup ids]
<1>3. c \in TruDoctors
  BY <1>1 DEF TruRecords
<1>4. d \in TruDoctors /\ d.quotes = c.quotes /\ d.saw = c.saw /\ d.client = c.client /\ c.fails \subseteq d.fails
  BY <1>3 DEF TruDoctors
<1> HIDE DEF d
<1> DEFINE q == [truProc[p] EXCEPT !.at = at, !.doctor = {d}]
<1>5. q \in TruRecords /\ q.at = at /\ q.doctor = {d} /\ q.result = truProc[p].result
  BY <1>1, <1>4 DEF TruRecords, TruPlaces
<1> HIDE DEF q
<1>6. TruKeeps(p, q)
  BY <1>1, <1>4, <1>5 DEF TruKeeps, TruUpgradeHolds, TruReportHolds, TruDoctorHolds
<1>7. TruGo(p, q)
  BY <1>2 DEF q, d
<1> QED BY <1>6, <1>7, TruReadHolds

LEMMA TruDoctorLockHolds ==
  ASSUME TruInvariant, NEW p \in TruProcs, TruDoctorLockfile(p) \/ TruDoctorVersions(p)
  PROVE  TruInvariant'
  BY TruFailHolds DEF TruDoctorLockfile, TruChecks, TruDoctorVersions

\* The tools: a doctor that ends healthy has found what it knew it needed.
LEMMA TruDoctorToolsHolds ==
  ASSUME TruInvariant, NEW p \in TruProcs, TruDoctorTools(p)
  PROVE  TruInvariant'
<1>1. /\ truProc[p].at = "tools" /\ TruReads /\ truProc[p] \in TruRecords
      /\ TruReportHolds(truProc[p]) /\ TruDoctorHolds(truProc[p])
  BY DEF TruDoctorTools, TruInvariant, TruTyped
<1> DEFINE F(c) == c.fails \cup (TruNeeded(c.client) \ truTools)
<1>2. PICK c \in truProc[p].doctor :
         \/ TruGo(p, [truProc[p] EXCEPT !.at = "manifest", !.doctor = {[c EXCEPT !.fails = F(c)]}])
         \/ TruGo(p, [TruFresh EXCEPT !.at = "done", !.doctor = {[c EXCEPT !.fails = F(c)]},
                                      !.result = IF F(c) = {} THEN "healthy" ELSE "failed"])
  BY DEF TruDoctorTools
<1> DEFINE d == [c EXCEPT !.fails = F(c)]
<1>3. c \in TruDoctors
  BY <1>1 DEF TruRecords
<1>4. F(c) \in SUBSET TruChecks
  BY <1>3 DEF TruDoctors, TruNeeded, TruChecks
<1>5. /\ d \in TruDoctors /\ d.quotes = c.quotes /\ d.saw = c.saw
      /\ F(c) = {} => c.fails = {} /\ TruNeeded(c.client) \subseteq truTools
  BY <1>3, <1>4 DEF TruDoctors
<1> DEFINE result == IF F(c) = {} THEN "healthy" ELSE "failed"
<1>6. /\ result \in TruResults
      /\ result = "healthy" => F(c) = {}
  BY DEF TruResults
<1>7. (c.saw.form.there /\ c.saw.form.client) => c.client \/ c.fails # {}
  BY <1>1 DEF TruDoctorHolds
<1> HIDE DEF d, F, result
<1>8. CASE TruGo(p, [truProc[p] EXCEPT !.at = "manifest", !.doctor = {d}])
  <2> DEFINE q == [truProc[p] EXCEPT !.at = "manifest", !.doctor = {d}]
  <2>1. q \in TruRecords /\ q.at = "manifest" /\ q.doctor = {d} /\ q.result = truProc[p].result
    BY <1>1, <1>5 DEF TruRecords, TruPlaces
  <2> HIDE DEF q
  <2>2. TruKeeps(p, q)
    BY <1>1, <1>5, <2>1 DEF TruKeeps, TruUpgradeHolds, TruReportHolds, TruDoctorHolds
  <2>3. TruGo(p, q)
    BY <1>8 DEF q
  <2> QED BY <1>1, <2>2, <2>3, TruReadHolds
<1>9. CASE TruGo(p, [TruFresh EXCEPT !.at = "done", !.doctor = {d}, !.result = result])
  <2> DEFINE q == [TruFresh EXCEPT !.at = "done", !.doctor = {d}, !.result = result]
  <2>1. "done" \in TruPlaces /\ "none" \in TruResults
    BY DEF TruPlaces, TruResults
  <2>2. TruFresh \in TruRecords /\ TruFresh.manifest = {}
    BY <2>1, TruFreshIsRecord DEF TruFresh
  <2>3. q \in TruRecords /\ q.at = "done" /\ q.doctor = {d} /\ q.result = result /\ q.manifest = {}
    BY <2>1, <2>2, <1>5, <1>6 DEF TruRecords
  <2> HIDE DEF q
  <2>4. TruUpgradeHolds(q) /\ TruReportHolds(q) /\ TruDoctorHolds(q)
    BY <1>1, <1>5, <2>3 DEF TruUpgradeHolds, TruReportHolds, TruDoctorHolds
  <2>5. TruNeeded(TRUE) = {"rustc", "cargo", "rustup", "wasm-target", "wasm-bindgen"}
    BY DEF TruNeeded
  <2>6. c.client = TRUE \/ c.client = FALSE
    BY <1>3 DEF TruDoctors
  <2>7. TruKeeps(p, q)
    BY <1>5, <1>6, <1>7, <2>3, <2>4, <2>5, <2>6 DEF TruKeeps
  <2>8. TruGo(p, q)
    BY <1>9 DEF q
  <2> QED BY <1>1, <2>7, <2>8, TruReadHolds
<1> QED BY <1>2, <1>8, <1>9 DEF d, result

\* The collector: what it goes on with is bounded, public and readable.
LEMMA TruReportReadsHold ==
  ASSUME TruInvariant, NEW p \in TruProcs,
         TruReportManifest(p) \/ TruReportLock(p) \/ TruReportBuild(p)
  PROVE  TruInvariant'
<1>1. /\ TruReads /\ truProc[p] \in TruRecords /\ TruReportHolds(truProc[p]) /\ TruDoctorHolds(truProc[p])
      /\ truProc[p].at \in {"manifest", "lock", "build"}
  BY DEF TruReportManifest, TruReportLock, TruReportBuild, TruInvariant, TruTyped
<1>2. /\ truDisk.manifest \in TruFiles(TruManifests) /\ truDisk.lock \in TruFiles(TruLocks)
      /\ truDisk.build \in TruFiles(TruBuilds)
  BY DEF TruInvariant, TruTyped
<1>3. CASE TruEnds(p, "error")
  BY <1>1, <1>3, TruEndsKeeps
<1>4. CASE /\ truProc[p].at = "manifest" /\ ~truDisk.manifest.form.private
           /\ TruGo(p, [truProc[p] EXCEPT !.at = "lock", !.manifest = {truDisk.manifest}])
  BY <1>1, <1>2, <1>4, TruReadHolds DEF TruRecords, TruPlaces, TruKeeps, TruUpgradeHolds,
     TruReportHolds, TruDoctorHolds
<1>5. CASE /\ truProc[p].at = "lock"
           /\ TruGo(p, [truProc[p] EXCEPT !.at = "build", !.lock = {truDisk.lock}])
  BY <1>1, <1>2, <1>5, TruReadHolds DEF TruRecords, TruPlaces, TruKeeps, TruUpgradeHolds,
     TruReportHolds, TruDoctorHolds
<1>6. ASSUME truProc[p].at = "build",
             NEW B \in SUBSET {b \in {truDisk.build} : ~b.form.private},
             TruGo(p, [truProc[p] EXCEPT !.at = "write", !.build = B])
      PROVE  TruInvariant'
  <2> DEFINE q == [truProc[p] EXCEPT !.at = "write", !.build = B]
  <2>1. /\ q \in TruRecords /\ q.at = "write" /\ q.build = B
        /\ q.manifest = truProc[p].manifest /\ q.lock = truProc[p].lock
        /\ q.doctor = truProc[p].doctor /\ q.result = truProc[p].result
    BY <1>1, <1>2 DEF TruRecords, TruPlaces
  <2> HIDE DEF q
  <2>2. TruKeeps(p, q)
    BY <1>1, <1>6, <2>1 DEF TruKeeps, TruUpgradeHolds, TruReportHolds, TruDoctorHolds
  <2>3. TruGo(p, q)
    BY <1>6 DEF q
  <2> QED BY <1>1, <2>2, <2>3, TruReadHolds
<1>7. CASE TruReportManifest(p)
  BY <1>7, <1>3, <1>4 DEF TruReportManifest, TruPayloadOk
<1>8. CASE TruReportLock(p)
  BY <1>8, <1>3, <1>5 DEF TruReportLock
<1>9. CASE TruReportBuild(p)
  <2>1. truProc[p].at = "build"
    BY <1>9 DEF TruReportBuild
  <2>2. \/ TruEnds(p, "error")
        \/ \E B \in SUBSET {b \in {truDisk.build} : ~b.form.private} :
              TruGo(p, [truProc[p] EXCEPT !.at = "write", !.build = B])
    BY <1>9 DEF TruReportBuild, TruPayloadOk
  <2> QED BY <2>1, <2>2, <1>3, <1>6
<1> QED BY <1>7, <1>8, <1>9

\* The upgrade check: the manifest that is read again last was on disk with the
\* lockfile, which no later edit can bring back.
LEMMA TruUpgradeStepsHold ==
  ASSUME TruInvariant, NEW p \in TruProcs,
         \/ TruUpgradeManifest(p) \/ TruUpgradeLock(p) \/ TruUpgradeRecheck(p) \/ TruUpgradeReturn(p)
  PROVE  TruInvariant'
<1> DEFINE m == truDisk.manifest
           l == truDisk.lock
<1>1. /\ TruReads /\ truProc[p] \in TruRecords
      /\ TruUpgradeHolds(truProc[p]) /\ TruReportHolds(truProc[p]) /\ TruDoctorHolds(truProc[p])
      /\ truProc[p].at \in {"read", "judge", "recheck", "return"}
  BY DEF TruUpgradeManifest, TruUpgradeLock, TruUpgradeRecheck, TruUpgradeReturn, TruInvariant, TruTyped
<1>2. m \in TruFiles(TruManifests) /\ l \in TruFiles(TruLocks) /\ <<m, l>> \in truTogether
  BY DEF TruInvariant, TruTyped, TruDiskIsKnown
<1>3. CASE TruEnds(p, "error")
  BY <1>1, <1>3, TruEndsKeeps
<1>4. ASSUME NEW q, TruGo(p, q), TruKeeps(p, q) PROVE TruInvariant'
  BY <1>1, <1>4, TruReadHolds
<1>5. CASE TruUpgradeManifest(p)
  <2> DEFINE q == [truProc[p] EXCEPT !.at = "judge", !.manifest = {m}]
  <2>1. /\ q \in TruRecords /\ q.at = "judge"
        /\ q.doctor = truProc[p].doctor /\ q.result = truProc[p].result
    BY <1>1, <1>2 DEF TruRecords, TruPlaces
  <2>2. TruGo(p, q) \/ TruEnds(p, "error")
    BY <1>5 DEF TruUpgradeManifest
  <2> HIDE DEF q
  <2>3. TruKeeps(p, q)
    BY <1>1, <2>1 DEF TruKeeps, TruUpgradeHolds, TruReportHolds, TruDoctorHolds
  <2> QED BY <2>2, <2>3, <1>3, <1>4
<1>6. CASE TruUpgradeLock(p)
  <2>1. CASE TruEnds(p, "error")
    BY <2>1, <1>3
  <2>2. ASSUME NEW target, TruGo(p, [truProc[p] EXCEPT !.at = "recheck", !.lock = {l},
                                                      !.result = TruVerdict(l, target)])
        PROVE  TruInvariant'
    <3> DEFINE v == TruVerdict(l, target)
               q == [truProc[p] EXCEPT !.at = "recheck", !.lock = {l}, !.result = v]
    <3>1. v \in TruResults /\ v # "healthy"
      BY DEF TruVerdict, TruResults
    <3> HIDE DEF v
    <3>2. q \in TruRecords /\ q.at = "recheck" /\ q.lock = {l} /\ q.doctor = truProc[p].doctor /\ q.result = v
      BY <1>1, <1>2, <3>1 DEF TruRecords, TruPlaces
    <3> HIDE DEF q
    <3>3. TruKeeps(p, q)
      BY <1>1, <3>1, <3>2 DEF TruKeeps, TruUpgradeHolds, TruReportHolds, TruDoctorHolds
    <3>4. TruGo(p, q)
      BY <2>2 DEF q, v
    <3> QED BY <3>3, <3>4, <1>4
  <2> QED BY <2>1, <2>2, <1>6 DEF TruUpgradeLock
<1>7. CASE TruUpgradeRecheck(p)
  <2> DEFINE q == [truProc[p] EXCEPT !.at = "return"]
  <2>1. /\ q \in TruRecords /\ q.at = "return" /\ q.lock = truProc[p].lock
        /\ q.manifest = truProc[p].manifest
        /\ q.doctor = truProc[p].doctor /\ q.result = truProc[p].result
    BY <1>1 DEF TruRecords, TruPlaces
  <2>2. \/ TruGo(p, q) /\ truProc[p].manifest = {m}
        \/ TruEnds(p, "error")
    BY <1>7 DEF TruUpgradeRecheck, TruManifestUnchanged
  <2>3. truProc[p].at = "recheck"
    BY <1>7 DEF TruUpgradeRecheck
  <2> HIDE DEF q
  <2>4. truProc[p].manifest = {m} => TruKeeps(p, q)
    BY <1>1, <1>2, <2>1, <2>3 DEF TruKeeps, TruUpgradeHolds, TruReportHolds, TruDoctorHolds
  <2> QED BY <2>2, <2>4, <1>3, <1>4
<1>8. CASE TruUpgradeReturn(p)
  <2> DEFINE q == [truProc[p] EXCEPT !.at = "done"]
  <2>1. /\ q \in TruRecords /\ q.at = "done" /\ q.lock = truProc[p].lock
        /\ q.manifest = truProc[p].manifest
        /\ q.doctor = truProc[p].doctor /\ q.result = truProc[p].result
    BY <1>1 DEF TruRecords, TruPlaces
  <2>2. \/ TruGo(p, q) /\ truProc[p].lock = {l}
        \/ TruEnds(p, "error")
    BY <1>8 DEF TruUpgradeReturn, TruLockUnchanged
  <2>3. truProc[p].at = "return"
    BY <1>8 DEF TruUpgradeReturn
  <2> HIDE DEF q
  <2>4. truProc[p].lock = {l} => TruKeeps(p, q)
    BY <1>1, <1>2, <2>1, <2>3 DEF TruKeeps, TruUpgradeHolds, TruReportHolds, TruDoctorHolds
  <2> QED BY <2>2, <2>4, <1>3, <1>4
<1> QED BY <1>5, <1>6, <1>7, <1>8

\* The temporary file is made, renamed over the destination, or left by a crash.
LEMMA TruWritesHold ==
  ASSUME TruInvariant, NEW p \in TruProcs,
         TruReportWrite(p) \/ TruReportRename(p) \/ TruCrash(p)
  PROVE  TruInvariant'
<1>1. /\ truProc \in [TruProcs -> TruRecords] /\ truProc[p] \in TruRecords
      /\ TruReportHolds(truProc[p]) /\ TruDoctorHolds(truProc[p])
      /\ truLeft \in [edits : 0..TruEdits, crashes : Nat]
      /\ TruBundlesAreClean /\ TruNothingIsLeft
  BY DEF TruInvariant, TruTyped, TruGuarantees
<1>2. UNCHANGED <<truDisk, truTools, truTogether>>
  BY DEF TruReportWrite, TruReportRename, TruCrash
<1>3. truLeft' \in [edits : {truLeft.edits}, crashes : Nat]
  BY <1>1 DEF TruReportWrite, TruReportRename, TruCrash
<1>4. ASSUME NEW q, TruGo(p, q), TruKeeps(p, q), TruBundlesAreClean', TruNothingIsLeft'
      PROVE  TruInvariant'
  BY <1>2, <1>3, <1>4, TruMoveHolds DEF TruInvariant, TruGuarantees
<1>5. ASSUME NEW at \in {"done", "dead"}, NEW result \in {"none", "error", "bundled"}
      PROVE  /\ TruKeeps(p, [TruFresh EXCEPT !.at = at, !.result = result])
             /\ TruKeeps(p, [TruFresh EXCEPT !.at = at])
  BY TruFreshKeeps DEF TruPlaces, TruResults
<1>6. CASE TruReportWrite(p)
  <2>1. truProc[p].at = "write" /\ truOut' = truOut
    BY <1>6 DEF TruReportWrite
  <2>2. CASE TruEnds(p, "error") /\ UNCHANGED truTmp
    <3>1. TruReads
      BY <1>6, <2>2 DEF TruReportWrite, TruReads
    <3> QED BY <2>1, <2>2, <3>1, TruEndsKeeps
  <2>3. CASE truTmp' = truTmp \cup {TruPid[p]} /\ TruGo(p, [truProc[p] EXCEPT !.at = "rename"])
    <3> DEFINE q == [truProc[p] EXCEPT !.at = "rename"]
    <3>1. /\ q \in TruRecords /\ q.at = "rename" /\ q.lock = truProc[p].lock
          /\ q.manifest = truProc[p].manifest /\ q.build = truProc[p].build
          /\ q.doctor = truProc[p].doctor /\ q.result = truProc[p].result
      BY <1>1 DEF TruRecords, TruPlaces
    <3>2. TruGo(p, q)
      BY <2>3
    <3> HIDE DEF q
    <3>3. TruKeeps(p, q)
      BY <1>1, <2>1, <3>1 DEF TruKeeps, TruUpgradeHolds, TruReportHolds, TruDoctorHolds
    <3>4. TruBundlesAreClean'
      BY <1>1, <2>1 DEF TruBundlesAreClean
    <3>5. \A r \in TruProcs : truProc'[r] = IF r = p THEN q ELSE truProc[r]
      BY <1>1, <3>2 DEF TruGo
    <3>6. TruNothingIsLeft'
      BY <1>1, <2>1, <2>3, <3>1, <3>5 DEF TruNothingIsLeft
    <3> QED BY <3>2, <3>3, <3>4, <3>6, <1>4
  <2> QED BY <2>2, <2>3, <1>6 DEF TruReportWrite
<1>7. CASE TruReportRename(p)
  BY <1>7, <1>5, <1>1, <1>4 DEF TruReportRename, TruEnds, TruGo, TruNothingIsLeft,
     TruBundlesAreClean, TruReportHolds
<1>8. CASE TruCrash(p)
  <2> DEFINE q == [TruFresh EXCEPT !.at = "dead"]
  <2>1. TruKeeps(p, q)
    BY <1>5
  <2>2. TruGo(p, q) /\ truOut' = truOut /\ truTmp' = truTmp
    BY <1>8 DEF TruCrash
  <2>3. q.at = "dead"
    BY DEF TruFresh
  <2> HIDE DEF q
  <2>4. \A r \in TruProcs : truProc'[r] = IF r = p THEN q ELSE truProc[r]
    BY <1>1, <2>2 DEF TruGo
  <2>5. TruNothingIsLeft'
    BY <1>1, <2>2, <2>3, <2>4 DEF TruNothingIsLeft
  <2>6. TruBundlesAreClean'
    BY <1>1, <2>2 DEF TruBundlesAreClean
  <2> QED BY <2>1, <2>2, <2>5, <2>6, <1>4
<1> QED BY <1>6, <1>7, <1>8

\* The diagnostic commands keep their promises while the project is edited, for
\* any number of commands, edits and crashes (trust.rs: doctor, create_report,
\* check_upgrade): a verdict is of one project, a published bundle is whole and
\* holds nothing private, no temporary file is left but by a crash, and a
\* healthy project with a client has its tools.
THEOREM DiagnosticsAreSound == TruSpec => []TruGuarantees
<1>1. TruInvariant /\ [TruNext]_truVars => TruInvariant'
  <2> SUFFICES ASSUME TruInvariant, [TruNext]_truVars PROVE TruInvariant'
    OBVIOUS
  <2>1. CASE UNCHANGED truVars
    <3>1. /\ truDisk' = truDisk /\ truTools' = truTools /\ truOut' = truOut /\ truTmp' = truTmp
          /\ truProc' = truProc /\ truTogether' = truTogether /\ truLeft' = truLeft
      BY <2>1 DEF truVars
    <3> QED BY <3>1 DEF TruInvariant, TruTyped, TruDiskIsKnown, TruUpgradeHolds, TruReportHolds,
                 TruDoctorHolds, TruGuarantees, TruVerdictsAreOfOneProject, TruBundlesAreClean,
                 TruNothingIsLeft, TruHealthyIsReady
  <2>2. CASE TruEdit
    BY <2>2, TruEditHolds
  <2>3. ASSUME NEW p \in TruProcs, TruStep(p) PROVE TruInvariant'
    BY <2>3, TruStartHolds, TruDoctorManifestHolds, TruDoctorLockHolds, TruDoctorToolsHolds,
       TruReportReadsHold, TruUpgradeStepsHold, TruWritesHold DEF TruStep
  <2> QED BY <2>1, <2>2, <2>3 DEF TruNext
<1>2. TruInvariant => TruGuarantees
  BY DEF TruInvariant
<1> QED BY <1>1, <1>2, TruInitHolds, PTL DEF TruSpec

-----------------------------------------------------------------------------
(* ProjectScaffold.                                                        *)

ScaStaging == {"write", "clear", "rename"}
ScaKeyOf(r, p) == <<ScaDests[r.dest], ScaPid[p]>>

\* The key of a command that has chosen its destination is one of the keys.
LEMMA ScaKeyIsKey ==
  ASSUME NEW p \in ScaProcs, NEW r \in ScaRecords, r.pc \notin {"start", "done"}
  PROVE  ScaKeyOf(r, p) \in ScaKeys
BY DEF ScaKeyOf, ScaKeys, ScaRecords

\* A step of one command p, which goes on as r: the directories stay owned if
\* it touches no other command's and its own is as r says.
LEMMA ScaMoveHolds ==
  ASSUME ScaInvariant, NEW p \in ScaProcs, NEW r \in ScaRecords,
         scaProc' = [scaProc EXCEPT ![p] = r],
         scaStage' \in [ScaKeys -> ScaNodes],
         \A k \in ScaKeys : scaStage'[k] # scaStage[k] =>
            \A q \in ScaWriting \ {p} : ScaKey(q) # k,
         r.pc \in ScaStaging =>
            /\ ScaHolds(r, scaStage'[ScaKeyOf(r, p)])
            /\ \A q \in ScaWriting \ {p} : ScaKey(q) # ScaKeyOf(r, p)
  PROVE  scaProc' \in [ScaProcs -> ScaRecords] /\ ScaStagesAreOwned'
<1>1. scaProc \in [ScaProcs -> ScaRecords]
  BY DEF ScaInvariant, ScaTyped
<1>2. /\ scaProc' \in [ScaProcs -> ScaRecords] /\ scaProc'[p] = r
      /\ \A q \in ScaProcs : q # p => scaProc'[q] = scaProc[q]
  BY <1>1
<1>3. ASSUME NEW q \in ScaProcs, q # p
      PROVE  /\ (q \in ScaWriting)' <=> q \in ScaWriting
             /\ ScaKey(q)' = ScaKey(q)
  BY <1>2, <1>3 DEF ScaWriting, ScaKey
<1>4. ((p \in ScaWriting)' => r.pc \in ScaStaging) /\ ScaKey(p)' = ScaKeyOf(r, p)
  BY <1>2 DEF ScaWriting, ScaKey, ScaKeyOf, ScaStaging
<1>5. ASSUME NEW q \in ScaWriting, q # p
      PROVE  scaStage'[ScaKey(q)] = scaStage[ScaKey(q)]
  BY <1>1, ScaKeyIsKey, <1>5 DEF ScaWriting, ScaKey, ScaKeyOf
<1>6. ASSUME NEW q \in ScaProcs, (q \in ScaWriting)'
      PROVE  ScaHolds(scaProc'[q], scaStage'[ScaKey(q)'])
  BY <1>2, <1>4, <1>6, <1>3, <1>5 DEF ScaInvariant, ScaStagesAreOwned
<1>7. ASSUME NEW q \in ScaProcs, NEW s \in ScaProcs, (q \in ScaWriting)', (s \in ScaWriting)',
             ScaKey(q)' = ScaKey(s)'
      PROVE  q = s
  BY <1>3, <1>4, <1>7 DEF ScaInvariant, ScaStagesAreOwned
<1>8. \A q : (q \in ScaWriting)' => q \in ScaProcs
  BY DEF ScaWriting
<1>9. ScaStagesAreOwned'
  BY <1>6, <1>7, <1>8 DEF ScaStagesAreOwned, ScaHolds
<1> QED BY <1>2, <1>9

LEMMA ScaIdleIsRecord ==
  ScaIdle("start") \in ScaRecords /\ ScaIdle("done") \in ScaRecords /\ ScaIdle("done").pc = "done"
<1>1. ASSUME NEW pc \in {"start", "done"} PROVE ScaIdle(pc) \in ScaRecords /\ ScaIdle(pc).pc = pc
  <2> DEFINE r == ScaIdle(pc)
  <2>1. r \in ScaStates /\ r.pc = pc /\ r.next = 1
    BY DEF ScaIdle, ScaStates
  <2> HIDE DEF r
  <2>2. r \in ScaRecords
    BY <2>1 DEF ScaRecords
  <2> QED BY <2>1, <2>2 DEF r
<1> QED BY <1>1

LEMMA ScaAbsentIsNode == ScaAbsent \in ScaNodes /\ ScaDir({}) \in ScaNodes
BY DEF ScaAbsent, ScaDir, ScaNodes

\* What the user writes is no part of a project.
LEMMA ScaMineIsApart ==
  ASSUME NEW t \in DOMAIN ScaTemplates
  PROVE  "mine" \notin ScaWhole(ScaTemplates[t]) /\ ScaWhole(ScaTemplates[t]) \subseteq ScaNames
<1> DEFINE F == [path : STRING \ {"mine"}, key : Seq(STRING), portable : BOOLEAN, mode : STRING,
                 token : STRING]
<1>1. ScaTemplates[t] \in Seq(F)
  BY ScaAssumption
<1>2. ASSUME NEW i \in DOMAIN ScaTemplates[t] PROVE ScaTemplates[t][i].path # "mine"
  <2> HIDE DEF F
  <2>1. DOMAIN ScaTemplates[t] = 1..Len(ScaTemplates[t])
    BY <1>1, LenProperties
  <2>2. ScaTemplates[t][i] \in F
    BY <1>1, <2>1, ElementOfSeq
  <2> QED BY <2>2 DEF F
<1> QED BY <1>2 DEF ScaWhole, ScaReserved, ScaNames

LEMMA ScaInitHolds == ScaInit => ScaInvariant
<1> SUFFICES ASSUME ScaInit PROVE ScaInvariant
  OBVIOUS
<1>1. ScaTyped
  BY ScaIdleIsRecord, ScaAbsentIsNode DEF ScaInit, ScaTyped, ScaKeys
<1>2. ScaStagesAreOwned
  BY DEF ScaInit, ScaStagesAreOwned, ScaWriting, ScaIdle
<1>3. ScaDestinationsAreSafe
  BY DEF ScaInit, ScaDestinationsAreSafe, ScaAbsent
<1> QED BY <1>1, <1>2, <1>3 DEF ScaInvariant

\* A command that ends and leaves the staging directories alone.
LEMMA ScaEndsHolds ==
  ASSUME ScaInvariant, NEW p \in ScaProcs, ScaEnds(p), UNCHANGED scaStage
  PROVE  scaProc' \in [ScaProcs -> ScaRecords] /\ ScaStagesAreOwned' /\ scaStage' \in [ScaKeys -> ScaNodes]
  BY ScaIdleIsRecord, ScaMoveHolds DEF ScaStaging, ScaEnds, ScaInvariant, ScaTyped

\* The steps that leave the destinations alone keep them safe.
LEMMA ScaDestsHold ==
  ASSUME ScaInvariant, UNCHANGED <<scaDest, scaMine>>
  PROVE  ScaDestinationsAreSafe' /\ scaDest' \in [DOMAIN ScaDests -> ScaNodes]
BY DEF ScaInvariant, ScaTyped, ScaDestinationsAreSafe

LEMMA ScaStartHolds ==
  ASSUME ScaInvariant, NEW p \in ScaProcs, ScaStart(p)
  PROVE  ScaInvariant'
<1>1. UNCHANGED <<scaDest, scaStage, scaMine>>
  BY DEF ScaStart
<1>2. CASE ScaEnds(p)
  BY <1>1, <1>2, ScaEndsHolds, ScaDestsHold DEF ScaInvariant, ScaTyped
<1>3. ASSUME NEW d \in DOMAIN ScaDests, NEW t \in DOMAIN ScaTemplates,
             scaProc' = [scaProc EXCEPT ![p] = [pc |-> "stage", dest |-> d, template |-> t, next |-> 1]]
      PROVE  ScaInvariant'
  <2> DEFINE r == [pc |-> "stage", dest |-> d, template |-> t, next |-> 1]
  <2>0. r \in ScaStates /\ r.pc = "stage" /\ r.next = 1 /\ r.dest = d /\ r.template = t
    BY DEF ScaStates
  <2>1. r \in ScaRecords /\ r.pc \notin ScaStaging
    <3> HIDE DEF r
    <3> QED BY <2>0 DEF ScaRecords, ScaStaging
  <2>2. scaProc' = [scaProc EXCEPT ![p] = r] /\ scaStage' \in [ScaKeys -> ScaNodes]
    BY <1>1, <1>3 DEF ScaInvariant, ScaTyped
  <2> HIDE DEF r
  <2>3. scaProc' \in [ScaProcs -> ScaRecords] /\ ScaStagesAreOwned'
    BY <1>1, <2>1, <2>2, ScaMoveHolds
  <2> QED BY <1>1, <2>2, <2>3, ScaDestsHold DEF ScaInvariant, ScaTyped
<1> QED BY <1>2, <1>3 DEF ScaStart

\* A staging directory that is made is new, so no other command writes there.
LEMMA ScaStagedHolds ==
  ASSUME ScaInvariant, NEW p \in ScaProcs, ScaStaged(p)
  PROVE  ScaInvariant'
<1>1. scaProc[p].pc = "stage" /\ UNCHANGED <<scaDest, scaMine>>
  BY DEF ScaStaged
<1>2. CASE ScaEnds(p) /\ UNCHANGED scaStage
  BY <1>1, <1>2, ScaEndsHolds, ScaDestsHold DEF ScaInvariant, ScaTyped
<1>3. CASE /\ ScaStageFree(p)
           /\ scaStage' = [scaStage EXCEPT ![ScaKey(p)] = ScaDir(@.files)]
           /\ scaProc' = [scaProc EXCEPT ![p].pc = "write"]
  <2>1. scaProc[p] \in ScaRecords /\ scaStage \in [ScaKeys -> ScaNodes]
    BY DEF ScaInvariant, ScaTyped
  <2>2. ScaKey(p) \in ScaKeys
    BY <1>1, <2>1, ScaKeyIsKey DEF ScaKey, ScaKeyOf
  <2>3. scaStage[ScaKey(p)] \in ScaNodes /\ scaStage[ScaKey(p)].kind = "none" /\ scaStage[ScaKey(p)].files = {}
    BY <1>3, <2>1, <2>2 DEF ScaStageFree, ScaNodes
  <2>4. scaStage' = [scaStage EXCEPT ![ScaKey(p)] = ScaDir({})]
    BY <1>3, <2>1, <2>2, <2>3
  <2>5. scaStage' \in [ScaKeys -> ScaNodes] /\ scaStage'[ScaKey(p)] = ScaDir({})
    BY <2>1, <2>2, <2>4, ScaAbsentIsNode
  <2>6. \A q \in ScaWriting \ {p} : ScaKey(q) # ScaKey(p)
    BY <2>3 DEF ScaInvariant, ScaStagesAreOwned, ScaHolds
  <2>7. \A k \in ScaKeys : scaStage'[k] # scaStage[k] => k = ScaKey(p)
    BY <2>1, <2>4
  <2> DEFINE r == [scaProc[p] EXCEPT !.pc = "write"]
  <2>8. /\ r \in ScaRecords /\ r.pc = "write" /\ r.next = 1 /\ r.template \in DOMAIN ScaTemplates
        /\ r.dest = scaProc[p].dest
    BY <1>1, <2>1 DEF ScaRecords, ScaStates
  <2>9. scaProc' = [scaProc EXCEPT ![p] = r]
    BY <1>3
  <2> HIDE DEF r
  <2>10. ScaKeyOf(r, p) = ScaKey(p)
    BY <2>8 DEF ScaKeyOf, ScaKey
  <2>11. Len(ScaTemplates[r.template]) \in Nat
    BY <2>8, ScaAssumption, LenProperties
  <2>12. ScaHolds(r, ScaDir({}))
    BY <2>8, <2>11 DEF ScaHolds, ScaDir
  <2>13. scaProc' \in [ScaProcs -> ScaRecords] /\ ScaStagesAreOwned'
    BY <2>5, <2>6, <2>7, <2>8, <2>9, <2>10, <2>12, ScaMoveHolds
  <2> QED BY <1>1, <2>5, <2>13, ScaDestsHold DEF ScaInvariant, ScaTyped
<1> QED BY <1>2, <1>3 DEF ScaStaged

\* What a command writes is the next part of its project; a command that fails
\* removes only its own directory.
LEMMA ScaWriteHolds ==
  ASSUME ScaInvariant, NEW p \in ScaProcs, ScaWrite(p)
  PROVE  ScaInvariant'
<1> DEFINE key == ScaKey(p)
           t == ScaTemplates[scaProc[p].template]
           n == scaProc[p].next
           adds == IF n = 1 THEN ScaReserved ELSE {t[n - 1].path}
<1>1. /\ scaProc[p].pc = "write" /\ n <= Len(t) + 1 /\ UNCHANGED <<scaDest, scaMine>>
      /\ \/ /\ scaStage' = [scaStage EXCEPT ![key].files = @ \cup adds]
            /\ scaProc' = [scaProc EXCEPT ![p].next = n + 1]
         \/ /\ scaStage' = [scaStage EXCEPT ![key] = ScaAbsent]
            /\ ScaEnds(p)
  BY DEF ScaWrite
<1>2. /\ scaProc[p] \in ScaRecords /\ scaStage \in [ScaKeys -> ScaNodes]
      /\ scaProc[p].template \in DOMAIN ScaTemplates /\ n \in Nat /\ n > 0
  BY <1>1 DEF ScaInvariant, ScaTyped, ScaRecords, ScaStates
<1>3. key \in ScaKeys
  BY <1>1, <1>2, ScaKeyIsKey DEF ScaKey, ScaKeyOf
<1>4. p \in ScaWriting
  BY <1>1 DEF ScaWriting
<1>5. /\ \A q \in ScaWriting \ {p} : ScaKey(q) # key
      /\ ScaHolds(scaProc[p], scaStage[key])
  BY <1>4 DEF ScaInvariant, ScaStagesAreOwned
<1>6. Len(t) \in Nat /\ DOMAIN t = 1..Len(t)
  BY <1>2, ScaAssumption, LenProperties
<1>7. CASE scaStage' = [scaStage EXCEPT ![key] = ScaAbsent] /\ ScaEnds(p)
  <2> DEFINE r == ScaIdle("done")
  <2>1. r \in ScaRecords /\ r.pc \notin ScaStaging
    BY ScaIdleIsRecord DEF ScaStaging
  <2>2. scaProc' = [scaProc EXCEPT ![p] = r] /\ scaStage' \in [ScaKeys -> ScaNodes]
        /\ \A k \in ScaKeys : scaStage'[k] # scaStage[k] => k = key
    BY <1>2, <1>3, <1>7, ScaAbsentIsNode DEF ScaEnds
  <2> HIDE DEF r
  <2>3. scaProc' \in [ScaProcs -> ScaRecords] /\ ScaStagesAreOwned'
    BY <1>5, <2>1, <2>2, ScaMoveHolds
  <2> QED BY <1>1, <2>2, <2>3, ScaDestsHold DEF ScaInvariant, ScaTyped
<1>8. CASE /\ scaStage' = [scaStage EXCEPT ![key].files = @ \cup adds]
           /\ scaProc' = [scaProc EXCEPT ![p].next = n + 1]
  <2> DEFINE r == [scaProc[p] EXCEPT !.next = n + 1]
             node == [scaStage[key] EXCEPT !.files = @ \cup adds]
  <2>1. /\ r \in ScaRecords /\ r.pc = "write" /\ r.next = n + 1 /\ r.template = scaProc[p].template
        /\ r.dest = scaProc[p].dest
    <3>1. scaProc[p] \in ScaStates
      BY <1>2 DEF ScaRecords
    <3>2. /\ r \in ScaStates /\ r.pc = "write" /\ r.next = n + 1 /\ r.template = scaProc[p].template
          /\ r.dest = scaProc[p].dest
      <4>1. n + 1 \in Nat
        BY <1>2
      <4> DEFINE next == n + 1
      <4> HIDE DEF next, t
      <4>2. [scaProc[p] EXCEPT !.next = next] \in ScaStates
        BY <4>1, <3>1 DEF ScaStates, next
      <4> QED BY <1>1, <3>1, <4>2 DEF ScaStates, next
    <3>3. scaProc[p].dest \in DOMAIN ScaDests
      BY <1>1, <1>2 DEF ScaRecords
    <3> HIDE DEF r
    <3> QED BY <1>2, <3>2, <3>3 DEF ScaRecords
  <2>2. adds \subseteq ScaWhole(t)
    BY <1>1, <1>2, <1>6 DEF ScaWhole
  <2>3. adds \subseteq ScaNames
    BY <2>2, <1>2, ScaMineIsApart
  <2>4. scaStage[key] \in ScaNodes /\ scaStage[key].kind = "dir"
    BY <1>2, <1>3, <1>5 DEF ScaHolds
  <2>5. node \in ScaNodes /\ node.kind = "dir" /\ node.files = scaStage[key].files \cup adds
    BY <2>3, <2>4 DEF ScaNodes
  <2>6. node.files = ScaReserved \cup {t[i].path : i \in 1..(n - 1)}
    <3>1. CASE n = 1
      BY <3>1, <2>5, <1>5 DEF ScaHolds
    <3>2. CASE n # 1
      <4>1. scaStage[key].files = ScaReserved \cup {t[i].path : i \in 1..(n - 2)} /\ adds = {t[n - 1].path}
        BY <3>2, <1>5 DEF ScaHolds
      <4>2. 1..(n - 1) = 1..(n - 2) \cup {n - 1}
        BY <3>2, <1>2
      <4> HIDE DEF adds, node, n, t, key
      <4> QED BY <4>1, <4>2, <2>5
    <3> QED BY <3>1, <3>2
  <2>7. ScaHolds(r, node)
    <3>1. r.next - 2 = n - 1 /\ r.next # 1 /\ r.next <= Len(t) + 2
      BY <1>1, <1>2, <1>6, <2>1
    <3>2. ScaTemplates[r.template] = t
      BY <2>1
    <3> HIDE DEF r, node, t, n
    <3> QED BY <2>1, <2>5, <2>6, <3>1, <3>2 DEF ScaHolds
  <2>8. ScaKeyOf(r, p) = key
    BY <2>1 DEF ScaKeyOf, ScaKey
  <2>9. scaProc' = [scaProc EXCEPT ![p] = r] /\ scaStage' = [scaStage EXCEPT ![key] = node]
    BY <1>8
  <2> HIDE DEF r, node, key
  <2>10. /\ scaStage' \in [ScaKeys -> ScaNodes] /\ scaStage'[key] = node
         /\ \A k \in ScaKeys : scaStage'[k] # scaStage[k] => k = key
    BY <1>2, <1>3, <2>5, <2>9
  <2>11. scaProc' \in [ScaProcs -> ScaRecords] /\ ScaStagesAreOwned'
    BY <1>5, <2>1, <2>7, <2>8, <2>9, <2>10, ScaMoveHolds
  <2> QED BY <1>1, <2>10, <2>11, ScaDestsHold DEF ScaInvariant, ScaTyped
<1> QED BY <1>1, <1>7, <1>8

\* A command that has written its project goes on with it whole.
LEMMA ScaWholeGoesOn ==
  ASSUME ScaInvariant, NEW p \in ScaWriting, NEW pc \in {"clear", "rename"},
         scaProc[p].next = Len(ScaTemplates[scaProc[p].template]) + 2,
         scaProc' = [scaProc EXCEPT ![p].pc = pc], UNCHANGED scaStage
  PROVE  scaProc' \in [ScaProcs -> ScaRecords] /\ ScaStagesAreOwned' /\ scaStage' \in [ScaKeys -> ScaNodes]
<1>1. /\ p \in ScaProcs /\ scaProc[p].pc \in ScaStaging /\ scaProc[p] \in ScaRecords
      /\ scaStage' \in [ScaKeys -> ScaNodes]
  BY DEF ScaInvariant, ScaTyped, ScaWriting, ScaStaging
<1>2. /\ \A q \in ScaWriting \ {p} : ScaKey(q) # ScaKey(p)
      /\ ScaHolds(scaProc[p], scaStage'[ScaKey(p)])
  BY DEF ScaInvariant, ScaStagesAreOwned
<1> DEFINE r == [scaProc[p] EXCEPT !.pc = pc]
<1>3. scaProc[p] \in ScaStates
  BY <1>1 DEF ScaRecords
<1>4. /\ r \in ScaStates /\ r.pc = pc /\ r.next = scaProc[p].next /\ r.template = scaProc[p].template
      /\ r.dest = scaProc[p].dest
  BY <1>3 DEF ScaStates
<1>5. scaProc' = [scaProc EXCEPT ![p] = r]
  OBVIOUS
<1> HIDE DEF r
<1>6. r \in ScaRecords
  BY <1>1, <1>4 DEF ScaRecords, ScaStaging
<1>7. ScaKeyOf(r, p) = ScaKey(p)
  BY <1>4 DEF ScaKeyOf, ScaKey
<1>8. ScaHolds(r, scaStage'[ScaKey(p)])
  BY <1>2, <1>4 DEF ScaHolds
<1> QED BY <1>1, <1>2, <1>5, <1>6, <1>7, <1>8, ScaMoveHolds

LEMMA ScaRecheckHolds ==
  ASSUME ScaInvariant, NEW p \in ScaProcs, ScaRecheck(p)
  PROVE  ScaInvariant'
  BY ScaEndsHolds, ScaWholeGoesOn, ScaDestsHold DEF ScaRecheck, ScaWriting, ScaInvariant,
     ScaTyped

\* What was empty holds nothing of the user's, so it may be replaced by nothing
\* or by a whole project.
LEMMA ScaReplaceHolds ==
  ASSUME ScaInvariant, NEW d \in DOMAIN ScaDests, scaDest[d].files = {}, NEW node \in ScaNodes,
         \/ node.files = {}
         \/ \E t \in DOMAIN ScaTemplates : node.files = ScaWhole(ScaTemplates[t]),
         scaDest' = [scaDest EXCEPT ![d] = node], scaMine' = scaMine
  PROVE  ScaDestinationsAreSafe' /\ scaDest' \in [DOMAIN ScaDests -> ScaNodes]
  BY ScaMineIsApart DEF ScaInvariant, ScaTyped, ScaDestinationsAreSafe

\* An empty directory makes way.
LEMMA ScaClearHolds ==
  ASSUME ScaInvariant, NEW p \in ScaProcs, ScaClear(p)
  PROVE  ScaInvariant'
<1>1. scaProc[p].pc = "clear" /\ UNCHANGED <<scaStage, scaMine>> /\ scaProc[p] \in ScaRecords
  BY DEF ScaClear, ScaInvariant, ScaTyped
<1>2. CASE ScaEnds(p) /\ UNCHANGED scaDest
  BY <1>1, <1>2, ScaEndsHolds, ScaDestsHold DEF ScaInvariant, ScaTyped
<1>3. CASE /\ ScaRemovable(scaDest[scaProc[p].dest])
           /\ scaDest' = [scaDest EXCEPT ![scaProc[p].dest] = ScaAbsent]
           /\ scaProc' = [scaProc EXCEPT ![p].pc = "rename"]
  <2>1. scaProc[p].dest \in DOMAIN ScaDests /\ scaDest[scaProc[p].dest].files = {}
    BY <1>1, <1>3 DEF ScaRecords, ScaRemovable
  <2>2. ScaAbsent \in ScaNodes /\ ScaAbsent.files = {}
    BY ScaAbsentIsNode DEF ScaAbsent
  <2>3. ScaDestinationsAreSafe' /\ scaDest' \in [DOMAIN ScaDests -> ScaNodes]
    BY <1>1, <1>3, <2>1, <2>2, ScaReplaceHolds
  <2>4. p \in ScaWriting
    BY <1>1 DEF ScaWriting
  <2>5. scaProc[p].next = Len(ScaTemplates[scaProc[p].template]) + 2
    BY <1>1, <2>4 DEF ScaInvariant, ScaStagesAreOwned, ScaHolds
  <2>6. scaProc' \in [ScaProcs -> ScaRecords] /\ ScaStagesAreOwned' /\ scaStage' \in [ScaKeys -> ScaNodes]
    BY <1>1, <1>3, <2>4, <2>5, ScaWholeGoesOn
  <2> QED BY <2>3, <2>6 DEF ScaInvariant, ScaTyped
<1> QED BY <1>2, <1>3 DEF ScaClear

\* The rename puts a whole project where there was nothing.
LEMMA ScaRenameHolds ==
  ASSUME ScaInvariant, NEW p \in ScaProcs, ScaRename(p)
  PROVE  ScaInvariant'
<1> DEFINE dest == scaProc[p].dest
           key == ScaKey(p)
           t == ScaTemplates[scaProc[p].template]
<1>1. scaProc[p].pc = "rename" /\ ScaEnds(p) /\ scaMine' = scaMine /\ scaProc[p] \in ScaRecords
      /\ scaStage \in [ScaKeys -> ScaNodes]
  BY DEF ScaRename, ScaInvariant, ScaTyped
<1>2. CASE UNCHANGED <<scaDest, scaStage>>
  BY <1>1, <1>2, ScaEndsHolds, ScaDestsHold DEF ScaInvariant, ScaTyped
<1>3. CASE /\ scaDest[dest] \in {ScaAbsent, ScaDir({})}
           /\ scaDest' = [scaDest EXCEPT ![dest] = scaStage[key]]
           /\ scaStage' = [scaStage EXCEPT ![key] = ScaAbsent]
  <2>1. /\ dest \in DOMAIN ScaDests /\ scaProc[p].template \in DOMAIN ScaTemplates
        /\ scaDest[dest].files = {}
    BY <1>1, <1>3 DEF ScaRecords, ScaAbsent, ScaDir
  <2>2. key \in ScaKeys
    BY <1>1, ScaKeyIsKey DEF ScaKey, ScaKeyOf
  <2>3. p \in ScaWriting
    BY <1>1 DEF ScaWriting
  <2>4. /\ \A q \in ScaWriting \ {p} : ScaKey(q) # key
        /\ ScaHolds(scaProc[p], scaStage[key])
    BY <2>3 DEF ScaInvariant, ScaStagesAreOwned
  <2>5. Len(t) \in Nat /\ DOMAIN t = 1..Len(t)
    BY <2>1, ScaAssumption, LenProperties
  <2>6. scaStage[key].files = ScaWhole(t)
    <3>1. scaProc[p].next = Len(t) + 2
      BY <1>1, <2>4 DEF ScaHolds
    <3>2. scaProc[p].next # 1 /\ scaProc[p].next - 2 = Len(t)
      BY <3>1, <2>5
    <3>3. scaStage[key].files = ScaReserved \cup {t[i].path : i \in 1..Len(t)}
      BY <2>4, <3>2 DEF ScaHolds
    <3> QED BY <3>3, <2>5 DEF ScaWhole
  <2>7. scaStage[key] \in ScaNodes
    BY <1>1, <2>2
  <2>8. ScaDestinationsAreSafe' /\ scaDest' \in [DOMAIN ScaDests -> ScaNodes]
    BY <1>1, <1>3, <2>1, <2>6, <2>7, ScaReplaceHolds
  <2> DEFINE r == ScaIdle("done")
  <2>9. r \in ScaRecords /\ r.pc \notin ScaStaging
    BY ScaIdleIsRecord DEF ScaStaging
  <2>10. scaProc' = [scaProc EXCEPT ![p] = r] /\ scaStage' \in [ScaKeys -> ScaNodes]
         /\ \A k \in ScaKeys : scaStage'[k] # scaStage[k] => k = key
    BY <1>1, <1>3, <2>2, ScaAbsentIsNode DEF ScaEnds
  <2> HIDE DEF r, key
  <2>11. scaProc' \in [ScaProcs -> ScaRecords] /\ ScaStagesAreOwned'
    BY <2>4, <2>9, <2>10, ScaMoveHolds
  <2> QED BY <2>8, <2>10, <2>11 DEF ScaInvariant, ScaTyped
<1> QED BY <1>2, <1>3 DEF ScaRename

LEMMA ScaStagesStay ==
  ASSUME ScaStagesAreOwned, scaStage' = scaStage, scaProc' = scaProc
  PROVE  ScaStagesAreOwned'
<1>1. ScaWriting' = ScaWriting /\ \A p : ScaKey(p)' = ScaKey(p)
  BY DEF ScaWriting, ScaKey
<1>2. ASSUME NEW p \in ScaWriting
      PROVE  /\ ScaHolds(scaProc'[p], scaStage'[ScaKey(p)'])
             /\ \A q \in ScaWriting : ScaKey(q)' = ScaKey(p)' => q = p
  BY <1>1 DEF ScaStagesAreOwned
<1> QED BY <1>1, <1>2 DEF ScaStagesAreOwned, ScaHolds

\* The user's own steps only add.
LEMMA ScaUseHolds ==
  ASSUME ScaInvariant, NEW d \in DOMAIN ScaDests, ScaUse(d)
  PROVE  ScaInvariant'
<1>1. /\ scaDest \in [DOMAIN ScaDests -> ScaNodes] /\ scaDest[d] \in ScaNodes
      /\ scaStage' = scaStage /\ scaProc' = scaProc
  BY DEF ScaInvariant, ScaTyped, ScaUse
<1>2. PICK node :
         /\ node \in ScaNodes /\ scaDest' = [scaDest EXCEPT ![d] = node]
         /\ scaDest[d].files \subseteq node.files /\ node.files \subseteq scaDest[d].files \cup {"mine"}
         /\ scaMine' = scaMine \/ (scaMine' = scaMine \cup {d} /\ "mine" \in node.files)
  <2>1. CASE scaDest[d] = ScaAbsent
    <3>1. PICK node \in {ScaDir({}), [kind |-> "file", files |-> {"mine"}], [kind |-> "dangling", files |-> {}]} :
             /\ scaDest' = [scaDest EXCEPT ![d] = node]
             /\ scaMine' = IF node.kind = "file" THEN scaMine \cup {d} ELSE scaMine
      BY <2>1 DEF ScaUse, ScaAbsent
    <3>2. node \in ScaNodes /\ node.files \subseteq {"mine"} /\ (node.kind = "file" => "mine" \in node.files)
      BY DEF ScaDir, ScaNodes, ScaNames
    <3>3. scaDest[d].files = {}
      BY <2>1 DEF ScaAbsent
    <3>4. CASE node.kind = "file"
      BY <3>1, <3>2, <3>3, <3>4
    <3>5. CASE node.kind # "file"
      BY <3>1, <3>2, <3>3, <3>5
    <3> QED BY <3>4, <3>5
  <2>2. CASE /\ scaDest[d].kind = "dir"
             /\ scaDest' = [scaDest EXCEPT ![d].files = @ \cup {"mine"}]
             /\ scaMine' = scaMine \cup {d}
    <3> DEFINE node == [scaDest[d] EXCEPT !.files = @ \cup {"mine"}]
    <3>1. node \in ScaNodes /\ node.files = scaDest[d].files \cup {"mine"}
      BY <1>1, <2>2 DEF ScaNodes, ScaNames
    <3>2. scaDest' = [scaDest EXCEPT ![d] = node]
      BY <2>2
    <3> HIDE DEF node
    <3> QED BY <2>2, <3>1, <3>2
  <2> QED BY <2>1, <2>2 DEF ScaUse
<1>3. /\ scaDest' \in [DOMAIN ScaDests -> ScaNodes] /\ scaDest'[d] = node
      /\ \A e \in DOMAIN ScaDests : e # d => scaDest'[e] = scaDest[e]
  BY <1>1, <1>2
<1>4. node.files \ {"mine"} = scaDest[d].files \ {"mine"}
  BY <1>2
<1>5. ScaDestinationsAreSafe'
  BY <1>1, <1>2, <1>3, <1>4 DEF ScaInvariant, ScaDestinationsAreSafe
<1>6. ScaStagesAreOwned'
  BY <1>1, ScaStagesStay DEF ScaInvariant
<1> QED BY <1>1, <1>3, <1>5, <1>6 DEF ScaInvariant, ScaTyped

\* Whatever commands and users interleave and wherever a command dies, for any
\* templates, destinations and process ids: a destination holds no part of a
\* project or a whole one, and what the user put there stays (scaffold_project).
THEOREM ScaffoldIsSafe == ScaSpec => []ScaDestinationsAreSafe
<1>1. ScaInvariant /\ [ScaNext]_scaVars => ScaInvariant'
  <2> SUFFICES ASSUME ScaInvariant, [ScaNext]_scaVars PROVE ScaInvariant'
    OBVIOUS
  <2>1. CASE UNCHANGED scaVars
    BY <2>1, ScaStagesStay DEF scaVars, ScaInvariant, ScaTyped, ScaDestinationsAreSafe
  <2>2. ASSUME NEW p \in ScaProcs, ScaCrash(p) PROVE ScaInvariant'
    BY <2>2, ScaEndsHolds, ScaDestsHold DEF ScaCrash, ScaInvariant, ScaTyped
  <2> QED BY <2>1, <2>2, ScaStartHolds, ScaStagedHolds, ScaWriteHolds, ScaRecheckHolds, ScaClearHolds,
             ScaRenameHolds, ScaUseHolds DEF ScaNext
<1>2. ScaInvariant => ScaDestinationsAreSafe
  BY DEF ScaInvariant
<1> QED BY <1>1, <1>2, ScaInitHolds, PTL DEF ScaSpec

-----------------------------------------------------------------------------
(* ComponentSdk.                                                           *)

\* What an MCP message does to the flags: only an initialize that is answered
\* opens a session, and only the notification confirms it.
LEMMA SdkMcpSays ==
  ASSUME NEW rpc \in SdkFlags, NEW msg \in SdkLines
  PROVE  /\ SdkMcp(rpc, msg).rpc \in SdkFlags /\ SdkMcp(rpc, msg).answer \in SdkAnswers
         /\ SdkMcp(rpc, msg).rpc.negotiated = rpc.negotiated
         /\ SdkMcp(rpc, msg).rpc.accepted =>
              \/ msg.method = "initialize" /\ SdkMcp(rpc, msg).answer = "ok"
              \/ /\ rpc.accepted
                 /\ msg.method = "initialize" => SdkMcp(rpc, msg).answer \in {"invalid", "none"}
         /\ SdkMcp(rpc, msg).rpc.initialized =>
              /\ msg.method = "initialize" => SdkMcp(rpc, msg).answer \in {"invalid", "none"}
              /\ rpc.initialized \/ (rpc.accepted /\ msg.method = "initialized" /\ ~msg.id)
         /\ SdkMcp(rpc, msg).answer = "ok" =>
              /\ msg.method \in {"tools/list", "tools/call"} => rpc.initialized
              /\ msg.method # "diagnostics"
<1> DEFINE next == SdkMcp(rpc, msg)
<1>1. /\ msg.id \in BOOLEAN /\ msg.json2 \in BOOLEAN /\ msg.ok \in BOOLEAN
      /\ rpc.negotiated \in BOOLEAN /\ rpc.accepted \in BOOLEAN /\ rpc.initialized \in BOOLEAN
  BY DEF SdkLines, SdkFlags
<1>2. CASE ~msg.json2
  BY <1>2 DEF SdkMcp, SdkAnswers, next
<1>3. CASE msg.json2 /\ ~msg.id /\ msg.method = "initialized"
  BY <1>3, <1>1 DEF SdkMcp, SdkFlags, SdkAnswers, next
<1>4. CASE msg.json2 /\ ~msg.id /\ msg.method # "initialized"
  BY <1>4 DEF SdkMcp, SdkAnswers, next
<1>5. CASE msg.json2 /\ msg.id /\ msg.method = "initialize"
  BY <1>5, <1>1 DEF SdkMcp, SdkInitialized, SdkFlags, SdkAnswers, next
<1>6. CASE msg.json2 /\ msg.id /\ msg.method = "ping"
  BY <1>6 DEF SdkMcp, SdkAnswers, next
<1>7. CASE msg.json2 /\ msg.id /\ msg.method \notin {"initialize", "ping"}
  BY <1>7 DEF SdkMcp, SdkAnswers, next
<1> QED BY <1>1, <1>2, <1>3, <1>4, <1>5, <1>6, <1>7

\* What a message does to a Pliego host: the flag is the latest handshake's.
LEMMA SdkPliegoSays ==
  ASSUME NEW rpc \in SdkFlags, NEW msg \in SdkLines
  PROVE  /\ SdkPliego(rpc, msg).rpc \in SdkFlags /\ SdkPliego(rpc, msg).answer \in SdkAnswers
         /\ SdkPliego(rpc, msg).rpc.accepted = rpc.accepted
         /\ SdkPliego(rpc, msg).rpc.initialized = rpc.initialized
         /\ SdkPliego(rpc, msg).rpc.negotiated =>
              \/ msg.method = "handshake" /\ SdkPliego(rpc, msg).answer = "ok"
              \/ rpc.negotiated /\ SdkPliego(rpc, msg).answer # "version"
         /\ SdkPliego(rpc, msg).answer = "ok" =>
              /\ msg.method = "diagnostics" => rpc.negotiated
              /\ msg.method \in {"handshake", "diagnostics"}
<1> DEFINE next == SdkPliego(rpc, msg)
<1>1. /\ msg.id \in BOOLEAN /\ msg.json2 \in BOOLEAN /\ msg.ok \in BOOLEAN
      /\ rpc.negotiated \in BOOLEAN /\ rpc.accepted \in BOOLEAN /\ rpc.initialized \in BOOLEAN
  BY DEF SdkLines, SdkFlags
<1>2. ASSUME NEW answer \in SdkAnswers, next = [rpc |-> rpc, answer |-> answer], answer # "version",
             answer = "ok" => msg.method = "diagnostics" /\ rpc.negotiated
      PROVE  /\ next.rpc \in SdkFlags /\ next.answer \in SdkAnswers
             /\ next.rpc.accepted = rpc.accepted
             /\ next.rpc.initialized = rpc.initialized
             /\ next.rpc.negotiated =>
                  \/ msg.method = "handshake" /\ next.answer = "ok"
                  \/ rpc.negotiated /\ next.answer # "version"
             /\ next.answer = "ok" =>
                  /\ msg.method = "diagnostics" => rpc.negotiated
                  /\ msg.method \in {"handshake", "diagnostics"}
  <2> HIDE DEF next
  <2>1. next.rpc = rpc /\ next.answer = answer
    BY <1>2
  <2> QED BY <1>2, <2>1
<1>3. CASE ~msg.id
  BY <1>3, <1>2 DEF SdkPliego, SdkAnswers
<1>4. CASE msg.id /\ ~msg.json2
  BY <1>4, <1>2 DEF SdkPliego, SdkAnswers
<1>5. CASE msg.id /\ msg.json2 /\ msg.method = "handshake"
  BY <1>5, <1>1 DEF SdkPliego, SdkFlags, SdkAnswers, next
<1>6. CASE msg.id /\ msg.json2 /\ msg.method = "diagnostics"
  BY <1>6, <1>2 DEF SdkPliego, SdkAnswers
<1>7. CASE msg.id /\ msg.json2 /\ msg.method \notin {"handshake", "diagnostics"}
  BY <1>7, <1>2 DEF SdkPliego, SdkAnswers
<1> QED BY <1>1, <1>3, <1>4, <1>5, <1>6, <1>7

SdkEntries == [msg : SdkLines, answer : SdkAnswers]

\* What one more line of the talk keeps and what it brings.
LEMMA SdkTalkGrows ==
  ASSUME NEW talk \in Seq(SdkEntries), NEW e \in SdkEntries
  PROVE  /\ Append(talk, e) \in Seq(SdkEntries)
         /\ Len(talk) \in Nat /\ Len(Append(talk, e)) = Len(talk) + 1
         /\ \A i \in 1..Len(talk) : Append(talk, e)[i] = talk[i]
         /\ Append(talk, e)[Len(talk) + 1] = e
BY AppendProperties, LenProperties

LEMMA SdkStaysOpen ==
  ASSUME NEW talk \in Seq(SdkEntries), NEW e \in SdkEntries, NEW j, SdkOpened(talk, j),
         e.msg.method = "initialize" => e.answer \in {"invalid", "none"}
  PROVE  SdkOpened(Append(talk, e), j)
<1> DEFINE new == Append(talk, e)
<1>1. /\ Len(talk) \in Nat /\ Len(new) = Len(talk) + 1 /\ new[Len(talk) + 1] = e
      /\ \A i \in 1..Len(talk) : new[i] = talk[i]
  BY SdkTalkGrows
<1> HIDE DEF new
<1>2. j \in 1..Len(talk)
  BY DEF SdkOpened
<1>3. ASSUME NEW n \in j + 1..Len(new), new[n].msg.method = "initialize"
      PROVE  new[n].answer \in {"invalid", "none"}
  BY <1>1, <1>2, <1>3 DEF SdkOpened
<1>4. j \in 1..Len(new) /\ new[j] = talk[j]
  BY <1>1, <1>2
<1> QED BY <1>3, <1>4 DEF SdkOpened, new

LEMMA SdkStaysAgreed ==
  ASSUME NEW talk \in Seq(SdkEntries), NEW e \in SdkEntries, NEW j, SdkAgreed(talk, j),
         e.answer # "version"
  PROVE  SdkAgreed(Append(talk, e), j)
  BY SdkTalkGrows DEF SdkAgreed

\* The line that opens a session or agrees on a version is the latest.
LEMMA SdkOpensNow ==
  ASSUME NEW talk \in Seq(SdkEntries), NEW e \in SdkEntries, e.answer = "ok"
  PROVE  /\ e.msg.method = "initialize" => SdkOpened(Append(talk, e), Len(talk) + 1)
         /\ e.msg.method = "handshake" => SdkAgreed(Append(talk, e), Len(talk) + 1)
  BY SdkTalkGrows DEF SdkOpened, SdkAgreed

\* The tools and the diagnostics that were served before stay served in a
\* session: what matters is the talk up to them.
SdkServed(talk, i) ==
    talk[i].answer = "ok" =>
        /\ talk[i].msg.method \in {"tools/list", "tools/call"} =>
             \E j \in 1..i, k \in 1..i :
                /\ j < k /\ talk[j].msg.method = "initialize" /\ talk[j].answer = "ok"
                /\ talk[k].msg.method = "initialized" /\ ~talk[k].msg.id
                /\ \A n \in j + 1..i : talk[n].msg.method = "initialize" => talk[n].answer \in {"invalid", "none"}
        /\ talk[i].msg.method = "diagnostics" =>
             \E j \in 1..i : /\ talk[j].msg.method = "handshake" /\ talk[j].answer = "ok"
                             /\ \A n \in j + 1..i : talk[n].answer /= "version"

LEMMA SdkServedIsTools == SdkToolsNeedHandshake <=> \A i \in 1..Len(sdkTalk) : SdkServed(sdkTalk, i)
BY DEF SdkToolsNeedHandshake, SdkServed

LEMMA SdkStaysServed ==
  ASSUME NEW talk \in Seq(SdkEntries), NEW e \in SdkEntries, NEW i \in 1..Len(talk), SdkServed(talk, i)
  PROVE  SdkServed(Append(talk, e), i)
<1> DEFINE new == Append(talk, e)
<1>1. Len(talk) \in Nat /\ \A n \in 1..Len(talk) : new[n] = talk[n]
  BY SdkTalkGrows
<1> HIDE DEF new
<1>2. \A n \in 1..i : n \in 1..Len(talk) /\ new[n] = talk[n]
  BY <1>1
<1>3. \A j \in 1..i : \A n \in j + 1..i : n \in 1..i
  BY <1>1
<1>4. i \in 1..i
  BY <1>1
<1>5. ASSUME new[i].answer = "ok", new[i].msg.method \in {"tools/list", "tools/call"}
      PROVE  \E j \in 1..i, k \in 1..i :
                /\ j < k /\ new[j].msg.method = "initialize" /\ new[j].answer = "ok"
                /\ new[k].msg.method = "initialized" /\ ~new[k].msg.id
                /\ \A n \in j + 1..i : new[n].msg.method = "initialize" => new[n].answer \in {"invalid", "none"}
  <2>1. PICK j \in 1..i, k \in 1..i :
                /\ j < k /\ talk[j].msg.method = "initialize" /\ talk[j].answer = "ok"
                /\ talk[k].msg.method = "initialized" /\ ~talk[k].msg.id
                /\ \A n \in j + 1..i : talk[n].msg.method = "initialize" => talk[n].answer \in {"invalid", "none"}
    BY <1>2, <1>4, <1>5 DEF SdkServed
  <2> QED BY SMTT(60), <2>1, <1>2, <1>3
<1>6. ASSUME new[i].answer = "ok", new[i].msg.method = "diagnostics"
      PROVE  \E j \in 1..i : /\ new[j].msg.method = "handshake" /\ new[j].answer = "ok"
                             /\ \A n \in j + 1..i : new[n].answer /= "version"
  <2>1. PICK j \in 1..i : /\ talk[j].msg.method = "handshake" /\ talk[j].answer = "ok"
                          /\ \A n \in j + 1..i : talk[n].answer /= "version"
    BY <1>2, <1>4, <1>6 DEF SdkServed
  <2> QED BY <2>1, <1>2, <1>3
<1> QED BY <1>5, <1>6 DEF SdkServed, new

\* A line answered now is served in the session that the flags stand for.
LEMMA SdkServedNow ==
  ASSUME NEW talk \in Seq(SdkEntries), NEW e \in SdkEntries,
         (e.answer = "ok" /\ e.msg.method \in {"tools/list", "tools/call"}) =>
            \E j, k \in 1..Len(talk) : SdkConfirmed(talk, j, k),
         (e.answer = "ok" /\ e.msg.method = "diagnostics") => \E j \in 1..Len(talk) : SdkAgreed(talk, j)
  PROVE  SdkServed(Append(talk, e), Len(talk) + 1)
<1> DEFINE new == Append(talk, e)
           i == Len(talk) + 1
<1>1. /\ Len(talk) \in Nat /\ Len(new) = i /\ new[i] = e
      /\ \A n \in 1..Len(talk) : new[n] = talk[n]
  BY SdkTalkGrows
<1>2. ASSUME e.answer = "ok", e.msg.method \in {"tools/list", "tools/call"}
      PROVE  \E j \in 1..i, k \in 1..i :
                /\ j < k /\ new[j].msg.method = "initialize" /\ new[j].answer = "ok"
                /\ new[k].msg.method = "initialized" /\ ~new[k].msg.id
                /\ \A n \in j + 1..i : new[n].msg.method = "initialize" => new[n].answer \in {"invalid", "none"}
  <2>1. PICK j, k \in 1..Len(talk) : SdkConfirmed(talk, j, k)
    BY <1>2
  <2>2. SdkOpened(new, j)
    BY <1>2, <2>1, SdkStaysOpen DEF SdkConfirmed
  <2> HIDE DEF new
  <2>3. k \in j + 1..Len(talk) /\ talk[k].msg.method = "initialized" /\ ~talk[k].msg.id
    BY <2>1 DEF SdkConfirmed
  <2>4. j < k /\ j \in 1..i /\ k \in 1..i /\ new[k] = talk[k]
    BY <1>1, <2>3
  <2> QED BY <1>1, <2>2, <2>3, <2>4 DEF SdkOpened
<1>3. ASSUME e.answer = "ok", e.msg.method = "diagnostics"
      PROVE  \E j \in 1..i : /\ new[j].msg.method = "handshake" /\ new[j].answer = "ok"
                             /\ \A n \in j + 1..i : new[n].answer /= "version"
  <2>1. PICK j \in 1..Len(talk) : SdkAgreed(talk, j)
    BY <1>3
  <2>2. SdkAgreed(new, j)
    BY <1>3, <2>1, SdkStaysAgreed
  <2> HIDE DEF new
  <2> QED BY <1>1, <2>2 DEF SdkAgreed
<1> HIDE DEF new
<1> QED BY <1>1, <1>2, <1>3 DEF SdkServed, new

\* A message to the tooling host.
LEMMA SdkMessageHolds ==
  ASSUME SdkInvariant, NEW msg \in SdkTried, SdkMessage(msg)
  PROVE  SdkInvariant'
<1> DEFINE next == IF sdkSide = "mcp" THEN SdkMcp(sdkRpc, msg) ELSE SdkPliego(sdkRpc, msg)
           e == [msg |-> msg, answer |-> next.answer]
           new == Append(sdkTalk, e)
<1>1. /\ sdkSide \in {"pliego", "mcp"} /\ sdkRpc' = next.rpc /\ sdkTalk' = new
      /\ UNCHANGED <<sdkSide, sdkExecutor, sdkExt, sdkRun, sdkLate, sdkExpired, sdkPerformed, sdkReturned>>
  BY DEF SdkMessage
<1>2. sdkRpc \in SdkFlags /\ sdkTalk \in Seq(SdkEntries) /\ SdkFlagsAreEarned
  BY DEF SdkInvariant, SdkTyped, SdkEntries
<1>3. /\ msg \in SdkLines
      /\ sdkSide = "pliego" => msg.method \in {"handshake", "diagnostics", "other"}
      /\ sdkSide = "mcp" => msg.method \notin {"handshake", "diagnostics"}
  <2> DEFINE methods == IF sdkSide = "pliego" THEN {"handshake", "diagnostics", "other"}
                        ELSE {"initialize", "initialized", "ping", "tools/list", "tools/call", "other"}
  <2>1. PICK n \in methods, ok \in BOOLEAN, id \in BOOLEAN, v \in BOOLEAN :
           msg = [method |-> n, ok |-> ok, id |-> id, json2 |-> v]
    <3> HIDE DEF methods
    <3>1. msg \in {[method |-> n, ok |-> TRUE, id |-> i, json2 |-> TRUE] : n \in methods, i \in BOOLEAN}
                 \cup {[method |-> n, ok |-> FALSE, id |-> TRUE, json2 |-> v] :
                         n \in methods \cap {"handshake", "initialize", "tools/call"}, v \in BOOLEAN}
      BY DEF SdkTried, methods
    <3>2. CASE msg \in {[method |-> n, ok |-> TRUE, id |-> i, json2 |-> TRUE] : n \in methods, i \in BOOLEAN}
      <4>1. PICK n \in methods, i \in BOOLEAN : msg = [method |-> n, ok |-> TRUE, id |-> i, json2 |-> TRUE]
        BY <3>2
      <4> QED BY <4>1
    <3>3. CASE msg \in {[method |-> n, ok |-> FALSE, id |-> TRUE, json2 |-> v] :
                         n \in methods \cap {"handshake", "initialize", "tools/call"}, v \in BOOLEAN}
      <4>1. PICK n \in methods, v \in BOOLEAN : msg = [method |-> n, ok |-> FALSE, id |-> TRUE, json2 |-> v]
        BY <3>3
      <4> QED BY <4>1
    <3> QED BY <3>1, <3>2, <3>3
  <2>2. msg.method = n /\ msg.ok = ok /\ msg.id = id /\ msg.json2 = v
    BY <2>1
  <2>3. /\ n \in {"handshake", "diagnostics", "initialize", "initialized", "ping", "tools/list", "tools/call",
                  "other"}
        /\ sdkSide = "pliego" => n \in {"handshake", "diagnostics", "other"}
        /\ sdkSide = "mcp" => n \notin {"handshake", "diagnostics"}
    OBVIOUS
  <2> HIDE DEF methods
  <2>4. msg \in SdkLines
    BY <2>1, <2>3 DEF SdkLines
  <2> QED BY <2>2, <2>3, <2>4
<1>4. next.rpc \in SdkFlags /\ next.answer \in SdkAnswers
  BY <1>2, <1>3, SdkMcpSays, SdkPliegoSays
<1>5. e \in SdkEntries /\ e.msg = msg /\ e.answer = next.answer
  BY <1>3, <1>4 DEF SdkEntries
<1>6. sdkSide = "mcp" =>
         /\ next.rpc.negotiated = sdkRpc.negotiated
         /\ next.rpc.accepted =>
              \/ msg.method = "initialize" /\ next.answer = "ok"
              \/ /\ sdkRpc.accepted
                 /\ msg.method = "initialize" => next.answer \in {"invalid", "none"}
         /\ next.rpc.initialized =>
              /\ msg.method = "initialize" => next.answer \in {"invalid", "none"}
              /\ sdkRpc.initialized \/ (sdkRpc.accepted /\ msg.method = "initialized" /\ ~msg.id)
         /\ next.answer = "ok" => (msg.method \in {"tools/list", "tools/call"} => sdkRpc.initialized)
  BY <1>2, <1>3, SdkMcpSays
<1>7. sdkSide = "pliego" =>
         /\ next.rpc.accepted = sdkRpc.accepted /\ next.rpc.initialized = sdkRpc.initialized
         /\ next.rpc.negotiated =>
              \/ msg.method = "handshake" /\ next.answer = "ok"
              \/ sdkRpc.negotiated /\ next.answer # "version"
         /\ next.answer = "ok" => (msg.method = "diagnostics" => sdkRpc.negotiated)
  BY <1>2, <1>3, SdkPliegoSays
<1> HIDE DEF next, e, new
<1>8. /\ new \in Seq(SdkEntries) /\ Len(sdkTalk) \in Nat /\ Len(new) = Len(sdkTalk) + 1
      /\ new[Len(sdkTalk) + 1] = e
      /\ \A i \in 1..Len(sdkTalk) : new[i] = sdkTalk[i]
  BY <1>2, <1>5, SdkTalkGrows DEF new
<1>9. ASSUME next.rpc.accepted
      PROVE  sdkSide = "mcp" /\ \E j \in 1..Len(new) : SdkOpened(new, j)
  <2>1. sdkSide = "mcp"
    BY <1>1, <1>2, <1>7, <1>9 DEF SdkFlagsAreEarned
  <2>2. CASE msg.method = "initialize" /\ next.answer = "ok"
    BY <1>2, <1>5, <2>2, SdkOpensNow, <2>1 DEF new, SdkOpened
  <2>3. CASE sdkRpc.accepted /\ (msg.method = "initialize" => next.answer \in {"invalid", "none"})
    BY <1>2, <2>3, <1>5, SdkStaysOpen, <2>1 DEF SdkFlagsAreEarned, new, SdkOpened
  <2> QED BY <1>6, <1>9, <2>1, <2>2, <2>3
<1>10. ASSUME next.rpc.initialized
       PROVE  sdkSide = "mcp" /\ \E j, k \in 1..Len(new) : SdkConfirmed(new, j, k)
  <2>1. sdkSide = "mcp"
    BY <1>1, <1>2, <1>7, <1>10 DEF SdkFlagsAreEarned
  <2>2. msg.method = "initialize" => next.answer \in {"invalid", "none"}
    BY <1>6, <1>10, <2>1
  <2>3. CASE sdkRpc.initialized
    BY <1>2, <2>3, <1>5, <2>2, SdkStaysOpen, <1>8, <2>1 DEF SdkFlagsAreEarned, new,
       SdkConfirmed
  <2>4. CASE sdkRpc.accepted /\ msg.method = "initialized" /\ ~msg.id
    BY <1>2, <2>4, <1>5, <2>2, SdkStaysOpen, <1>8, <2>1 DEF SdkFlagsAreEarned, new,
       SdkConfirmed
  <2> QED BY <1>6, <1>10, <2>1, <2>3, <2>4
<1>11. ASSUME next.rpc.negotiated
       PROVE  sdkSide = "pliego" /\ \E j \in 1..Len(new) : SdkAgreed(new, j)
  <2>1. sdkSide = "pliego"
    BY <1>1, <1>2, <1>6, <1>11 DEF SdkFlagsAreEarned
  <2>2. CASE msg.method = "handshake" /\ next.answer = "ok"
    BY <1>2, <1>5, <2>2, SdkOpensNow, <2>1 DEF new, SdkAgreed
  <2>3. CASE sdkRpc.negotiated /\ next.answer # "version"
    <3>1. PICK j \in 1..Len(sdkTalk) : SdkAgreed(sdkTalk, j)
      BY <1>2, <2>3 DEF SdkFlagsAreEarned
    <3>2. SdkAgreed(new, j)
      BY <1>2, <1>5, <2>3, <3>1, SdkStaysAgreed DEF new
    <3> QED BY <2>1, <3>2 DEF SdkAgreed
  <2> QED BY <1>7, <1>11, <2>1, <2>2, <2>3
<1>12. SdkFlagsAreEarned'
  BY <1>1, <1>9, <1>10, <1>11 DEF SdkFlagsAreEarned, SdkConfirmed, SdkOpened, SdkAgreed
<1>13. SdkToolsNeedHandshake'
  <2>1. ASSUME NEW i \in 1..Len(sdkTalk) PROVE SdkServed(new, i)
    <3>1. SdkServed(sdkTalk, i)
      BY SdkServedIsTools DEF SdkInvariant, SdkGuarantees
    <3> QED BY <1>2, <1>5, <3>1, SdkStaysServed DEF new
  <2>2. SdkServed(new, Len(sdkTalk) + 1)
    BY <1>1, <1>2, <1>3, <1>5, <1>6, <1>7, SdkServedNow DEF SdkFlagsAreEarned, new
  <2>3. \A i \in 1..Len(new) : SdkServed(new, i)
    BY <1>8, <2>1, <2>2
  <2> QED BY <1>1, <2>3 DEF SdkServed, SdkToolsNeedHandshake
<1>14. SdkTyped'
  BY <1>1, <1>4, <1>8 DEF SdkInvariant, SdkTyped, SdkEntries
<1>15. SdkRunIsAdmitted' /\ SdkClockIsReadLast' /\ SdkEffectsAreReceipted' /\ SdkResultsAreOnTime'
  BY <1>1 DEF SdkInvariant, SdkRunIsAdmitted, SdkClockIsReadLast, SdkGuarantees, SdkEffectsAreReceipted,
              SdkResultsAreOnTime
<1> QED BY <1>12, <1>13, <1>14, <1>15 DEF SdkInvariant, SdkGuarantees

LEMMA SdkIdleIsRun ==
  /\ SdkIdle \in SdkRuns /\ SdkIdle.at = "idle" /\ SdkIdle.receipts = <<>> /\ SdkIdle.broker = FALSE
  /\ SdkIdle.overran = FALSE
BY DEF SdkIdle, SdkRuns

LEMMA SdkInitHolds == SdkInit => SdkInvariant
<1> SUFFICES ASSUME SdkInit PROVE SdkInvariant
  OBVIOUS
<1> USE DEF SdkInit
<1>1. sdkRun \in SdkRuns /\ sdkRun.at = "idle" /\ sdkRun.receipts = <<>> /\ sdkRun.broker = FALSE
  BY SdkIdleIsRun
<1>2. SdkTyped
  <2>1. sdkSide \in {"extension", "pliego", "mcp"} /\ sdkLate \in BOOLEAN /\ sdkExpired \in BOOLEAN
    OBVIOUS
  <2>2. sdkExecutor \in BOOLEAN
    BY Zenon
  <2>3. sdkRpc \in SdkFlags
    BY DEF SdkFlags
  <2>4. /\ sdkPerformed \in Seq(SdkOutcomes) /\ sdkReturned \in Seq(SdkResults)
        /\ sdkTalk \in Seq([msg : SdkLines, answer : SdkAnswers])
    OBVIOUS
  <2> QED BY <1>1, <2>1, <2>2, <2>3, <2>4 DEF SdkTyped
<1>3. SdkRunIsAdmitted /\ SdkClockIsReadLast /\ SdkFlagsAreEarned
  BY <1>1 DEF SdkRunIsAdmitted, SdkClockIsReadLast, SdkFlagsAreEarned
<1>4. SdkGuarantees
  BY <1>1 DEF SdkGuarantees, SdkEffectsAreReceipted, SdkResultsAreOnTime, SdkToolsNeedHandshake
<1> QED BY <1>2, <1>3, <1>4 DEF SdkInvariant

\* A step of a run says nothing to the tooling host.
LEMMA SdkTalkStays ==
  ASSUME SdkInvariant, UNCHANGED <<sdkSide, sdkRpc, sdkTalk>>
  PROVE  SdkFlagsAreEarned' /\ SdkToolsNeedHandshake'
<1>1. SdkFlagsAreEarned'
  BY DEF SdkInvariant, SdkFlagsAreEarned, SdkConfirmed, SdkOpened, SdkAgreed
<1>2. SdkToolsNeedHandshake'
  BY DEF SdkInvariant, SdkGuarantees, SdkToolsNeedHandshake
<1> QED BY <1>1, <1>2

\* A step of a run that performs no effect and goes on as r.
LEMMA SdkRunHolds ==
  ASSUME SdkInvariant, NEW r \in SdkRuns, sdkRun' = r, sdkRun.at # "idle", r.at # "idle",
         r.receipts = sdkRun.receipts, r.broker = sdkRun.broker,
         UNCHANGED <<sdkSide, sdkExecutor, sdkExt, sdkPerformed, sdkRpc, sdkTalk>>,
         sdkLate' \in BOOLEAN, sdkExpired' \in BOOLEAN, sdkReturned' \in Seq(SdkResults),
         SdkClockIsReadLast', SdkResultsAreOnTime'
  PROVE  SdkInvariant'
  BY SdkTalkStays DEF SdkInvariant, SdkTyped, SdkRunIsAdmitted, SdkGuarantees,
     SdkEffectsAreReceipted

\* Admission: nothing has run yet, and what is admitted is within the policy.
LEMMA SdkAdmitHolds ==
  ASSUME SdkInvariant, NEW m \in SdkManifests, NEW bin \in SdkBinaries, SdkAdmit(m, bin)
  PROVE  SdkInvariant'
<1>1. /\ sdkExt = <<>> /\ sdkExt' = <<m>> /\ SdkAdmits(m, bin)
      /\ UNCHANGED <<sdkSide, sdkExecutor, sdkRun, sdkLate, sdkExpired, sdkPerformed, sdkReturned, sdkRpc, sdkTalk>>
  BY DEF SdkAdmit
<1>2. /\ m.caps \subseteq SdkPolicy
      /\ m.determinism = "pure" => m.caps = {}
      /\ m.budget.fuel \in Nat /\ m.budget.output \in Nat
  BY <1>1, SdkAssumption DEF SdkAdmits, SdkShapeValid, SdkBudgetValid
<1>3. sdkRun.at = "idle" /\ sdkPerformed = <<>> /\ sdkRun.receipts = <<>>
  BY <1>1 DEF SdkInvariant, SdkRunIsAdmitted
<1>4. sdkExt' # <<>> /\ sdkExt'[1] = m
  BY <1>1
<1>5. SdkTyped' /\ SdkClockIsReadLast' /\ SdkResultsAreOnTime'
  BY <1>1 DEF SdkInvariant, SdkTyped, SdkClockIsReadLast, SdkGuarantees, SdkResultsAreOnTime
<1>6. SdkRunIsAdmitted'
  BY <1>1, <1>2, <1>3, <1>4 DEF SdkInvariant, SdkRunIsAdmitted
<1>7. SdkEffectsAreReceipted'
  BY <1>1, <1>3 DEF SdkEffectsAreReceipted
<1> QED BY <1>1, <1>5, <1>6, <1>7, SdkTalkStays DEF SdkInvariant, SdkGuarantees

\* A run starts with no receipts, and with a broker only if there is an executor.
LEMMA SdkStartHolds ==
  ASSUME SdkInvariant, NEW op \in {"instantiate", "transform"}, NEW bin \in SdkBinaries, SdkStart(op, bin)
  PROVE  SdkInvariant'
<1> DEFINE m == sdkExt[1]
           broker == bin.imports /= {}
           r == [SdkIdle EXCEPT !.at = "guest", !.op = op, !.fuel = m.budget.fuel,
                                !.limit = m.budget.output, !.broker = broker]
<1>1. /\ sdkExt # <<>> /\ sdkRun.at = "idle" /\ sdkRun' = r /\ sdkLate' = FALSE /\ sdkExpired' = FALSE
      /\ IF op = "transform" THEN SdkTransformable(m, bin) ELSE SdkLinkable(bin, sdkExecutor)
      /\ UNCHANGED <<sdkSide, sdkExecutor, sdkExt, sdkPerformed, sdkReturned, sdkRpc, sdkTalk>>
  BY DEF SdkStart
<1>2. /\ sdkPerformed = <<>> /\ m.budget.fuel \in Nat /\ m.budget.output \in Nat
  BY <1>1 DEF SdkInvariant, SdkRunIsAdmitted
<1>3. broker \in BOOLEAN /\ (broker => sdkExecutor)
  BY <1>1 DEF SdkTransformable, SdkLinkable
<1> HIDE DEF broker, m
<1>4. /\ r \in SdkRuns /\ r.at = "guest" /\ r.receipts = <<>> /\ r.broker = broker
      /\ r.overran = FALSE
  BY <1>2, <1>3, SdkIdleIsRun DEF SdkRuns
<1> HIDE DEF r
<1>5. SdkTyped'
  BY <1>1, <1>4 DEF SdkInvariant, SdkTyped
<1>6. SdkRunIsAdmitted'
  BY <1>1, <1>3, <1>4 DEF SdkInvariant, SdkRunIsAdmitted
<1>7. SdkClockIsReadLast' /\ SdkResultsAreOnTime' /\ SdkEffectsAreReceipted'
  BY <1>1, <1>2, <1>4 DEF SdkInvariant, SdkClockIsReadLast, SdkGuarantees, SdkResultsAreOnTime,
                          SdkEffectsAreReceipted
<1> QED BY <1>1, <1>5, <1>6, <1>7, SdkTalkStays DEF SdkInvariant, SdkGuarantees

\* An effect is performed and receipted in one step of the broker.
LEMMA SdkEffectHolds ==
  ASSUME SdkInvariant, NEW cap \in SdkPolicy \cup {"network", "clock"}, NEW size \in 0..2,
         NEW outcome \in {"ok", "long", "error", "panic"}, SdkEffect(cap, size, outcome)
  PROVE  SdkInvariant'
<1> DEFINE receipts == sdkRun.receipts
           e == [sequence |-> Len(receipts) + 1, cap |-> cap, ok |-> outcome = "ok"]
           o == [cap |-> cap, outcome |-> outcome]
           more == Append(receipts, e)
           r == [sdkRun EXCEPT !.receipts = more]
<1>1. /\ sdkRun.at = "guest" /\ sdkRun.broker /\ SdkAllows(cap) /\ sdkPerformed' = Append(sdkPerformed, o)
      /\ UNCHANGED <<sdkSide, sdkExecutor, sdkExt, sdkLate, sdkExpired, sdkReturned, sdkRpc, sdkTalk>>
      /\ sdkRun' = r
  BY DEF SdkEffect, SdkRunning, SdkReceipted
<1>2. /\ sdkRun \in SdkRuns /\ receipts \in Seq(SdkReceipts) /\ sdkPerformed \in Seq(SdkOutcomes)
  BY DEF SdkInvariant, SdkTyped, SdkRuns
<1>3. Len(receipts) \in Nat /\ Len(sdkPerformed) = Len(receipts)
  BY <1>2, LenProperties DEF SdkInvariant, SdkGuarantees, SdkEffectsAreReceipted
<1>4. e \in SdkReceipts /\ o \in SdkOutcomes /\ o.cap = cap /\ o.outcome = outcome
  BY <1>3 DEF SdkReceipts, SdkOutcomes
<1> HIDE DEF e, o
<1>5. /\ more \in Seq(SdkReceipts) /\ Len(more) = Len(receipts) + 1 /\ more[Len(receipts) + 1] = e
      /\ \A k \in 1..Len(receipts) : more[k] = receipts[k]
  BY <1>2, <1>4, AppendProperties
<1>6. /\ sdkPerformed' \in Seq(SdkOutcomes) /\ Len(sdkPerformed') = Len(receipts) + 1
      /\ sdkPerformed'[Len(receipts) + 1] = o
      /\ \A k \in 1..Len(receipts) : sdkPerformed'[k] = sdkPerformed[k]
  BY <1>1, <1>2, <1>3, <1>4, AppendProperties
<1> HIDE DEF more
<1>7. /\ r \in SdkRuns /\ r.at = "guest" /\ r.broker = sdkRun.broker /\ r.receipts = more
  BY <1>1, <1>2, <1>5 DEF SdkRuns
<1> HIDE DEF r
<1>8. /\ sdkExt # <<>> /\ sdkExecutor /\ cap \in SdkPolicy \cap sdkExt[1].caps /\ sdkExt[1].determinism # "pure"
  BY <1>1 DEF SdkInvariant, SdkRunIsAdmitted, SdkAllows
<1>9. SdkTyped' /\ SdkRunIsAdmitted' /\ SdkClockIsReadLast' /\ SdkResultsAreOnTime'
  BY <1>1, <1>6, <1>7, <1>8 DEF SdkInvariant, SdkTyped, SdkRunIsAdmitted, SdkClockIsReadLast, SdkGuarantees,
                                SdkResultsAreOnTime
<1>10. SdkEffectsAreReceipted'
  <2>1. ASSUME NEW k \in 1..Len(sdkPerformed')
        PROVE  /\ more[k] = [sequence |-> k, cap |-> sdkPerformed'[k].cap,
                              ok |-> sdkPerformed'[k].outcome = "ok"]
               /\ sdkPerformed'[k].cap \in SdkPolicy \cap sdkExt[1].caps
    <3>1. CASE k = Len(receipts) + 1
      BY <3>1, <1>4, <1>5, <1>6, <1>8 DEF e
    <3>2. CASE k # Len(receipts) + 1
      BY <3>2, <1>3, <1>6, <1>5 DEF SdkInvariant, SdkGuarantees, SdkEffectsAreReceipted
    <3> QED BY <3>1, <3>2
  <2> QED BY <2>1, <1>1, <1>5, <1>6, <1>7, <1>8 DEF SdkEffectsAreReceipted
<1> QED BY <1>1, <1>9, <1>10, SdkTalkStays DEF SdkInvariant, SdkGuarantees

\* The guest computes or ends: a guest that overran is known to be late.
LEMMA SdkGuestHolds ==
  ASSUME SdkInvariant,
         \/ SdkBurn
         \/ \E how \in {"ok", "trap", "guest", "contract", "budget"} : sdkRun.at = "guest" /\ SdkEnded(how)
  PROVE  SdkInvariant'
<1>1. /\ sdkRun.at = "guest" /\ sdkRun \in SdkRuns /\ sdkLate \in BOOLEAN /\ sdkExpired \in BOOLEAN
      /\ sdkReturned \in Seq(SdkResults)
      /\ UNCHANGED <<sdkSide, sdkExecutor, sdkExt, sdkLate, sdkExpired, sdkReturned, sdkPerformed, sdkRpc, sdkTalk>>
  BY DEF SdkBurn, SdkEnded, SdkRunning, SdkInvariant, SdkTyped
<1>2. SdkResultsAreOnTime'
  BY <1>1 DEF SdkInvariant, SdkGuarantees, SdkResultsAreOnTime
<1>3. CASE SdkBurn
  BY <1>3, <1>1, <1>2, SdkRunHolds DEF SdkBurn, SdkRunning, SdkRuns, SdkClockIsReadLast
<1>4. ASSUME NEW how \in {"ok", "trap", "guest", "contract", "budget"}, SdkEnded(how)
      PROVE  SdkInvariant'
  <2> DEFINE r == [sdkRun EXCEPT !.at = "measure", !.ended = how, !.overran = sdkLate]
  <2>1. sdkRun' = r
    BY <1>4 DEF SdkEnded, SdkRunning
  <2>2. /\ r \in SdkRuns /\ r.at = "measure" /\ r.receipts = sdkRun.receipts /\ r.broker = sdkRun.broker
        /\ r.overran = sdkLate
    BY <1>1 DEF SdkRuns
  <2> HIDE DEF r
  <2>3. SdkClockIsReadLast'
    BY <1>1, <2>1, <2>2 DEF SdkClockIsReadLast
  <2> QED BY <1>1, <1>2, <2>1, <2>2, <2>3, SdkRunHolds
<1> QED BY <1>3, <1>4

\* The clock: time only passes, and is read when the guest has ended.
LEMMA SdkClockHolds ==
  ASSUME SdkInvariant, SdkTime \/ SdkTimerFires \/ SdkMeasure
  PROVE  SdkInvariant'
<1>1. /\ sdkRun.at # "idle" /\ sdkRun \in SdkRuns /\ sdkLate \in BOOLEAN /\ sdkExpired \in BOOLEAN
      /\ sdkReturned \in Seq(SdkResults) /\ SdkClockIsReadLast
      /\ UNCHANGED <<sdkSide, sdkExecutor, sdkExt, sdkReturned, sdkPerformed, sdkRpc, sdkTalk>>
  BY DEF SdkTime, SdkTimerFires, SdkMeasure, SdkRunning, SdkInvariant, SdkTyped
<1>2. SdkResultsAreOnTime'
  BY <1>1 DEF SdkInvariant, SdkGuarantees, SdkResultsAreOnTime
<1>3. CASE SdkTime
  BY <1>3, <1>1, <1>2, SdkRunHolds DEF SdkTime, SdkClockIsReadLast
<1>4. CASE SdkTimerFires
  BY <1>4, <1>1, <1>2, SdkRunHolds DEF SdkTimerFires, SdkClockIsReadLast
<1>5. CASE SdkMeasure
  <2> DEFINE r == [sdkRun EXCEPT !.at = "join", !.elapsed = SdkElapsed]
  <2>1. sdkRun' = r /\ sdkLate' = sdkLate /\ sdkExpired' = sdkExpired /\ sdkRun.at = "measure"
    BY <1>5 DEF SdkMeasure, SdkRunning
  <2>2. /\ r \in SdkRuns /\ r.at = "join" /\ r.receipts = sdkRun.receipts /\ r.broker = sdkRun.broker
        /\ r.overran = sdkRun.overran /\ r.elapsed = sdkLate
    BY <1>1 DEF SdkRuns, SdkElapsed
  <2> HIDE DEF r
  <2>3. SdkClockIsReadLast'
    BY <1>1, <2>1, <2>2 DEF SdkClockIsReadLast
  <2> QED BY <1>1, <1>2, <2>1, <2>2, <2>3, SdkRunHolds
<1> QED BY <1>3, <1>4, <1>5

\* The result: a guest that overran was late when the clock was read.
LEMMA SdkJoinHolds ==
  ASSUME SdkInvariant, SdkJoin
  PROVE  SdkInvariant'
<1> DEFINE r == [sdkRun EXCEPT !.at = "done"]
           result == SdkResult
           x == [op |-> sdkRun.op, result |-> result, overran |-> sdkRun.overran,
                 receipts |-> sdkRun.receipts]
<1>1. /\ sdkRun.at = "join" /\ sdkRun' = r /\ sdkReturned' = Append(sdkReturned, x)
      /\ UNCHANGED <<sdkSide, sdkExecutor, sdkExt, sdkLate, sdkExpired, sdkPerformed, sdkRpc, sdkTalk>>
  BY DEF SdkJoin
<1>2. /\ sdkRun \in SdkRuns /\ sdkLate \in BOOLEAN /\ sdkExpired \in BOOLEAN /\ sdkReturned \in Seq(SdkResults)
      /\ sdkRun.overran => sdkRun.elapsed
  BY <1>1 DEF SdkInvariant, SdkTyped, SdkClockIsReadLast
<1>3. /\ r \in SdkRuns /\ r.at = "done" /\ r.receipts = sdkRun.receipts /\ r.broker = sdkRun.broker
  BY <1>2 DEF SdkRuns
<1>4. /\ result \in {"deadline", "exhausted", "runtime", "none", "ok", "guest", "contract", "budget"}
      /\ sdkRun.overran => result = "deadline"
  BY <1>2 DEF SdkRuns, SdkResult
<1> HIDE DEF r, result
<1>5. x \in SdkResults /\ x.overran = sdkRun.overran /\ x.result = result
  BY <1>2, <1>4 DEF SdkRuns, SdkResults
<1> HIDE DEF x
<1>6. /\ sdkReturned' \in Seq(SdkResults) /\ Len(sdkReturned) \in Nat /\ Len(sdkReturned') = Len(sdkReturned) + 1
      /\ sdkReturned'[Len(sdkReturned) + 1] = x
      /\ \A k \in 1..Len(sdkReturned) : sdkReturned'[k] = sdkReturned[k]
  BY <1>1, <1>2, <1>5, AppendProperties, LenProperties
<1>7. SdkResultsAreOnTime'
  BY <1>4, <1>5, <1>6 DEF SdkInvariant, SdkGuarantees, SdkResultsAreOnTime
<1>8. SdkClockIsReadLast'
  BY <1>1, <1>3 DEF SdkClockIsReadLast
<1> QED BY <1>1, <1>2, <1>3, <1>6, <1>7, <1>8, SdkRunHolds

\* For any manifests, policy, budgets and messages: effects are performed with
\* a receipt and a grant, a late guest never succeeds, and no tool is served
\* outside a session (EffectBroker::execute, EpochDeadline, McpHost::handle).
THEOREM ExtensionsAreContained == SdkSpec => []SdkGuarantees
<1>1. SdkInvariant /\ [SdkNext]_sdkVars => SdkInvariant'
  <2> SUFFICES ASSUME SdkInvariant, [SdkNext]_sdkVars PROVE SdkInvariant'
    OBVIOUS
  <2>1. CASE UNCHANGED sdkVars
    <3>1. UNCHANGED <<sdkSide, sdkExecutor, sdkExt, sdkRun, sdkLate, sdkExpired, sdkPerformed, sdkReturned,
                      sdkRpc, sdkTalk>>
      BY <2>1 DEF sdkVars
    <3>2. SdkTyped' /\ SdkRunIsAdmitted' /\ SdkClockIsReadLast'
      BY <3>1 DEF SdkInvariant, SdkTyped, SdkRunIsAdmitted, SdkClockIsReadLast
    <3>3. SdkEffectsAreReceipted' /\ SdkResultsAreOnTime'
      BY <3>1 DEF SdkInvariant, SdkGuarantees, SdkEffectsAreReceipted, SdkResultsAreOnTime
    <3> QED BY <3>1, <3>2, <3>3, SdkTalkStays DEF SdkInvariant, SdkGuarantees
  <2>2. CASE \E m \in SdkManifests, bin \in SdkBinaries : SdkAdmit(m, bin)
    BY <2>2, SdkAdmitHolds
  <2>3. CASE \E op \in {"instantiate", "transform"}, bin \in SdkBinaries : SdkStart(op, bin)
    BY <2>3, SdkStartHolds
  <2>4. CASE \E cap \in SdkPolicy \cup {"network", "clock"}, size \in 0..2,
                outcome \in {"ok", "long", "error", "panic"} : SdkEffect(cap, size, outcome)
    BY <2>4, SdkEffectHolds
  <2>5. CASE \/ SdkBurn \/ SdkExhausted \/ SdkInterrupted
             \/ \E how \in {"ok", "trap", "guest", "contract", "budget"} : SdkGuestEnds(how)
    BY <2>5, SdkGuestHolds DEF SdkExhausted, SdkInterrupted, SdkGuestEnds
  <2>6. CASE SdkTime \/ SdkTimerFires \/ SdkMeasure
    BY <2>6, SdkClockHolds
  <2>7. CASE SdkJoin
    BY <2>7, SdkJoinHolds
  <2>8. CASE \E msg \in SdkTried : SdkMessage(msg)
    BY <2>8, SdkMessageHolds
  <2> QED BY <2>1, <2>2, <2>3, <2>4, <2>5, <2>6, <2>7, <2>8 DEF SdkNext
<1>2. SdkInvariant => SdkGuarantees
  BY DEF SdkInvariant
<1> QED BY <1>1, <1>2, SdkInitHolds, PTL DEF SdkSpec

-----------------------------------------------------------------------------
(* DevSession.                                                             *)

\* The first build has captured nothing.
LEMMA DevInitHolds == DevInit => DevInvariant
<1> SUFFICES ASSUME DevInit PROVE DevInvariant
  OBVIOUS
<1>1. devSrc \in DevTrees /\ devSrc = [f \in DevSources |-> 0]
  BY DEF DevInit, DevTrees
<1>2. /\ dev.pc = "capture" /\ dev.missed = FALSE /\ dev.watching = FALSE /\ dev.graph = <<>>
      /\ DOMAIN dev = DevFields
  BY DEF DevInit, DevFields
<1>3. DOMAIN devShared = {"gen", "failure", "update"}
  BY DEF DevInit
<1>4. devOut \in {<<>>} \cup {<<s>> : s \in DevTrees}
  BY <1>1 DEF DevInit
<1>5. DevTypes
  BY <1>1, <1>2, <1>3, <1>4 DEF DevTypes
<1> QED BY <1>2, <1>5 DEF DevInvariant, DevToldTheGraph, DevBuildIsCurrent, DevSucceeded

\* What the server, the page and the bounds do is nothing to the build.
LEMMA DevFrame ==
  ASSUME DevInvariant, UNCHANGED <<dev, devSrc, devOut, devEvents, devShared, devTold>>
  PROVE  DevInvariant'
  BY DEF DevInvariant, DevTypes, DevToldTheGraph, DevBuildIsCurrent, DevHeard, DevSucceeded

\* A step of the loop that says what it captured and where it goes.
LEMMA DevLoopStep ==
  ASSUME DevInvariant, UNCHANGED <<devSrc, devEvents>>,
         DOMAIN dev' = DevFields, dev'.missed \in BOOLEAN, dev'.watching \in BOOLEAN,
         DOMAIN devShared' = {"gen", "failure", "update"},
         devOut' \in {<<>>} \cup {<<s>> : s \in DevTrees},
         dev'.graph \in {<<>>} \cup {<<s>> : s \in DevTrees},
         DevToldTheGraph', DevBuildIsCurrent'
  PROVE  DevInvariant'
BY DEF DevInvariant, DevTypes

LEMMA DevBuildHolds ==
  ASSUME DevInvariant, DevCapture \/ DevNoop \/ DevSite \/ DevVerify
  PROVE  DevInvariant'
<1> USE DEF DevFields
<1>1. DevTypes /\ DevToldTheGraph /\ DevBuildIsCurrent
  BY DEF DevInvariant
<1>2. /\ UNCHANGED <<devSrc, devEvents, devShared, devTold>>
      /\ DOMAIN dev' = DevFields /\ dev'.graph = dev.graph /\ dev'.watching = dev.watching
      /\ dev'.missed \in BOOLEAN
  BY <1>1 DEF DevCapture, DevNoop, DevSite, DevVerify, DevTypes
<1>3. dev.cap = <<devSrc>> \/ devOut' = devOut
  BY DEF DevCapture, DevNoop, DevSite, DevVerify, DevInputsUnchanged
<1>4. devOut' = devOut \/ devOut' = <<devSrc>>
  BY DEF DevCapture, DevNoop, DevSite, DevVerify, DevInputsUnchanged
<1>5. devOut' \in {<<>>} \cup {<<s>> : s \in DevTrees}
  BY <1>1, <1>4 DEF DevTypes
<1>6. DevToldTheGraph'
  BY <1>1, <1>2 DEF DevToldTheGraph, DevArtifacts
<1>7. DevBuildIsCurrent'
  <2>1. CASE DevCapture
    BY <1>1, <2>1, <1>2 DEF DevCapture, DevTypes, DevBuildIsCurrent, DevSucceeded
  <2>2. CASE DevNoop
    BY <1>1, <2>2, <1>2 DEF DevNoop, DevInputsUnchanged, DevUpToDate, DevTypes,
       DevBuildIsCurrent, DevSucceeded
  <2>3. CASE DevSite
    BY <1>1, <2>3, <1>2 DEF DevSite, DevInputsUnchanged, DevTypes, DevBuildIsCurrent,
       DevSucceeded
  <2>4. CASE DevVerify
    BY <1>1, <2>4, <1>2 DEF DevVerify, DevInputsUnchanged, DevTypes, DevBuildIsCurrent,
       DevSucceeded
  <2> QED BY <2>1, <2>2, <2>3, <2>4
<1> QED BY <1>1, <1>2, <1>5, <1>6, <1>7, DevLoopStep DEF DevTypes

\* The first build ends: its graph is what a page will show.
LEMMA DevStartedHolds ==
  ASSUME DevInvariant, DevStarted
  PROVE  DevInvariant'
<1> USE DEF DevFields
<1>1. DevTypes /\ DevBuildIsCurrent
  BY DEF DevInvariant
<1>2. /\ UNCHANGED <<devSrc, devOut, devEvents, devShared>> /\ dev.pc = "explain" /\ devOut /= <<>>
      /\ DOMAIN dev' = DevFields /\ dev'.pc = "watch" /\ dev'.graph = devOut
      /\ dev'.missed = dev.missed /\ dev'.watching = dev.watching
      /\ devTold' = <<DevArtifacts(devOut[1])>>
  BY <1>1 DEF DevStarted, DevTypes
<1>3. DevToldTheGraph'
  BY <1>2 DEF DevToldTheGraph, DevArtifacts
<1>4. DevBuildIsCurrent'
  BY <1>1, <1>2 DEF DevBuildIsCurrent, DevHeard, DevSucceeded
<1> QED BY <1>1, <1>2, <1>3, <1>4, DevLoopStep DEF DevTypes

\* A rebuild is explained: what did not change need not be told.
LEMMA DevExplainHolds ==
  ASSUME DevInvariant, DevExplain
  PROVE  DevInvariant'
<1> USE DEF DevFields
<1>1. DevTypes /\ DevBuildIsCurrent /\ DevToldTheGraph
  BY DEF DevInvariant
<1>2. PICK s \in DevTrees : devOut = <<s>>
  BY <1>1 DEF DevExplain, DevTypes
<1> DEFINE after == devOut[1]
           changed == DevChangedArtifacts(after)
<1>3. devOut[1] = s
  BY <1>2
<1>4. /\ UNCHANGED <<devSrc, devOut, devEvents, devShared>> /\ dev.pc = "explain" /\ devOut /= <<>>
      /\ DOMAIN dev' = DevFields /\ dev'.graph = devOut
      /\ dev'.missed = dev.missed /\ dev'.watching = dev.watching
      /\ \/ /\ dev'.pc = "failure"
            /\ devTold' = <<[f \in DevSources |-> IF f \in changed THEN DevArtifacts(after)[f]
                                                  ELSE devTold[1][f]]>>
         \/ dev'.pc = "wait" /\ changed = {} /\ devTold' = devTold
  BY <1>1 DEF DevExplain, DevShouldPublish, DevTypes
<1>5. DevToldTheGraph'
  <2>1. devTold' = <<DevArtifacts(s)>>
    <3>1. DevArtifacts(s) = [f \in DevSources |-> DevArtifacts(s)[f]]
      BY DEF DevArtifacts
    <3>2. changed = {f \in DevSources : dev.graph /= <<>> =>
                                          DevArtifacts(dev.graph[1])[f] /= DevArtifacts(s)[f]}
      BY <1>3 DEF DevChangedArtifacts
    <3> HIDE DEF after, changed
    <3>3. CASE dev.graph = <<>>
      BY <3>2, <3>3, <1>3, <1>4, <3>1 DEF DevSources, after
    <3>4. CASE dev.graph /= <<>>
      <4>1. devTold = <<DevArtifacts(dev.graph[1])>>
        BY <1>1, <3>4 DEF DevToldTheGraph
      <4>2. devTold[1] = DevArtifacts(dev.graph[1])
        BY <4>1
      <4>3. \A f \in DevSources \ changed : devTold[1][f] = DevArtifacts(s)[f]
        BY <3>2, <3>4, <4>2
      <4>4. CASE changed = {}
        BY <4>2, <4>3, <4>4, <3>1, <1>4, <4>1 DEF DevArtifacts
      <4>5. CASE changed /= {}
        BY <1>3, <4>3, <1>4, <3>1, <4>5 DEF after
      <4> QED BY <4>4, <4>5
    <3> QED BY <3>3, <3>4
  <2>2. dev'.graph[1] = s
    BY <1>2, <1>4
  <2> QED BY <2>1, <2>2 DEF DevToldTheGraph, DevArtifacts
<1>6. DevBuildIsCurrent'
  BY <1>1, <1>4 DEF DevBuildIsCurrent, DevHeard, DevSucceeded
<1> QED BY <1>1, <1>4, <1>5, <1>6, DevLoopStep DEF DevTypes

\* A failure is on its way to the page, or stands.
LEMMA DevFailsHolds ==
  ASSUME DevInvariant, DevFails
  PROVE  DevInvariant'
<1> USE DEF DevFields
<1>1. DevTypes /\ DevToldTheGraph
  BY DEF DevInvariant
<1>2. /\ UNCHANGED <<devSrc, devOut, devEvents, devTold>>
      /\ DOMAIN dev' = DevFields /\ dev'.graph = dev.graph
      /\ dev'.missed = dev.missed /\ dev'.watching = dev.watching
      /\ DOMAIN devShared' = {"gen", "failure", "update"}
      /\ (dev'.pc = "failure" /\ dev'.fail) \/ (dev'.pc = "watch" /\ devShared'.failure)
  BY <1>1 DEF DevFails, DevTypes
<1>3. DevToldTheGraph'
  BY <1>1, <1>2 DEF DevToldTheGraph, DevArtifacts
<1>4. DevBuildIsCurrent'
  BY <1>2 DEF DevBuildIsCurrent, DevSucceeded
<1> QED BY <1>1, <1>2, <1>3, <1>4, DevLoopStep DEF DevTypes

\* Publishing makes of the loop's outcome the shared one.
LEMMA DevPublishHolds ==
  ASSUME DevInvariant, DevPublish
  PROVE  DevInvariant'
<1> USE DEF DevFields
<1>1. DevTypes /\ DevToldTheGraph /\ DevBuildIsCurrent
  BY DEF DevInvariant
<1>2. /\ UNCHANGED <<devSrc, devOut, devEvents, devTold>>
      /\ DOMAIN dev' = DevFields /\ dev'.graph = dev.graph
      /\ dev'.missed = dev.missed /\ dev'.watching = dev.watching
      /\ DOMAIN devShared' = {"gen", "failure", "update"}
  BY <1>1 DEF DevPublish, DevTypes
<1>3. \/ dev.pc = "failure" /\ dev'.pc = "update" /\ devShared'.failure = dev.fail
      \/ dev.pc = "update" /\ dev'.pc = "bump" /\ devShared'.failure = devShared.failure
      \/ dev.pc = "bump" /\ dev'.pc = "wait" /\ devShared'.failure = devShared.failure
  BY <1>1 DEF DevPublish, DevTypes
<1>4. DevSucceeded' => DevSucceeded
  BY <1>3 DEF DevSucceeded
<1>5. DevToldTheGraph'
  BY <1>1, <1>2 DEF DevToldTheGraph, DevArtifacts
<1>6. DevBuildIsCurrent'
  BY <1>1, <1>2, <1>3, <1>4 DEF DevBuildIsCurrent, DevHeard
<1> QED BY <1>1, <1>2, <1>5, <1>6, DevLoopStep DEF DevTypes

\* The watcher starts; changes are taken, lost, made; others build.
LEMMA DevEventsHold ==
  ASSUME DevInvariant, DevWatch \/ DevTake \/ DevWatchError \/ DevEdit \/ DevOtherBuild
  PROVE  DevInvariant'
<1> USE DEF DevFields
<1>1. DevTypes /\ DevToldTheGraph /\ DevBuildIsCurrent
  BY DEF DevInvariant
<1>2. /\ UNCHANGED <<devShared, devTold>>
      /\ DOMAIN dev' = DevFields /\ dev'.graph = dev.graph
      /\ dev'.missed \in BOOLEAN /\ dev'.watching \in BOOLEAN
  BY <1>1 DEF DevWatch, DevTake, DevWatchError, DevEdit, DevOtherBuild, DevTypes
<1>3. DevToldTheGraph'
  BY <1>1, <1>2 DEF DevToldTheGraph, DevArtifacts
<1>4. devSrc' \in DevTrees
  <2>1. CASE DevEdit
    BY <2>1, <1>1 DEF DevEdit, DevVersions, DevBad, DevTypes, DevTrees
  <2>2. CASE ~DevEdit
    BY <1>1, <2>2 DEF DevWatch, DevTake, DevWatchError, DevOtherBuild, DevTypes
  <2> QED BY <2>1, <2>2
<1>5. devOut' \in {<<>>} \cup {<<s>> : s \in DevTrees}
  BY <1>1 DEF DevWatch, DevTake, DevWatchError, DevEdit, DevOtherBuild, DevTypes
<1>6. DevTypes'
  BY <1>1, <1>2, <1>4, <1>5 DEF DevTypes
<1>7. DevBuildIsCurrent'
  <2>1. CASE DevWatch
    BY <1>1, <2>1 DEF DevWatch, DevTypes, DevBuildIsCurrent, DevHeard, DevSucceeded
  <2>2. CASE DevTake
    <3>1. dev'.pc = "capture"
      BY <1>1, <2>2 DEF DevTake, DevTypes
    <3> QED BY <3>1 DEF DevBuildIsCurrent, DevSucceeded
  <2>3. CASE DevWatchError \/ DevEdit
    <3>1. ~DevHeard'
      BY <1>1, <2>3 DEF DevWatchError, DevHeard, DevTypes, DevEdit
    <3> QED BY <3>1 DEF DevBuildIsCurrent
  <2>4. CASE DevOtherBuild
    BY <2>4, <1>1 DEF DevOtherBuild, DevBuildIsCurrent, DevHeard, DevSucceeded
  <2> QED BY <2>1, <2>2, <2>3, <2>4
<1> QED BY <1>3, <1>6, <1>7 DEF DevInvariant

\* However edits, failed builds and builds by hand fall between the steps of
\* the loop of `pliego dev`: when it waits with nothing left to hear of and no
\* failure, the output is the build of the sources on disk, and the updates
\* published so far turned the first site into this one.
THEOREM DevIsCurrent == DevSpec => []DevQuietIsCurrent
<1>1. DevInvariant /\ [DevNext]_devVars => DevInvariant'
  <2> SUFFICES ASSUME DevInvariant, [DevNext]_devVars PROVE DevInvariant'
    OBVIOUS
  <2>1. CASE DevCapture \/ DevNoop \/ DevSite \/ DevVerify
    BY <2>1, DevBuildHolds
  <2>2. CASE DevStarted \/ DevExplain \/ DevFails \/ DevPublish
    BY <2>2, DevStartedHolds, DevExplainHolds, DevFailsHolds, DevPublishHolds
  <2>3. CASE DevWatch \/ DevTake \/ DevWatchError \/ DevEdit \/ DevOtherBuild
    BY <2>3, DevEventsHold
  <2>4. CASE DevOpen \/ DevAnswer \/ DevPoll \/ DevApplyQuietly \/ DevApplyLoudly \/ DevApplyFailed
    <3>1. UNCHANGED <<dev, devSrc, devOut, devEvents, devShared, devTold>>
      <4>1. CASE DevOpen \/ DevAnswer \/ DevPoll
        BY <4>1 DEF DevOpen, DevAnswer, DevPoll, DevRespond
      <4>2. CASE DevApplyQuietly
        BY <4>2 DEF DevApplyQuietly
      <4>3. CASE DevApplyLoudly
        BY <4>3 DEF DevApplyLoudly, DevRespond
      <4>4. CASE DevApplyFailed
        BY <4>4 DEF DevApplyFailed, DevRespond
      <4> QED BY <2>4, <4>1, <4>2, <4>3, <4>4
    <3> QED BY <3>1, DevFrame
  <2>5. CASE UNCHANGED devVars
    BY <2>5, DevFrame DEF devVars
  <2> QED BY <2>1, <2>2, <2>3, <2>4, <2>5 DEF DevNext
<1>2. DevInvariant => DevQuietIsCurrent
  BY DEF DevQuietIsCurrent, DevInvariant, DevBuildIsCurrent, DevHeard, DevSucceeded,
     DevToldTheGraph
<1> QED BY <1>1, <1>2, DevInitHolds, PTL DEF DevSpec
================================================================================
