------------------------------ MODULE BuildProofs ------------------------------
(***************************************************************************)
(* What the build promises: the inputs it observes, the directory it       *)
(* publishes, the bundles it makes and verifies, the content collections   *)
(* it loads, the projects it inspects and the assets it publishes, for any *)
(* number of builders, edits, failures and crashes.                        *)
(***************************************************************************)
EXTENDS BuildInputs, SitePublication, BundleContract, ContentLoader, AssetInspect,
        AssetPipeline, FoldLemmas, SequenceTheorems, FunctionTheorems, TLAPS

-----------------------------------------------------------------------------
(* BuildInputs.                                                            *)

\* Every file starts at version one, and nothing is captured.
LEMMA InpInitHolds == InpInit => InpInvariant
  BY DEF InpInit, InpInvariant, InpTypes, InpCapturedBefore, InpReadBetween,
     InpNothingIsUnobserved

\* The steps of the build before its capture, and a refusal.
LEMMA InpStartKeeps ==
  ASSUME InpInvariant, InpMetadata \/ InpRefuse
  PROVE  InpInvariant'
<1>1. DOMAIN inpRun' = DOMAIN inpRun /\ inpRun'.pc \in {"resolved", "refused"} /\ inpDisk' = inpDisk
  BY DEF InpInvariant, InpTypes, InpMetadata, InpRefuse
<1> QED BY <1>1 DEF InpInvariant, InpTypes, InpCapturedBefore, InpReadBetween, InpNothingIsUnobserved

\* What stands anywhere as a file is on the disk.
LEMMA InpOnDisk ==
  ASSUME InpTypes, NEW f, InpAt(f) = "file"
  PROVE  f \in InpFiles \cup InpDirs /\ inpDisk[f].kind = "file" /\ inpDisk[f].v \in Nat \ {0}
<1>1. f \in DOMAIN inpDisk
  BY DEF InpAt
<1> QED BY <1>1 DEF InpAt, InpTypes

\* A capture takes everything it looks at that is there.
LEMMA InpCaptureKeeps ==
  ASSUME InpInvariant, InpCapture
  PROVE  InpInvariant'
<1> DEFINE S == InpSelection
           E == InpEvidence(S)
<1>1. /\ inpRun'.pc = "captured" /\ inpRun'.specs = S /\ inpRun'.evidence = E
      /\ DOMAIN inpRun' = DOMAIN inpRun /\ inpDisk' = inpDisk /\ inpEnv' = inpEnv
  BY DEF InpInvariant, InpTypes, InpCapture
<1>2. DOMAIN E = {g \in InpSelectedPaths(S) : InpAt(g) = "file"} /\ \A f \in DOMAIN E : E[f] = inpDisk[f].v
  BY DEF InpEvidence
<1>3. InpTypes
  BY DEF InpInvariant
<1>4. \A f \in DOMAIN E : f \in InpFiles \cup InpDirs /\ E[f] \in Nat /\ inpDisk[f].v >= E[f]
  BY <1>2, <1>3, InpOnDisk
<1>5. InpCapturedBefore'
  BY <1>1, <1>4 DEF InpCapturedBefore
<1> QED BY <1>1, <1>3, <1>5 DEF InpInvariant, InpTypes, InpReadBetween, InpNothingIsUnobserved

\* An admission changes nothing that was captured.
LEMMA InpAdmitKeeps ==
  ASSUME InpInvariant, InpAdmit
  PROVE  InpInvariant'
<1>1. /\ inpRun.pc = "captured" /\ inpRun'.pc = "admitted" /\ inpRun'.specs = inpRun.specs
      /\ inpRun'.evidence = inpRun.evidence
      /\ DOMAIN inpRun' = DOMAIN inpRun /\ inpDisk' = inpDisk /\ inpEnv' = inpEnv
  BY DEF InpInvariant, InpTypes, InpAdmit
<1>2. InpWatched' = InpWatched
  BY <1>1 DEF InpWatched, InpSelectedPaths, InpConfigPlaces
<1> QED BY <1>1, <1>2 DEF InpInvariant, InpTypes, InpCapturedBefore, InpReadBetween, InpNothingIsUnobserved

\* The compiler reads files at the versions on disk.
LEMMA InpCompileKeeps ==
  ASSUME InpInvariant, InpCompile
  PROVE  InpInvariant'
<1>1. /\ inpRun.pc = "admitted" /\ inpRun'.pc = "compiled" /\ inpRun'.specs = inpRun.specs
      /\ inpRun'.evidence = inpRun.evidence
      /\ DOMAIN inpRun' = DOMAIN inpRun /\ inpDisk' = inpDisk /\ inpEnv' = inpEnv
  BY DEF InpInvariant, InpTypes, InpCompile
<1>2. InpWatched' = InpWatched
  BY <1>1 DEF InpWatched, InpSelectedPaths, InpConfigPlaces
<1> DEFINE G == {g \in InpFiles : /\ InpAt(g) \in {"file", "link"}
                                  /\ \/ InpBelow(g, InpProject)
                                     \/ \E c \in InpConfigPlaces : g = c[1] \o c[2]
                                     \/ \E p \in InpReachable(inpGraph) : InpBelow(g, InpRoot[p])}
<1>3. inpUsed'.graph = inpGraph /\ inpUsed'.files = {<<f, inpDisk[f].v>> : f \in G}
  BY DEF InpCompile
<1>4. ASSUME NEW f \in G
      PROVE  /\ f \in InpFiles /\ inpDisk[f].v \in Nat \ {0}
             /\ f \in InpWatched \/ \E p \in InpReachable(inpGraph) : InpBelow(f, InpRoot[p])
             /\ f \in DOMAIN inpRun.evidence => inpRun.evidence[f] <= inpDisk[f].v
  BY <1>1 DEF InpInvariant, InpTypes, InpAt, InpWatched, InpSelectedPaths, InpCapturedBefore
<1> HIDE DEF G
<1>5. InpReachable(inpUsed'.graph) = InpReachable(inpGraph)
  BY <1>3
<1>6. ASSUME NEW use \in inpUsed'.files
      PROVE  /\ use[1] \in InpFiles /\ use[2] \in Nat \ {0} /\ use[2] <= inpDisk'[use[1]].v
             /\ use[1] \in InpWatched' \/ \E p \in InpReachable(inpUsed'.graph) : InpBelow(use[1], InpRoot[p])
             /\ use[1] \in DOMAIN inpRun'.evidence => inpRun'.evidence[use[1]] <= use[2]
  BY <1>3, <1>6, <1>1, <1>2, <1>4, <1>5
<1>7. InpReadBetween'
  BY <1>6 DEF InpReadBetween, InpReachable
<1> QED BY <1>1, <1>2, <1>7 DEF InpInvariant, InpTypes, InpCapturedBefore, InpNothingIsUnobserved

\* What lies below a directory lies below every directory above it.
LEMMA InpBelowTransitive ==
  ASSUME NEW a \in Seq(STRING), NEW b \in Seq(STRING), NEW c \in Seq(STRING),
         InpBelow(a, b), InpBelow(b, c)
  PROVE  InpBelow(a, c)
<1>1. /\ Len(b) <= Len(a) /\ SubSeq(b, 1, Len(b)) = SubSeq(a, 1, Len(b))
      /\ Len(c) <= Len(b) /\ SubSeq(c, 1, Len(c)) = SubSeq(b, 1, Len(c))
  BY DEF InpBelow, IsPrefix
<1>2. /\ \A i \in 1..Len(b) : b[i] = a[i]
      /\ \A i \in 1..Len(c) : c[i] = b[i]
  BY <1>1
<1>3. \A i \in 1..Len(c) : c[i] = a[i]
  BY <1>1, <1>2
<1>4. SubSeq(c, 1, Len(c)) = SubSeq(a, 1, Len(c))
  BY <1>1, <1>3
<1> QED BY <1>1, <1>4 DEF InpBelow, IsPrefix

\* The last look: what was read and is not among the evidence, as it was read,
\* is gone or belongs to a package nobody had told of.
LEMMA InpFinishKeeps ==
  ASSUME InpInvariant, InpFinish
  PROVE  InpInvariant'
<1>1. /\ inpRun.pc = "compiled" /\ inpRun'.pc = "done" /\ inpRun'.specs = inpRun.specs
      /\ inpRun'.evidence = inpRun.evidence /\ inpRun'.graph = inpRun.graph
      /\ DOMAIN inpRun' = DOMAIN inpRun /\ inpDisk' = inpDisk /\ inpUsed' = inpUsed
  BY DEF InpInvariant, InpTypes, InpFinish
<1>2. /\ ~InpSelectionFails /\ InpSelection = inpRun.specs
      /\ InpCapturable(inpRun.specs) /\ InpEvidence(inpRun.specs) = inpRun.evidence
  BY DEF InpFinish, InpRevalidated
<1>3. DOMAIN inpRun.evidence = {g \in InpSelectedPaths(inpRun.specs) : InpAt(g) = "file"}
      /\ \A f \in DOMAIN inpRun.evidence : inpRun.evidence[f] = inpDisk[f].v
  BY <1>2 DEF InpEvidence
<1>4. InpTypes /\ InpCapturedBefore /\ InpReadBetween
  BY DEF InpInvariant
<1>5. ASSUME NEW use \in inpUsed.files, use[1] \in InpSelectedPaths(inpRun.specs)
      PROVE  \/ use[1] \in DOMAIN inpRun.evidence /\ inpRun.evidence[use[1]] = use[2]
             \/ use[1] \notin DOMAIN inpRun.evidence /\ inpDisk[use[1]].kind = "none"
  <2>1. /\ InpAt(use[1]) = inpDisk[use[1]].kind /\ inpDisk[use[1]].v \in Nat
        /\ use[2] \in Nat /\ use[2] <= inpDisk[use[1]].v
    BY <1>1, <1>4 DEF InpReadBetween, InpTypes, InpAt
  <2>2. inpDisk[use[1]].kind \in {"file", "none"}
    BY <1>2, <1>5, <2>1 DEF InpCapturable
  <2>3. CASE inpDisk[use[1]].kind = "none"
    BY <1>3, <2>1, <2>3
  <2>4. CASE inpDisk[use[1]].kind = "file"
    <3>1. use[1] \in DOMAIN inpRun.evidence /\ inpRun.evidence[use[1]] = inpDisk[use[1]].v
      BY <1>3, <1>5, <2>1, <2>4
    <3>2. inpRun.evidence[use[1]] <= use[2]
      BY <1>1, <1>4, <3>1 DEF InpReadBetween
    <3> QED BY <2>1, <3>1, <3>2
  <2> QED BY <2>2, <2>3, <2>4
<1>6. ASSUME NEW use \in inpUsed.files, use[1] \in InpWatched, use[1] \notin InpSelectedPaths(inpRun.specs)
      PROVE  use[1] \notin DOMAIN inpRun.evidence /\ inpDisk[use[1]].kind = "none"
  <2>1. PICK c \in InpConfigPlaces : use[1] = c[1] \o c[2]
    BY <1>6 DEF InpWatched
  <2>2. InpBeneath(c[1], c[2]) /= "error"
    BY <1>2 DEF InpSelectionFails, InpConfigReadable
  <2>3. InpBeneath(c[1], c[2]) /= "file"
    <3>1. SUFFICES ASSUME InpBeneath(c[1], c[2]) = "file" PROVE FALSE
      OBVIOUS
    <3>2. use[1] \in InpConfigFiles
      BY <2>1, <3>1 DEF InpConfigFiles
    <3>3. use[1] \in InpSelectedPaths(InpSelection)
      BY <3>2 DEF InpSelectedPaths, InpSelection
    <3> QED BY <1>2, <1>6, <3>3
  <2>4. InpAt(use[1]) = "none"
    BY <2>1, <2>2, <2>3 DEF InpBeneath
  <2>5. inpDisk[use[1]].kind = "none"
    BY <1>1, <1>4, <2>4 DEF InpReadBetween, InpTypes, InpAt
  <2> QED BY <1>3, <1>6, <2>5
<1>7. ASSUME NEW use \in inpUsed.files, NEW p \in InpReachable(inpRun.graph), InpBelow(use[1], InpRoot[p])
      PROVE  use[1] \in InpSelectedPaths(inpRun.specs)
  <2>1. use[1] \in InpFiles
    BY <1>1, <1>4 DEF InpReadBetween
  <2>2. inpRun.specs.trees = InpTrees(inpRun.graph)
    BY <1>2 DEF InpSelection
  <2>3. CASE p \in InpTrees(inpRun.graph)
    BY <1>7, <2>1, <2>2, <2>3 DEF InpSelectedPaths
  <2>4. CASE p \notin InpTrees(inpRun.graph)
    <3>1. p \in InpPackages /\ InpBelow(InpRoot[p], InpProject)
      BY <2>4 DEF InpTrees, InpReachable
    <3>2. CASE use[1] \in InpManifests
      BY <1>2, <3>2 DEF InpSelection, InpSelectedPaths
    <3>3. CASE use[1] \notin InpManifests
      <4>1. use[1] \in Seq(STRING)
        BY <2>1, <3>3, InpAssumption DEF InpFiles
      <4>2. InpBelow(use[1], InpProject)
        BY <1>7, <3>1, <4>1, InpAssumption, InpBelowTransitive
      <4> QED BY <2>1, <4>2 DEF InpSelectedPaths
    <3> QED BY <3>2, <3>3
  <2> QED BY <2>3, <2>4
<1>8. InpNothingIsUnobserved'
  BY <1>1, <1>4, <1>5, <1>6, <1>7 DEF InpReadBetween, InpNothingIsUnobserved, InpReachable
<1> QED BY <1>1, <1>4, <1>8 DEF InpInvariant, InpTypes, InpCapturedBefore, InpReadBetween

\* Someone edits the disk: a version only grows.
LEMMA InpWorldKeeps ==
  ASSUME InpInvariant, InpTouch \/ InpDepend
  PROVE  InpInvariant'
<1> DEFINE K == [kind : {"dir", "file", "link", "none"}, v : Nat \ {0}]
<1>1. inpRun' = inpRun /\ inpEnv' = inpEnv /\ inpUsed' = inpUsed /\ inpRun.pc \notin {"done", "refused"}
  BY DEF InpTouch, InpDepend
<1>2. inpDisk \in [InpFiles \cup InpDirs -> K] /\ InpCapturedBefore /\ InpReadBetween
  BY DEF InpInvariant, InpTypes
<1>3. /\ inpDisk' \in [InpFiles \cup InpDirs -> K]
      /\ \A f \in InpFiles \cup InpDirs :
            \/ inpDisk'[f] = inpDisk[f]
            \/ inpDisk'[f].v = inpDisk[f].v + 1
  <2>1. CASE InpTouch
    BY <2>1, <1>2 DEF InpTouch
  <2>2. CASE InpDepend
    <3> DEFINE T == {InpProject \o <<"Cargo.toml">>, InpProject \o <<"Cargo.lock">>}
    <3>1. inpDisk' = [f \in DOMAIN inpDisk |->
                         IF f \in T THEN [inpDisk[f] EXCEPT !.v = @ + 1] ELSE inpDisk[f]]
      BY <2>2 DEF InpDepend
    <3> HIDE DEF T
    <3>2. \A f \in InpFiles \cup InpDirs :
             /\ inpDisk[f] \in K /\ [inpDisk[f] EXCEPT !.v = @ + 1] \in K
             /\ [inpDisk[f] EXCEPT !.v = @ + 1].v = inpDisk[f].v + 1
      BY <1>2
    <3> HIDE DEF K
    <3> QED BY <1>2, <3>1, <3>2
  <2> QED BY <2>1, <2>2
<1>4. \A f \in InpFiles \cup InpDirs :
         /\ inpDisk[f].v \in Nat \ {0} /\ inpDisk'[f].v \in Nat \ {0}
         /\ inpDisk'[f].v >= inpDisk[f].v
  <2> TAKE f \in InpFiles \cup InpDirs
  <2>1. inpDisk[f].v \in Nat \ {0} /\ inpDisk'[f].v \in Nat \ {0}
    BY <1>2, <1>3
  <2>2. CASE inpDisk'[f] = inpDisk[f]
    BY <2>1, <2>2
  <2>3. CASE inpDisk'[f] /= inpDisk[f]
    BY <1>3, <2>1, <2>3
  <2> QED BY <2>2, <2>3
<1>5. InpWatched' = InpWatched /\ InpReachable(inpUsed'.graph) = InpReachable(inpUsed.graph)
  BY <1>1 DEF InpWatched, InpSelectedPaths, InpConfigPlaces
<1>6. InpTypes'
  BY <1>1, <1>3 DEF InpInvariant, InpTypes
<1> HIDE DEF K
<1>7. InpCapturedBefore'
  BY <1>1, <1>5, <1>2, <1>4 DEF InpCapturedBefore
<1>8. InpReadBetween'
  BY <1>1, <1>5, <1>2, <1>4 DEF InpReadBetween, InpCapturedBefore
<1> QED BY <1>1, <1>6, <1>7, <1>8 DEF InpInvariant, InpNothingIsUnobserved

\* InpNothingIsUnobserved for any project, packages, configuration and source
\* files, any Cargo homes, target directories and environments and any number
\* of changes to the disk between the capture, the two revalidations and the
\* compilation: what a finished build read is in its evidence, at the version
\* it was read, but for files that came and went between two looks and packages
\* reached since.
THEOREM NothingIsUnobserved == InpSpec => []InpNothingIsUnobserved
<1>1. InpInvariant /\ [InpNext]_inpVars => InpInvariant'
  <2>1. ASSUME InpInvariant, UNCHANGED inpVars
        PROVE  InpInvariant'
    <3>1. inpDisk' = inpDisk /\ inpRun' = inpRun /\ inpEnv' = inpEnv /\ inpUsed' = inpUsed
      BY <2>1 DEF inpVars
    <3>2. InpWatched' = InpWatched
      BY <3>1 DEF InpWatched, InpSelectedPaths, InpConfigPlaces
    <3> QED BY <2>1, <3>1, <3>2 DEF InpInvariant, InpTypes, InpCapturedBefore, InpReadBetween,
                                    InpNothingIsUnobserved, InpReachable
  <2> QED BY <2>1, InpStartKeeps, InpCaptureKeeps, InpAdmitKeeps, InpCompileKeeps, InpFinishKeeps,
             InpWorldKeeps DEF InpNext
<1>2. InpInvariant => InpNothingIsUnobserved
  BY DEF InpInvariant
<1> QED BY <1>1, <1>2, InpInitHolds, PTL DEF InpSpec
-----------------------------------------------------------------------------
(* SitePublication: frames.                                                *)

\* The first state.
LEMMA PubInitHolds == PubInit => PubInvariant
<1> SUFFICES ASSUME PubInit PROVE PubInvariant
  OBVIOUS
<1>1. PubWellFormed(pubProject)
  BY PubAssumption DEF PubInit
<1>2. \A b \in PubBuilders : pubs[b] = PubIdle
  BY DEF PubInit
<1>3. /\ DOMAIN PubIdle = PubFields /\ PubIdle.at = "idle" /\ PubIdle.stage = 0
      /\ PubIdle.prior.id = 0
  BY DEF PubIdle, PubFields, PubNothing
<1>4. PubPlaces
  BY <1>2, <1>3, PubAssumption DEF PubInit, PubPlace, PubBefore, PubLocked, PubStaged,
     PubPlaces
<1>5. PubUntampered
  BY <1>2, <1>3 DEF PubBuilderHolds, PubPriorHolds, PubHolding, PubInit, PubLogHolds,
     PubUntampered
<1> QED BY <1>1, <1>4, <1>5 DEF PubInvariant

\* What a step of one builder leaves of another that waits or holds the lock.
LEMMA PubOthersHold ==
  ASSUME PubInvariant, pubCount.drifts = 0, NEW b \in PubBuilders, NEW c \in PubBuilders, c /= b,
         pubProject' = pubProject, pubs'[c] = pubs[c],
         \/ pubLock = b
         \/ \A n \in DOMAIN pubDisk : n /= <<"stage", 0>> => n \in DOMAIN pubDisk' /\ pubDisk'[n] = pubDisk[n]
  PROVE  PubBuilderHolds(c)'
<1>1. PubBuilderHolds(c) /\ PubPlace(c)
  BY DEF PubInvariant, PubUntampered, PubPlaces
<1>2. PubCapturedBefore(pubs[c].context)' <=> PubCapturedBefore(pubs[c].context)
  BY DEF PubCapturedBefore
<1>3. PubPriorHolds(pubs[c].prior)' <=> PubPriorHolds(pubs[c].prior)
  BY DEF PubPriorHolds
<1>4. PubReportHolds(pubs[c])' <=> PubReportHolds(pubs[c])
  BY DEF PubUnedited, PubSourcesNow, PubConfigurationNow, PubVisible, PubWhole, PubReportHolds
<1>5. PubHolding(c)'
  <2>1. CASE pubLock /= c
    BY <1>1, <2>1 DEF PubPlace, PubHolding, PubLocked, PubStaged
  <2>2. CASE pubLock = c
    <3> DEFINE q == pubs[c]
    <3>1. \A n \in DOMAIN pubDisk : n /= <<"stage", 0>> => n \in DOMAIN pubDisk' /\ pubDisk'[n] = pubDisk[n]
      BY <2>2
    <3>2. q.at \in PubStaged => q.stage /= 0
      BY <1>1 DEF PubPlace
    <3>3. /\ q.at \in PubStaged => <<"stage", q.stage>> /= <<"stage", 0>>
          /\ PubOut /= <<"stage", 0>> /\ <<"backup", q.stage>> /= <<"stage", 0>>
      BY <3>2 DEF PubOut
    <3>4. PubHolding(c)
      BY <1>1 DEF PubBuilderHolds
    <3>5. \A n : PubWhole(pubDisk[n].report.receipt) /\ n \in DOMAIN pubDisk /\ n /= <<"stage", 0>>
                   => PubWhole(pubDisk'[n].report.receipt)
      BY <3>1
    <3>6. PubBackup(c)' = <<"backup", q.stage>> /\ PubBackup(c) = <<"backup", q.stage>>
      BY DEF PubBackup
    <3>7. q.at \in {"reopen", "publish"} /\ q.prior.id /= 0 =>
             /\ <<"backup", q.stage>> \in DOMAIN pubDisk'
             /\ pubDisk'[<<"backup", q.stage>>] = pubDisk[<<"backup", q.stage>>]
             /\ PubKept(<<"backup", q.stage>>)
             /\ pubDisk[<<"backup", q.stage>>].report.sha = q.prior.report.sha
      BY <3>1, <3>3, <3>4, <3>6 DEF PubHolding, PubKept
    <3>8. q.at \in {"reopen", "publish"} /\ q.prior.id /= 0 =>
             PubKept(PubBackup(c))' /\ pubDisk'[<<"backup", q.stage>>].report.sha = q.prior.report.sha
      BY <3>6, <3>7 DEF PubKept
    <3> QED BY <3>1, <3>3, <3>4, <3>6, <3>8 DEF PubHolding, PubStaged
  <2> QED BY <2>1, <2>2
<1> QED BY <1>1, <1>2, <1>3, <1>4, <1>5 DEF PubBuilderHolds

\* A step of one builder: what is left to show is about this builder and the disk.
LEMMA PubStep ==
  ASSUME PubInvariant, NEW b \in PubBuilders, pubProject' = pubProject,
         pubs' = [pubs EXCEPT ![b] = pubs'[b]],
         DOMAIN pubCount' = DOMAIN pubCount, pubCount'.drifts = pubCount.drifts,
         pubCount'.inode \in Nat \ {0},
         PubPlace(b)',
         \/ pubLock' = pubLock
         \/ pubLock = "free" /\ pubLock' = b
         \/ pubLock = b /\ pubLock' = "free",
         \/ pubLock = b
         \/ \A n \in DOMAIN pubDisk : n /= <<"stage", 0>> => n \in DOMAIN pubDisk' /\ pubDisk'[n] = pubDisk[n],
         pubCount.drifts = 0 /\ PubUntampered =>
            (PubOut \in DOMAIN pubDisk' => PubKept(PubOut)') /\ PubBuilderHolds(b)' /\ PubLogHolds'
  PROVE  PubInvariant'
<1>1. PubWellFormed(pubProject)'
  BY DEF PubInvariant, PubWellFormed
<1>2. \A c \in PubBuilders : c /= b => pubs'[c] = pubs[c]
  BY DEF PubInvariant, PubPlaces
<1>3. PubPlaces'
  BY <1>2, PubAssumption DEF PubInvariant, PubPlaces, PubPlace
<1>4. ASSUME pubCount'.drifts = 0
      PROVE  PubUntampered'
  BY <1>4, <1>2, PubOthersHold DEF PubInvariant, PubUntampered
<1> QED BY <1>1, <1>3, <1>4 DEF PubInvariant

\* A build is over, by a return or a crash.
LEMMA PubOver ==
  ASSUME PubInvariant, NEW b \in PubBuilders, pubProject' = pubProject, pubLog' = pubLog,
         pubs' = [pubs EXCEPT ![b] = PubIdle],
         DOMAIN pubCount' = DOMAIN pubCount, pubCount'.drifts = pubCount.drifts,
         pubCount'.inode = pubCount.inode,
         pubLock' = IF pubLock = b THEN "free" ELSE pubLock,
         \/ pubLock = b
         \/ \A n \in DOMAIN pubDisk : n /= <<"stage", 0>> => n \in DOMAIN pubDisk' /\ pubDisk'[n] = pubDisk[n],
         pubCount.drifts = 0 /\ PubUntampered =>
            /\ PubOut \in DOMAIN pubDisk' => PubKept(PubOut)'
            /\ pubLog /= <<>> => \E n \in DOMAIN pubDisk' : n[1] /= "stage" /\ ArtVerified(pubDisk'[n])
  PROVE  PubInvariant'
<1>1. pubs'[b] = PubIdle
  BY DEF PubInvariant, PubPlaces
<1>2. /\ DOMAIN PubIdle = PubFields /\ PubIdle.at = "idle" /\ PubIdle.stage = 0
      /\ PubIdle.prior.id = 0
  BY DEF PubIdle, PubFields, PubNothing
<1>3. PubPlace(b)'
  BY <1>1, <1>2, PubAssumption DEF PubPlace, PubBefore, PubLocked, PubStaged
<1>4. PubBuilderHolds(b)'
  BY <1>1, <1>2 DEF PubBuilderHolds, PubPriorHolds, PubHolding
<1>5. pubCount.drifts = 0 /\ PubUntampered => PubLogHolds'
  BY SMTT(60) DEF PubUntampered, PubLogHolds
<1>6. pubCount'.inode \in Nat \ {0}
  BY DEF PubInvariant, PubPlaces
<1>7. pubs' = [pubs EXCEPT ![b] = pubs'[b]]
  BY <1>1
<1>8. pubLock' = pubLock \/ (pubLock = b /\ pubLock' = "free")
  OBVIOUS
<1>9. pubCount.drifts = 0 /\ PubUntampered =>
         (PubOut \in DOMAIN pubDisk' => PubKept(PubOut)') /\ PubBuilderHolds(b)' /\ PubLogHolds'
  BY <1>4, <1>5
<1> QED BY <1>3, <1>6, <1>7, <1>8, <1>9, PubStep

\* An error returns and the output stays.
LEMMA PubFailKeeps ==
  ASSUME PubInvariant, NEW b \in PubBuilders, PubFail(b)
  PROVE  PubInvariant'
<1>1. /\ pubs' = [pubs EXCEPT ![b] = PubIdle]
      /\ pubDisk' = [n \in DOMAIN pubDisk \ {<<"stage", pubs[b].stage>>} |-> pubDisk[n]]
      /\ pubLock' = IF pubLock = b THEN "free" ELSE pubLock
      /\ pubProject' = pubProject /\ pubCount' = pubCount /\ pubLog' = pubLog
  BY DEF PubFail, PubReturn, PubSet, PubWithout
<1>2. PubPlace(b)
  BY DEF PubInvariant, PubPlaces
<1>3. \/ pubLock = b
      \/ \A n \in DOMAIN pubDisk : n /= <<"stage", 0>> => n \in DOMAIN pubDisk' /\ pubDisk'[n] = pubDisk[n]
  BY <1>1, <1>2 DEF PubPlace, PubLocked
<1>4. \A n \in DOMAIN pubDisk : n[1] /= "stage" => n \in DOMAIN pubDisk' /\ pubDisk'[n] = pubDisk[n]
  BY <1>1
<1>5. ASSUME PubUntampered
      PROVE  /\ PubOut \in DOMAIN pubDisk' => PubKept(PubOut)'
             /\ pubLog /= <<>> => \E n \in DOMAIN pubDisk' : n[1] /= "stage" /\ ArtVerified(pubDisk'[n])
  BY <1>1, <1>5, <1>4 DEF PubOut, PubUntampered, PubKept, PubLogHolds
<1> QED BY <1>1, <1>3, <1>5, PubOver

-----------------------------------------------------------------------------
(* SitePublication: what is rendered and what is reused.                   *)

\* The parts of what a build makes.
LEMMA PubDependenciesAre ==
  ASSUME NEW sources
  PROVE  PubDependencies(sources).paths = sources /\ (PubDependencies(sources).all <=> sources = {})
  BY DEF PubDependencies

LEMMA PubGraphIs ==
  ASSUME NEW c, NEW site, NEW bytes
  PROVE  /\ PubGraph(c, site, bytes).sources = c.sources
         /\ PubGraph(c, site, bytes).sourceSet = c.sourceSet
         /\ DOMAIN PubGraph(c, site, bytes).artifacts = PubPaths(site)
BY DEF PubGraph

LEMMA PubGraphProducer ==
  ASSUME NEW c, NEW site, NEW bytes, NEW p \in PubPaths(site)
  PROVE  PubGraph(c, site, bytes).artifacts[p].producer = PubArtifact(site, p).producer
BY DEF PubGraph

LEMMA PubGraphSources ==
  ASSUME NEW c, NEW site, NEW bytes, NEW p \in PubPaths(site)
  PROVE  PubGraph(c, site, bytes).artifacts[p].sources = PubArtifact(site, p).sources
BY DEF PubGraph

LEMMA PubFilesDomain ==
  ASSUME NEW c, NEW site, NEW bytes
  PROVE  DOMAIN PubFiles(c, site, bytes) = PubPaths(site) \cup {ArtGraph}
BY DEF PubFiles

LEMMA PubFilesGraph ==
  ASSUME NEW c, NEW site, NEW bytes
  PROVE  PubFiles(c, site, bytes)[ArtGraph].bytes = PubGraph(c, site, bytes)
  BY DEF PubFiles

LEMMA PubFilesBytes ==
  ASSUME NEW c, NEW site, NEW bytes, NEW p \in PubPaths(site), p /= ArtGraph
  PROVE  PubFiles(c, site, bytes)[p].bytes = bytes[p]
  BY DEF PubFiles

LEMMA PubWholeHasGraph ==
  ASSUME NEW r, PubWhole(r)
  PROVE  ArtGraph \in DOMAIN r.files
<1> DEFINE site == PubSite[r.context.sources[PubMain]]
           bytes == [p \in PubPaths(site) |-> PubExact(r.context, site, p)]
<1>1. r.files = PubFiles(r.context, site, bytes)
  BY DEF PubWhole
<1> HIDE DEF bytes
<1>2. DOMAIN PubFiles(r.context, site, bytes) = PubPaths(site) \cup {ArtGraph}
  BY ONLY PubFilesDomain
<1> QED BY ONLY <1>1, <1>2

\* The dependencies of an artifact are what its page or asset declared.
LEMMA PubArtifactDeclares ==
  ASSUME NEW site, NEW context, NEW path \in PubPaths(site),
         \A p \in site.pages : PubDeclared(p.sources, context),
         \A a \in site.assets : PubDeclared(a.sources, context)
  PROVE  LET d == PubArtifact(site, path).sources
         IN d.paths \subseteq DOMAIN context.sources /\ (d.all <=> d.paths = {})
<1>1. CASE \E p \in site.pages : PubRoute(p.route) = path
  BY <1>1, PubDependenciesAre DEF PubArtifact, PubDeclared
<1>2. CASE ~\E p \in site.pages : PubRoute(p.route) = path
  BY <1>2, PubDependenciesAre DEF PubPaths, PubArtifact, PubDeclared
<1> QED BY <1>1, <1>2

\* An artifact that is reused is what a full build of the new inputs gives.
LEMMA PubReusedIsExact ==
  ASSUME NEW prior, NEW c, NEW site, NEW path, PubPriorHolds(prior), PubReusable(prior, c, site, path),
         c.sourceSet = ArtSourceSet(c.sources, c.materials)
  PROVE  prior.report.receipt.files[path].bytes = PubExact(c, site, path)
<1> DEFINE r == prior.report.receipt
           e == r.context
           old == PubSite[e.sources[PubMain]]
           bytes == [p \in PubPaths(old) |-> PubExact(e, old, p)]
           g == PubGraph(e, old, bytes)
           a == PubArtifact(site, path)
           o == PubArtifact(old, path)
<1>1. PubWhole(r) /\ prior.graph = r.files[ArtGraph].bytes
  BY DEF PubPriorHolds, PubReusable
<1>2. ArtGraph \notin PubPaths(old) /\ r.files = PubFiles(e, old, bytes)
      /\ e.sourceSet = ArtSourceSet(e.sources, e.materials)
  BY Zenon, <1>1 DEF PubWhole
<1> HIDE DEF bytes
<1>3. prior.graph = g
  BY PubFilesGraph, <1>1, <1>2
<1>4. path \in PubPaths(old) /\ g.sources = e.sources /\ g.sourceSet = e.sourceSet
  <2>1. DOMAIN g.artifacts = PubPaths(old) /\ g.sources = e.sources /\ g.sourceSet = e.sourceSet
    BY ONLY PubGraphIs
  <2>2. path \in DOMAIN prior.graph.artifacts
    BY DEF PubReusable
  <2> QED BY ONLY <1>3, <2>1, <2>2
<1>5. g.artifacts[path].producer = o.producer /\ g.artifacts[path].sources = o.sources
  <2> HIDE DEF e, old, r
  <2>1. g.artifacts[path].producer = o.producer
    BY ONLY <1>4, PubGraphProducer
  <2>2. g.artifacts[path].sources = o.sources
    BY ONLY <1>4, PubGraphSources
  <2> QED BY ONLY Zenon, <2>1, <2>2
<1>6. a.producer = o.producer /\ a.sources = o.sources
  BY Zenon, <1>3, <1>5 DEF PubReusable
<1>7. r.files[path].bytes = bytes[path]
  BY <1>2, <1>4, PubFilesBytes
<1>8. bytes[path] = PubExact(e, old, path)
  BY Zenon, <1>4 DEF bytes
<1>9. e.configuration = c.configuration
  BY DEF PubReusable, PubContextsAllow
<1>10. PubUnchangedDeps(a.sources, g, c)
  BY Zenon, <1>3 DEF PubReusable
<1> HIDE DEF g, a, o, old, e
<1>11. (IF a.sources.all THEN e.sources ELSE [p \in a.sources.paths |-> e.sources[p]])
         = (IF a.sources.all THEN c.sources ELSE [p \in a.sources.paths |-> c.sources[p]])
  BY <1>2, <1>4, <1>10 DEF PubUnchangedDeps, ArtSourceSet
<1> QED BY <1>6, <1>7, <1>8, <1>9, <1>11 DEF PubExact, a, o

\* What a build under way plans.
LEMMA PubPlanIsWhole ==
  ASSUME PubInvariant, pubCount.drifts = 0, NEW b \in PubBuilders, pubs[b].at = "plan",
         NEW site, site = PubSite[pubProject.tree[PubMain].version],
         NEW bytes,
         bytes = [p \in PubPaths(site) |->
                    IF p \in {r \in PubPaths(site) : PubReusable(pubs[b].prior, pubs[b].context, site, r)}
                    THEN pubs[b].prior.report.receipt.files[p].bytes
                    ELSE LET a == PubArtifact(site, p)
                         IN PubRender(a.producer, a.sources.paths, pubProject)],
         PubPlanned(site, pubs[b].context),
         NEW report,
         ArtGraphMatches(PubFiles(pubs[b].context, site, bytes)[ArtGraph].bytes, report),
         report.receipt.files = PubFiles(pubs[b].context, site, bytes),
         PubUnedited(pubs[b].context),
         NEW receipt, receipt.context = pubs[b].context,
         receipt.files = PubFiles(pubs[b].context, site, bytes)
  PROVE  PubWhole(receipt)
<1> DEFINE c == pubs[b].context
           tree == pubProject.tree
           conf == pubProject.configuration
<1>1. PubCapturedBefore(c) /\ PubPriorHolds(pubs[b].prior)
  BY Zenon DEF PubInvariant, PubUntampered, PubBuilderHolds
<1>2. conf \subseteq DOMAIN tree /\ c.sourceSet = ArtSourceSet(c.sources, c.materials)
  BY Zenon, <1>1 DEF PubCapturedBefore
<1>3. c.sources = [p \in PubVisible \ conf |-> tree[p].version] /\ c.configuration = [p \in conf |-> tree[p].version]
  BY Zenon DEF PubUnedited, PubSourcesNow, PubConfigurationNow, ArtEvidence
<1>4. PubMain \in PubVisible \ conf
  BY Zenon DEF PubInvariant, PubWellFormed, PubVisible
<1>5. site = PubSite[c.sources[PubMain]]
  BY Zenon, <1>3, <1>4
<1>6. ASSUME NEW p \in PubPaths(site)
      PROVE  PubRender(PubArtifact(site, p).producer, PubArtifact(site, p).sources.paths, pubProject)
               = PubExact(c, site, p)
  <2> DEFINE a == PubArtifact(site, p)
             d == a.sources
             R == IF d.paths = {} THEN PubVisible \ conf ELSE d.paths
  <2>1. d.paths \subseteq DOMAIN c.sources /\ (d.all <=> d.paths = {})
    BY ZenonT(60), PubArtifactDeclares DEF PubPlanned
  <2>2. PubRender(a.producer, d.paths, pubProject)
          = [name |-> a.producer, read |-> [s \in R \cap DOMAIN tree |-> tree[s].version],
             configuration |-> [s \in conf \cap DOMAIN tree |-> tree[s].version]]
    BY Zenon DEF PubRender, ArtEvidence, PubVisible
  <2> HIDE DEF a, d
  <2>3. R \cap DOMAIN tree = R /\ conf \cap DOMAIN tree = conf
    BY Zenon, <1>2, <1>3, <2>1 DEF PubVisible
  <2>4. [s \in R |-> tree[s].version] = IF d.all THEN c.sources ELSE [s \in d.paths |-> c.sources[s]]
    BY <1>3, <2>1
  <2> HIDE DEF R
  <2> QED BY Zenon, <1>3, <2>2, <2>3, <2>4 DEF PubExact, a, d
<1>7. bytes = [p \in PubPaths(site) |-> PubExact(c, site, p)]
  <2>1. \A p \in PubPaths(site) : bytes[p] = PubExact(c, site, p)
    <3> TAKE p \in PubPaths(site)
    <3>1. CASE PubReusable(pubs[b].prior, c, site, p)
      <4>1. bytes[p] = pubs[b].prior.report.receipt.files[p].bytes
        BY Zenon, <3>1
      <4> HIDE DEF c
      <4>2. pubs[b].prior.report.receipt.files[p].bytes = PubExact(c, site, p)
        BY ONLY <1>1, <1>2, <3>1, PubReusedIsExact
      <4> QED BY Zenon, <4>1, <4>2
    <3>2. CASE ~PubReusable(pubs[b].prior, c, site, p)
      BY Zenon, <1>6, <3>2
    <3> QED BY Zenon, <3>1, <3>2
  <2> QED BY Zenon, <2>1
<1>8. ArtGraph \notin PubPaths(site)
  <2> DEFINE files == PubFiles(c, site, bytes)
  <2>1. files[ArtGraph].bytes = PubGraph(c, site, bytes) /\ DOMAIN files = PubPaths(site) \cup {ArtGraph}
    BY ONLY PubFilesGraph, PubFilesDomain
  <2>2. DOMAIN PubGraph(c, site, bytes).artifacts = PubPaths(site)
    BY ONLY PubGraphIs
  <2>3. DOMAIN files[ArtGraph].bytes.artifacts = DOMAIN files \ {ArtGraph}
    BY Zenon DEF ArtGraphMatches
  <2> HIDE DEF files
  <2> QED BY Zenon, <2>1, <2>2, <2>3
<1> HIDE DEF c
<1>9. receipt.context = c /\ receipt.files = PubFiles(c, site, [p \in PubPaths(site) |-> PubExact(c, site, p)])
  BY Zenon, <1>7 DEF c
<1> QED BY Zenon, <1>2, <1>5, <1>8, <1>9 DEF PubWhole

-----------------------------------------------------------------------------
(* SitePublication: the steps of a build.                                  *)

\* A step that changes only where a build is and what it holds.
LEMMA PubLocalStep ==
  ASSUME PubInvariant, NEW b \in PubBuilders, pubs' = [pubs EXCEPT ![b] = pubs'[b]],
         pubProject' = pubProject, pubDisk' = pubDisk, pubLock' = pubLock, pubLog' = pubLog,
         DOMAIN pubCount' = DOMAIN pubCount, pubCount'.drifts = pubCount.drifts,
         pubCount'.inode = pubCount.inode,
         PubPlace(b)',
         pubCount.drifts = 0 /\ PubUntampered => PubBuilderHolds(b)'
  PROVE  PubInvariant'
<1>1. pubCount'.inode \in Nat \ {0}
  BY DEF PubInvariant, PubPlaces
<1>2. PubUntampered => (PubOut \in DOMAIN pubDisk' => PubKept(PubOut)') /\ PubLogHolds'
  BY DEF PubUntampered, PubKept, PubLogHolds
<1>3. pubCount.drifts = 0 /\ PubUntampered =>
         (PubOut \in DOMAIN pubDisk' => PubKept(PubOut)') /\ PubBuilderHolds(b)' /\ PubLogHolds'
  BY <1>2
<1> QED BY <1>1, <1>3, PubStep

\* What was captured, inspected and made stays as it is.
LEMMA PubCarries ==
  ASSUME PubUntampered, NEW b \in PubBuilders, pubProject' = pubProject,
         pubs'[b].context = pubs[b].context, pubs'[b].prior = pubs[b].prior,
         pubs'[b].report = pubs[b].report, pubs[b].at /= "idle"
  PROVE  /\ PubCapturedBefore(pubs[b].context)'
         /\ PubPriorHolds(pubs[b].prior)'
         /\ PubUnedited(pubs[b].context)' <=> PubUnedited(pubs[b].context)
         /\ PubWhole(pubs[b].report.receipt)' <=> PubWhole(pubs[b].report.receipt)
         /\ PubHolding(b) /\ PubPriorHolds(pubs[b].prior)
         /\ pubs[b].at \in {"recheck", "lock", "compare", "stage", "verify", "swap", "aside", "reopen", "publish"}
               => PubReportHolds(pubs[b])
<1>1. PubBuilderHolds(b)
  BY DEF PubUntampered
<1>2. PubCapturedBefore(pubs[b].context)'
  BY <1>1 DEF PubBuilderHolds, PubCapturedBefore
<1>3. PubPriorHolds(pubs[b].prior)'
  BY <1>1 DEF PubBuilderHolds, PubPriorHolds
<1>4. PubUnedited(pubs[b].context)' <=> PubUnedited(pubs[b].context)
  BY DEF PubUnedited, PubSourcesNow, PubConfigurationNow, PubVisible
<1>5. PubWhole(pubs[b].report.receipt)' <=> PubWhole(pubs[b].report.receipt)
  BY DEF PubWhole
<1> QED BY <1>1, <1>2, <1>3, <1>4, <1>5 DEF PubBuilderHolds

\* A build captures its inputs.
LEMMA PubCaptureKeeps ==
  ASSUME PubInvariant, NEW b \in PubBuilders, PubCapture(b)
  PROVE  PubInvariant'
<1> DEFINE c == ArtCapture(PubOwner, "framework", pubProject, PubSpecs)
<1>1. /\ pubs[b].at = "idle" /\ pubProject' = pubProject /\ pubDisk' = pubDisk /\ pubLock' = pubLock
      /\ pubLog' = pubLog /\ pubCount' = [pubCount EXCEPT !.builds = @ + 1]
  BY DEF PubCapture
<1>2. DOMAIN pubCount' = DOMAIN pubCount /\ pubCount'.drifts = pubCount.drifts /\ pubCount'.inode = pubCount.inode
  BY <1>1 DEF PubInvariant, PubPlaces
<1>3. PubPlace(b) /\ pubs = [x \in PubBuilders |-> pubs[x]]
  BY DEF PubInvariant, PubPlaces
<1>4. CASE pubs' = pubs
  <2>1. PubPlace(b)'
    BY <1>1, <1>3, <1>4 DEF PubPlace
  <2>2. PubUntampered => PubBuilderHolds(b)'
    <3>1. ASSUME PubUntampered PROVE PubBuilderHolds(b)'
      <4>1. PubBuilderHolds(b)
        BY <3>1 DEF PubUntampered
      <4> QED BY <1>1, <1>4, <4>1 DEF PubBuilderHolds, PubPriorHolds, PubHolding
    <3> QED BY <3>1
  <2>3. pubs' = [pubs EXCEPT ![b] = pubs'[b]]
    BY <1>3, <1>4
  <2> QED BY <1>1, <1>2, <2>1, <2>2, <2>3, PubLocalStep
<1>5. CASE pubs' /= pubs
  <2>1. /\ ArtCaptured(pubProject, PubSpecs) /\ ArtContextValid(c)
        /\ pubs' = [pubs EXCEPT ![b] = [PubIdle EXCEPT !.at = "inspect", !.context = c]]
    BY <1>5 DEF PubCapture, PubSet
  <2>2. pubProject.configuration \subseteq DOMAIN pubProject.tree
    BY <2>1 DEF ArtCaptured, ArtCapturable, ArtReadable
  <2>3. /\ c.sources = [p \in PubVisible \ pubProject.configuration |-> pubProject.tree[p].version]
        /\ c.configuration = [p \in pubProject.configuration |-> pubProject.tree[p].version]
    BY DEF ArtCapture, ArtEvidence, PubVisible
  <2>4. c.sourceSet = ArtSourceSet(c.sources, c.materials)
    BY <2>1 DEF ArtContextValid
  <2> HIDE DEF c
  <2>5. /\ DOMAIN pubs'[b] = PubFields /\ pubs'[b].at = "inspect" /\ pubs'[b].context = c
        /\ pubs'[b].prior.id = 0 /\ pubs'[b].stage = 0
    BY <1>3, <2>1 DEF PubIdle, PubFields, PubNothing
  <2>6. PubPlace(b)'
    BY <1>1, <1>3, <2>5 DEF PubPlace, PubBefore, PubLocked, PubStaged
  <2>7. \A p \in DOMAIN pubProject.tree : pubProject.tree[p].version \in Nat
    BY DEF PubInvariant, PubWellFormed
  <2>8. PubCapturedBefore(c)
    BY <2>2, <2>3, <2>4, <2>7 DEF PubCapturedBefore, PubVisible
  <2>9. PubBuilderHolds(b)'
    BY <1>1, <2>5, <2>8 DEF PubBuilderHolds, PubPriorHolds, PubHolding, PubCapturedBefore
  <2>10. pubs' = [pubs EXCEPT ![b] = pubs'[b]]
    BY <1>3, <2>1
  <2> QED BY <1>1, <1>2, <2>6, <2>9, <2>10, PubLocalStep
<1> QED BY <1>4, <1>5

\* The output is inspected: what it holds is whole.
LEMMA PubInspectKeeps ==
  ASSUME PubInvariant, NEW b \in PubBuilders, PubInspect(b)
  PROVE  PubInvariant'
<1> DEFINE d == pubDisk[PubOut]
<1>1. pubs[b].at = "inspect" /\ PubPlace(b) /\ pubs = [x \in PubBuilders |-> pubs[x]]
  BY DEF PubInspect, PubInvariant, PubPlaces
<1>2. CASE PubFail(b)
  BY <1>2, PubFailKeeps
<1>3. ASSUME UNCHANGED <<pubProject, pubDisk, pubLock, pubCount, pubLog>>,
             pubs' = [pubs EXCEPT ![b] = [pubs[b] EXCEPT !.at = "plan"]]
      PROVE  PubInvariant'
  <2>1. /\ DOMAIN pubs'[b] = PubFields /\ pubs'[b].at = "plan" /\ pubs'[b].context = pubs[b].context
        /\ pubs'[b].prior = pubs[b].prior /\ pubs'[b].stage = pubs[b].stage /\ pubs'[b].report = pubs[b].report
    BY <1>1, <1>3 DEF PubPlace, PubFields
  <2>2. PubPlace(b)'
    BY <1>1, <1>3, <2>1 DEF PubPlace, PubBefore, PubLocked, PubStaged
  <2>3. PubUntampered => PubBuilderHolds(b)'
    BY <1>1, <1>3, <2>1, PubCarries DEF PubBuilderHolds, PubHolding
  <2>4. pubs' = [pubs EXCEPT ![b] = pubs'[b]]
    BY <1>1, <1>3
  <2> QED BY <1>3, <2>2, <2>3, <2>4, PubLocalStep
<1>4. ASSUME UNCHANGED <<pubProject, pubDisk, pubLock, pubCount, pubLog>>, PubOut \in DOMAIN pubDisk, PubReplaceable(PubOut),
             pubs' = [pubs EXCEPT ![b] = [pubs[b] EXCEPT !.at = "plan",
                        !.prior = [id |-> d.id, report |-> d.report, graph |-> d.files[ArtGraph].bytes]]]
      PROVE  PubInvariant'
  <2> DEFINE prior == [id |-> d.id, report |-> d.report, graph |-> d.files[ArtGraph].bytes]
  <2>1. prior.report = d.report /\ prior.graph = d.files[ArtGraph].bytes
    OBVIOUS
  <2>2. pubs' = [pubs EXCEPT ![b] = [pubs[b] EXCEPT !.at = "plan", !.prior = prior]]
    BY <1>4
  <2> HIDE DEF prior
  <2>3. /\ DOMAIN pubs'[b] = PubFields /\ pubs'[b].at = "plan" /\ pubs'[b].context = pubs[b].context
        /\ pubs'[b].prior = prior /\ pubs'[b].stage = pubs[b].stage
    BY <1>1, <2>2 DEF PubPlace, PubFields
  <2>4. PubPlace(b)'
    BY <1>1, <1>4, <2>3 DEF PubPlace, PubBefore, PubLocked, PubStaged
  <2>5. PubUntampered => PubBuilderHolds(b)'
    <3>1. ASSUME PubUntampered PROVE PubBuilderHolds(b)'
      <4>1. PubBuilderHolds(b) /\ ArtVerified(d) /\ PubWhole(d.report.receipt)
        BY <1>4, <3>1 DEF PubUntampered, PubKept
      <4>2. PubCapturedBefore(pubs[b].context)'
        BY Zenon, <1>1, <1>4, <2>3, <4>1 DEF PubBuilderHolds, PubCapturedBefore
      <4>3. d.files[ArtGraph].bytes = d.report.receipt.files[ArtGraph].bytes
        BY <4>1, PubWholeHasGraph DEF ArtVerified
      <4>4. PubWhole(prior.report.receipt)
        BY <2>1, <4>1
      <4>5. prior.graph = prior.report.receipt.files[ArtGraph].bytes
        BY <2>1, <4>3
      <4>6. PubPriorHolds(prior)
        BY ONLY <4>4, <4>5 DEF PubPriorHolds
      <4>7. PubPriorHolds(pubs[b].prior)'
        BY <2>3, <4>6 DEF PubPriorHolds
      <4> QED BY <2>3, <4>2, <4>7 DEF PubBuilderHolds, PubHolding
    <3> QED BY <3>1
  <2>6. pubs' = [pubs EXCEPT ![b] = pubs'[b]]
    BY <1>1, <2>2
  <2> QED BY <1>4, <2>4, <2>5, <2>6, PubLocalStep
<1> QED BY <1>2, <1>3, <1>4 DEF PubInspect, PubAt, PubSet

\* Everything is rendered or reused.
LEMMA PubPlanKeeps ==
  ASSUME PubInvariant, NEW b \in PubBuilders, PubPlan(b)
  PROVE  PubInvariant'
<1> DEFINE q == pubs[b]
           site == PubSite[pubProject.tree[PubMain].version]
           bytes == [p \in PubPaths(site) |->
                       IF p \in {r \in PubPaths(site) : PubReusable(pubs[b].prior, pubs[b].context, site, r)}
                       THEN pubs[b].prior.report.receipt.files[p].bytes
                       ELSE LET a == PubArtifact(site, p)
                            IN PubRender(a.producer, a.sources.paths, pubProject)]
           files == PubFiles(q.context, site, bytes)
           previous == IF q.prior.id = 0 THEN NoPrevious
                       ELSE [owner |-> q.prior.report.receipt.context.owner, sha |-> q.prior.report.sha]
           receipt == ArtReceipt(q.context, files, previous)
           draft == ArtReport(ArtReceipt(q.context, files, NoPrevious))
<1>1. q.at = "plan" /\ PubPlace(b) /\ pubs = [x \in PubBuilders |-> pubs[x]]
  BY Zenon DEF PubPlan, PubInvariant, PubPlaces
<1>2. CASE PubFail(b)
  BY <1>2, PubFailKeeps
<1>3. ASSUME UNCHANGED <<pubProject, pubDisk, pubLock, pubCount, pubLog>>,
             PubPlanned(site, q.context), ArtGraphMatches(files[ArtGraph].bytes, draft),
             pubs' = [pubs EXCEPT ![b] = [q EXCEPT !.at = "recheck", !.report = ArtReport(receipt)]]
      PROVE  PubInvariant'
  <2>1. /\ ArtReport(receipt).receipt = receipt /\ receipt.context = q.context /\ receipt.files = files
        /\ receipt.previous = previous /\ draft.receipt.files = files
    BY Zenon DEF ArtReport, ArtReceipt
  <2>2. previous.sha = IF q.prior.id = 0 THEN <<>> ELSE q.prior.report.sha
    BY DEF NoPrevious
  <2>3. /\ DOMAIN pubs'[b] = PubFields /\ pubs'[b].at = "recheck" /\ pubs'[b].context = q.context
        /\ pubs'[b].prior = q.prior /\ pubs'[b].stage = q.stage /\ pubs'[b].report = ArtReport(receipt)
    <3> HIDE DEF receipt
    <3> QED BY Zenon, <1>1, <1>3 DEF PubPlace, PubFields
  <2>4. PubPlace(b)'
    BY Zenon, <1>1, <1>3, <2>3 DEF PubPlace, PubBefore, PubLocked, PubStaged
  <2>5. ASSUME pubCount.drifts = 0, PubUntampered PROVE PubBuilderHolds(b)'
    <3>1. PubBuilderHolds(b)
      BY <2>5 DEF PubUntampered
    <3>2. PubCapturedBefore(q.context)'
      BY Zenon, <1>1, <1>3, <2>3, <3>1 DEF PubBuilderHolds, PubCapturedBefore
    <3>3. PubPriorHolds(q.prior)'
      BY Zenon, <1>3, <2>3, <3>1 DEF PubBuilderHolds, PubPriorHolds
    <3> DEFINE made == receipt
    <3> HIDE DEF made, bytes, site, draft
    <3>4. PubUnedited(q.context) => PubWhole(made)
      BY ZenonT(60), <1>1, <1>3, <2>1, <2>5, PubPlanIsWhole DEF made, bytes, site, files
    <3>5. PubUnedited(q.context)' <=> PubUnedited(q.context)
      BY <1>3, <2>3 DEF PubUnedited, PubSourcesNow, PubConfigurationNow, PubVisible
    <3>6. pubs'[b].report.receipt = made
      BY <2>1, <2>3 DEF made
    <3>7. PubWhole(q.report.receipt)' <=> PubWhole(made)
      BY ONLY <3>6 DEF PubWhole
    <3>8. made.context = q.context /\ made.previous.sha = IF q.prior.id = 0 THEN <<>> ELSE q.prior.report.sha
      BY <2>1, <2>2 DEF made
    <3> HIDE DEF receipt, files
    <3>9. PubReportHolds(q)'
      BY <2>3, <3>4, <3>5, <3>6, <3>7, <3>8 DEF PubReportHolds
    <3> QED BY <2>3, <3>2, <3>3, <3>9 DEF PubBuilderHolds, PubHolding
  <2>6. pubs' = [pubs EXCEPT ![b] = pubs'[b]]
    <3> HIDE DEF receipt
    <3> QED BY Zenon, <1>1, <1>3
  <2> QED BY Zenon, <1>3, <2>4, <2>5, <2>6, PubLocalStep
<1> QED BY Zenon, <1>2, <1>3 DEF PubPlan, PubSet

\* A builder moves on and changes nothing else.
LEMMA PubMoves ==
  ASSUME PubInvariant, NEW b \in PubBuilders, NEW a,
         a \in {"recheck", "lock", "compare", "stage", "verify", "swap", "aside", "reopen", "publish"},
         pubs[b].at \in {"recheck", "lock", "compare", "stage", "verify", "swap", "aside", "reopen", "publish"},
         pubs' = [pubs EXCEPT ![b] = [pubs[b] EXCEPT !.at = a]],
         UNCHANGED <<pubProject, pubDisk, pubLock, pubCount, pubLog>>,
         a \in PubLocked <=> pubs[b].at \in PubLocked,
         a \in PubStaged <=> pubs[b].at \in PubStaged,
         pubCount.drifts = 0 /\ PubUntampered =>
            /\ a \in {"swap", "aside", "reopen", "publish"} => PubWhole(pubs[b].report.receipt)
            /\ a \in {"recheck", "lock", "compare", "stage", "verify"} =>
                  pubs[b].at \in {"recheck", "lock", "compare", "stage", "verify"}
            /\ PubHolding(b)'
  PROVE  PubInvariant'
<1>1. PubPlace(b) /\ pubs = [x \in PubBuilders |-> pubs[x]]
  BY DEF PubInvariant, PubPlaces
<1>2. /\ DOMAIN pubs'[b] = PubFields /\ pubs'[b].at = a /\ pubs'[b].context = pubs[b].context
      /\ pubs'[b].prior = pubs[b].prior /\ pubs'[b].stage = pubs[b].stage /\ pubs'[b].report = pubs[b].report
  BY <1>1 DEF PubPlace, PubFields
<1>3. PubPlace(b)'
  BY <1>1, <1>2 DEF PubPlace, PubBefore, PubLocked, PubStaged
<1>4. ASSUME pubCount.drifts = 0, PubUntampered PROVE PubBuilderHolds(b)'
  BY <1>2, <1>4, PubCarries DEF PubReportHolds, PubBuilderHolds
<1>5. pubs' = [pubs EXCEPT ![b] = pubs'[b]]
  BY <1>1
<1> QED BY <1>3, <1>4, <1>5, PubLocalStep

\* The inputs are checked again.
LEMMA PubRecheckKeeps ==
  ASSUME PubInvariant, NEW b \in PubBuilders, PubRecheckInputs(b)
  PROVE  PubInvariant'
<1>1. pubs[b].at = "recheck" /\ PubPlace(b) /\ pubs = [x \in PubBuilders |-> pubs[x]]
  BY DEF PubRecheckInputs, PubInvariant, PubPlaces
<1>2. CASE PubFail(b)
  BY <1>2, PubFailKeeps
<1>3. CASE PubAt(b, "lock") /\ UNCHANGED <<pubProject, pubDisk, pubLock, pubCount, pubLog>>
  <2>1. pubs' = [pubs EXCEPT ![b] = [pubs[b] EXCEPT !.at = "lock"]]
    BY <1>3 DEF PubAt, PubSet
  <2>2. pubs'[b].at = "lock"
    BY <1>1, <2>1 DEF PubPlace, PubFields
  <2>3. PubHolding(b)'
    BY <2>2 DEF PubHolding
  <2> QED BY <1>1, <1>3, <2>1, <2>3, PubMoves DEF PubLocked, PubStaged
<1> QED BY <1>2, <1>3 DEF PubRecheckInputs

\* The output is compared with what was inspected.
LEMMA PubCompareKeeps ==
  ASSUME PubInvariant, NEW b \in PubBuilders, PubCompare(b)
  PROVE  PubInvariant'
<1>1. pubs[b].at = "compare" /\ PubPlace(b) /\ pubs = [x \in PubBuilders |-> pubs[x]]
  BY DEF PubCompare, PubInvariant, PubPlaces
<1>2. CASE PubFail(b)
  BY <1>2, PubFailKeeps
<1>3. CASE PubAt(b, "stage") /\ UNCHANGED <<pubProject, pubDisk, pubLock, pubCount, pubLog>>
  <2>1. pubs' = [pubs EXCEPT ![b] = [pubs[b] EXCEPT !.at = "stage"]]
    BY <1>3 DEF PubAt, PubSet
  <2>2. pubs'[b].at = "stage"
    BY <1>1, <2>1 DEF PubPlace, PubFields
  <2>3. PubHolding(b)'
    BY <2>2 DEF PubHolding
  <2> QED BY <1>1, <1>3, <2>1, <2>3, PubMoves DEF PubLocked, PubStaged
<1> QED BY <1>2, <1>3 DEF PubCompare

\* The stage and the inputs are verified: what was made is whole.
LEMMA PubVerifyKeeps ==
  ASSUME PubInvariant, NEW b \in PubBuilders, PubVerify(b)
  PROVE  PubInvariant'
<1>1. pubs[b].at = "verify" /\ PubPlace(b) /\ pubs = [x \in PubBuilders |-> pubs[x]]
  BY DEF PubVerify, PubInvariant, PubPlaces
<1>2. CASE PubFail(b)
  BY <1>2, PubFailKeeps
<1>3. CASE /\ ArtVerified(pubDisk[<<"stage", pubs[b].stage>>])
           /\ ArtInputsUnchanged(pubProject, PubSpecs, pubs[b].context)
           /\ PubAt(b, "swap") /\ UNCHANGED <<pubProject, pubDisk, pubLock, pubCount, pubLog>>
  <2>1. pubs' = [pubs EXCEPT ![b] = [pubs[b] EXCEPT !.at = "swap"]]
    BY <1>3 DEF PubAt, PubSet
  <2>2. pubs'[b].at = "swap" /\ pubs'[b].stage = pubs[b].stage /\ pubs'[b].report = pubs[b].report
    BY <1>1, <2>1 DEF PubPlace, PubFields
  <2>3. ASSUME PubUntampered PROVE PubWhole(pubs[b].report.receipt) /\ PubHolding(b)'
    <3>1. PubReportHolds(pubs[b]) /\ PubHolding(b)
      BY <1>1, <2>3 DEF PubUntampered, PubBuilderHolds
    <3>2. PubUnedited(pubs[b].context)
      BY <1>3 DEF PubUnedited, ArtInputsUnchanged, ArtCapture, PubSourcesNow, PubConfigurationNow, PubVisible
    <3>3. PubHolding(b)'
      BY <1>1, <1>3, <2>2, <3>1 DEF PubHolding
    <3> QED BY <1>1, <3>1, <3>2, <3>3 DEF PubReportHolds
  <2> QED BY <1>1, <1>3, <2>1, <2>3, PubMoves DEF PubLocked, PubStaged
<1> QED BY <1>2, <1>3 DEF PubVerify

\* The swap begins while the output is the prior one.
LEMMA PubSwapKeeps ==
  ASSUME PubInvariant, NEW b \in PubBuilders, PubSwap(b)
  PROVE  PubInvariant'
<1> DEFINE a == IF pubs[b].prior.id = 0 THEN "publish" ELSE "aside"
<1>1. pubs[b].at = "swap" /\ PubPlace(b) /\ pubs = [x \in PubBuilders |-> pubs[x]]
  BY DEF PubSwap, PubInvariant, PubPlaces
<1>2. CASE PubFail(b)
  BY <1>2, PubFailKeeps
<1>3. CASE /\ PubSamePrior(pubs[b].prior)
           /\ PubAt(b, a) /\ UNCHANGED <<pubProject, pubDisk, pubLock, pubCount, pubLog>>
  <2> a \in {"publish", "aside"} /\ (pubs[b].prior.id = 0 <=> a = "publish")
    OBVIOUS
  <2>1. pubs' = [pubs EXCEPT ![b] = [pubs[b] EXCEPT !.at = a]]
    BY <1>3 DEF PubAt, PubSet
  <2> HIDE DEF a
  <2>2. /\ pubs'[b].at = a /\ pubs'[b].stage = pubs[b].stage /\ pubs'[b].report = pubs[b].report
        /\ pubs'[b].prior = pubs[b].prior
    BY <1>1, <2>1 DEF PubPlace, PubFields
  <2>3. ASSUME PubUntampered PROVE PubWhole(pubs[b].report.receipt) /\ PubHolding(b)'
    BY <1>1, <2>3, <1>3, <2>2 DEF PubUntampered, PubBuilderHolds, PubSamePrior, PubReplaceable,
       PubHolding, PubReportHolds
  <2> QED BY <1>1, <1>3, <2>1, <2>3, PubMoves DEF PubLocked, PubStaged
<1> QED BY <1>2, <1>3 DEF PubSwap

\* The lock is free, or the build is over.
LEMMA PubAcquireKeeps ==
  ASSUME PubInvariant, NEW b \in PubBuilders, PubAcquire(b)
  PROVE  PubInvariant'
<1>1. pubs[b].at = "lock" /\ PubPlace(b) /\ pubs = [x \in PubBuilders |-> pubs[x]]
  BY DEF PubAcquire, PubInvariant, PubPlaces
<1>2. CASE PubFail(b)
  BY <1>2, PubFailKeeps
<1>3. CASE /\ pubLock = "free" /\ PubAt(b, "compare") /\ pubLock' = b
           /\ UNCHANGED <<pubProject, pubDisk, pubCount, pubLog>>
  <2>1. pubs' = [pubs EXCEPT ![b] = [pubs[b] EXCEPT !.at = "compare"]]
    BY <1>3 DEF PubAt, PubSet
  <2>2. /\ DOMAIN pubs'[b] = PubFields /\ pubs'[b].at = "compare" /\ pubs'[b].context = pubs[b].context
        /\ pubs'[b].prior = pubs[b].prior /\ pubs'[b].stage = pubs[b].stage /\ pubs'[b].report = pubs[b].report
    BY <1>1, <2>1 DEF PubPlace, PubFields
  <2>3. PubPlace(b)'
    BY <1>1, <1>3, <2>2 DEF PubPlace, PubBefore, PubLocked, PubStaged
  <2>4. ASSUME PubUntampered
        PROVE  (PubOut \in DOMAIN pubDisk' => PubKept(PubOut)') /\ PubBuilderHolds(b)' /\ PubLogHolds'
    <3>1. /\ PubCapturedBefore(pubs[b].context)' /\ PubPriorHolds(pubs[b].prior)'
          /\ PubUnedited(pubs[b].context)' <=> PubUnedited(pubs[b].context)
          /\ PubWhole(pubs[b].report.receipt)' <=> PubWhole(pubs[b].report.receipt)
          /\ PubReportHolds(pubs[b])
      BY <1>1, <1>3, <2>2, <2>4, PubCarries
    <3>2. PubReportHolds(pubs[b])'
      BY <1>1, <2>2, <3>1 DEF PubReportHolds
    <3>3. PubHolding(b)'
      BY <2>2 DEF PubHolding
    <3>4. PubBuilderHolds(b)'
      BY <3>1, <3>2, <3>3 DEF PubBuilderHolds
    <3>5. PubOut \in DOMAIN pubDisk' => PubKept(PubOut)'
      BY <1>3, <2>4 DEF PubUntampered, PubKept
    <3>6. PubLogHolds'
      BY <1>3, <2>4 DEF PubUntampered, PubLogHolds
    <3> QED BY <3>4, <3>5, <3>6
  <2>5. pubs' = [pubs EXCEPT ![b] = pubs'[b]]
    BY <1>1, <2>1
  <2>6. DOMAIN pubCount' = DOMAIN pubCount /\ pubCount'.drifts = pubCount.drifts /\ pubCount'.inode \in Nat \ {0}
    BY <1>3 DEF PubInvariant, PubPlaces
  <2>7. \A n \in DOMAIN pubDisk : n /= <<"stage", 0>> => n \in DOMAIN pubDisk' /\ pubDisk'[n] = pubDisk[n]
    BY <1>3
  <2> QED BY <1>3, <2>3, <2>4, <2>5, <2>6, <2>7, PubStep
<1> QED BY <1>2, <1>3 DEF PubAcquire

\* The artifact is staged beside the output.
LEMMA PubStageKeeps ==
  ASSUME PubInvariant, NEW b \in PubBuilders, PubStage(b)
  PROVE  PubInvariant'
<1> DEFINE q == pubs[b]
           files == q.report.receipt.files
           staged == [id |-> pubCount.inode, report |-> q.report,
                      dirs |-> ArtExpectedDirs(DOMAIN files),
                      files |-> [p \in DOMAIN files |-> [bytes |-> files[p].bytes, links |-> 1]]]
           stage == <<"stage", pubCount.inode>>
<1>1. q.at = "stage" /\ PubPlace(b) /\ pubs = [x \in PubBuilders |-> pubs[x]]
  BY DEF PubStage, PubInvariant, PubPlaces
<1>2. CASE PubFail(b)
  BY <1>2, PubFailKeeps
<1>3. CASE /\ pubs' = [pubs EXCEPT ![b] = [q EXCEPT !.at = "verify", !.stage = pubCount.inode]]
           /\ pubDisk' = PubWith(pubDisk, stage, staged)
           /\ pubCount' = [pubCount EXCEPT !.inode = @ + 1]
           /\ UNCHANGED <<pubProject, pubLock, pubLog>>
  <2>1. staged.report = q.report
    OBVIOUS
  <2> HIDE DEF staged, stage
  <2>2. /\ DOMAIN pubs'[b] = PubFields /\ pubs'[b].at = "verify" /\ pubs'[b].context = q.context
        /\ pubs'[b].prior = q.prior /\ pubs'[b].stage = pubCount.inode /\ pubs'[b].report = q.report
    BY <1>1, <1>3 DEF PubPlace, PubFields
  <2>3. /\ DOMAIN pubCount' = DOMAIN pubCount /\ pubCount'.drifts = pubCount.drifts
        /\ pubCount'.inode \in Nat \ {0} /\ pubCount.inode \in Nat \ {0}
    BY <1>3 DEF PubInvariant, PubPlaces
  <2>4. PubPlace(b)'
    BY <1>1, <1>3, <2>2, <2>3 DEF PubPlace, PubBefore, PubLocked, PubStaged
  <2>5. /\ stage \in DOMAIN pubDisk' /\ pubDisk'[stage] = staged
        /\ \A n \in DOMAIN pubDisk : n /= stage => n \in DOMAIN pubDisk' /\ pubDisk'[n] = pubDisk[n]
        /\ DOMAIN pubDisk' = DOMAIN pubDisk \cup {stage}
    BY <1>3 DEF PubWith
  <2>6. stage[1] = "stage" /\ PubOut /= stage
    BY DEF PubOut, stage
  <2>7. ASSUME PubUntampered
        PROVE  (PubOut \in DOMAIN pubDisk' => PubKept(PubOut)') /\ PubBuilderHolds(b)' /\ PubLogHolds'
    <3>1. /\ PubCapturedBefore(q.context)' /\ PubPriorHolds(q.prior)'
          /\ PubUnedited(q.context)' <=> PubUnedited(q.context)
          /\ PubWhole(q.report.receipt)' <=> PubWhole(q.report.receipt)
          /\ PubReportHolds(q)
      BY <1>1, <1>3, <2>2, <2>7, PubCarries
    <3>2. PubReportHolds(q)'
      BY <1>1, <2>2, <3>1 DEF PubReportHolds
    <3>3. PubHolding(b)'
      BY <2>1, <2>2, <2>5 DEF PubHolding, stage
    <3>4. PubBuilderHolds(b)'
      BY <3>1, <3>2, <3>3 DEF PubBuilderHolds
    <3>5. PubOut \in DOMAIN pubDisk' => PubKept(PubOut)'
      BY <2>5, <2>6, <2>7 DEF PubUntampered, PubKept
    <3>6. pubLog /= <<>> => \E n \in DOMAIN pubDisk' : n[1] /= "stage" /\ ArtVerified(pubDisk'[n])
      BY <2>5, <2>6, <2>7 DEF PubUntampered, PubLogHolds
    <3>7. PubLogHolds'
      BY <1>3, <2>7, <3>6 DEF PubUntampered, PubLogHolds
    <3> QED BY <3>4, <3>5, <3>7
  <2>8. pubs' = [pubs EXCEPT ![b] = pubs'[b]]
    BY <1>1, <1>3
  <2>9. pubLock = b
    BY <1>1 DEF PubPlace, PubLocked
  <2> QED BY <1>3, <2>3, <2>4, <2>7, <2>8, <2>9, PubStep
<1> QED BY <1>2, <1>3 DEF PubStage, PubSet

\* What a rename does to the parent directory.
LEMMA PubRenamesDomain ==
  ASSUME NEW disk, NEW from, NEW to, from /= to
  PROVE  DOMAIN PubRename(disk, from, to) = (DOMAIN disk \ {from}) \cup {to}
BY DEF PubRename, PubWithout, PubWith

LEMMA PubRenamesTo ==
  ASSUME NEW disk, NEW from, NEW to, from /= to
  PROVE  PubRename(disk, from, to)[to] = disk[from]
BY DEF PubRename, PubWithout, PubWith

LEMMA PubRenamesOther ==
  ASSUME NEW disk, NEW from, NEW to, from /= to, NEW n \in DOMAIN disk, n /= from, n /= to
  PROVE  PubRename(disk, from, to)[n] = disk[n]
BY DEF PubRename, PubWithout, PubWith

\* The old output is moved aside and is whole there.
LEMMA PubAsideKeeps ==
  ASSUME PubInvariant, NEW b \in PubBuilders, PubAside(b)
  PROVE  PubInvariant'
<1> DEFINE q == pubs[b]
           backup == <<"backup", q.stage>>
           stage == <<"stage", q.stage>>
<1>1. q.at = "aside" /\ PubPlace(b) /\ pubs = [x \in PubBuilders |-> pubs[x]]
  BY DEF PubAside, PubInvariant, PubPlaces
<1>2. CASE PubFail(b)
  BY <1>2, PubFailKeeps
<1>3. CASE /\ PubOut \in DOMAIN pubDisk
           /\ pubDisk' = PubRename(pubDisk, PubOut, PubBackup(b))
           /\ PubAt(b, "reopen")
           /\ UNCHANGED <<pubProject, pubLock, pubCount, pubLog>>
  <2>1. pubs' = [pubs EXCEPT ![b] = [q EXCEPT !.at = "reopen"]] /\ pubDisk' = PubRename(pubDisk, PubOut, backup)
    BY <1>3 DEF PubAt, PubSet, PubBackup
  <2>2. /\ DOMAIN pubs'[b] = PubFields /\ pubs'[b].at = "reopen" /\ pubs'[b].context = q.context
        /\ pubs'[b].prior = q.prior /\ pubs'[b].stage = q.stage /\ pubs'[b].report = q.report
    BY <1>1, <2>1 DEF PubPlace, PubFields
  <2>3. DOMAIN pubCount' = DOMAIN pubCount /\ pubCount'.drifts = pubCount.drifts /\ pubCount'.inode \in Nat \ {0}
    BY <1>3 DEF PubInvariant, PubPlaces
  <2>4. PubPlace(b)'
    BY <1>1, <1>3, <2>2 DEF PubPlace, PubBefore, PubLocked, PubStaged
  <2>5. PubOut /= backup /\ PubOut /= stage /\ stage /= backup /\ backup[1] /= "stage"
    BY DEF PubOut
  <2> HIDE DEF backup, stage
  <2>6. /\ DOMAIN pubDisk' = (DOMAIN pubDisk \ {PubOut}) \cup {backup}
        /\ pubDisk'[backup] = pubDisk[PubOut]
        /\ \A n \in DOMAIN pubDisk \ {PubOut, backup} : pubDisk'[n] = pubDisk[n]
    <3> DEFINE moved == PubRename(pubDisk, PubOut, backup)
    <3>1. DOMAIN moved = (DOMAIN pubDisk \ {PubOut}) \cup {backup}
      BY ONLY <2>5, PubRenamesDomain
    <3>2. moved[backup] = pubDisk[PubOut]
      BY ONLY <2>5, PubRenamesTo
    <3>3. \A n \in DOMAIN pubDisk \ {PubOut, backup} : moved[n] = pubDisk[n]
      BY ONLY <2>5, PubRenamesOther
    <3>4. pubDisk' = moved
      BY <2>1
    <3> HIDE DEF moved
    <3> QED BY ONLY <3>1, <3>2, <3>3, <3>4
  <2>7. ASSUME PubUntampered
        PROVE  (PubOut \in DOMAIN pubDisk' => PubKept(PubOut)') /\ PubBuilderHolds(b)' /\ PubLogHolds'
    <3>1. /\ PubCapturedBefore(q.context)' /\ PubPriorHolds(q.prior)'
          /\ PubWhole(q.report.receipt)' <=> PubWhole(q.report.receipt)
          /\ PubReportHolds(q) /\ PubHolding(b)
      BY <1>1, <1>3, <2>2, <2>7, PubCarries
    <3>2. PubReportHolds(q)'
      BY <1>1, <2>2, <3>1 DEF PubReportHolds
    <3>3. ArtVerified(pubDisk[PubOut]) /\ PubWhole(pubDisk[PubOut].report.receipt)
      BY <1>3, <2>7 DEF PubUntampered, PubKept
    <3>4. backup \in DOMAIN pubDisk' /\ ArtVerified(pubDisk'[backup]) /\ PubWhole(pubDisk'[backup].report.receipt)
      BY <2>6, <3>3
    <3>5. /\ stage \in DOMAIN pubDisk /\ pubDisk[stage].report = q.report /\ ArtVerified(pubDisk[stage])
          /\ pubDisk[PubOut].report.sha = q.prior.report.sha /\ q.prior.id /= 0
      BY <1>1, <3>1 DEF PubHolding, stage
    <3>6. stage \in DOMAIN pubDisk' /\ pubDisk'[stage].report = q.report /\ ArtVerified(pubDisk'[stage])
      BY <2>5, <2>6, <3>5
    <3>7. PubKept(backup)' /\ pubDisk'[backup].report.sha = q.prior.report.sha
      BY <2>2, <3>4, <2>6, <3>5 DEF backup, PubKept
    <3>8. PubBackup(b)' = backup' /\ stage' = stage /\ backup' = backup
      BY <2>2 DEF PubBackup, backup, stage
    <3>9. PubKept(PubBackup(b))'
      BY <3>7, <3>8 DEF PubKept
    <3>10. PubHolding(b)'
      BY <2>2, <3>5, <3>6, <3>7, <3>8, <3>9 DEF PubHolding, stage
    <3>11. PubBuilderHolds(b)'
      BY <3>1, <3>2, <3>10 DEF PubBuilderHolds
    <3>12. PubOut \notin DOMAIN pubDisk'
      BY <2>5, <2>6
    <3>13. pubLog /= <<>> => \E n \in DOMAIN pubDisk' : n[1] /= "stage" /\ ArtVerified(pubDisk'[n])
      BY <2>5, <3>4
    <3>14. PubLogHolds'
      BY <1>3, <2>7, <3>13 DEF PubUntampered, PubLogHolds
    <3> QED BY <3>11, <3>12, <3>14
  <2>8. pubs' = [pubs EXCEPT ![b] = pubs'[b]]
    BY <1>1, <2>1
  <2>9. pubLock = b
    BY <1>1 DEF PubPlace, PubLocked, PubStaged
  <2> QED BY <1>3, <2>3, <2>4, <2>7, <2>8, <2>9, PubStep
<1> QED BY <1>2, <1>3 DEF PubAside

\* What a build that fails after it moved the old output leaves.
LEMMA PubRollsBack ==
  ASSUME PubInvariant, NEW b \in PubBuilders, NEW disk \in PubRolledBack(b), PubReturn(b, disk),
         \/ pubs[b].at = "reopen"
         \/ pubs[b].at = "publish" /\ pubs[b].prior.id /= 0
  PROVE  PubInvariant'
<1> DEFINE q == pubs[b]
           backup == <<"backup", q.stage>>
           stage == <<"stage", q.stage>>
<1>1. /\ pubs' = [pubs EXCEPT ![b] = PubIdle]
      /\ pubDisk' = [n \in DOMAIN disk \ {stage} |-> disk[n]]
      /\ pubLock' = IF pubLock = b THEN "free" ELSE pubLock
      /\ pubProject' = pubProject /\ pubCount' = pubCount /\ pubLog' = pubLog
  BY DEF PubReturn, PubSet, PubWithout
<1>2. PubPlace(b)
  BY DEF PubInvariant, PubPlaces
<1>3. pubLock = b
  BY <1>2 DEF PubPlace, PubLocked, PubStaged
<1>4. disk = pubDisk \/ (PubOut \notin DOMAIN pubDisk /\ disk = PubRename(pubDisk, backup, PubOut))
  BY DEF PubRolledBack, PubBackup
<1>5. backup /= PubOut /\ PubOut /= stage /\ stage /= backup /\ PubOut[1] /= "stage" /\ backup[1] /= "stage"
  BY DEF PubOut
<1> HIDE DEF backup
<1>6. ASSUME pubCount.drifts = 0, PubUntampered
      PROVE  /\ PubOut \in DOMAIN disk => ArtVerified(disk[PubOut]) /\ PubWhole(disk[PubOut].report.receipt)
             /\ \E n \in DOMAIN disk : n[1] /= "stage" /\ ArtVerified(disk[n])
  <2>1. backup \in DOMAIN pubDisk /\ ArtVerified(pubDisk[backup]) /\ PubWhole(pubDisk[backup].report.receipt)
    BY <1>6 DEF PubUntampered, PubBuilderHolds, PubHolding, PubKept, PubBackup, backup
  <2>2. CASE disk = pubDisk
    BY <1>5, <1>6, <2>1, <2>2 DEF PubUntampered, PubKept
  <2>3. CASE disk = PubRename(pubDisk, backup, PubOut)
    <3> DEFINE moved == PubRename(pubDisk, backup, PubOut)
    <3>1. DOMAIN moved = (DOMAIN pubDisk \ {backup}) \cup {PubOut}
      BY ONLY <1>5, PubRenamesDomain
    <3>2. moved[PubOut] = pubDisk[backup]
      BY ONLY <1>5, PubRenamesTo
    <3>3. PubOut \in DOMAIN disk /\ disk[PubOut] = pubDisk[backup]
      BY ONLY <2>3, <3>1, <3>2
    <3> QED BY <1>5, <2>1, <3>3
  <2> QED BY <1>4, <2>2, <2>3
<1>7. stage[1] = "stage"
  OBVIOUS
<1> HIDE DEF stage
<1>8. ASSUME pubCount.drifts = 0, PubUntampered
      PROVE  /\ PubOut \in DOMAIN pubDisk' => PubKept(PubOut)'
             /\ pubLog /= <<>> => \E n \in DOMAIN pubDisk' : n[1] /= "stage" /\ ArtVerified(pubDisk'[n])
  BY <1>1, <1>6, <1>8, <1>7 DEF PubKept
<1> QED BY <1>1, <1>3, <1>8, PubOver

\* The directory is opened again where it was moved.
LEMMA PubReopenKeeps ==
  ASSUME PubInvariant, NEW b \in PubBuilders, PubReopen(b)
  PROVE  PubInvariant'
<1>1. pubs[b].at = "reopen" /\ PubPlace(b) /\ pubs = [x \in PubBuilders |-> pubs[x]]
  BY DEF PubReopen, PubInvariant, PubPlaces
<1>2. CASE PubAt(b, "publish") /\ UNCHANGED <<pubProject, pubDisk, pubLock, pubCount, pubLog>>
  <2>1. pubs' = [pubs EXCEPT ![b] = [pubs[b] EXCEPT !.at = "publish"]]
    BY <1>2 DEF PubAt, PubSet
  <2>2. /\ pubs'[b].at = "publish" /\ pubs'[b].stage = pubs[b].stage /\ pubs'[b].report = pubs[b].report
        /\ pubs'[b].prior = pubs[b].prior
    BY <1>1, <2>1 DEF PubPlace, PubFields
  <2>3. ASSUME PubUntampered PROVE PubWhole(pubs[b].report.receipt) /\ PubHolding(b)'
    BY <1>1, <2>3, <1>2, <2>2 DEF PubUntampered, PubBuilderHolds, PubKept, PubBackup,
       PubHolding, PubReportHolds
  <2> QED BY <1>1, <1>2, <2>1, <2>3, PubMoves DEF PubLocked, PubStaged
<1>3. CASE \E disk \in PubRolledBack(b) : PubReturn(b, disk)
  BY <1>3, <1>1, PubRollsBack
<1> QED BY <1>2, <1>3 DEF PubReopen

\* The publishing rename fails.
LEMMA PubPublishFailsKeeps ==
  ASSUME PubInvariant, NEW b \in PubBuilders, PubPublishFails(b)
  PROVE  PubInvariant'
  BY PubFailKeeps, PubRollsBack DEF PubPublishFails

\* The rename that publishes: the log gains what was replaced.
LEMMA PubPublishKeeps ==
  ASSUME PubInvariant, NEW b \in PubBuilders, PubPublish(b)
  PROVE  PubInvariant'
<1> DEFINE q == pubs[b]
           backup == <<"backup", q.stage>>
           stage == <<"stage", q.stage>>
           a == IF q.prior.id = 0 THEN "done" ELSE "clean"
           replaced == IF q.prior.id = 0 THEN <<>> ELSE pubDisk[backup].report.sha
           entry == [replaced |-> replaced, report |-> q.report]
<1>1. q.at = "publish" /\ PubPlace(b) /\ pubs = [x \in PubBuilders |-> pubs[x]]
  BY DEF PubPublish, PubInvariant, PubPlaces
<1>2. /\ PubOut \notin DOMAIN pubDisk /\ pubDisk' = PubRename(pubDisk, stage, PubOut)
      /\ pubLog' = Append(pubLog, entry)
      /\ pubProject' = pubProject /\ pubLock' = pubLock /\ pubCount' = pubCount
  BY DEF PubPublish, PubBackup
<1>3. pubs' = [pubs EXCEPT ![b] = [q EXCEPT !.at = a]] /\ a \in {"done", "clean"}
  BY DEF PubPublish, PubAt, PubSet
<1>4. entry.replaced = replaced /\ entry.report = q.report
  OBVIOUS
<1>5. PubOut /= stage /\ PubOut[1] /= "stage"
  BY DEF PubOut
<1> HIDE DEF a, entry, stage
<1>6. /\ DOMAIN pubs'[b] = PubFields /\ pubs'[b].at = a /\ pubs'[b].context = q.context
      /\ pubs'[b].prior = q.prior /\ pubs'[b].stage = q.stage /\ pubs'[b].report = q.report
  BY <1>1, <1>3 DEF PubPlace, PubFields
<1>7. PubPlace(b)'
  BY <1>1, <1>2, <1>3, <1>6 DEF PubPlace, PubBefore, PubLocked, PubStaged
<1>8. PubOut \in DOMAIN pubDisk' /\ pubDisk'[PubOut] = pubDisk[stage]
  <2> DEFINE moved == PubRename(pubDisk, stage, PubOut)
  <2>1. DOMAIN moved = (DOMAIN pubDisk \ {stage}) \cup {PubOut}
    BY ONLY <1>5, PubRenamesDomain
  <2>2. moved[PubOut] = pubDisk[stage]
    BY ONLY <1>5, PubRenamesTo
  <2>3. pubDisk' = moved
    BY <1>2
  <2> HIDE DEF moved
  <2> QED BY ONLY <2>1, <2>2, <2>3
<1>9. ASSUME pubCount.drifts = 0, PubUntampered
      PROVE  PubKept(PubOut)' /\ PubBuilderHolds(b)' /\ PubLogHolds'
  <2>1. PubCapturedBefore(q.context)' /\ PubPriorHolds(q.prior)' /\ PubReportHolds(q) /\ PubHolding(b)
    BY <1>1, <1>2, <1>6, <1>9, PubCarries
  <2>2. pubDisk[stage].report = q.report /\ ArtVerified(pubDisk[stage]) /\ PubWhole(q.report.receipt)
    BY <1>1, <2>1 DEF PubHolding, PubReportHolds, stage
  <2>3. ArtVerified(pubDisk'[PubOut]) /\ PubWhole(pubDisk'[PubOut].report.receipt)
    BY <1>8, <2>2
  <2>4. PubKept(PubOut)'
    BY <1>8, <2>3 DEF PubKept
  <2>5. PubBuilderHolds(b)'
    BY <1>3, <1>6, <1>8, <2>1 DEF PubBuilderHolds, PubHolding
  <2>6. q.report.receipt.previous.sha = replaced
    BY <1>1, <2>1 DEF PubReportHolds, PubHolding, PubBackup
  <2>7. entry.report.receipt.previous.sha = entry.replaced
    BY <1>4, <2>6
  <2> DEFINE S == {pubLog[i] : i \in DOMAIN pubLog} \cup {entry}
  <2>8. pubLog \in Seq(S) /\ entry \in S
    BY <1>9 DEF PubUntampered, PubLogHolds
  <2> HIDE DEF S, replaced
  <2>9. /\ pubLog' \in Seq(S) /\ Len(pubLog') = Len(pubLog) + 1
        /\ \A i \in 1 .. Len(pubLog) : pubLog'[i] = pubLog[i]
        /\ pubLog'[Len(pubLog) + 1] = entry
    BY <1>2, <2>8, AppendProperties
  <2>10. DOMAIN pubLog' = 1 .. Len(pubLog) + 1 /\ DOMAIN pubLog = 1 .. Len(pubLog) /\ Len(pubLog) \in Nat
    BY <2>8, <2>9, LenProperties
  <2>11. \A i \in DOMAIN pubLog : pubLog[i].report.receipt.previous.sha = pubLog[i].replaced
    BY <1>9 DEF PubUntampered, PubLogHolds
  <2>12. \A i \in DOMAIN pubLog' : i \in DOMAIN pubLog \/ i = Len(pubLog) + 1
    BY <2>10
  <2>13. \A i \in DOMAIN pubLog' : pubLog'[i].report.receipt.previous.sha = pubLog'[i].replaced
    BY <2>7, <2>9, <2>10, <2>11, <2>12
  <2>14. pubLog' \in Seq({pubLog'[i] : i \in DOMAIN pubLog'})
    BY <2>9, <2>10
  <2>15. PubLogHolds'
    BY <1>5, <1>8, <2>3, <2>13, <2>14 DEF PubLogHolds
  <2> QED BY <2>4, <2>5, <2>15
<1>10. pubs' = [pubs EXCEPT ![b] = pubs'[b]]
  BY <1>1, <1>3
<1>11. pubLock = b
  BY <1>1 DEF PubPlace, PubLocked, PubStaged
<1>12. DOMAIN pubCount' = DOMAIN pubCount /\ pubCount'.drifts = pubCount.drifts /\ pubCount'.inode \in Nat \ {0}
  BY <1>2 DEF PubInvariant, PubPlaces
<1> QED BY <1>2, <1>7, <1>9, <1>10, <1>11, <1>12, PubStep

\* The old output is removed, or part of it.
LEMMA PubCleanKeeps ==
  ASSUME PubInvariant, NEW b \in PubBuilders, PubClean(b)
  PROVE  PubInvariant'
<1> DEFINE q == pubs[b]
           backup == <<"backup", q.stage>>
           stage == <<"stage", q.stage>>
<1>1. q.at = "clean" /\ PubPlace(b)
  BY DEF PubClean, PubInvariant, PubPlaces
<1>2. pubLock = b
  BY <1>1 DEF PubPlace, PubLocked, PubStaged
<1>3. PubOut /= stage /\ PubOut /= backup /\ PubOut[1] /= "stage"
  BY DEF PubOut
<1>4. PICK disk :
         /\ PubReturn(b, disk)
         /\ \/ disk = PubWithout(pubDisk, {backup})
            \/ \E p : disk = [pubDisk EXCEPT ![backup].files = PubWithout(@, {p})]
  BY DEF PubClean, PubBackup
<1>5. /\ PubOut \in DOMAIN disk <=> PubOut \in DOMAIN pubDisk
      /\ PubOut \in DOMAIN pubDisk => disk[PubOut] = pubDisk[PubOut]
  BY <1>3, <1>4 DEF PubWithout
<1>6. /\ pubs' = [pubs EXCEPT ![b] = PubIdle]
      /\ pubDisk' = [n \in DOMAIN disk \ {stage} |-> disk[n]]
      /\ pubLock' = IF pubLock = b THEN "free" ELSE pubLock
      /\ pubProject' = pubProject /\ pubCount' = pubCount /\ pubLog' = pubLog
  BY <1>4 DEF PubReturn, PubSet, PubWithout
<1> HIDE DEF stage
<1>7. /\ PubOut \in DOMAIN pubDisk' <=> PubOut \in DOMAIN pubDisk
      /\ PubOut \in DOMAIN pubDisk => pubDisk'[PubOut] = pubDisk[PubOut]
  BY <1>3, <1>5, <1>6
<1>8. ASSUME pubCount.drifts = 0, PubUntampered
      PROVE  /\ PubOut \in DOMAIN pubDisk' => PubKept(PubOut)'
             /\ pubLog /= <<>> => \E n \in DOMAIN pubDisk' : n[1] /= "stage" /\ ArtVerified(pubDisk'[n])
  BY <1>1, <1>8, <1>7, <1>3 DEF PubUntampered, PubBuilderHolds, PubHolding, PubKept
<1> QED BY <1>2, <1>6, <1>8, PubOver

\* A builder is killed: what is on disk stays.
LEMMA PubCrashKeeps ==
  ASSUME PubInvariant, NEW b \in PubBuilders, PubCrash(b)
  PROVE  PubInvariant'
<1>1. /\ pubCount' = [pubCount EXCEPT !.crashes = @ + 1] /\ pubs' = [pubs EXCEPT ![b] = PubIdle]
      /\ pubLock' = (IF pubLock = b THEN "free" ELSE pubLock)
      /\ pubProject' = pubProject /\ pubDisk' = pubDisk /\ pubLog' = pubLog
  BY DEF PubCrash, PubSet
<1>2. DOMAIN pubCount' = DOMAIN pubCount /\ pubCount'.drifts = pubCount.drifts /\ pubCount'.inode = pubCount.inode
  BY <1>1 DEF PubInvariant, PubPlaces
<1>3. PubUntampered =>
         /\ PubOut \in DOMAIN pubDisk' => PubKept(PubOut)'
         /\ pubLog /= <<>> => \E n \in DOMAIN pubDisk' : n[1] /= "stage" /\ ArtVerified(pubDisk'[n])
  BY <1>1 DEF PubUntampered, PubLogHolds, PubKept
<1>4. \A n \in DOMAIN pubDisk : n /= <<"stage", 0>> => n \in DOMAIN pubDisk' /\ pubDisk'[n] = pubDisk[n]
  BY <1>1
<1> QED BY <1>1, <1>2, <1>3, <1>4, PubOver

-----------------------------------------------------------------------------
(* SitePublication: the rest of the machine.                               *)

\* An edit: every version grows or stays, and one path is newer or new.
LEMMA PubEditIs ==
  ASSUME PubInvariant, NEW p, PubEdit(p)
  PROVE  /\ PubWellFormed(pubProject')
         /\ pubProject'.configuration = pubProject.configuration /\ pubProject'.excluded = pubProject.excluded
         /\ DOMAIN pubProject'.tree = DOMAIN pubProject.tree \cup {p}
         /\ \A n \in DOMAIN pubProject.tree : n /= p => pubProject'.tree[n] = pubProject.tree[n]
         /\ p \in DOMAIN pubProject.tree => pubProject'.tree[p].version = pubProject.tree[p].version + 1
<1> DEFINE tree == pubProject.tree
<1>1. /\ DOMAIN pubProject = PubProjectFields
      /\ \A n \in DOMAIN tree : DOMAIN tree[n] = {"kind", "version", "links"} /\ tree[n].version \in Nat
      /\ PubMain \in DOMAIN tree \ pubProject.configuration /\ ~ArtIgnored(PubMain, pubProject.excluded)
  BY DEF PubInvariant, PubWellFormed
<1>2. PICK new : /\ pubProject' = [pubProject EXCEPT !.tree = new]
                 /\ DOMAIN new = DOMAIN tree \cup {p}
                 /\ \A n \in DOMAIN tree : n /= p => new[n] = tree[n]
                 /\ p \in DOMAIN tree => new[p].version = tree[p].version + 1
                 /\ DOMAIN new[p] = {"kind", "version", "links"} /\ new[p].version \in Nat
  <2>1. CASE p \in DOMAIN tree
    <3> DEFINE file == [tree[p] EXCEPT !.version = @ + 1]
               new == [tree EXCEPT ![p] = file]
    <3>1. pubProject' = [pubProject EXCEPT !.tree = new]
      BY <2>1 DEF PubEdit
    <3>2. DOMAIN file = {"kind", "version", "links"} /\ file.version = tree[p].version + 1 /\ file.version \in Nat
      BY <1>1, <2>1
    <3> HIDE DEF file
    <3>3. DOMAIN new = DOMAIN tree \cup {p} /\ new[p] = file /\ \A n \in DOMAIN tree : n /= p => new[n] = tree[n]
      BY <2>1
    <3> HIDE DEF new
    <3> QED BY <3>1, <3>2, <3>3
  <2>2. CASE p \notin DOMAIN tree
    <3> DEFINE file == [kind |-> "file", version |-> 1, links |-> 1]
               new == PubWith(tree, p, file)
    <3>1. pubProject' = [pubProject EXCEPT !.tree = new]
      BY <2>2 DEF PubEdit
    <3>2. DOMAIN file = {"kind", "version", "links"} /\ file.version \in Nat
      OBVIOUS
    <3> HIDE DEF file
    <3>3. DOMAIN new = DOMAIN tree \cup {p} /\ new[p] = file /\ \A n \in DOMAIN tree : n /= p => new[n] = tree[n]
      BY DEF PubWith
    <3> HIDE DEF new
    <3> QED BY <2>2, <3>1, <3>2, <3>3
  <2> QED BY <2>1, <2>2
<1>3. /\ pubProject'.tree = new /\ pubProject'.configuration = pubProject.configuration
      /\ pubProject'.excluded = pubProject.excluded /\ DOMAIN pubProject' = PubProjectFields
  BY <1>1, <1>2 DEF PubProjectFields
<1>4. \A n \in DOMAIN new : DOMAIN new[n] = {"kind", "version", "links"} /\ new[n].version \in Nat
  BY <1>1, <1>2
<1>5. PubWellFormed(pubProject')
  BY <1>1, <1>2, <1>3, <1>4 DEF PubWellFormed
<1> QED BY <1>2, <1>3, <1>5

\* What was captured stays older than the project.
LEMMA PubEditIsNewer ==
  ASSUME PubInvariant, NEW p, PubEdit(p), NEW c, PubCapturedBefore(c)
  PROVE  PubCapturedBefore(c)'
  BY PubEditIs DEF PubInvariant, PubWellFormed, PubCapturedBefore

\* An edit of an input is seen: what looks unedited after it was so before.
LEMMA PubEditIsSeen ==
  ASSUME PubInvariant, NEW p, PubEdit(p), NEW c, PubCapturedBefore(c), PubUnedited(c)'
  PROVE  PubUnedited(c)
<1> DEFINE tree == pubProject.tree
           next == pubProject'.tree
           conf == pubProject.configuration
           seen == {n \in DOMAIN tree : ~ArtIgnored(n, pubProject.excluded)} \ conf
           sees == {n \in DOMAIN next : ~ArtIgnored(n, pubProject.excluded)} \ conf
<1>1. /\ pubProject'.configuration = conf /\ pubProject'.excluded = pubProject.excluded
      /\ DOMAIN next = DOMAIN tree \cup {p}
      /\ \A n \in DOMAIN tree : n /= p => next[n] = tree[n]
      /\ p \in DOMAIN tree => next[p].version = tree[p].version + 1
  BY PubEditIs
<1>2. \A n \in DOMAIN tree : tree[n].version \in Nat
  BY DEF PubInvariant, PubWellFormed
<1>3. c.sources = [n \in sees |-> next[n].version] /\ c.configuration = [n \in conf |-> next[n].version]
  BY <1>1 DEF PubUnedited, PubSourcesNow, PubConfigurationNow, PubVisible, ArtEvidence
<1>4. /\ conf \subseteq DOMAIN tree /\ DOMAIN c.sources \subseteq DOMAIN tree
      /\ \A n \in DOMAIN c.sources : c.sources[n] \in Nat /\ c.sources[n] =< tree[n].version
      /\ \A n \in DOMAIN c.configuration : c.configuration[n] \in Nat /\ c.configuration[n] =< tree[n].version
  BY DEF PubCapturedBefore
<1>5. sees \subseteq DOMAIN tree /\ sees = seen
  BY <1>1, <1>3, <1>4
<1>6. p \notin sees /\ p \notin conf
  <2>1. p \in DOMAIN tree => next[p].version > tree[p].version
    BY <1>1, <1>2
  <2>2. p \in sees => next[p].version =< tree[p].version /\ p \in DOMAIN tree
    BY <1>3, <1>4, <1>5
  <2>3. p \in conf => next[p].version =< tree[p].version /\ p \in DOMAIN tree
    BY <1>3, <1>4
  <2>4. p \in DOMAIN tree => tree[p].version \in Nat /\ next[p].version \in Nat
    BY <1>1, <1>2
  <2> QED BY <2>1, <2>2, <2>3, <2>4
<1>7. \A n \in seen \cup conf : next[n].version = tree[n].version
  BY <1>1, <1>4, <1>5, <1>6
<1> HIDE DEF sees
<1>8. c.sources = [n \in seen |-> tree[n].version] /\ c.configuration = [n \in conf |-> tree[n].version]
  BY <1>3, <1>5, <1>7
<1> QED BY <1>8 DEF PubUnedited, PubSourcesNow, PubConfigurationNow, PubVisible, ArtEvidence

LEMMA PubEditKeeps ==
  ASSUME PubInvariant, NEW p, PubEdit(p)
  PROVE  PubInvariant'
<1>1. /\ pubCount' = [pubCount EXCEPT !.edits = @ + 1] /\ pubDisk' = pubDisk /\ pubLock' = pubLock
      /\ pubs' = pubs /\ pubLog' = pubLog
  BY DEF PubEdit
<1>2. PubWellFormed(pubProject)'
  BY PubEditIs
<1>3. /\ DOMAIN pubCount' = DOMAIN pubCount /\ pubCount'.drifts = pubCount.drifts
      /\ pubCount'.inode = pubCount.inode
  BY <1>1 DEF PubInvariant, PubPlaces
<1>4. PubPlaces'
  BY <1>1, <1>3 DEF PubInvariant, PubPlaces, PubPlace
<1>5. ASSUME pubCount.drifts = 0
      PROVE  PubUntampered'
  <2>1. PubUntampered
    BY <1>5 DEF PubInvariant
  <2>2. (PubOut \in DOMAIN pubDisk => PubKept(PubOut))' /\ PubLogHolds'
    BY <1>1, <2>1 DEF PubUntampered, PubKept, PubLogHolds
  <2>3. ASSUME NEW b \in PubBuilders PROVE PubBuilderHolds(b)'
    <3> DEFINE q == pubs[b]
    <3>1. PubBuilderHolds(b)
      BY <2>1 DEF PubUntampered
    <3>2. ASSUME q.at /= "idle" PROVE PubCapturedBefore(q.context)' /\ (PubUnedited(q.context)' => PubUnedited(q.context))
      BY <3>1, <3>2, <1>1, PubEditIsNewer, PubEditIsSeen DEF PubBuilderHolds,
         PubCapturedBefore, PubUnedited
    <3>3. PubPriorHolds(q.prior)'
      BY <1>1, <3>1 DEF PubBuilderHolds, PubPriorHolds
    <3>4. PubWhole(q.report.receipt)' <=> PubWhole(q.report.receipt)
      BY <1>1 DEF PubWhole
    <3>5. q.at \in {"recheck", "lock", "compare", "stage", "verify", "swap", "aside", "reopen", "publish"}
            => PubReportHolds(q)'
      BY <1>1, <3>1, <3>2, <3>4 DEF PubBuilderHolds, PubReportHolds
    <3>6. PubHolding(b)'
      BY <1>1, <3>1 DEF PubBackup, PubBuilderHolds, PubKept, PubHolding
    <3> QED BY <1>1, <3>2, <3>3, <3>5, <3>6 DEF PubBuilderHolds
  <2> QED BY <2>2, <2>3 DEF PubUntampered
<1> QED BY <1>2, <1>3, <1>4, <1>5 DEF PubInvariant

\* Somebody changed the output: nothing is said of it any more.
LEMMA PubDriftKeeps ==
  ASSUME PubInvariant, NEW how, PubDrift(how)
  PROVE  PubInvariant'
  BY DEF PubDrift, PubInvariant, PubPlaces, PubPlace, PubWellFormed

LEMMA PubStutterKeeps ==
  ASSUME PubInvariant, UNCHANGED pubVars
  PROVE  PubInvariant'
<1>1. /\ pubProject' = pubProject /\ pubDisk' = pubDisk /\ pubLock' = pubLock /\ pubs' = pubs
      /\ pubCount' = pubCount /\ pubLog' = pubLog
  BY DEF pubVars
<1>2. PubWellFormed(pubProject)'
  BY <1>1 DEF PubInvariant, PubWellFormed
<1>3. PubPlaces'
  BY <1>1 DEF PubInvariant, PubPlaces, PubPlace
<1>4. ASSUME pubCount.drifts = 0 PROVE PubUntampered'
  <2>1. PubUntampered
    BY <1>4 DEF PubInvariant
  <2>2. (PubOut \in DOMAIN pubDisk => PubKept(PubOut))' /\ PubLogHolds'
    BY <1>1, <2>1 DEF PubUntampered, PubKept, PubLogHolds
  <2>3. \A b \in PubBuilders : PubBuilderHolds(b)'
    <3> TAKE b \in PubBuilders
    <3>1. PubBuilderHolds(b)
      BY <2>1 DEF PubUntampered
    <3>2. /\ PubCapturedBefore(pubs[b].context)' <=> PubCapturedBefore(pubs[b].context)
          /\ PubPriorHolds(pubs[b].prior)' <=> PubPriorHolds(pubs[b].prior)
      BY <1>1 DEF PubCapturedBefore, PubPriorHolds
    <3>3. PubUnedited(pubs[b].context)' <=> PubUnedited(pubs[b].context)
      BY <1>1 DEF PubUnedited, PubSourcesNow, PubConfigurationNow, PubVisible
    <3>4. PubWhole(pubs[b].report.receipt)' <=> PubWhole(pubs[b].report.receipt)
      BY <1>1 DEF PubWhole
    <3>5. PubReportHolds(pubs[b])' <=> PubReportHolds(pubs[b])
      BY <1>1, <3>3, <3>4 DEF PubReportHolds
    <3>6. PubBackup(b)' = PubBackup(b)
      BY <1>1 DEF PubBackup
    <3>7. PubKept(PubBackup(b))' <=> PubKept(PubBackup(b))
      BY <1>1, <3>6 DEF PubKept
    <3>8. PubHolding(b)' <=> PubHolding(b)
      BY <1>1, <3>6, <3>7 DEF PubHolding
    <3> QED BY <1>1, <3>1, <3>2, <3>5, <3>8 DEF PubBuilderHolds
  <2> QED BY <2>2, <2>3 DEF PubUntampered
<1> QED BY <1>1, <1>2, <1>3, <1>4 DEF PubInvariant

\* What the invariant says of the output and the log.
LEMMA PubGuaranteesHold == PubInvariant => PubGuarantees
<1> SUFFICES ASSUME PubInvariant PROVE PubGuarantees
  OBVIOUS
<1>1. PubRecoverable
  BY DEF PubInvariant, PubUntampered, PubLogHolds, PubRecoverable
<1>2. PubHistoryIsLinear
  BY DEF PubInvariant, PubUntampered, PubLogHolds, PubHistoryIsLinear
<1>3. PubReuseIsExact
  <2> DEFINE r == pubDisk[PubOut].report.receipt
             c == r.context
             site == PubSite[c.sources[PubMain]]
             bytes == [p \in PubPaths(site) |-> PubExact(c, site, p)]
  <2>1. ASSUME PubOut \in DOMAIN pubDisk, pubCount.drifts = 0, NEW p \in PubPaths(site)
        PROVE  r.files[p].bytes = PubExact(c, site, p)
    <3>1. ArtGraph \notin PubPaths(site) /\ r.files = PubFiles(c, site, bytes)
      <4>1. PubWhole(r)
        BY <2>1 DEF PubInvariant, PubUntampered, PubKept
      <4> QED BY Zenon, <4>1 DEF PubWhole
    <3>2. bytes[p] = PubExact(c, site, p)
      BY <2>1
    <3> HIDE DEF bytes, site, c
    <3>3. PubFiles(c, site, bytes)[p].bytes = bytes[p]
      BY <2>1, <3>1, PubFilesBytes
    <3> HIDE DEF r
    <3> QED BY ONLY <3>1, <3>2, <3>3
  <2> QED BY <2>1 DEF PubReuseIsExact
<1> QED BY <1>1, <1>2, <1>3 DEF PubGuarantees

\* Publication (build_with_context_at): once a build was published a whole
\* verified artifact is always at hand, what is published is what a full build
\* of its inputs gives, and a receipt names exactly what it replaced, for any
\* number of builders, failures, crashes and edits, in any order.
THEOREM PublicationHolds == PubSpec => []PubGuarantees
<1>1. PubInit => PubInvariant
  BY PubInitHolds
<1>2. PubInvariant /\ [PubNext]_pubVars => PubInvariant'
  <2> SUFFICES ASSUME PubInvariant, [PubNext]_pubVars PROVE PubInvariant'
    OBVIOUS
  <2>1. ASSUME NEW b \in PubBuilders, PubDone(b) PROVE PubInvariant'
    BY <2>1, PubFailKeeps DEF PubDone
  <2> QED BY <2>1, PubCaptureKeeps, PubInspectKeeps, PubPlanKeeps, PubRecheckKeeps, PubAcquireKeeps,
             PubCompareKeeps, PubStageKeeps, PubVerifyKeeps, PubSwapKeeps, PubAsideKeeps, PubReopenKeeps,
             PubPublishKeeps, PubPublishFailsKeeps, PubCleanKeeps, PubCrashKeeps, PubEditKeeps,
             PubDriftKeeps, PubStutterKeeps DEF PubNext
<1>3. PubInvariant => PubGuarantees
  BY PubGuaranteesHold
<1> QED BY <1>1, <1>2, <1>3, PTL DEF PubSpec
-----------------------------------------------------------------------------
(* BundleContract.                                                         *)

\* An admission is of a valid manifest, gives the host the files the manifest
\* declares and has every feature its routes need.
LEMMA BunAdmissionMeans ==
  ASSUME NEW m, NEW h, BunAdmission(m, h) /= <<>>
  PROVE  /\ BunValid(m)
         /\ BunAdmission(m, h) = <<BunAdmission(m, h)[1]>>
         /\ BunAdmission(m, h)[1].paths = BunUploads(m, m.targets[h.target])
         /\ BunAdmission(m, h)[1].paths \subseteq DOMAIN m.artifacts
         /\ BunRequired(m, m.targets[h.target]) \subseteq h.features
         /\ SumFunction([p \in BunAdmission(m, h)[1].paths |-> m.artifacts[p].bytes]) =< h.bundle
<1> DEFINE t == m.targets[h.target]
           uploads == BunUploads(m, t)
           secrets == {s \in DOMAIN m.secrets : m.secrets[s].required}
<1>1. /\ BunValid(m) /\ h.target \in DOMAIN m.targets
      /\ BunRequired(m, t) \subseteq h.features
      /\ SumFunction([p \in uploads |-> m.artifacts[p].bytes]) =< h.bundle
      /\ BunAdmission(m, h) = <<[paths |-> uploads, secrets |-> secrets]>>
  BY DEF BunAdmission
<1>2. uploads \subseteq DOMAIN m.artifacts
  BY <1>1 DEF BunUploads, BunValid, BunTargetOk, BunArtifactsOk, BunAssetsOk
<1> HIDE DEF uploads, secrets
<1>3. BunAdmission(m, h)[1].paths = uploads /\ BunAdmission(m, h) = <<BunAdmission(m, h)[1]>>
  BY <1>1
<1> QED BY <1>1, <1>2, <1>3 DEF uploads

\* Nothing was read, admitted, built or served yet.
LEMMA BunInitHolds == BunInit => BunInvariant
<1> SUFFICES ASSUME BunInit PROVE BunInvariant
  OBVIOUS
<1>1. BunDiskIsHonest
  BY BunAssumption DEF BunInit, BunDiskIsHonest
<1>2. BunChainHolds
  <2>1. CASE bunWho = "promotes"
    <3>1. PICK m \in BunManifests : bunChain = <<m>>
      BY <2>1 DEF BunInit
    <3>2. bunChain \in Seq(BunManifests) /\ DOMAIN bunChain = {1}
      BY <3>1
    <3> QED BY <3>1, <3>2 DEF BunChainHolds
  <2>2. CASE bunWho /= "promotes"
    BY <2>2 DEF BunInit, BunChainHolds
  <2> QED BY <2>1, <2>2
<1> QED BY <1>1, <1>2 DEF BunInvariant, BunInit, BunReadsAreDeclared, BunAppIsAdmitted,
                         BunServesWhatWasAdmitted, BunAdmissionsAreEarned

\* The application stays as it is.
LEMMA BunAppFrame ==
  ASSUME BunInvariant, bunApp' = bunApp
  PROVE  BunAppIsAdmitted'
<1>1. BunAppIsAdmitted
  BY DEF BunInvariant
<1> QED BY <1>1 DEF BunAppIsAdmitted

\* What the commands on a directory leave alone.
LEMMA BunCheckingFrame ==
  ASSUME BunInvariant, BunChecking
  PROVE  BunAppIsAdmitted' /\ BunChainHolds' /\ BunServesWhatWasAdmitted'
<1>1. bunWho' = bunWho /\ bunChain' = bunChain /\ bunApp' = bunApp /\ bunServed' = bunServed
  BY DEF BunChecking
<1> DEFINE Holds(chain, who) ==
      /\ chain \in Seq(BunManifests)
      /\ who = "promotes" => chain /= <<>>
      /\ \A i, j \in DOMAIN chain :
            i =< j /\ ~chain[i].safe =>
                \/ chain[j] = chain[i]
                \/ /\ chain[j].seq > chain[i].seq
                   /\ \E k \in i..(j - 1) : chain[k].release = chain[j].prev
<1>2. BunChainHolds'
  BY <1>1 DEF BunInvariant, BunChainHolds
<1>3. BunServesWhatWasAdmitted'
  BY Zenon, <1>1 DEF BunInvariant, BunServesWhatWasAdmitted
<1> QED BY <1>1, <1>2, <1>3, BunAppFrame

\* A writer only leaves contents that have one digest.
LEMMA BunTouchKeeps ==
  ASSUME BunInvariant, BunTouch
  PROVE  BunInvariant'
<1>1. BunChecking /\ bunOp' = bunOp /\ bunAdmitted' = bunAdmitted
  BY DEF BunTouch
<1>2. BunDiskIsHonest'
  BY BunAssumption DEF BunInvariant, BunTouch, BunHonest, BunDiskIsHonest
<1> QED BY <1>1, <1>2, BunCheckingFrame
        DEF BunInvariant, BunReadsAreDeclared, BunIdle, BunHonest, BunAdmissionsAreEarned

\* A step of a command that does not end it prints nothing and writes nothing.
LEMMA BunOpFrame ==
  ASSUME BunInvariant, BunChecking, bunDisk' = bunDisk, bunAdmitted' = bunAdmitted,
         BunReadsAreDeclared'
  PROVE  BunInvariant'
  BY BunCheckingFrame DEF BunInvariant, BunDiskIsHonest, BunHonest, BunAdmissionsAreEarned

\* A command begins with nothing read.
LEMMA BunCommandKeeps ==
  ASSUME BunInvariant, BunCommand
  PROVE  BunInvariant'
  BY BunOpFrame DEF BunCommand, BunOpFields, BunReadsAreDeclared

\* The fields of a command in progress.
LEMMA BunOpFacts ==
  ASSUME BunInvariant, bunOp.name /= "none"
  PROVE  /\ DOMAIN bunOp = BunOpFields
         /\ bunOp.m \in BunManifests
         /\ bunOp.step \in {"read", "check"} => bunOp.rooted /\ bunOp.before[1] \in bunOp.todo
         /\ ~bunOp.rooted => bunOp.todo = {} /\ bunOp.step = "stat"
         /\ bunOp.rooted /\ bunOp.step /= "list" =>
               \A p \in DOMAIN bunOp.m.artifacts \ bunOp.todo :
                   p \in DOMAIN bunOp.read /\ bunOp.read[p].digest = bunOp.m.artifacts[p].digest
         /\ \A p \in DOMAIN bunOp.read : BunHonest(bunOp.read[p])
         /\ bunOp.step = "check" => bunOp.before[1] \in DOMAIN bunOp.read
  BY DEF BunInvariant, BunReadsAreDeclared, BunIdle

\* The listing: every declared file is still to do.
LEMMA BunVerifyListKeeps ==
  ASSUME BunInvariant, BunVerifyList
  PROVE  BunInvariant'
  BY BunOpFrame, BunOpFacts DEF BunVerifyList, BunReadsAreDeclared, BunIdle, BunOpFields,
     BunHonest

\* The metadata before the read.
LEMMA BunVerifyStatKeeps ==
  ASSUME BunInvariant, BunVerifyStat
  PROVE  BunInvariant'
  BY BunOpFrame, BunOpFacts DEF BunVerifyStat, BunReadsAreDeclared, BunIdle, BunOpFields,
     BunHonest

\* The read, of whatever is there by now.
LEMMA BunVerifyReadKeeps ==
  ASSUME BunInvariant, BunVerifyRead
  PROVE  BunInvariant'
<1>1. CASE bunOp' = BunIdle
  BY <1>1, BunOpFrame DEF BunVerifyRead, BunReadsAreDeclared, BunIdle
<1>2. CASE bunOp' /= BunIdle
  <2> DEFINE p == bunOp.before[1]
             R == [q \in DOMAIN bunOp.read \cup {p} |-> IF q = p THEN bunDisk[p] ELSE bunOp.read[q]]
  <2>1. p \in DOMAIN bunDisk /\ bunOp' = [bunOp EXCEPT !.step = "check", !.read = R]
    BY <1>2 DEF BunVerifyRead
  <2>2. bunOp.name /= "none" /\ bunOp.step = "read"
    BY DEF BunVerifyRead
  <2>3. /\ DOMAIN R = DOMAIN bunOp.read \cup {p} /\ R[p] = bunDisk[p]
        /\ \A q \in DOMAIN bunOp.read : q /= p => R[q] = bunOp.read[q]
    OBVIOUS
  <2>4. /\ bunOp.rooted /\ bunOp.m \in BunManifests /\ p \in bunOp.todo
        /\ \A q \in DOMAIN bunOp.m.artifacts \ bunOp.todo :
              q \in DOMAIN bunOp.read /\ bunOp.read[q].digest = bunOp.m.artifacts[q].digest
        /\ \A q \in DOMAIN bunOp.read : BunHonest(bunOp.read[q])
    BY <2>2, BunOpFacts
  <2>5. BunHonest(bunDisk[p])
    BY <2>1 DEF BunInvariant, BunDiskIsHonest
  <2> HIDE DEF R
  <2>6. /\ DOMAIN bunOp' = BunOpFields /\ bunOp'.m = bunOp.m /\ bunOp'.rooted = bunOp.rooted
        /\ bunOp'.step = "check" /\ bunOp'.todo = bunOp.todo /\ bunOp'.read = R
        /\ bunOp'.before = bunOp.before
    BY <2>1, <2>2, BunOpFacts DEF BunOpFields
  <2>7. \A q \in DOMAIN R : BunHonest(R[q])
    BY <2>3, <2>4, <2>5
  <2>8. \A q \in DOMAIN bunOp.m.artifacts \ bunOp.todo :
            q \in DOMAIN R /\ R[q].digest = bunOp.m.artifacts[q].digest
    BY <2>3, <2>4
  <2>9. BunReadsAreDeclared'
    BY <2>3, <2>4, <2>6, <2>7, <2>8 DEF BunReadsAreDeclared, BunHonest
  <2> QED BY <2>9, BunOpFrame DEF BunVerifyRead
<1> QED BY <1>1, <1>2

\* The check: one file less to do.
LEMMA BunVerifyCheckKeeps ==
  ASSUME BunInvariant, BunVerifyCheck
  PROVE  BunInvariant'
<1>1. CASE bunOp' = BunIdle
  BY <1>1, BunOpFrame DEF BunVerifyCheck, BunReadsAreDeclared, BunIdle
<1>2. CASE bunOp' /= BunIdle
  <2> DEFINE p == bunOp.before[1]
  <2>1. /\ bunOp.read[p].digest = bunOp.m.artifacts[p].digest
        /\ bunOp' = [bunOp EXCEPT !.step = "stat", !.todo = @ \ {p}, !.before = <<>>]
    BY <1>2 DEF BunVerifyCheck, BunSameFile
  <2>2. bunOp.name /= "none" /\ bunOp.step = "check"
    BY DEF BunVerifyCheck
  <2>3. /\ bunOp.rooted /\ bunOp.m \in BunManifests /\ p \in bunOp.todo /\ p \in DOMAIN bunOp.read
        /\ \A q \in DOMAIN bunOp.m.artifacts \ bunOp.todo :
              q \in DOMAIN bunOp.read /\ bunOp.read[q].digest = bunOp.m.artifacts[q].digest
        /\ \A q \in DOMAIN bunOp.read : BunHonest(bunOp.read[q])
    BY <2>2, BunOpFacts
  <2>4. /\ DOMAIN bunOp' = BunOpFields /\ bunOp'.m = bunOp.m /\ bunOp'.rooted = bunOp.rooted
        /\ bunOp'.step = "stat" /\ bunOp'.todo = bunOp.todo \ {p} /\ bunOp'.read = bunOp.read
    BY <2>1, <2>2, BunOpFacts DEF BunOpFields
  <2> HIDE DEF p
  <2>5. \A q \in DOMAIN bunOp.m.artifacts \ (bunOp.todo \ {p}) :
            q \in DOMAIN bunOp.read /\ bunOp.read[q].digest = bunOp.m.artifacts[q].digest
    BY <2>1, <2>3
  <2>6. BunReadsAreDeclared'
    BY <2>3, <2>4, <2>5 DEF BunReadsAreDeclared, BunHonest
  <2> QED BY <2>6, BunOpFrame DEF BunVerifyCheck
<1> QED BY <1>1, <1>2

\* The verdict: what was read has the lengths that were declared and summed.
LEMMA BunCommandEndsKeeps ==
  ASSUME BunInvariant, BunCommandEnds
  PROVE  BunInvariant'
<1>1. BunChecking /\ bunDisk' = bunDisk /\ bunOp' = BunIdle
  BY DEF BunCommandEnds
<1>2. BunDiskIsHonest' /\ BunReadsAreDeclared'
  BY <1>1 DEF BunInvariant, BunDiskIsHonest, BunHonest, BunReadsAreDeclared, BunIdle
<1>3. BunAdmissionsAreEarned'
  <2>1. CASE bunAdmitted' = bunAdmitted
    BY <2>1 DEF BunInvariant, BunAdmissionsAreEarned
  <2>2. CASE bunAdmitted' /= bunAdmitted
    <3> DEFINE m == bunOp.m
               h == bunOp.h
               A == BunAdmission(m, h)
               a == [paths |-> A[1].paths, m |-> m, h |-> h, rooted |-> bunOp.rooted, read |-> bunOp.read]
    <3>1. A /= <<>> /\ bunAdmitted' = <<a>>
      BY <2>2 DEF BunCommandEnds
    <3>2. bunOp.name /= "none" /\ bunOp.step = "stat" /\ bunOp.todo = {}
      BY DEF BunCommandEnds
    <3>3. A[1].paths \subseteq DOMAIN m.artifacts
          /\ SumFunction([p \in A[1].paths |-> m.artifacts[p].bytes]) =< h.bundle
      BY <3>1, BunAdmissionMeans
    <3>4. bunAdmitted'[1].paths = A[1].paths /\ bunAdmitted'[1].m = m /\ bunAdmitted'[1].h = h
          /\ bunAdmitted'[1].rooted = bunOp.rooted /\ bunAdmitted'[1].read = bunOp.read
      BY <3>1
    <3> HIDE DEF m, h, A, a
    <3>5. ASSUME bunOp.rooted
          PROVE  /\ \A p \in A[1].paths : bunOp.read[p].digest = m.artifacts[p].digest
                 /\ SumFunction([p \in A[1].paths |-> bunOp.read[p].bytes]) =< h.bundle
      BY <3>2, <3>5, BunOpFacts, <3>3 DEF m, BunHonest
    <3> QED BY <3>4, <3>5 DEF BunAdmissionsAreEarned
  <2> QED BY <2>1, <2>2
<1> QED BY <1>1, <1>2, <1>3, BunCheckingFrame DEF BunInvariant

\* A release that becomes active is newer than the last unsafe one, that one
\* itself, or was active since.
LEMMA BunCompatibilityKeeps ==
  ASSUME BunInvariant, BunCompatibility
  PROVE  BunInvariant'
<1> DEFINE n == Len(bunChain)
           x == bunChain[n]
<1>1. PICK c \in BunManifests :
         (BunRolls(x, c) \/ BunRollsBack(x, c)) /\ bunChain' = Append(bunChain, c)
  BY DEF BunCompatibility
<1>2. BunChainHolds /\ bunWho = "promotes" /\ bunWho' = bunWho
  BY DEF BunInvariant, BunCompatibility
<1>3. bunChain \in Seq(BunManifests) /\ bunChain /= <<>> /\ n \in Nat \ {0} /\ DOMAIN bunChain = 1..n
  BY <1>2, EmptySeq, LenProperties DEF BunChainHolds
<1>4. /\ bunChain' \in Seq(BunManifests) /\ bunChain' /= <<>> /\ DOMAIN bunChain' = 1..(n + 1)
      /\ \A i \in 1..n : bunChain'[i] = bunChain[i]
      /\ bunChain'[n + 1] = c
  BY <1>1, <1>3, AppendProperties
<1> HIDE DEF n
<1>5. \A i \in 1..n : bunChain[i] \in BunManifests /\ bunChain[i].seq \in Nat
  BY <1>3, BunAssumption, ElementOfSeq DEF n
<1>6. c.seq \in Nat
  BY BunAssumption
<1>7. \A i, j \in 1..n : i =< j /\ ~bunChain[i].safe =>
          \/ bunChain[j] = bunChain[i]
          \/ /\ bunChain[j].seq > bunChain[i].seq
             /\ \E k \in i..(j - 1) : bunChain[k].release = bunChain[j].prev
  BY <1>2, <1>3 DEF BunChainHolds
<1>8. ASSUME NEW i \in 1..n, ~bunChain[i].safe
      PROVE  \/ c = bunChain[i]
             \/ c.seq > bunChain[i].seq /\ \E k \in i..n : bunChain[k].release = c.prev
  <2>1. i =< n /\ n \in 1..n /\ i \in Nat
    BY <1>3
  <2>2. \/ x = bunChain[i]
        \/ x.seq > bunChain[i].seq /\ \E k \in i..(n - 1) : bunChain[k].release = x.prev
    BY <1>7, <1>8, <2>1
  <2>3. CASE BunRolls(x, c)
    BY <2>3, <1>5, <1>6, <2>1, <2>2, <1>3 DEF BunRolls
  <2>4. CASE BunRollsBack(x, c)
    <3>1. x.safe /\ x.prev = c.release
      BY <2>4 DEF BunRollsBack
    <3>2. PICK k \in i..(n - 1) : bunChain[k].release = x.prev
      BY <1>8, <2>2, <3>1
    <3>3. k \in 1..n /\ i =< k
      BY <1>3, <2>1, <3>2
    <3>4. bunChain[k] = c
      BY <1>5, <3>1, <3>2, <3>3, BunAssumption
    <3>5. \/ c = bunChain[i]
          \/ c.seq > bunChain[i].seq /\ \E l \in i..(k - 1) : bunChain[l].release = c.prev
      BY <1>7, <1>8, <3>3, <3>4
    <3>6. \A l \in i..(k - 1) : l \in i..n
      BY <1>3, <2>1, <3>3
    <3> QED BY <3>5, <3>6
  <2> QED BY <1>1, <2>3, <2>4
<1>9. BunChainHolds'
  <2>1. ASSUME NEW i \in 1..(n + 1), NEW j \in 1..(n + 1), i =< j, ~bunChain'[i].safe
        PROVE  \/ bunChain'[j] = bunChain'[i]
               \/ /\ bunChain'[j].seq > bunChain'[i].seq
                  /\ \E k \in i..(j - 1) : bunChain'[k].release = bunChain'[j].prev
    <3>1. CASE j \in 1..n
      BY <1>3, <2>1, <3>1, <1>4, <1>7
    <3>2. CASE j = n + 1
      BY <3>2, <1>3, <1>4, <1>8, <2>1
    <3> QED BY <1>3, <3>1, <3>2
  <2> QED BY <1>2, <1>4, <2>1 DEF BunChainHolds
<1>10. bunDisk' = bunDisk /\ bunOp' = bunOp /\ bunAdmitted' = bunAdmitted /\ bunApp' = bunApp
       /\ bunServed' = bunServed
  BY DEF BunCompatibility
<1>11. BunDiskIsHonest' /\ BunReadsAreDeclared' /\ BunAdmissionsAreEarned'
  BY <1>10 DEF BunInvariant, BunDiskIsHonest, BunHonest, BunReadsAreDeclared, BunIdle, BunAdmissionsAreEarned
<1>12. BunServesWhatWasAdmitted'
  BY Zenon, <1>10 DEF BunInvariant, BunServesWhatWasAdmitted
<1> QED BY <1>9, <1>10, <1>11, <1>12, BunAppFrame DEF BunInvariant

\* What the calls on an application leave alone.
LEMMA BunWorkerFrame ==
  ASSUME BunInvariant, BunWorker
  PROVE  BunDiskIsHonest' /\ BunReadsAreDeclared' /\ BunChainHolds' /\ BunAdmissionsAreEarned'
<1>1. bunWho' = bunWho /\ bunDisk' = bunDisk /\ bunOp' = bunOp /\ bunAdmitted' = bunAdmitted
      /\ bunChain' = bunChain
  BY DEF BunWorker
<1> QED BY <1>1 DEF BunInvariant, BunDiskIsHonest, BunHonest, BunReadsAreDeclared, BunIdle, BunChainHolds,
                    BunAdmissionsAreEarned

\* An application is built from an admission.
LEMMA BunNewKeeps ==
  ASSUME BunInvariant, BunNew
  PROVE  BunInvariant'
<1>1. BunWorker /\ bunServed' = bunServed
  BY DEF BunNew
<1>2. BunServesWhatWasAdmitted'
  BY Zenon, <1>1 DEF BunInvariant, BunServesWhatWasAdmitted
<1>3. BunAppIsAdmitted'
  <2>1. CASE bunApp' = <<>>
    BY <2>1 DEF BunAppIsAdmitted
  <2>2. CASE bunApp' /= <<>>
    <3>1. PICK m \in BunManifests :
             /\ BunAdmission(m, BunCloudflare) /= <<>>
             /\ bunApp' = <<[m |-> m, admission |-> BunAdmission(m, BunCloudflare)[1],
                             handlers |-> {}, secrets |-> {}, asset |-> "ok", sealed |-> FALSE]>>
      BY <2>2 DEF BunNew
    <3>2. BunAdmission(m, BunCloudflare) = <<BunAdmission(m, BunCloudflare)[1]>>
      BY <3>1, BunAdmissionMeans
    <3> DEFINE A == BunAdmission(m, BunCloudflare)[1]
    <3>3. BunAdmission(m, BunCloudflare) = <<A>>
      BY <3>2
    <3>4. bunApp' = <<[m |-> m, admission |-> A, handlers |-> {}, secrets |-> {}, asset |-> "ok", sealed |-> FALSE]>>
      BY <3>1
    <3> HIDE DEF A
    <3>5. /\ bunApp' = <<bunApp'[1]>> /\ ~bunApp'[1].sealed
          /\ DOMAIN bunApp'[1] = {"m", "admission", "handlers", "secrets", "asset", "sealed"}
          /\ bunApp'[1].m = m /\ bunApp'[1].admission = A
      BY <3>4
    <3>6. BunAdmission(bunApp'[1].m, BunCloudflare) = <<bunApp'[1].admission>>
      BY <3>3, <3>5
    <3> QED BY <3>5, <3>6 DEF BunAppIsAdmitted, BunAdmission
  <2> QED BY <2>1, <2>2
<1> QED BY <1>1, <1>2, <1>3, BunWorkerFrame DEF BunInvariant

\* A registration breaks the seal.
LEMMA BunRegisterKeeps ==
  ASSUME BunInvariant, BunRegister
  PROVE  BunInvariant'
<1>1. BunWorker /\ bunServed' = bunServed /\ bunApp /= <<>>
  BY Zenon DEF BunRegister
<1>2. BunServesWhatWasAdmitted'
  BY Zenon, <1>1 DEF BunInvariant, BunServesWhatWasAdmitted
<1> DEFINE a == bunApp[1]
<1>3. /\ DOMAIN a = {"m", "admission", "handlers", "secrets", "asset", "sealed"}
      /\ BunAdmission(a.m, BunCloudflare) = <<a.admission>>
  BY <1>1 DEF BunInvariant, BunAppIsAdmitted
<1>4. /\ bunApp' = <<bunApp'[1]>> /\ bunApp'[1].sealed = FALSE /\ DOMAIN bunApp'[1] = DOMAIN a
      /\ bunApp'[1].m = a.m /\ bunApp'[1].admission = a.admission
  <2>1. \/ \E f : bunApp' = <<[a EXCEPT !.handlers = @ \cup {f}, !.sealed = FALSE]>>
        \/ \E s, b : bunApp' = <<[a EXCEPT !.secrets = {x \in @ : x[1] /= s} \cup {<<s, b>>}, !.sealed = FALSE]>>
        \/ \E b : bunApp' = <<[a EXCEPT !.asset = b, !.sealed = FALSE]>>
    BY Zenon DEF BunRegister
  <2> HIDE DEF a
  <2>2. ASSUME NEW f, bunApp' = <<[a EXCEPT !.handlers = @ \cup {f}, !.sealed = FALSE]>>
        PROVE  /\ bunApp' = <<bunApp'[1]>> /\ bunApp'[1].sealed = FALSE /\ DOMAIN bunApp'[1] = DOMAIN a
               /\ bunApp'[1].m = a.m /\ bunApp'[1].admission = a.admission
    BY <1>3, <2>2
  <2>3. ASSUME NEW s, NEW b,
               bunApp' = <<[a EXCEPT !.secrets = {x \in @ : x[1] /= s} \cup {<<s, b>>}, !.sealed = FALSE]>>
        PROVE  /\ bunApp' = <<bunApp'[1]>> /\ bunApp'[1].sealed = FALSE /\ DOMAIN bunApp'[1] = DOMAIN a
               /\ bunApp'[1].m = a.m /\ bunApp'[1].admission = a.admission
    BY <1>3, <2>3
  <2>4. ASSUME NEW b, bunApp' = <<[a EXCEPT !.asset = b, !.sealed = FALSE]>>
        PROVE  /\ bunApp' = <<bunApp'[1]>> /\ bunApp'[1].sealed = FALSE /\ DOMAIN bunApp'[1] = DOMAIN a
               /\ bunApp'[1].m = a.m /\ bunApp'[1].admission = a.admission
    BY <1>3, <2>4
  <2> QED BY Zenon, <2>1, <2>2, <2>3, <2>4
<1> HIDE DEF a
<1>5. BunAdmission(bunApp'[1].m, BunCloudflare) = <<bunApp'[1].admission>>
  BY <1>3, <1>4
<1>6. BunAppIsAdmitted'
  BY <1>3, <1>4, <1>5 DEF BunAppIsAdmitted
<1> QED BY <1>1, <1>2, <1>6, BunWorkerFrame DEF BunInvariant

\* Sealing checks the registration.
LEMMA BunSealKeeps ==
  ASSUME BunInvariant, BunSeal
  PROVE  BunInvariant'
<1>1. BunWorker /\ bunServed' = bunServed /\ bunApp /= <<>>
  BY DEF BunSeal
<1>2. BunServesWhatWasAdmitted'
  BY Zenon, <1>1 DEF BunInvariant, BunServesWhatWasAdmitted
<1> DEFINE a == bunApp[1]
<1>3. /\ DOMAIN a = {"m", "admission", "handlers", "secrets", "asset", "sealed"}
      /\ BunAdmission(a.m, BunCloudflare) = <<a.admission>>
  BY <1>1 DEF BunInvariant, BunAppIsAdmitted
<1>4. BunAppIsAdmitted'
  <2>1. CASE bunApp' = <<>>
    BY <2>1 DEF BunAppIsAdmitted
  <2>2. CASE bunApp' /= <<>>
    BY <2>2, <1>3 DEF BunSeal, BunRegistered, BunAppIsAdmitted
  <2> QED BY <2>1, <2>2
<1> QED BY <1>1, <1>2, <1>4, BunWorkerFrame DEF BunInvariant

\* A sealed application finds what it looks up for a route of its manifest.
LEMMA BunDispatchKeeps ==
  ASSUME BunInvariant, BunDispatch
  PROVE  BunInvariant'
<1> DEFINE a == bunApp[1]
           A == BunAdmission(a.m, BunCloudflare)
<1>1. BunWorker /\ bunApp' = bunApp /\ bunApp /= <<>>
  BY Zenon DEF BunDispatch
<1>2. A = <<a.admission>> /\ (a.sealed => BunRegistered(a))
  BY <1>1 DEF BunInvariant, BunAppIsAdmitted
<1>3. A /= <<>> /\ A[1] = a.admission
  BY <1>2
<1>4. /\ BunValid(a.m) /\ a.admission.paths = BunUploads(a.m, a.m.targets[BunCloudflare.target])
      /\ BunRequired(a.m, a.m.targets[BunCloudflare.target]) \subseteq BunCloudflare.features
  BY <1>3, BunAdmissionMeans
<1>5. BunAppIsAdmitted'
  BY <1>1, BunAppFrame
<1>6. BunServesWhatWasAdmitted'
  <2>1. \/ \E o \in {"PLG-CF-001", "router error"} : bunServed' = <<[outcome |-> o, route |-> "", app |-> a]>>
        \/ /\ a.sealed
           /\ \E i \in DOMAIN a.m.routes : \E env :
                \E out \in IF a.m.routes[i].kind = "Static" THEN {"asset"}
                           ELSE BunDynamic(a, a.m.routes[i], env) :
                   bunServed' = <<[route |-> i, app |-> a, outcome |-> out]>>
    BY Zenon DEF BunDispatch
  <2> HIDE DEF a, A
  <2>2. ASSUME NEW o \in {"PLG-CF-001", "router error"}, bunServed' = <<[outcome |-> o, route |-> "", app |-> a]>>
        PROVE  BunServesWhatWasAdmitted'
    BY Zenon, <2>2 DEF BunServesWhatWasAdmitted
  <2>3. ASSUME a.sealed, NEW i \in DOMAIN a.m.routes, NEW env,
               NEW out \in IF a.m.routes[i].kind = "Static" THEN {"asset"}
                           ELSE BunDynamic(a, a.m.routes[i], env),
               bunServed' = <<[route |-> i, app |-> a, outcome |-> out]>>
        PROVE  BunServesWhatWasAdmitted'
    <3> DEFINE r == a.m.routes[i]
    <3>0. IF r.kind = "Static" THEN out = "asset" ELSE out \in BunDynamic(a, r, env)
      OBVIOUS
    <3>0a. out \in BunDynamic(a, r, env) =>
              \/ out \in {"PLG-CF-003", "PLG-CF-004"}
              \/ out = IF r.function \in a.handlers THEN "handler" ELSE "panic"
      BY Zenon DEF BunDynamic
    <3>1. BunRouteTargetOk(a.m, r)
      BY Zenon, <1>4 DEF BunValid, BunRoutesOk
    <3>2. {BunFeature(f) : f \in r.features} \subseteq BunCloudflare.features
      BY <1>4 DEF BunRequired
    <3>3. out = "asset" => r.asset \in a.admission.paths
      <4>1. out = "asset" => r.kind = "Static"
        BY <3>0, <3>0a
      <4> QED BY Zenon, <1>4, <3>1, <4>1 DEF BunRouteTargetOk, BunUploads
    <3>4. out /= "panic"
      BY <1>2, <2>3, <3>0, <3>0a, <3>1 DEF BunRegistered, BunRouteTargetOk
    <3>6. bunServed'[1].route = i /\ bunServed'[1].app = a /\ bunServed'[1].outcome = out
      BY <2>3
    <3> QED BY Zenon, <3>2, <3>3, <3>4, <3>6 DEF BunServesWhatWasAdmitted, BunFeature
  <2> QED BY Zenon, <2>1, <2>2, <2>3
<1> QED BY <1>1, <1>5, <1>6, BunWorkerFrame DEF BunInvariant

\* Nothing happens.
LEMMA BunStutter ==
  ASSUME BunInvariant, UNCHANGED bunVars
  PROVE  BunInvariant'
<1>1. BunDiskIsHonest' /\ BunReadsAreDeclared' /\ BunChainHolds' /\ BunAdmissionsAreEarned'
  BY DEF BunInvariant, bunVars, BunDiskIsHonest, BunHonest, BunReadsAreDeclared, BunIdle, BunChainHolds,
         BunAdmissionsAreEarned
<1>2. BunServesWhatWasAdmitted'
  BY Zenon DEF BunInvariant, bunVars, BunServesWhatWasAdmitted
<1> QED BY <1>1, <1>2, BunAppFrame DEF BunInvariant, bunVars

\* BunGuarantees for all manifests, bundle directories and writers, any number
\* of releases and any order of registering, sealing and serving.
THEOREM BundlesAreSound == BunSpec => []BunGuarantees
<1>1. BunInvariant /\ [BunNext]_bunVars => BunInvariant'
  BY BunStutter, BunTouchKeeps, BunCommandKeeps, BunVerifyListKeeps, BunVerifyStatKeeps,
     BunVerifyReadKeeps, BunVerifyCheckKeeps, BunCommandEndsKeeps, BunCompatibilityKeeps, BunNewKeeps,
     BunRegisterKeeps, BunSealKeeps, BunDispatchKeeps DEF BunNext
<1>2. BunInvariant => BunGuarantees
  BY BunAssumption, ElementOfSeq, LenProperties DEF BunGuarantees, BunInvariant, BunChainHolds,
     BunUnsafeReleasesStay
<1> QED BY <1>1, <1>2, BunInitHolds, PTL DEF BunSpec

-----------------------------------------------------------------------------
(* Content collections.                                                    *)


\* read_dir lists paths one name longer than the directory's.
LEMMA ConChildrenFold ==
    ASSUME NEW p \in ConPaths, conTree \in [ConPaths -> ConNode]
    PROVE  /\ ConChildren(p) \in Seq(ConPaths)
           /\ \A i \in 1..Len(ConChildren(p)) : Len(ConChildren(p)[i]) = Len(p) + 1
<1> DEFINE n == Len(ConNames)
           V == {s \in Seq(ConPaths) : \A i \in 1..Len(s) : Len(s[i]) = Len(p) + 1}
           at == [j \in DOMAIN ConNames |-> j]
           Step(v, i) == IF ConExists(Append(p, at[i])) THEN Append(v, Append(p, at[i])) ELSE v
           Eq(F) == F = [S \in SUBSET (1..n) |->
                            IF S = {} THEN <<>> ELSE Step(F[S \ {Max(S)}], Max(S))]
           G == [y \in (1..n) \X V |-> Step(y[2], y[1])]
           F == CHOOSE h : Eq(h)
           f == [k \in 0..n |-> F[1..k]]
<1>1. /\ n \in Nat /\ DOMAIN at = 1..n /\ <<>> \in V
      /\ \A i \in 1..n, v \in V : Step(v, i) \in V
  <2>1. n \in Nat /\ DOMAIN ConNames = 1..n
    BY ConNamesAssumption
  <2>2. <<>> \in V
    OBVIOUS
  <2>3. ASSUME NEW i \in 1..n, NEW v \in V PROVE Step(v, i) \in V
    <3> DEFINE a == Append(p, i)
    <3>0. at[i] = i
      BY <2>1
    <3>1. p \in Seq(Nat) /\ Len(a) = Len(p) + 1
      BY <2>1, ConTreesAssumption
    <3>2. CASE ConExists(a)
      <4>1. a \in ConPaths
        BY <3>2 DEF ConExists
      <4>2. Step(v, i) = Append(v, a)
        BY <3>0, <3>2
      <4> HIDE DEF a, n
      <4>3. Append(v, a) \in Seq(ConPaths) /\ Len(Append(v, a)) = Len(v) + 1 /\ Len(v) \in Nat
        BY <4>1
      <4>4. \A k \in 1..(Len(v) + 1) : Append(v, a)[k] = IF k = Len(v) + 1 THEN a ELSE v[k]
        BY <4>1
      <4>5. \A k \in 1..(Len(v) + 1) : Len(Append(v, a)[k]) = Len(p) + 1
        BY <3>1, <4>3, <4>4
      <4>6. Append(v, a) \in V
        BY <4>3, <4>5
      <4> QED BY <4>2, <4>6
    <3>3. CASE ~ConExists(a)
      BY <3>0, <3>3
    <3> QED BY <3>2, <3>3
  <2> QED BY <2>1, <2>2, <2>3
<1>2. ConChildren(p) = F[1..n]
  BY <1>1 DEF ConChildren, FoldLeftDomain, FoldLeft, MapThenFoldSet
<1> HIDE DEF Step, n, V, at
<1>3. G \in [(1..n) \X V -> V]
  BY <1>1
<1>4. PICK g : FoldsTo(g, n, V, <<>>, G)
  BY <1>1, <1>3, FoldDefined
<1>5. g \in [SUBSET (1..n) -> V] /\ g[{}] = <<>>
  BY <1>4 DEF FoldsTo
<1>6. \A S \in SUBSET (1..n) : S # {} => g[S] = Step(g[S \ {Max(S)}], Max(S))
  <2> SUFFICES ASSUME NEW S \in SUBSET (1..n), S # {}
               PROVE  g[S] = Step(g[S \ {Max(S)}], Max(S))
    OBVIOUS
  <2>1. Max(S) \in 1..n
    BY <1>1, MaxExists
  <2> DEFINE m == Max(S)
             v == g[S \ {m}]
  <2>2. v \in V
    BY <1>5
  <2>3. g[S] = G[<<m, v>>]
    <3> HIDE DEF G
    <3> QED BY <1>4 DEF FoldsTo
  <2>4. m \in 1..n
    BY <2>1
  <2> HIDE DEF m, v
  <2>5. G[<<m, v>>] = Step(v, m)
    BY <2>2, <2>4
  <2> QED BY <2>3, <2>5 DEF m, v
<1>7. Eq(g)
  BY <1>5, <1>6
<1>8. Eq(F)
  <2> HIDE DEF Eq
  <2> QED BY <1>7
<1> HIDE DEF F, G
<1>9. F[{}] = <<>>
  BY <1>8
<1>10. \A k \in 1..n : F[1..k] = Step(F[1..(k - 1)], k)
  <2> SUFFICES ASSUME NEW k \in 1..n PROVE F[1..k] = Step(F[1..(k - 1)], k)
    OBVIOUS
  <2>0. k \in Nat /\ k > 0
    BY <1>1
  <2>1. Max(1..k) = k /\ (1..k) \ {k} = 1..(k - 1) /\ 1..k # {}
    BY ONLY <2>0, MaxUpTo
  <2>2. 1..k \in SUBSET (1..n)
    BY <1>1
  <2>3. F[1..k] = Step(F[(1..k) \ {Max(1..k)}], Max(1..k))
    BY <1>8, <2>1, <2>2
  <2> QED BY <2>1, <2>3
<1>11. f[0] = <<>> /\ \A k \in 1..n : f[k] = Step(f[k - 1], k)
  BY <1>1, <1>9, <1>10
<1>12. f[n] = F[1..n]
  BY <1>1
<1>13. DOMAIN f = 0..n
  OBVIOUS
<1>14. f = [k \in 0..n |-> f[k]]
  OBVIOUS
<1> HIDE DEF f
<1>15. \A k \in 0..n : f[k] \in V
  <2> DEFINE T == {k \in 0..n : f[k] \in V}
  <2>1. 0 \in T
    BY <1>1, <1>11
  <2>2. \A k \in 0..n : k < n /\ k \in T => k + 1 \in T
    BY <1>1, <1>11
  <2>3. \A k \in 0..n : k \in T
    <3> HIDE DEF T
    <3> QED BY <1>1, <2>1, <2>2, UpTo
  <2> QED BY <2>3
<1>16. f \in [0..n -> V]
  BY <1>14, <1>15
<1>17. f[0] = <<>> /\ (\A k \in 1..n : f[k] = Step(f[k - 1], k)) /\ ConChildren(p) = f[n]
  BY <1>2, <1>11, <1>12
<1>18. ConChildren(p) \in V
  BY <1>1, <1>16, <1>17
<1> QED BY <1>18 DEF V

\* The sizes of a collection's entries, as a sum.
LEMMA ConSizesSum ==
    ASSUME NEW S, IsFiniteSet(S), NEW g, NEW F, SumsTo(g, S, F), NEW T \in SUBSET S,
           \A e \in S : F[e] = e.size /\ e.size \in Nat
    PROVE  ConSizes(T) = g[T]
<1> DEFINE Eq(h) == h = [R \in SUBSET T |->
                            IF R = {} THEN 0
                            ELSE (CHOOSE x \in R : TRUE).size + h[R \ {CHOOSE x \in R : TRUE}]]
           H == CHOOSE h : Eq(h)
           E == [e \in T |-> e.size]
<1>1. ConSizes(T) = H[T]
  BY DEF ConSizes, MapThenSumSet, MapThenFoldSet
<1>2. \A R \in SUBSET T : R # {} => (CHOOSE x \in R : TRUE) \in R
  OBVIOUS
<1>3. \A R \in SUBSET T : R # {} => E[CHOOSE x \in R : TRUE] = (CHOOSE x \in R : TRUE).size
  BY <1>2
<1>4. \A h : SumsByChoice(h, T, E) <=> Eq(h)
  BY <1>3 DEF SumsByChoice
<1>5. PICK k : SumsTo(k, T, E)
  BY FS_Subset, SumDefined
<1>6. SumsByChoice(k, T, E)
  BY <1>5, SumByChoice
<1>7. Eq(H)
  <2> HIDE DEF Eq, E
  <2>1. Eq(k)
    BY <1>4, <1>6
  <2> QED BY <2>1
<1>8. SumsByChoice(H, T, E)
  <2> HIDE DEF Eq, E, H
  <2> QED BY <1>4, <1>7
<1>9. (\A x \in S : F[x] \in Nat) /\ \A x \in T : E[x] = F[x]
  OBVIOUS
<1> HIDE DEF E, H
<1>10. H[T] = g[T]
  BY ONLY <1>8, <1>9, SumUnique, IsFiniteSet(S), SumsTo(g, S, F), T \in SUBSET S
<1> QED BY <1>1, <1>10

LEMMA ConSizesNone == ConSizes({}) = 0
<1> DEFINE F == [e \in {} |-> 0]
<1>1. IsFiniteSet({}) /\ \A e \in {} : F[e] \in Nat
  BY FS_EmptySet
<1> HIDE DEF F
<1>2. PICK g : SumsTo(g, {}, F)
  BY ONLY <1>1, SumDefined
<1>3. ConSizes({}) = g[{}]
  BY <1>1, <1>2, ConSizesSum
<1> QED BY <1>2, <1>3 DEF SumsTo

LEMMA ConSizesAdd ==
    ASSUME NEW S, IsFiniteSet(S), NEW e, e \notin S, \A o \in S \cup {e} : o.size \in Nat
    PROVE  ConSizes(S) \in Nat /\ ConSizes(S \cup {e}) = ConSizes(S) + e.size
<1> DEFINE T == S \cup {e}
           F == [o \in T |-> o.size]
<1>1. IsFiniteSet(T)
  BY FS_AddElement
<1>2. (\A o \in T : F[o] = o.size /\ o.size \in Nat) /\ \A o \in T : F[o] \in Nat
  OBVIOUS
<1>3. S \in SUBSET T /\ T \in SUBSET T /\ e \in T /\ T \ {e} = S
  OBVIOUS
<1> HIDE DEF F, T
<1>4. PICK g : SumsTo(g, T, F)
  BY ONLY <1>1, <1>2, SumDefined
<1>5. ConSizes(S) = g[S] /\ ConSizes(T) = g[T]
  BY ONLY <1>1, <1>2, <1>3, <1>4, ConSizesSum
<1>6. g[T] = g[S] + F[e] /\ g[S] \in Nat
  BY <1>3, <1>4 DEF SumsTo
<1>7. F[e] = e.size
  BY <1>2, <1>3
<1> QED BY <1>5, <1>6, <1>7 DEF T

-----------------------------------------------------------------------------
(* The walk.                                                               *)

\* A run that gave up keeps its shape, and owes nothing else.
LEMMA ConFailedOk ==
    ASSUME NEW r, ConShape(r), NEW d
    PROVE  ConRunOk([r EXCEPT !.at = "failed", !.diags = d])
<1> DEFINE q == [r EXCEPT !.at = "failed", !.diags = d]
<1>1. q = [r EXCEPT !.at = "failed", !.diags = d]
  OBVIOUS
<1> HIDE DEF q
<1>2. ConShape(q) /\ q.at = "failed"
  BY <1>1 DEF ConShape
<1>3. ConRunOk(q)
  BY <1>2 DEF ConRunOk
<1> QED BY <1>1, <1>3

LEMMA ConLimitOk == \A code : ConRunOk(conRun) => ConRunOk(ConLimit(code))
  BY ConFailedOk DEF ConLimit, ConRunOk

\* A diagnostic of the walk changes nothing the invariant is about.
LEMMA ConDiagOk ==
    ASSUME NEW r, ConShape(r), ConWalking(r), NEW q, NEW d, q = [r EXCEPT !.at = "walk", !.diags = d]
    PROVE  ConRunOk(q)
  BY DEF ConShape, ConWalking, ConRunOk

LEMMA ConListOk == ASSUME ConInvariant, ConList PROVE ConRunOk(conRun')
<1> DEFINE r == conRun
           q == conRun'
           p == r.cur
           kids == ConChildren(p)
           n == Len(kids)
<1>1. ConShape(r) /\ ConWalking(r) /\ conTree \in [ConPaths -> ConNode]
  BY DEF ConInvariant, ConRunOk, ConList
<1>2. ConNear(p) /\ p \in ConPaths /\ Len(p) \in Nat
  BY <1>1, ConTreesAssumption DEF ConWalking, ConNear, p
<1>3. conTree[p].kind \in ConKinds
  BY <1>1, <1>2 DEF ConNode
<1>4. ConMaxDepth \in Nat /\ ConMaxEntries \in Nat
  BY ConLimitsAssumption
<1>5. \/ \E code : q = ConLimit(code)
      \/ \E code : q = ConDiag(code)
      \/ /\ Len(p) <= ConMaxDepth /\ ~(r.seen + n > ConMaxEntries)
         /\ q = [r EXCEPT !.at = "walk", !.todo = kids \o @, !.seen = @ + n]
  BY <1>2, <1>3, <1>4 DEF ConKinds, ConList, ConGo, kids, n
<1>6. CASE \E code : q = ConLimit(code)
  BY <1>6, ConLimitOk DEF ConInvariant
<1>7. CASE \E code : q = ConDiag(code)
  BY <1>1, <1>7, ConDiagOk DEF ConDiag
<1>8. CASE /\ Len(p) <= ConMaxDepth /\ ~(r.seen + n > ConMaxEntries)
           /\ q = [r EXCEPT !.at = "walk", !.todo = kids \o @, !.seen = @ + n]
  <2>1. kids \in Seq(ConPaths) /\ \A i \in 1..n : Len(kids[i]) = Len(p) + 1
    BY <1>1, <1>2, ConChildrenFold
  <2>2. r.todo \in Seq(ConPaths) /\ (\A i \in 1..Len(r.todo) : ConNear(r.todo[i]))
        /\ r.seen \in Nat /\ Cardinality(r.found) + Len(r.todo) <= r.seen
        /\ IsFiniteSet(r.found)
    BY <1>1 DEF ConWalking
  <2>3. Cardinality(r.found) \in Nat /\ n \in Nat /\ Len(r.todo) \in Nat
    BY <2>1, <2>2, FS_CardinalityType
  <2> DEFINE s == r.todo
             t == Joined(kids, s)
  <2> HIDE DEF s, kids, p
  <2>4. t \in Seq(ConPaths) /\ Len(t) = n + Len(s)
    BY <2>1, <2>2, JoinedSeq, JoinedLen DEF s
  <2>5. (\A i \in 1..n : t[i] = kids[i]) /\ \A i \in 1..Len(s) : t[n + i] = s[i]
    BY <2>1, <2>2, JoinedAt DEF s
  <2>6. \A i \in 1..n : ConNear(t[i])
    BY <1>2, <1>4, <1>8, <2>1, <2>4, <2>5 DEF ConNear
  <2>7. \A i \in 1..Len(s) : ConNear(t[n + i])
    BY <2>2, <2>5 DEF s
  <2>8. \A i \in 1..Len(t) : ConNear(t[i])
    <3> SUFFICES ASSUME NEW i \in 1..Len(t) PROVE ConNear(t[i])
      OBVIOUS
    <3> HIDE DEF t, n
    <3>1. Len(s) \in Nat
      BY <2>3 DEF s
    <3>2. CASE i <= n
      <4>1. i \in 1..n
        BY <2>3, <3>2
      <4> QED BY <2>6, <4>1
    <3>3. CASE ~(i <= n)
      <4>1. i - n \in 1..Len(s) /\ n + (i - n) = i
        BY <2>3, <2>4, <3>1, <3>3
      <4> QED BY <2>7, <4>1
    <3> QED BY <3>2, <3>3
  <2>9. /\ ConShape(q) /\ q.at = "walk" /\ q.entries = r.entries /\ q.seen = r.seen + n
        /\ q.bytes = r.bytes /\ q.cur = r.cur /\ q.todo = t /\ q.found = r.found
    BY <1>1, <1>8 DEF ConShape, Joined, s
  <2> HIDE DEF t, n
  <2>10. q.seen \in Nat /\ q.seen <= ConMaxEntries
         /\ Cardinality(q.found) + Len(q.todo) <= q.seen
    <3> DEFINE c == Cardinality(r.found)
               l == Len(s)
               x == r.seen
    <3>1. c \in Nat /\ l \in Nat /\ x \in Nat /\ c + l <= x /\ ~(x + n > ConMaxEntries) /\ n \in Nat
      BY <1>8, <2>2, <2>3 DEF s
    <3>2. Cardinality(q.found) = c /\ Len(q.todo) = n + l /\ q.seen = x + n
      BY <2>4, <2>9
    <3> HIDE DEF c, l, x
    <3>3. x + n \in Nat /\ x + n <= ConMaxEntries /\ c + (n + l) <= x + n
      BY <1>4, <3>1
    <3> QED BY <3>2, <3>3
  <2>11. ConWalking(q)
    BY <1>1, <2>4, <2>8, <2>9, <2>10 DEF ConWalking
  <2> QED BY <2>9, <2>11 DEF ConRunOk
<1> QED BY <1>5, <1>6, <1>7, <1>8

LEMMA ConWalkOk == ASSUME ConInvariant, ConWalk PROVE ConRunOk(conRun')
<1> DEFINE r == conRun
           q == conRun'
           s == r.todo
           p == Head(s)
           node == conTree[p]
           content == node.kind = "file" /\ ConFormat(p) /= "none"
           on == [r EXCEPT !.todo = Tail(s)]
<1>1. ConShape(r) /\ ConWalking(r) /\ conTree \in [ConPaths -> ConNode] /\ s # <<>> /\ r.at = "walk"
  BY DEF ConInvariant, ConRunOk, ConWalk
<1>2. s \in Seq(ConPaths) /\ \A i \in 1..Len(s) : ConNear(s[i])
  BY <1>1 DEF ConWalking
<1>3. /\ p \in ConPaths /\ ConNear(p) /\ Len(s) \in Nat /\ Len(s) > 0
      /\ Tail(s) \in Seq(ConPaths) /\ Len(Tail(s)) = Len(s) - 1
      /\ \A i \in 1..Len(Tail(s)) : ConNear(Tail(s)[i])
  <2> HIDE DEF s
  <2>1. Len(s) \in Nat /\ Len(s) > 0 /\ p = s[1] /\ Tail(s) \in Seq(ConPaths) /\ Len(Tail(s)) = Len(s) - 1
    BY <1>1, <1>2
  <2>2. \A i \in 1..Len(Tail(s)) : Tail(s)[i] = s[i + 1] /\ i + 1 \in 1..Len(s)
    BY <1>1, <1>2, <2>1
  <2>3. 1 \in 1..Len(s)
    BY <2>1
  <2> QED BY <1>2, <2>1, <2>2, <2>3 DEF ConNear
<1>4. node.kind \in ConKinds /\ node.size \in Nat
  BY <1>1, <1>3 DEF ConNode
<1>5. /\ r.entries = {} /\ r.seen \in Nat /\ r.seen <= ConMaxEntries /\ r.bytes \in Nat /\ ConNear(r.cur)
      /\ IsFiniteSet(r.found) /\ (\A o \in r.found : ConNear(o))
      /\ Cardinality(r.found) + Len(s) <= r.seen
  BY <1>1 DEF ConWalking
<1>6. ConMaxFile \in Nat /\ ConMaxTotal \in Nat
  BY ConLimitsAssumption
<1>7. \/ q = [on EXCEPT !.at = "list", !.cur = p]
      \/ \E code : q = [on EXCEPT !.diags = @ \cup {code}]
      \/ q = on
      \/ \E code : q = ConLimit(code)
      \/ q = [on EXCEPT !.found = @ \cup {p}, !.bytes = @ + node.size]
  <2> HIDE DEF node, p, s
  <2>1. q = CASE node.kind = "dir" -> [on EXCEPT !.at = "list", !.cur = p]
                   [] node.kind = "none" -> [on EXCEPT !.diags = @ \cup {"io"}]
                   [] node.kind = "link" -> [on EXCEPT !.diags = @ \cup {"link"}]
                   [] node.kind = "special" -> [on EXCEPT !.diags = @ \cup {"type"}]
                   [] node.kind = "file" /\ ~content -> on
                   [] content /\ node.size > ConMaxFile -> ConLimit("file")
                   [] content /\ node.size <= ConMaxFile /\ node.size > ConMaxTotal - r.bytes -> ConLimit("total")
                   [] content /\ node.size <= ConMaxFile /\ node.size <= ConMaxTotal - r.bytes ->
                        [on EXCEPT !.found = @ \cup {p}, !.bytes = @ + node.size]
    BY DEF ConWalk, ConGo, node, p, s
  <2> HIDE DEF on
  <2>2. /\ (node.size <= ConMaxFile) <=> ~(node.size > ConMaxFile)
        /\ (node.size <= ConMaxTotal - r.bytes) <=> ~(node.size > ConMaxTotal - r.bytes)
    BY <1>4, <1>5, <1>6
  <2>3. node.kind \in {"none", "file", "dir", "link", "special"}
    BY <1>4 DEF ConKinds
  <2> QED BY <2>1, <2>2, <2>3
<1>8. /\ ConShape(on) /\ on.at = "walk" /\ on.entries = r.entries /\ on.seen = r.seen /\ on.bytes = r.bytes
      /\ on.cur = r.cur /\ on.todo = Tail(s) /\ on.found = r.found
  BY <1>1 DEF ConShape
<1>9. Cardinality(r.found) \in Nat /\ Cardinality(r.found) + 1 + Len(Tail(s)) <= r.seen
  BY <1>5, FS_CardinalityType, <1>3
<1>10. Cardinality(on.found) + Len(on.todo) <= on.seen
  BY <1>3, <1>5, <1>8, <1>9
<1>11. ConWalking(on)
  <2> HIDE DEF on, s
  <2> QED BY <1>3, <1>5, <1>8, <1>10 DEF ConWalking
<1> HIDE DEF on
<1>12. CASE q = [on EXCEPT !.at = "list", !.cur = p]
  BY <1>8, <1>12, <1>3, <1>11 DEF ConShape, ConWalking, ConRunOk, q
<1>13. CASE \E code : q = [on EXCEPT !.diags = @ \cup {code}]
  BY <1>13, <1>8, <1>11 DEF ConShape, ConWalking, ConRunOk, q
<1>14. CASE q = on
  BY <1>8, <1>11, <1>14 DEF ConRunOk
<1>15. CASE \E code : q = ConLimit(code)
  BY <1>15, ConLimitOk DEF ConInvariant
<1>16. CASE q = [on EXCEPT !.found = @ \cup {p}, !.bytes = @ + node.size]
  <2> HIDE DEF q, r, p, node
  <2>1. /\ ConShape(q) /\ q.at = "walk" /\ q.entries = on.entries /\ q.seen = on.seen
        /\ q.bytes = on.bytes + node.size
        /\ q.cur = on.cur /\ q.todo = on.todo /\ q.found = on.found \cup {p}
    BY <1>8, <1>16 DEF ConShape
  <2>2. IsFiniteSet(q.found) /\ Cardinality(q.found) <= Cardinality(r.found) + 1
        /\ Cardinality(q.found) \in Nat
    <3>1. IsFiniteSet(r.found) /\ q.found = r.found \cup {p}
      BY <1>5, <1>8, <2>1
    <3>2. IsFiniteSet(q.found)
          /\ Cardinality(q.found) = IF p \in r.found THEN Cardinality(r.found) ELSE Cardinality(r.found) + 1
      BY <3>1, FS_AddElement
    <3> QED BY <1>9, <3>2
  <2>3. Len(Tail(s)) \in Nat /\ q.todo = Tail(s) /\ q.seen = r.seen
    BY <1>3, <1>8, <2>1
  <2>4. Cardinality(q.found) + Len(q.todo) <= q.seen
    BY <1>5, <1>9, <2>2, <2>3
  <2>5. q.bytes \in Nat
    BY <1>4, <1>5, <1>8, <2>1
  <2>6. ConWalking(q)
    BY <1>3, <1>11, <2>1, <2>2, <2>4, <2>5 DEF ConWalking
  <2>7. ConRunOk(q)
    BY <2>1, <2>6 DEF ConRunOk
  <2> QED BY <2>7 DEF q
<1> QED BY <1>7, <1>12, <1>13, <1>14, <1>15, <1>16

\* A run that starts has found nothing.
LEMMA ConLoadOk == ASSUME ConInvariant, ConLoad PROVE ConRunOk(conRun')
  BY FS_EmptySet, ConTreesAssumption, ConLimitsAssumption DEF ConLoad, ConShape, ConFresh,
     ConNear, ConWalking, ConRunOk

LEMMA ConNameSourcesOk == ASSUME ConInvariant, ConNameSources PROVE ConRunOk(conRun')
<1> DEFINE r == conRun
           q == conRun'
           bad == IF \E p \in r.found : ~ConPortable(p) THEN {"path"}
                  ELSE IF ConCollides(r.found) THEN {"collision"} ELSE {}
           diags == IF r.diags /= {} THEN r.diags ELSE bad
<1>1. ConShape(r) /\ ConWalking(r)
  BY DEF ConInvariant, ConRunOk, ConNameSources
<1>2. q = [r EXCEPT !.at = IF diags = {} THEN "check" ELSE "failed", !.diags = diags, !.bytes = 0, !.cur = <<>>]
  BY DEF ConNameSources, ConGo
<1>3. diags = {} => ~ConCollides(r.found)
  OBVIOUS
<1> HIDE DEF diags, q
<1>4. /\ ConShape(q) /\ q.at = (IF diags = {} THEN "check" ELSE "failed") /\ q.bytes = 0
      /\ q.found = r.found /\ q.entries = r.entries
  BY <1>1, <1>2 DEF ConShape
<1>5. CASE diags = {}
  <2>1. q.entries = {} /\ IsFiniteSet(q.found) /\ (\A p \in q.found : ConNear(p)) /\ ~ConCollides(q.found)
    BY <1>1, <1>3, <1>4, <1>5 DEF ConWalking
  <2>2. ConUnread(q) = q.found
    BY <2>1 DEF ConUnread
  <2>3. Cardinality(q.entries) + Cardinality(ConUnread(q)) <= ConMaxEntries
    BY <1>1, FS_CardinalityType, ConLimitsAssumption, FS_EmptySet, <1>4, <2>1, <2>2 DEF
       ConWalking
  <2>4. ConEntriesOk(q.entries)
    BY <2>1, FS_EmptySet DEF ConEntriesOk
  <2>5. ConSizes(q.entries) = 0
    BY <2>1, ConSizesNone
  <2>6. q.bytes = 0 /\ ConMaxTotal \in Nat /\ q.at = "check"
    BY <1>4, <1>5, ConLimitsAssumption
  <2>7. q.bytes \in Nat /\ ConSizes(q.entries) <= q.bytes /\ q.bytes <= ConMaxTotal
    BY <2>5, <2>6
  <2>8. ConReading(q)
    BY <2>1, <2>3, <2>4, <2>6, <2>7 DEF ConReading
  <2>9. ConRunOk(q)
    BY <1>4, <2>6, <2>8 DEF ConRunOk
  <2> QED BY <2>9 DEF q
<1>6. CASE diags # {}
  <2>1. ConRunOk(q)
    BY <1>4, <1>6 DEF ConRunOk
  <2> QED BY <2>1 DEF q
<1> QED BY <1>5, <1>6

-----------------------------------------------------------------------------
(* The reading.                                                            *)

\* A source that is not used is one fewer to read.
LEMMA ConSkipOk ==
    ASSUME NEW r, ConShape(r), ConReading(r), NEW p \in ConUnread(r), NEW d, NEW n \in Nat,
           n <= ConMaxTotal - r.bytes, NEW q,
           q = [r EXCEPT !.at = "check", !.found = r.found \ {p}, !.diags = d, !.bytes = r.bytes + n]
    PROVE  ConRunOk(q)
<1>1. /\ ConShape(q) /\ q.at = "check" /\ q.found = r.found \ {p} /\ q.bytes = r.bytes + n
      /\ q.entries = r.entries
  BY DEF ConShape
<1>2. p \in r.found /\ \A e \in r.entries : e.path # p
  BY DEF ConUnread
<1>3. {e.path : e \in q.entries} \subseteq q.found
  BY <1>1, <1>2 DEF ConReading
<1>4. IsFiniteSet(q.found) /\ (\A o \in q.found : ConNear(o))
  BY <1>1, FS_Difference, FS_Subset DEF ConReading
<1>5. ~ConCollides(q.found)
  BY <1>1 DEF ConReading, ConCollides
<1>6. ConUnread(q) = ConUnread(r) \ {p}
  BY <1>1 DEF ConUnread
<1>7. Cardinality(q.entries) + Cardinality(ConUnread(q)) <= ConMaxEntries
  <2>1. IsFiniteSet(ConUnread(r)) /\ IsFiniteSet(r.entries)
    BY FS_Subset DEF ConReading, ConUnread, ConEntriesOk
  <2>2. Cardinality(ConUnread(q)) = Cardinality(ConUnread(r)) - 1
    BY <1>6, <2>1, FS_RemoveElement
  <2> DEFINE c == Cardinality(ConUnread(r))
             e == Cardinality(r.entries)
  <2>3. c \in Nat /\ e \in Nat /\ e + c <= ConMaxEntries /\ ConMaxEntries \in Nat
    BY <2>1, FS_CardinalityType, ConLimitsAssumption DEF ConReading
  <2>4. Cardinality(q.entries) = e /\ Cardinality(ConUnread(q)) = c - 1
    BY <1>1, <2>2
  <2> HIDE DEF c, e
  <2>5. e + (c - 1) <= ConMaxEntries
    BY ONLY <2>3
  <2> QED BY <2>4, <2>5
<1>8. q.bytes \in Nat /\ ConSizes(q.entries) <= q.bytes /\ q.bytes <= ConMaxTotal
  <2> DEFINE b == r.bytes
             z == ConSizes(r.entries)
  <2>1. b \in Nat /\ z \in Nat /\ z <= b /\ b <= ConMaxTotal /\ ConMaxTotal \in Nat
    <3>1. z \in Nat
      <4>1. IsFiniteSet(r.entries) /\ \A e \in r.entries : e.size \in Nat
        BY DEF ConReading, ConEntriesOk, ConEntryOk
      <4> DEFINE F == [e \in r.entries |-> e.size]
      <4>2. \A e \in r.entries : F[e] \in Nat /\ F[e] = e.size /\ e.size \in Nat
        BY <4>1
      <4> HIDE DEF F
      <4>3. PICK g : SumsTo(g, r.entries, F)
        BY <4>1, <4>2, SumDefined
      <4>4. z = g[r.entries]
        BY <4>1, <4>2, <4>3, ConSizesSum
      <4> QED BY <4>3, <4>4 DEF SumsTo
    <3> QED BY <3>1, ConLimitsAssumption DEF ConReading
  <2>2. q.bytes = b + n /\ ConSizes(q.entries) = z /\ n <= ConMaxTotal - b
    BY <1>1
  <2> HIDE DEF b, z
  <2>3. b + n \in Nat /\ z <= b + n /\ b + n <= ConMaxTotal
    BY <2>1, <2>2
  <2> QED BY <2>2, <2>3
<1>9. ConEntriesOk(q.entries)
  BY <1>1 DEF ConReading
<1>10. ConReading(q)
  BY <1>1, <1>3, <1>4, <1>5, <1>7, <1>8, <1>9 DEF ConReading
<1> QED BY <1>1, <1>10 DEF ConRunOk

\* What could not be opened is skipped without having been read.
LEMMA ConSkippedOk ==
    ASSUME ConInvariant, conRun.at \in {"check", "open", "read"}, NEW p \in ConUnread(conRun),
           NEW code, conRun' = ConSkip(p, code)
    PROVE  ConRunOk(conRun')
<1> DEFINE r == conRun
           q == conRun'
           d == r.diags \cup {code}
<1>1. ConShape(r) /\ ConReading(r)
  BY DEF ConInvariant, ConRunOk
<1>2. r.bytes \in Nat /\ ConMaxTotal \in Nat /\ r.bytes <= ConMaxTotal
  BY <1>1, ConLimitsAssumption DEF ConReading
<1>3. 0 \in Nat /\ 0 <= ConMaxTotal - r.bytes /\ r.bytes + 0 = r.bytes
  BY <1>2
<1>4. q = [r EXCEPT !.at = "check", !.found = r.found \ {p}, !.diags = d, !.bytes = r.bytes + 0]
  BY <1>1, <1>3 DEF ConSkip, ConShape
<1> HIDE DEF d, q
<1>5. ConRunOk(q)
  BY ONLY <1>1, <1>3, <1>4, ConSkipOk, p \in ConUnread(r)
<1> QED BY <1>5 DEF q

LEMMA ConCheckOk == ASSUME ConInvariant, ConCheck PROVE ConRunOk(conRun')
<1> DEFINE r == conRun
           q == conRun'
<1>1. ConShape(r) /\ ConReading(r) /\ conTree \in [ConPaths -> ConNode] /\ r.at = "check"
  BY DEF ConInvariant, ConRunOk, ConCheck
<1>2. PICK p \in ConRest :
         q = CASE conTree[p].kind = "none" -> ConSkip(p, "io")
               [] conTree[p].kind = "link" -> ConSkip(p, "link")
               [] conTree[p].kind \in {"dir", "special"} -> ConSkip(p, "type")
               [] conTree[p].kind = "file" -> [r EXCEPT !.at = "open", !.cur = p]
  BY DEF ConCheck, ConGo
<1>3. p \in ConUnread(r)
  BY <1>2 DEF ConUnread, ConRest
<1>4. conTree[p].kind \in {"none", "file", "dir", "link", "special"}
  <2>1. p \in ConPaths
    BY <1>1, <1>3 DEF ConReading, ConUnread, ConNear
  <2> QED BY <1>1, <2>1 DEF ConNode, ConKinds
<1>5. (\E code : q = ConSkip(p, code)) \/ q = [r EXCEPT !.at = "open", !.cur = p]
  BY <1>2, <1>4
<1>6. CASE \E code : q = ConSkip(p, code)
  BY <1>1, <1>3, <1>6, ConSkippedOk
<1>7. CASE q = [r EXCEPT !.at = "open", !.cur = p]
  BY <1>1, <1>7, <1>3 DEF ConShape, ConUnread, ConReading, ConRunOk, q
<1> QED BY <1>5, <1>6, <1>7

LEMMA ConOpenOk == ASSUME ConInvariant, ConOpen PROVE ConRunOk(conRun')
<1> DEFINE r == conRun
           q == conRun'
           p == r.cur
           node == conTree[p]
           file == node.kind = "file"
<1>1. ConShape(r) /\ ConReading(r) /\ conTree \in [ConPaths -> ConNode] /\ r.at = "open"
  BY DEF ConInvariant, ConRunOk, ConOpen
<1>2. p \in ConUnread(r)
  BY <1>1 DEF ConReading
<1>3. node \in ConNode
  <2>1. p \in ConPaths
    BY <1>1, <1>2 DEF ConReading, ConUnread, ConNear
  <2> QED BY <1>1, <2>1
<1>4. node.kind \in {"none", "file", "dir", "link", "special"} /\ node.size \in Nat
  BY <1>3 DEF ConNode, ConKinds
<1>5. ConMaxFile \in Nat /\ ConMaxTotal \in Nat /\ r.bytes \in Nat
  BY <1>1, ConLimitsAssumption DEF ConReading
<1>6. \/ \E code : q = ConSkip(p, code)
      \/ \E code : q = ConLimit(code)
      \/ q = [r EXCEPT !.at = "read", !.handle = node]
  BY <1>4, <1>5 DEF ConOpen, ConGo, node, p
<1>7. CASE \E code : q = ConSkip(p, code)
  BY <1>1, <1>2, <1>7, ConSkippedOk
<1>8. CASE \E code : q = ConLimit(code)
  BY <1>8, ConLimitOk DEF ConInvariant
<1>9. CASE q = [r EXCEPT !.at = "read", !.handle = node]
  BY <1>1, <1>9, <1>2, <1>3 DEF ConShape, ConUnread, ConReading, ConRunOk, q
<1> QED BY <1>6, <1>7, <1>8, <1>9

\* A text that passes holds no markup its policy forbids.
LEMMA ConProblemOk ==
    ASSUME NEW format, ConProblem(format, "html") = "none"
    PROVE  ConTrusted \/ format /= "markdown"
  BY DEF ConProblem

LEMMA ConNormalizedOk ==
    \A text \in ConTexts : /\ ConNormalized(text) \in ConTexts
                           /\ ConNormalized(ConNormalized(text)) = ConNormalized(text)
  BY DEF ConNormalized, ConTexts

\* An entry that is read is one fewer to read and within what is left.
LEMMA ConEntryAdded ==
    ASSUME NEW r, ConShape(r), ConReading(r), NEW e, ConEntryOk(e), e.path \in ConUnread(r),
           e.size <= ConMaxTotal - r.bytes, NEW q,
           q = [r EXCEPT !.at = "check", !.bytes = r.bytes + e.size, !.entries = r.entries \cup {e}]
    PROVE  ConRunOk(q)
<1> DEFINE p == e.path
<1>1. /\ ConShape(q) /\ q.at = "check" /\ q.found = r.found /\ q.bytes = r.bytes + e.size
      /\ q.entries = r.entries \cup {e}
  BY DEF ConShape
<1>2. p \in r.found /\ (\A o \in r.entries : o.path # p) /\ e \notin r.entries
  BY DEF ConUnread
<1>3. {o.path : o \in q.entries} \subseteq q.found
  BY <1>1, <1>2 DEF ConReading
<1>4. IsFiniteSet(q.found) /\ (\A o \in q.found : ConNear(o)) /\ ~ConCollides(q.found)
  BY <1>1 DEF ConReading
<1>5. ConUnread(q) = ConUnread(r) \ {p}
  BY <1>1 DEF ConUnread
<1>6. IsFiniteSet(r.entries) /\ (\A o \in r.entries : ConEntryOk(o))
      /\ \A a, o \in r.entries : ConKey(o.path) = ConKey(a.path) => o = a
  BY DEF ConReading, ConEntriesOk
<1>7. IsFiniteSet(q.entries) /\ Cardinality(q.entries) = Cardinality(r.entries) + 1
  <2> DEFINE S == r.entries
  <2>1. IsFiniteSet(S) /\ e \notin S /\ q.entries = S \cup {e}
    BY <1>1, <1>2, <1>6
  <2> HIDE DEF S
  <2>2. IsFiniteSet(S \cup {e}) /\ Cardinality(S \cup {e}) = Cardinality(S) + 1
    BY ONLY <2>1, FS_AddElement
  <2> QED BY <2>1, <2>2 DEF S
<1>8. Cardinality(q.entries) + Cardinality(ConUnread(q)) <= ConMaxEntries
  <2>1. IsFiniteSet(ConUnread(r))
    BY FS_Subset DEF ConReading, ConUnread
  <2>2. Cardinality(ConUnread(q)) = Cardinality(ConUnread(r)) - 1
    BY <1>5, <2>1, FS_RemoveElement
  <2> DEFINE c == Cardinality(ConUnread(r))
             n == Cardinality(r.entries)
  <2>3. c \in Nat /\ n \in Nat /\ n + c <= ConMaxEntries /\ ConMaxEntries \in Nat
    BY <1>6, <2>1, FS_CardinalityType, ConLimitsAssumption DEF ConReading
  <2>4. Cardinality(q.entries) = n + 1 /\ Cardinality(ConUnread(q)) = c - 1
    BY <1>7, <2>2
  <2> HIDE DEF c, n
  <2>5. (n + 1) + (c - 1) <= ConMaxEntries
    BY ONLY <2>3
  <2> QED BY <2>4, <2>5
<1>9. ConEntriesOk(q.entries)
  BY <1>1, <1>6, <1>2, <1>7 DEF ConReading, ConCollides, ConEntriesOk
<1>10. q.bytes \in Nat /\ ConSizes(q.entries) <= q.bytes /\ q.bytes <= ConMaxTotal
  BY <1>6, <1>2, ConSizesAdd, ConLimitsAssumption, <1>1 DEF ConEntryOk, ConReading
<1>11. ConReading(q)
  BY <1>1, <1>3, <1>4, <1>8, <1>9, <1>10 DEF ConReading
<1> QED BY <1>1, <1>11 DEF ConRunOk

LEMMA ConReadOk == ASSUME ConInvariant, ConRead PROVE ConRunOk(conRun')
<1> DEFINE r == conRun
           q == conRun'
           p == r.cur
<1>1. ConShape(r) /\ ConReading(r) /\ conTree \in [ConPaths -> ConNode] /\ r.at = "read"
  BY DEF ConInvariant, ConRunOk, ConRead
<1>2. p \in ConUnread(r) /\ r.handle \in ConNode
  BY <1>1 DEF ConReading
<1>3. p \in ConPaths /\ ConNear(p)
  BY <1>1, <1>2 DEF ConReading, ConUnread, ConNear
<1>4. PICK node \in {r.handle} \cup {conTree[p]} :
         LET limit == ConReadProblem(node.size)
             problem == ConProblem(ConFormat(p), ConNormalized(node.text))
         IN  q = CASE limit /= "none" -> ConLimit(limit)
                   [] limit = "none" /\ problem /= "none" -> [ConSkip(p, problem) EXCEPT !.bytes = @ + node.size]
                   [] limit = "none" /\ problem = "none" ->
                        [r EXCEPT !.at = "check", !.bytes = @ + node.size,
                           !.entries = @ \cup {[path |-> p, size |-> node.size, text |-> ConNormalized(node.text),
                                                fingerprint |-> ConFingerprint(p, node.text)]}]
  BY DEF ConRead, ConGo
<1>5. node \in ConNode
  BY <1>1, <1>2, <1>3
<1> DEFINE limit == ConReadProblem(node.size)
           text == ConNormalized(node.text)
           problem == ConProblem(ConFormat(p), text)
           e == [path |-> p, size |-> node.size, text |-> text, fingerprint |-> ConFingerprint(p, node.text)]
           n == node.size
<1>6. n \in Nat /\ node.text \in ConTexts
  BY <1>5 DEF ConNode
<1>7. \/ q = ConLimit(limit)
      \/ limit = "none" /\ q = [ConSkip(p, problem) EXCEPT !.bytes = @ + n]
      \/ limit = "none" /\ problem = "none"
         /\ q = [r EXCEPT !.at = "check", !.bytes = @ + n, !.entries = @ \cup {e}]
  BY <1>4
<1>8. limit = "none" => n <= ConMaxFile /\ n <= ConMaxTotal - r.bytes
  BY <1>1, ConLimitsAssumption, <1>6 DEF ConReading, ConReadProblem, n
<1> HIDE DEF limit
<1>9. CASE q = ConLimit(limit)
  BY <1>9, ConLimitOk DEF ConInvariant
<1>10. CASE limit = "none" /\ q = [ConSkip(p, problem) EXCEPT !.bytes = @ + n]
  BY <1>10, <1>1, <1>2, <1>6, <1>8, ConSkipOk DEF ConSkip, ConShape, n, q
<1>11. CASE limit = "none" /\ problem = "none"
            /\ q = [r EXCEPT !.at = "check", !.bytes = @ + n, !.entries = @ \cup {e}]
  <2>1. e.path = p /\ e.size = n /\ e.text = text /\ e.fingerprint = ConFingerprint(p, node.text)
    OBVIOUS
  <2>2. text \in ConTexts /\ text = ConNormalized(text)
    BY <1>6, ConNormalizedOk
  <2>3. text = "html" => ConTrusted \/ ConFormat(p) /= "markdown"
    <3> HIDE DEF p
    <3> QED BY <1>11, ConProblemOk
  <2>4. ConFingerprint(p, node.text) = ConFingerprint(p, text)
    BY <2>2 DEF ConFingerprint
  <2>5. q = [r EXCEPT !.at = "check", !.bytes = r.bytes + e.size, !.entries = r.entries \cup {e}]
    BY <1>11
  <2> HIDE DEF e, text, n, q, p
  <2>6. ConEntryOk(e)
    BY <1>3, <1>6, <1>8, <1>11, <2>1, <2>2, <2>3, <2>4 DEF ConEntryOk
  <2>7. e.path \in ConUnread(r) /\ e.size <= ConMaxTotal - r.bytes
    BY <1>2, <1>8, <1>11, <2>1
  <2>8. ConRunOk(q)
    BY ONLY <1>1, <2>5, <2>6, <2>7, ConEntryAdded
  <2> QED BY <2>8 DEF q
<1> QED BY <1>7, <1>9, <1>10, <1>11

LEMMA ConFinishOk == ASSUME ConInvariant, ConFinish PROVE ConInvariant'
<1> DEFINE r == conRun
           q == conRun'
<1>1. ConShape(r) /\ ConReading(r) /\ r.at = "check"
  BY DEF ConInvariant, ConRunOk, ConFinish
<1>2. q = [r EXCEPT !.at = IF r.diags = {} THEN "loaded" ELSE "failed"]
  BY DEF ConFinish
<1>3. ConShape(q) /\ q.at \in {"loaded", "failed"} /\ q.found = r.found /\ q.entries = r.entries
      /\ q.bytes = r.bytes
  <2> HIDE DEF q
  <2> QED BY <1>1, <1>2 DEF ConShape
<1>4. ConUnread(q) = ConUnread(r)
  BY <1>3 DEF ConUnread
<1>5. ConReading(q)
  BY <1>1, <1>3, <1>4 DEF ConReading
<1>6. ConRunOk(q)
  BY <1>3, <1>5 DEF ConRunOk
<1>7. ConEntriesOk(r.entries)
  BY <1>1 DEF ConReading
<1>8. conLast' /= <<>> => ConEntriesOk(conLast'[1])
  <2>1. CASE r.diags = {}
    <3>1. conLast' = <<r.entries>>
      BY <2>1 DEF ConFinish
    <3> QED BY <1>7, <3>1
  <2>2. CASE r.diags # {}
    BY <2>2 DEF ConFinish, ConInvariant
  <2> QED BY <2>1, <2>2
<1>9. \A d \in conDiffs' : ConDiffOk(d)
  BY <1>7 DEF ConFinish, ConDiffOk, ConInvariant
<1>10. conTree' = conTree
  BY DEF ConFinish
<1> QED BY <1>6, <1>8, <1>9, <1>10 DEF ConInvariant

LEMMA ConEditOk ==
    ASSUME ConInvariant, NEW p \in ConPaths, NEW node \in ConNodes, ConEdit(p, node)
    PROVE  ConInvariant'
  BY ConTreesAssumption DEF ConEdit, ConInvariant

LEMMA ConInitOk == ConInit => ConInvariant
  BY ConTreesAssumption DEF ConInit, ConIdle, ConShape, ConFresh, ConRunOk, ConInvariant

LEMMA ConNextOk == ConInvariant /\ [ConNext]_conVars => ConInvariant'
<1> SUFFICES ASSUME ConInvariant, [ConNext]_conVars PROVE ConInvariant'
  OBVIOUS
<1>1. ASSUME ConRunOk(conRun'), UNCHANGED <<conTree, conLast, conDiffs>> PROVE ConInvariant'
  BY <1>1 DEF ConInvariant
<1>2. CASE ConLoad
  BY <1>1, <1>2, ConLoadOk DEF ConLoad
<1>3. CASE ConList
  BY <1>3, <1>1, ConListOk DEF ConList, ConGo
<1>4. CASE ConWalk
  BY <1>4, <1>1, ConWalkOk DEF ConWalk, ConGo
<1>5. CASE ConNameSources
  BY <1>5, <1>1, ConNameSourcesOk DEF ConNameSources, ConGo
<1>6. CASE ConCheck
  <2>1. UNCHANGED <<conTree, conLast, conDiffs>>
    BY <1>6 DEF ConCheck, ConGo
  <2> QED BY <1>1, <1>6, <2>1, ConCheckOk
<1>7. CASE ConOpen
  BY <1>7, <1>1, ConOpenOk DEF ConOpen, ConGo
<1>8. CASE ConRead
  BY <1>8, <1>1, ConReadOk DEF ConRead, ConGo
<1>9. CASE ConFinish
  BY <1>9, ConFinishOk
<1>10. CASE \E p \in ConPaths \ {<<>>}, node \in ConNodes : ConEdit(p, node)
  BY <1>10, ConEditOk
<1>11. CASE UNCHANGED conVars
  BY <1>11 DEF conVars, ConInvariant
<1> QED BY <1>2, <1>3, <1>4, <1>5, <1>6, <1>7, <1>8, <1>9, <1>10, <1>11 DEF ConNext

-----------------------------------------------------------------------------
(* What the invariant gives.                                               *)

\* Two sources of one id fold alike.
LEMMA ConIdsFold ==
    ASSUME NEW p \in ConPaths, NEW o \in ConPaths, ConId(p) = ConId(o)
    PROVE  ConKey(p) = ConKey(o)
<1> DEFINE f == ConId(p)
           g == ConId(o)
<1>1. DOMAIN f = DOMAIN p /\ DOMAIN g = DOMAIN o /\ f = g
  BY DEF ConId
<1>2. DOMAIN p = DOMAIN o
  BY <1>1
<1>3. \A k \in DOMAIN p : f[k] = ConNames[p[k]].stem /\ g[k] = ConNames[o[k]].stem
  BY <1>2 DEF ConId
<1>4. p \in Seq(DOMAIN ConNames) /\ o \in Seq(DOMAIN ConNames)
  BY ConTreesAssumption
<1>5. \A k \in DOMAIN p : p[k] \in DOMAIN ConNames /\ o[k] \in DOMAIN ConNames
  BY <1>2, <1>4
<1> HIDE DEF f, g
<1>6. \A k \in DOMAIN p : ConNames[p[k]].folded = ConNames[o[k]].folded
  BY <1>1, <1>3, <1>5, ConNamesAssumption
<1> QED BY <1>2, <1>6 DEF ConKey

\* CollectionSnapshot::diff, of two collections, names an id exactly if its
\* source or its text changed.
LEMMA ConDiffExact ==
    ASSUME NEW d, ConDiffOk(d), NEW id
    PROVE  LET old == {<<e.path, e.text>> : e \in {f \in d.before : ConId(f.path) = id}}
               new == {<<e.path, e.text>> : e \in {f \in d.after : ConId(f.path) = id}}
           IN  (old /= new) = (id \in d.diff.added \cup d.diff.changed \cup d.diff.removed)
<1> DEFINE B == {f \in d.before : ConId(f.path) = id}
           A == {f \in d.after : ConId(f.path) = id}
           old == {<<e.path, e.text>> : e \in B}
           new == {<<e.path, e.text>> : e \in A}
           sb == ConSnapshot(d.before)
           sa == ConSnapshot(d.after)
<1>1. ConEntriesOk(d.before) /\ ConEntriesOk(d.after) /\ d.diff = ConDiff(sb, sa)
  BY DEF ConDiffOk
<1>2. \A S : ConEntriesOk(S) => \A e, o \in S : ConId(e.path) = ConId(o.path) => e = o
  BY ConIdsFold DEF ConEntriesOk, ConEntryOk, ConNear
<1>3. (\A e, o \in B : e = o) /\ (\A e, o \in A : e = o)
  BY <1>1, <1>2
<1>4. \A e \in d.before \cup d.after : e.fingerprint = <<e.path, ConFormat(e.path), ConTrusted, e.text>>
  BY <1>1 DEF ConEntriesOk, ConEntryOk, ConFingerprint
<1> DEFINE Of(e) == <<ConId(e.path), e.fingerprint>>
<1>0. /\ \A x : x \in sb <=> \E e \in d.before : x = Of(e)
      /\ \A x : x \in sa <=> \E e \in d.after : x = Of(e)
  BY DEF ConSnapshot
<1>01. /\ \A e : Of(e)[1] = ConId(e.path)
       /\ \A e, o : Of(e) = Of(o) <=> ConId(e.path) = ConId(o.path) /\ e.fingerprint = o.fingerprint
  OBVIOUS
<1> HIDE DEF Of, sa, sb
<1>5. (id \in {e[1] : e \in sb}) <=> B # {}
  BY <1>0, <1>01
<1>6. (id \in {e[1] : e \in sa}) <=> A # {}
  BY <1>0, <1>01
<1>7. (\A e \in sb : e[1] = id => e \notin sa) <=> \A e \in B, o \in A : e.fingerprint # o.fingerprint
  BY <1>0, <1>01
<1>8. /\ id \in d.diff.added <=> A # {} /\ B = {}
      /\ id \in d.diff.removed <=> B # {} /\ A = {}
      /\ id \in d.diff.changed <=> A # {} /\ B # {} /\ \A e \in B, o \in A : e.fingerprint # o.fingerprint
  BY <1>1, <1>5, <1>6, <1>7 DEF ConDiff
<1>9. \A e \in B, o \in A : e.fingerprint = o.fingerprint <=> <<e.path, e.text>> = <<o.path, o.text>>
  BY <1>4
<1> DEFINE named == id \in d.diff.added \cup d.diff.changed \cup d.diff.removed
<1>10. named <=> \/ A # {} /\ B = {}
                 \/ B # {} /\ A = {}
                 \/ A # {} /\ B # {} /\ \A e \in B, o \in A : e.fingerprint # o.fingerprint
  <2> HIDE DEF A, B
  <2> QED BY <1>8
<1>11. (A = {} <=> new = {}) /\ (B = {} <=> old = {})
  <2> HIDE DEF A, B
  <2> QED OBVIOUS
<1>12. (old # new) <=> named
  <2> HIDE DEF A, B, named
  <2>1. CASE A = {} \/ B = {}
    <3> HIDE DEF old, new
    <3> QED BY <1>10, <1>11, <2>1
  <2>2. CASE A # {} /\ B # {}
    <3>1. PICK e \in B : TRUE
      BY <2>2
    <3>2. PICK o \in A : TRUE
      BY <2>2
    <3>3. old = {<<e.path, e.text>>} /\ new = {<<o.path, o.text>>}
      BY <1>3, <3>1, <3>2
    <3>4. (old # new) <=> e.fingerprint # o.fingerprint
      <4> HIDE DEF old, new
      <4> QED BY <1>9, <3>1, <3>2, <3>3
    <3>5. (\A a \in B, b \in A : a.fingerprint # b.fingerprint) <=> e.fingerprint # o.fingerprint
      BY <1>3, <3>1, <3>2
    <3> HIDE DEF old, new
    <3> QED BY <1>10, <2>2, <3>4, <3>5
  <2> QED BY <2>1, <2>2
<1>13. (old # new) = named
  BY <1>12 DEF named
<1> QED BY <1>13 DEF A, B

LEMMA ConInvariantSuffices == ConInvariant => ConGuarantees
<1> SUFFICES ASSUME ConInvariant PROVE ConGuarantees
  OBVIOUS
<1>1. ConCollectionsAreSound
  <2> SUFFICES ASSUME conRun.at = "loaded"
               PROVE  /\ ConSizes(conRun.entries) <= ConMaxTotal
                      /\ Cardinality(conRun.entries) <= ConMaxEntries
                      /\ \A e \in conRun.entries :
                            /\ e.size <= ConMaxFile /\ Len(e.path) <= ConMaxDepth + 1
                            /\ e.text = "html" => ConTrusted \/ ConFormat(e.path) /= "markdown"
                            /\ \A o \in conRun.entries : ConKey(o.path) = ConKey(e.path) => o = e
    BY DEF ConCollectionsAreSound, ConSizes
  <2> DEFINE r == conRun
  <2>1. ConReading(r)
    BY DEF ConInvariant, ConRunOk
  <2>2. ConEntriesOk(r.entries) /\ IsFiniteSet(r.entries) /\ IsFiniteSet(ConUnread(r))
    BY <2>1, FS_Subset DEF ConReading, ConEntriesOk, ConUnread
  <2>3. Cardinality(r.entries) <= ConMaxEntries
    BY <2>1, <2>2, FS_CardinalityType, ConLimitsAssumption DEF ConReading
  <2>4. ConSizes(r.entries) <= ConMaxTotal
    <3> DEFINE z == ConSizes(r.entries)
               b == r.bytes
               F == [e \in r.entries |-> e.size]
    <3>1. \A e \in r.entries : F[e] \in Nat /\ F[e] = e.size /\ e.size \in Nat
      BY <2>2 DEF ConEntriesOk, ConEntryOk
    <3> HIDE DEF F
    <3>2. PICK g : SumsTo(g, r.entries, F)
      BY <2>2, <3>1, SumDefined
    <3>3. z = g[r.entries]
      BY <2>2, <3>1, <3>2, ConSizesSum
    <3>4. z \in Nat
      BY <3>2, <3>3 DEF SumsTo
    <3>5. b \in Nat /\ z <= b /\ b <= ConMaxTotal /\ ConMaxTotal \in Nat
      BY <2>1, ConLimitsAssumption DEF ConReading
    <3> HIDE DEF z, b
    <3>6. z <= ConMaxTotal
      BY ONLY <3>4, <3>5
    <3> QED BY <3>6 DEF z
  <2>5. \A e \in r.entries : ConEntryOk(e) /\ \A o \in r.entries : ConKey(o.path) = ConKey(e.path) => o = e
    BY <2>2 DEF ConEntriesOk
  <2> QED BY <2>3, <2>4, <2>5 DEF ConEntryOk, ConNear
<1>2. ConDiffsAreExact
  BY ConDiffExact DEF ConDiffsAreExact, ConInvariant
<1> QED BY <1>1, <1>2 DEF ConGuarantees

\* load_collection_with_options, read_source_bytes, CollectionSnapshot::diff:
\* for every tree, limit, policy and number of edits and loads, a collection
\* that is returned is within every limit, has no two entries that differ only
\* in case or extension and none with forbidden markup, whatever the author
\* changed between the walk, the open and the read; and a diff of two
\* collections names exactly the ids whose source or text changed.
THEOREM CollectionsAreSound == ConSpec => []ConGuarantees
  BY ConInitOk, ConNextOk, ConInvariantSuffices, PTL DEF ConSpec

-----------------------------------------------------------------------------
(* Inspection.                                                             *)

\* path_from_manifest leaves a path without a dot as it is.
LEMMA InsNamedPlain ==
    ASSUME NEW P, NEW path \in Seq(P), \A i \in 1..Len(path) : path[i] # "."
    PROVE  InsNamed(path) = path
<1> DEFINE n == Len(path)
           Step(v, i) == IF path[i] = "." THEN v ELSE Append(v, path[i])
           Eq(F) == F = [S \in SUBSET (1..n) |->
                            IF S = {} THEN <<>> ELSE Step(F[S \ {Max(S)}], Max(S))]
           G == [y \in (1..n) \X Seq(P) |-> Step(y[2], y[1])]
           F == CHOOSE h : Eq(h)
           f == [k \in 0..n |-> F[1..k]]
<1>0. \A i \in 1..n, v \in Seq(P) : Step(v, i) = Append(v, path[i])
  OBVIOUS
<1>1. /\ n \in Nat /\ DOMAIN path = 1..n /\ <<>> \in Seq(P)
      /\ \A i \in 1..n, v \in Seq(P) : Step(v, i) \in Seq(P)
  OBVIOUS
<1>2. InsNamed(path) = F[1..n]
  BY <1>1 DEF InsNamed, FoldLeft, MapThenFoldSet
<1> HIDE DEF Step, n
<1>3. G \in [(1..n) \X Seq(P) -> Seq(P)]
  BY <1>1
<1>4. PICK g : FoldsTo(g, n, Seq(P), <<>>, G)
  BY <1>1, <1>3, FoldDefined
<1>5. g \in [SUBSET (1..n) -> Seq(P)] /\ g[{}] = <<>>
  BY <1>4 DEF FoldsTo
<1>6. \A S \in SUBSET (1..n) : S # {} => g[S] = Step(g[S \ {Max(S)}], Max(S))
  <2> SUFFICES ASSUME NEW S \in SUBSET (1..n), S # {}
               PROVE  g[S] = Step(g[S \ {Max(S)}], Max(S))
    OBVIOUS
  <2>1. Max(S) \in 1..n
    BY <1>1, MaxExists
  <2> DEFINE m == Max(S)
             v == g[S \ {m}]
  <2>2. v \in Seq(P)
    BY <1>5
  <2>3. g[S] = G[<<m, v>>]
    <3> HIDE DEF G
    <3> QED BY <1>4 DEF FoldsTo
  <2>4. m \in 1..n
    BY <2>1
  <2> HIDE DEF m, v
  <2>5. G[<<m, v>>] = Step(v, m)
    BY <2>2, <2>4
  <2> QED BY <2>3, <2>5 DEF m, v
<1>7. Eq(g)
  BY <1>5, <1>6
<1>8. Eq(F)
  <2> HIDE DEF Eq
  <2> QED BY <1>7
<1> HIDE DEF F, G
<1>9. F[{}] = <<>>
  BY <1>8
<1>10. \A k \in 1..n : F[1..k] = Step(F[1..(k - 1)], k)
  <2> SUFFICES ASSUME NEW k \in 1..n PROVE F[1..k] = Step(F[1..(k - 1)], k)
    OBVIOUS
  <2>0. k \in Nat /\ k > 0
    BY <1>1
  <2>1. Max(1..k) = k /\ (1..k) \ {k} = 1..(k - 1) /\ 1..k # {}
    BY ONLY <2>0, MaxUpTo
  <2>2. 1..k \in SUBSET (1..n)
    BY <1>1
  <2>3. F[1..k] = Step(F[(1..k) \ {Max(1..k)}], Max(1..k))
    BY <1>8, <2>1, <2>2
  <2> QED BY <2>1, <2>3
<1>11. f[0] = <<>> /\ \A k \in 1..n : f[k] = Step(f[k - 1], k)
  BY <1>1, <1>9, <1>10
<1>12. f[n] = F[1..n]
  BY <1>1
<1>13. DOMAIN f = 0..n
  OBVIOUS
<1>14. f = [k \in 0..n |-> f[k]]
  OBVIOUS
<1> HIDE DEF f
<1>15. \A k \in 0..n : f[k] \in Seq(P)
  <2> DEFINE T == {k \in 0..n : f[k] \in Seq(P)}
  <2>1. 0 \in T
    <3>1. 0 \in 0..n
      BY <1>1
    <3>2. f[0] = <<>> /\ <<>> \in Seq(P)
      BY <1>1, <1>11
    <3>3. f[0] \in Seq(P)
      BY ONLY <3>2
    <3> QED BY <3>1, <3>3
  <2>2. \A k \in 0..n : k < n /\ k \in T => k + 1 \in T
    BY <1>1, <1>11
  <2>3. \A k \in 0..n : k \in T
    <3> HIDE DEF T
    <3> QED BY <1>1, <2>1, <2>2, UpTo
  <2> QED BY <2>3
<1>16. f \in [0..n -> Seq(P)]
  BY <1>14, <1>15
<1>17. f[0] = <<>> /\ (\A k \in 1..n : f[k] = Step(f[k - 1], k)) /\ InsNamed(path) = f[n]
  BY <1>2, <1>11, <1>12
<1> DEFINE T == {k \in 0..n : f[k] = SubSeq(path, 1, k)}
<1>18. \A k \in 0..n : SubSeq(path, 1, k) \in Seq(P) /\ SubSeq(path, 1, 0) = <<>>
  BY DEF n
<1>19. 0 \in T
  <2>1. 0 \in 0..n
    BY <1>1
  <2>2. f[0] = <<>> /\ SubSeq(path, 1, 0) = <<>>
    BY <1>17, <1>18, <2>1
  <2> QED BY <2>1, <2>2
<1>20. \A k \in 0..n : k < n /\ k \in T => k + 1 \in T
  <2> SUFFICES ASSUME NEW k \in 0..n, k < n, k \in T PROVE k + 1 \in T
    OBVIOUS
  <2>1. k + 1 \in 1..n /\ k + 1 \in 0..n /\ (k + 1) - 1 = k
    BY <1>1
  <2>2. f[k + 1] = Append(f[k], path[k + 1])
    BY <1>0, <1>15, <1>17, <2>1
  <2>3. SubSeq(path, 1, k + 1) = Append(SubSeq(path, 1, k), path[k + 1])
    BY <2>1 DEF n
  <2> QED BY <2>1, <2>2, <2>3
<1>21. n \in T
  <2> HIDE DEF T
  <2>1. \A k \in 0..n : k \in T
    BY <1>1, <1>19, <1>20, UpTo
  <2> QED BY <1>1, <2>1
<1>22. SubSeq(path, 1, n) = path
  BY DEF n
<1> QED BY <1>17, <1>21, <1>22

\* The saturated sizes up to each variant.
InsTotalRun(f, variants) ==
    /\ f \in [0..Len(variants) -> 0..InsMax] /\ f[0] = 0
    /\ \A k \in 1..Len(variants) : f[k] = InsPlus(f[k - 1], variants[k].bytes)
    /\ InsTotal(variants) = f[Len(variants)]

LEMMA InsPlusOk ==
    \A a \in 0..InsMax, b \in 0..InsMax :
        InsPlus(a, b) \in 0..InsMax /\ (InsPlus(a, b) = InsMax \/ InsPlus(a, b) = a + b)
<1> SUFFICES ASSUME NEW a \in 0..InsMax, NEW b \in 0..InsMax
             PROVE  InsPlus(a, b) \in 0..InsMax /\ (InsPlus(a, b) = InsMax \/ InsPlus(a, b) = a + b)
  OBVIOUS
<1> DEFINE c == a + b
           m == InsMax
           S == {c, m}
<1>1. m \in Nat /\ c \in Nat
  <2>1. m \in Nat
    BY InsManifestsAssumption
  <2> QED BY <2>1
<1> HIDE DEF c, m
<1>2. \E x \in S : \A y \in S : x <= y
  BY <1>1
<1>3. Min(S) \in S /\ \A y \in S : Min(S) <= y
  BY <1>2 DEF Min
<1>4. InsPlus(a, b) = Min(S)
  BY DEF InsPlus, c, m
<1>5. Min(S) \in 0..m /\ (Min(S) = m \/ Min(S) = c)
  BY <1>1, <1>3
<1> QED BY <1>4, <1>5 DEF c, m

LEMMA InsTotalRuns ==
    ASSUME NEW V0, NEW variants \in Seq(V0), \A v \in V0 : v.bytes \in 0..InsMax
    PROVE  \E f : InsTotalRun(f, variants)
<1> DEFINE n == Len(variants)
           Step(v, i) == InsPlus(v, variants[i].bytes)
           Eq(F) == F = [S \in SUBSET (1..n) |->
                            IF S = {} THEN 0 ELSE Step(F[S \ {Max(S)}], Max(S))]
           G == [y \in (1..n) \X (0..InsMax) |-> Step(y[2], y[1])]
           F == CHOOSE h : Eq(h)
           f == [k \in 0..n |-> F[1..k]]
<1>1. /\ n \in Nat /\ DOMAIN variants = 1..n /\ 0 \in (0..InsMax)
      /\ \A i \in 1..n, v \in (0..InsMax) : Step(v, i) \in (0..InsMax)
  <2>1. n \in Nat /\ DOMAIN variants = 1..n /\ \A i \in 1..n : variants[i].bytes \in 0..InsMax
    OBVIOUS
  <2>2. 0 \in 0..InsMax
    BY InsManifestsAssumption
  <2> QED BY <2>1, <2>2, InsPlusOk
<1>2. InsTotal(variants) = F[1..n]
  BY <1>1 DEF InsTotal, FoldLeft, MapThenFoldSet
<1> HIDE DEF Step, n
<1>3. G \in [(1..n) \X (0..InsMax) -> (0..InsMax)]
  BY <1>1
<1>4. PICK g : FoldsTo(g, n, (0..InsMax), 0, G)
  BY <1>1, <1>3, FoldDefined
<1>5. g \in [SUBSET (1..n) -> (0..InsMax)] /\ g[{}] = 0
  BY <1>4 DEF FoldsTo
<1>6. \A S \in SUBSET (1..n) : S # {} => g[S] = Step(g[S \ {Max(S)}], Max(S))
  <2> SUFFICES ASSUME NEW S \in SUBSET (1..n), S # {}
               PROVE  g[S] = Step(g[S \ {Max(S)}], Max(S))
    OBVIOUS
  <2>1. Max(S) \in 1..n
    BY <1>1, MaxExists
  <2> DEFINE m == Max(S)
             v == g[S \ {m}]
  <2>2. v \in (0..InsMax)
    BY <1>5
  <2>3. g[S] = G[<<m, v>>]
    <3> HIDE DEF G
    <3> QED BY <1>4 DEF FoldsTo
  <2>4. m \in 1..n
    BY <2>1
  <2> HIDE DEF m, v
  <2>5. G[<<m, v>>] = Step(v, m)
    BY <2>2, <2>4
  <2> QED BY <2>3, <2>5 DEF m, v
<1>7. Eq(g)
  BY <1>5, <1>6
<1>8. Eq(F)
  <2> HIDE DEF Eq
  <2> QED BY <1>7
<1> HIDE DEF F, G
<1>9. F[{}] = 0
  BY <1>8
<1>10. \A k \in 1..n : F[1..k] = Step(F[1..(k - 1)], k)
  <2> SUFFICES ASSUME NEW k \in 1..n PROVE F[1..k] = Step(F[1..(k - 1)], k)
    OBVIOUS
  <2>0. k \in Nat /\ k > 0
    BY <1>1
  <2>1. Max(1..k) = k /\ (1..k) \ {k} = 1..(k - 1) /\ 1..k # {}
    BY ONLY <2>0, MaxUpTo
  <2>2. 1..k \in SUBSET (1..n)
    BY <1>1
  <2>3. F[1..k] = Step(F[(1..k) \ {Max(1..k)}], Max(1..k))
    BY <1>8, <2>1, <2>2
  <2> QED BY <2>1, <2>3
<1>11. f[0] = 0 /\ \A k \in 1..n : f[k] = Step(f[k - 1], k)
  BY <1>1, <1>9, <1>10
<1>12. f[n] = F[1..n]
  BY <1>1
<1>13. DOMAIN f = 0..n
  OBVIOUS
<1>14. f = [k \in 0..n |-> f[k]]
  OBVIOUS
<1> HIDE DEF f
<1>15. \A k \in 0..n : f[k] \in (0..InsMax)
  <2> DEFINE T == {k \in 0..n : f[k] \in (0..InsMax)}
  <2>1. 0 \in T
    BY <1>1, <1>11
  <2>2. \A k \in 0..n : k < n /\ k \in T => k + 1 \in T
    <3> SUFFICES ASSUME NEW k \in 0..n, k < n, k \in T PROVE k + 1 \in T
      OBVIOUS
    <3>1. k + 1 \in 1..n /\ k + 1 \in 0..n /\ (k + 1) - 1 = k
      BY <1>1
    <3>2. f[k + 1] = Step(f[k], k + 1)
      BY <1>11, <3>1
    <3> QED BY <1>1, <3>1, <3>2
  <2>3. \A k \in 0..n : k \in T
    <3> HIDE DEF T
    <3> QED BY <1>1, <2>1, <2>2, UpTo
  <2> QED BY <2>3
<1>16. f \in [0..n -> (0..InsMax)]
  BY <1>14, <1>15
<1>17. f[0] = 0 /\ (\A k \in 1..n : f[k] = Step(f[k - 1], k)) /\ InsTotal(variants) = f[n]
  BY <1>2, <1>11, <1>12
<1> DEFINE Goal(h) == h \in [0..n -> (0..InsMax)] /\ h[0] = 0
                      /\ (\A k \in 1..n : h[k] = Step(h[k - 1], k)) /\ InsTotal(variants) = h[n]
<1>18. Goal(f)
  BY <1>16, <1>17
<1>19. InsTotalRun(f, variants)
  BY <1>18 DEF InsTotalRun, Step, n
<1> QED BY <1>19

\* The exact size of a set of variants.
LEMMA InsExactSum ==
    ASSUME NEW S, IsFiniteSet(S), NEW g, NEW F, SumsTo(g, S, F), NEW T \in SUBSET S,
           \A e \in S : F[e] = e.bytes /\ e.bytes \in Nat
    PROVE  MapThenSumSet(LAMBDA v : v.bytes, T) = g[T]
<1> DEFINE Eq(h) == h = [R \in SUBSET T |->
                            IF R = {} THEN 0
                            ELSE (CHOOSE x \in R : TRUE).bytes + h[R \ {CHOOSE x \in R : TRUE}]]
           H == CHOOSE h : Eq(h)
           E == [e \in T |-> e.bytes]
<1>1. MapThenSumSet(LAMBDA v : v.bytes, T) = H[T]
  BY DEF MapThenSumSet, MapThenFoldSet
<1>2. \A R \in SUBSET T : R # {} => (CHOOSE x \in R : TRUE) \in R
  OBVIOUS
<1>3. \A R \in SUBSET T : R # {} => E[CHOOSE x \in R : TRUE] = (CHOOSE x \in R : TRUE).bytes
  BY <1>2
<1>4. \A h : SumsByChoice(h, T, E) <=> Eq(h)
  BY <1>3 DEF SumsByChoice
<1>5. PICK k : SumsTo(k, T, E)
  BY FS_Subset, SumDefined
<1>6. SumsByChoice(k, T, E)
  BY <1>5, SumByChoice
<1>7. Eq(H)
  <2> HIDE DEF Eq, E
  <2>1. Eq(k)
    BY <1>4, <1>6
  <2> QED BY <2>1
<1>8. SumsByChoice(H, T, E)
  <2> HIDE DEF Eq, E, H
  <2> QED BY <1>4, <1>7
<1>9. (\A x \in S : F[x] \in Nat) /\ \A x \in T : E[x] = F[x]
  OBVIOUS
<1> HIDE DEF E, H
<1>10. H[T] = g[T]
  BY ONLY <1>8, <1>9, SumUnique, IsFiniteSet(S), SumsTo(g, S, F), T \in SUBSET S
<1> QED BY <1>1, <1>10

\* A total below the largest size is no less than the exact size of the
\* variants it counts.
LEMMA InsTotalBounds ==
    ASSUME NEW V0, NEW variants \in Seq(V0), \A v \in V0 : v.bytes \in 0..InsMax,
           InsTotal(variants) # InsMax
    PROVE  MapThenSumSet(LAMBDA v : v.bytes, ToSet(variants)) <= InsTotal(variants)
           /\ MapThenSumSet(LAMBDA v : v.bytes, ToSet(variants)) \in Nat
<1> DEFINE S == ToSet(variants)
           n == Len(variants)
           F == [v \in S |-> v.bytes]
           Of(k) == {variants[i] : i \in 1..k}
<1>1. /\ n \in Nat /\ S = Of(n) /\ InsMax \in Nat
      /\ \A i \in 1..n : variants[i] \in S /\ variants[i].bytes \in 0..InsMax
  BY InsManifestsAssumption DEF ToSet
<1>2. IsFiniteSet(S)
  BY ToSetFinite
<1>3. (\A v \in S : F[v] = v.bytes /\ v.bytes \in Nat) /\ \A v \in S : F[v] \in Nat
  BY <1>1
<1> HIDE DEF F
<1>4. PICK g : SumsTo(g, S, F)
  BY ONLY <1>2, <1>3, SumDefined
<1>5. MapThenSumSet(LAMBDA v : v.bytes, S) = g[S]
  BY <1>2, <1>3, <1>4, InsExactSum
<1>6. PICK f : InsTotalRun(f, variants)
  BY InsTotalRuns
<1>7. /\ f \in [0..n -> 0..InsMax] /\ f[0] = 0 /\ InsTotal(variants) = f[n]
      /\ \A k \in 1..n : f[k] = InsPlus(f[k - 1], variants[k].bytes)
  BY <1>6 DEF InsTotalRun
<1> DEFINE T == {k \in 0..n : f[k] = InsMax \/ g[Of(k)] <= f[k]}
<1>8. \A k \in 0..n : Of(k) \in SUBSET S /\ g[Of(k)] \in Nat /\ f[k] \in Nat
  BY <1>1, <1>4, <1>7 DEF SumsTo
<1>9. 0 \in T
  <2>1. Of(0) = {}
    OBVIOUS
  <2>2. g[Of(0)] = 0
    <3> HIDE DEF Of
    <3> QED BY <1>4, <2>1 DEF SumsTo
  <2> HIDE DEF Of, n
  <2> QED BY <1>1, <1>7, <2>2
<1>10. \A k \in 0..n : k < n /\ k \in T => k + 1 \in T
  <2> SUFFICES ASSUME NEW k \in 0..n, k < n, k \in T PROVE k + 1 \in T
    OBVIOUS
  <2>1. k + 1 \in 1..n /\ k + 1 \in 0..n /\ (k + 1) - 1 = k
    BY <1>1
  <2> DEFINE v == variants[k + 1]
             A == Of(k)
             B == Of(k + 1)
  <2>2. B = A \cup {v} /\ v \in S
    BY <1>1, <2>1
  <2>3. A \in SUBSET S /\ B \in SUBSET S /\ g[A] \in Nat /\ f[k] \in Nat /\ f[k + 1] \in Nat
    BY <1>8, <2>1
  <2>4. f[k + 1] = InsPlus(f[k], v.bytes) /\ f[k] \in 0..InsMax /\ v.bytes \in 0..InsMax
        /\ f[k] <= InsMax
    BY <1>7, <2>1, <1>1
  <2>5. f[k] = InsMax \/ g[A] <= f[k]
    OBVIOUS
  <2> HIDE DEF S, A, B, v, n, T
  <2>6. g[B] = g[A] \/ g[B] = g[A] + v.bytes
    <3>1. CASE v \in A
      <4>1. B = A
        BY <2>2, <3>1
      <4> QED BY <4>1
    <3>2. CASE v \notin A
      <4>1. B \ {v} = A /\ v \in B
        BY <2>2, <3>2
      <4>2. g[B] = g[B \ {v}] + F[v]
        BY <1>4, <2>3, <4>1 DEF SumsTo
      <4>3. F[v] = v.bytes
        BY <1>3, <2>2
      <4> QED BY <4>1, <4>2, <4>3
    <3> QED BY <3>1, <3>2
  <2>7. f[k + 1] = InsMax \/ g[B] <= f[k + 1]
    <3>1. f[k + 1] = InsMax \/ f[k + 1] = f[k] + v.bytes
      BY <2>4, InsPlusOk
    <3> DEFINE a == f[k]
               b == f[k + 1]
               c == v.bytes
               x == g[A]
               y == g[B]
               m == InsMax
    <3>2. a \in Nat /\ b \in Nat /\ c \in Nat /\ x \in Nat /\ m \in Nat /\ a <= m /\ b <= m
      BY <1>1, <1>7, <2>1, <2>3, <2>4
    <3>3. (b = m \/ b = a + c) /\ (y = x \/ y = x + c) /\ (a = m \/ x <= a)
      BY <2>5, <2>6, <3>1
    <3> HIDE DEF a, b, c, x, y, m
    <3>4. b = m \/ y <= b
      BY ONLY <3>2, <3>3
    <3> QED BY <3>4 DEF b, y, m
  <2> QED BY <2>1, <2>7 DEF T, B
<1>11. n \in T
  <2> HIDE DEF T
  <2>1. \A k \in 0..n : k \in T
    BY <1>1, <1>9, <1>10, UpTo
  <2> QED BY <1>1, <2>1
<1>12. g[S] = g[Of(n)]
  BY <1>1
<1>13. g[S] <= InsTotal(variants) /\ g[S] \in Nat
  BY <1>1, <1>7, <1>8, <1>11, <1>12
<1> QED BY <1>5, <1>13

\* The variant of a declared id is one of the manifest, with that id.
LEMMA InsVariantIs ==
    ASSUME NEW w \in DOMAIN InsManifests, NEW id \in InsKnown(InsManifests[w])
    PROVE  \E i \in 1..Len(InsManifests[w].variants) :
              /\ InsVariant(InsManifests[w], id) = InsManifests[w].variants[i]
              /\ InsManifests[w].variants[i].id = id
<1> DEFINE m == InsManifests[w]
           vs == m.variants
           n == Len(vs)
           S == {i \in 1..n : vs[i].id = id}
<1>1. vs \in Seq(ToSet(vs)) /\ n \in Nat /\ DOMAIN vs = 1..n
  BY InsManifestsAssumption
<1>2. S # {}
  BY <1>1 DEF InsKnown, ToSet
<1>3. InsVariant(m, id) = vs[Max(S)]
  BY <1>1 DEF InsVariant
<1>4. Max(S) \in S
  BY <1>1, <1>2, MaxExists
<1> QED BY <1>3, <1>4

LEMMA InsKnownFinite ==
    ASSUME NEW w \in DOMAIN InsManifests
    PROVE  IsFiniteSet(InsKnown(InsManifests[w]))
<1> DEFINE vs == InsManifests[w].variants
           K == InsKnown(InsManifests[w])
           s == [i \in 1..Len(vs) |-> vs[i].id]
<1>1. vs \in Seq(ToSet(vs)) /\ Len(vs) \in Nat /\ DOMAIN vs = 1..Len(vs)
  BY InsManifestsAssumption
<1>2. K = {vs[i].id : i \in 1..Len(vs)}
  BY <1>1 DEF InsKnown, ToSet
<1> HIDE DEF K
<1>3. s \in Seq(K) /\ ToSet(s) = K
  <2>1. DOMAIN s = 1..Len(vs) /\ \A i \in 1..Len(vs) : s[i] = vs[i].id /\ s[i] \in K
    BY <1>2
  <2>2. s \in [1..Len(vs) -> K]
    BY <2>1
  <2> HIDE DEF s
  <2>3. s \in Seq(K)
    BY <1>1, <2>2
  <2>4. ToSet(s) = {s[i] : i \in 1..Len(vs)}
    BY <2>1 DEF ToSet
  <2>5. ToSet(s) = K
    BY <1>2, <2>1, <2>4
  <2> QED BY <2>3, <2>5
<1> HIDE DEF s
<1>4. IsFiniteSet(K)
  BY <1>3, ToSetFinite
<1> QED BY <1>4 DEF K

LEMMA InsCountedOk ==
    ASSUME NEW w \in DOMAIN InsManifests, NEW b
    PROVE  InsCounted(InsManifests[w], b) \in Seq(ToSet(InsManifests[w].variants))
<1> DEFINE m == InsManifests[w]
           S == ToSet(b.variants) \cap InsKnown(m)
           c == SetToSeq(S)
           k == Cardinality(S)
<1>1. IsFiniteSet(S) /\ \A id \in S : id \in InsKnown(m)
  BY InsKnownFinite, FS_Subset
<1>2. \A id \in S : InsVariant(m, id) \in ToSet(m.variants)
  BY <1>1, InsVariantIs, InsManifestsAssumption DEF ToSet
<1>3. InsCounted(m, b) = [i \in DOMAIN c |-> InsVariant(m, c[i])]
  BY DEF InsCounted
<1> HIDE DEF S
<1>4. k \in Nat /\ c \in [1..k -> S]
  BY <1>1, SetToSeqOk
<1> HIDE DEF c, k, m
<1>5. InsCounted(m, b) \in Seq(ToSet(m.variants))
  BY <1>2, <1>4, <1>3
<1> QED BY <1>5 DEF m

\* A budget that passes below the largest size fits.
LEMMA InsBudgetsFit ==
    ASSUME NEW w \in DOMAIN InsManifests, NEW b \in InsManifests[w].budgets,
           InsBudgetPasses(InsManifests[w], b), NEW max \in b.limit \ {InsMax}
    PROVE  InsExact(InsManifests[w], b) <= max
<1> DEFINE m == InsManifests[w]
           V == ToSet(m.variants)
           c == InsCounted(m, b)
           t == InsTotal(c)
           e == MapThenSumSet(LAMBDA v : v.bytes, ToSet(c))
<1>1. max \in 0..InsMax /\ max # InsMax /\ InsMax \in Nat /\ \A v \in V : v.bytes \in 0..InsMax
  BY InsManifestsAssumption
<1>2. t <= max /\ InsExact(m, b) = e
  BY DEF InsBudgetPasses, InsExact
<1>3. c \in Seq(V)
  BY InsCountedOk
<1> HIDE DEF V, c, m
<1>4. PICK f : InsTotalRun(f, c)
  BY <1>1, <1>3, InsTotalRuns
<1>5. t \in 0..InsMax
  BY <1>3, <1>4 DEF InsTotalRun
<1>6. t # InsMax
  BY <1>1, <1>2, <1>5
<1>7. e <= t /\ e \in Nat
  BY <1>1, <1>3, <1>6, InsTotalBounds
<1> HIDE DEF e, t
<1>8. e <= max
  <2>1. max \in Nat /\ t \in Nat
    BY <1>1, <1>5
  <2> QED BY <1>2, <1>7, <2>1
<1> QED BY <1>2, <1>8 DEF m

-----------------------------------------------------------------------------
(* The invariant is preserved.                                             *)

\* The part of InsInvariant about an inspection under way.
InsRunOk(r) ==
    /\ InsShape(r) /\ InsMetadataHolds(r)
    /\ r.at = "reported" \/ r.files
    /\ r.files /\ r.valid => InsHashed(r) /\ InsScanned(r)
    /\ r.at /= "hash" => r.todo = {}
    /\ r.at = "reported" /\ r.files /\ r.valid => InsCompared(r)

LEMMA InsStart == InsInit => InsInvariant
BY DEF InsInit, InsIdle, InsInvariant, InsRunning

LEMMA InsInspectKeeps ==
    ASSUME InsInvariant, InsInspect
    PROVE  InsInvariant'
<1>1. /\ DOMAIN insDisk = DOMAIN InsFiles /\ insDisk' = insDisk
      /\ insSeen' = [f \in DOMAIN InsFiles |-> {insDisk[f]}]
  BY DEF InsInvariant, InsInspect
<1>2. PICK w \in DOMAIN InsManifests : \E files \in BOOLEAN :
          IF InsManifests[w].large THEN insRun' = [at |-> "refused"]
          ELSE IF ~files THEN insRun' = InsMetadata(InsManifests[w])
          ELSE insRun' = [InsMetadata(InsManifests[w]) EXCEPT
                              !.at = "hash", !.files = TRUE, !.todo = InsKnown(InsManifests[w]),
                              !.left = DOMAIN InsFiles]
  BY DEF InsInspect
<1> DEFINE m == InsManifests[w]
           r == InsMetadata(m)
           q == [r EXCEPT !.at = "hash", !.files = TRUE, !.todo = InsKnown(m), !.left = DOMAIN InsFiles]
<1>3. insRun' = [at |-> "refused"] \/ insRun' = r \/ insRun' = q
  BY <1>2
<1>4. /\ r.at = "reported" /\ r.manifest = m /\ r.files = FALSE /\ r.todo = {} /\ r.found = {}
      /\ r.valid => InsVariantsOk(m)
      /\ r.pass => \A b \in m.budgets : InsBudgetPasses(m, b)
      /\ InsShape(r)
  BY DEF InsMetadata, InsShape
<1>5. /\ q.at = "hash" /\ q.manifest = m /\ q.files = TRUE /\ q.todo = InsKnown(m) /\ q.found = {}
      /\ q.left = DOMAIN InsFiles
      /\ q.valid => InsVariantsOk(m)
      /\ q.pass => \A b \in m.budgets : InsBudgetPasses(m, b)
      /\ InsShape(q)
  <2> DEFINE k == InsKnown(m)
  <2>1. q = [r EXCEPT !.at = "hash", !.files = TRUE, !.todo = k, !.left = DOMAIN InsFiles]
    OBVIOUS
  <2> HIDE DEF r, q, m, k
  <2>2. /\ q.at = "hash" /\ q.manifest = m /\ q.files = TRUE /\ q.todo = k /\ q.found = {}
        /\ q.left = DOMAIN InsFiles /\ q.valid = r.valid /\ q.pass = r.pass /\ InsShape(q)
    BY ONLY <1>4, <2>1 DEF InsShape
  <2> QED BY <1>4, <2>2 DEF k
<1> HIDE DEF r, q
<1>6. CASE insRun' = [at |-> "refused"]
  <2>1. insRun'.at = "refused"
    BY <1>6
  <2> QED BY <1>1, <2>1 DEF InsInvariant, InsRunning
<1>7. CASE insRun' = r
  BY <1>4, <1>7, <1>1 DEF InsMetadataHolds, InsRunOk, InsShape, InsInvariant, InsRunning
<1>8. CASE insRun' = q
  BY <1>5, <1>1, <1>8 DEF InsMetadataHolds, InsHashed, InsScanned, InsInvariant, InsRunning,
     InsShape
<1> QED BY <1>3, <1>6, <1>7, <1>8

LEMMA InsHashKeeps ==
    ASSUME InsInvariant, InsHash
    PROVE  InsInvariant'
<1>1. /\ insRun.at = "hash" /\ insDisk' = insDisk /\ insSeen' = insSeen
      /\ DOMAIN insDisk = DOMAIN InsFiles /\ DOMAIN insSeen = DOMAIN InsFiles
      /\ InsShape(insRun) /\ InsMetadataHolds(insRun) /\ insRun.files
      /\ insRun.valid => InsHashed(insRun) /\ InsScanned(insRun)
      /\ \A f \in DOMAIN InsFiles : insDisk[f] \in insSeen[f]
  BY DEF InsInvariant, InsHash, InsRunning
<1>2. ASSUME NEW id \in insRun.todo,
             insRun' = [insRun EXCEPT !.todo = @ \ {id},
                            !.valid = @ /\ InsMatches(InsVariant(insRun.manifest, id))]
      PROVE  InsInvariant'
  <2> DEFINE ok == insRun.valid /\ InsMatches(InsVariant(insRun.manifest, id))
             t == insRun.todo \ {id}
             q == [insRun EXCEPT !.todo = t, !.valid = ok]
  <2>1. insRun' = q
    BY <1>2
  <2> HIDE DEF ok, t
  <2>0. q = [insRun EXCEPT !.todo = t, !.valid = ok]
    OBVIOUS
  <2> HIDE DEF q
  <2>2. /\ q.at = "hash" /\ q.manifest = insRun.manifest /\ q.files = insRun.files /\ q.todo = t
        /\ q.found = insRun.found /\ q.left = insRun.left /\ q.valid = ok /\ q.pass = insRun.pass
        /\ InsShape(q)
    BY ONLY <1>1, <2>0 DEF InsShape
  <2>3. InsMetadataHolds(q)
    BY <1>1, <2>2 DEF InsMetadataHolds, ok
  <2>4. ASSUME ok PROVE InsHashed(q) /\ InsScanned(q)
    BY <2>4, <1>1, <2>2 DEF ok, InsMatches, InsHashed, t, InsScanned
  <2>5. q.valid => InsHashed(q) /\ InsScanned(q)
    BY <2>2, <2>4
  <2> QED BY <1>1, <2>1, <2>2, <2>3, <2>5
           DEF InsInvariant, InsRunning, InsShape, InsMetadataHolds, InsHashed, InsScanned
<1>3. ASSUME insRun.todo = {}, insRun' = [insRun EXCEPT !.at = "scan"]
      PROVE  InsInvariant'
  BY <1>3, <1>1 DEF InsShape, InsMetadataHolds, InsHashed, InsScanned, InsInvariant, InsRunning
<1> QED BY <1>2, <1>3 DEF InsHash

LEMMA InsScanKeeps ==
    ASSUME InsInvariant, InsScan
    PROVE  InsInvariant'
<1>1. /\ insRun.at = "scan" /\ insDisk' = insDisk /\ insSeen' = insSeen
      /\ DOMAIN insDisk = DOMAIN InsFiles /\ DOMAIN insSeen = DOMAIN InsFiles
      /\ InsShape(insRun) /\ InsMetadataHolds(insRun) /\ insRun.files /\ insRun.todo = {}
      /\ insRun.valid => InsHashed(insRun) /\ InsScanned(insRun)
      /\ \A f \in DOMAIN InsFiles : insDisk[f] \in insSeen[f]
  BY DEF InsInvariant, InsScan, InsRunning
<1>2. PICK f \in insRun.left :
          insRun' = IF insDisk[f] = "link" THEN [insRun EXCEPT !.at = "reported", !.valid = FALSE]
                    ELSE [insRun EXCEPT !.left = @ \ {f}, !.found = @ \cup
                             (IF insDisk[f] /= "none" /\ InsTracked(insRun.manifest, f)
                              THEN {InsFiles[f].path} ELSE {})]
  BY DEF InsScan
<1>3. CASE insDisk[f] = "link"
  BY <1>2, <1>3, <1>1 DEF InsShape, InsMetadataHolds, InsInvariant, InsRunning
<1>4. CASE insDisk[f] # "link"
  <2> DEFINE new == IF insDisk[f] /= "none" /\ InsTracked(insRun.manifest, f)
                    THEN {InsFiles[f].path} ELSE {}
             fd == insRun.found \cup new
             lf == insRun.left \ {f}
             q == [insRun EXCEPT !.left = lf, !.found = fd]
  <2>1. insRun' = q
    BY <1>2, <1>4
  <2> HIDE DEF lf, fd
  <2>2. q = [insRun EXCEPT !.left = lf, !.found = fd]
    OBVIOUS
  <2> HIDE DEF q
  <2>3. /\ q.at = "scan" /\ q.manifest = insRun.manifest /\ q.files = insRun.files /\ q.todo = {}
        /\ q.found = fd /\ q.left = lf /\ q.valid = insRun.valid /\ q.pass = insRun.pass
        /\ InsShape(q)
    BY ONLY <1>1, <2>2 DEF InsShape
  <2>4. InsMetadataHolds(q)
    BY <1>1, <2>3 DEF InsMetadataHolds
  <2>5. ASSUME insRun.valid PROVE InsHashed(q) /\ InsScanned(q)
    <3>1. InsHashed(insRun) /\ InsScanned(insRun)
      BY <1>1, <2>5
    <3>2. InsHashed(q)
      BY <1>1, <2>3, <3>1 DEF InsHashed
    <3>3. \A p \in q.found : \E g \in DOMAIN InsFiles : p = InsFiles[g].path
      BY <2>3, <3>1 DEF fd, InsScanned
    <3>4. ASSUME NEW g \in DOMAIN InsFiles \ lf,
                 insSeen[g] \subseteq DOMAIN InsSize, InsTracked(insRun.manifest, g)
          PROVE  InsFiles[g].path \in fd
      BY <1>1, <3>4, InsFilesAssumption, <3>1 DEF fd, lf, InsScanned
    <3>5. lf \subseteq DOMAIN InsFiles
      BY <3>1 DEF InsScanned, lf
    <3>6. InsScanned(q)
      BY <2>3, <3>3, <3>4, <3>5 DEF InsScanned
    <3> QED BY <3>2, <3>6
  <2> QED BY <1>1, <2>1, <2>3, <2>4, <2>5
           DEF InsInvariant, InsRunning, InsShape, InsMetadataHolds, InsHashed, InsScanned
<1> QED BY <1>3, <1>4

LEMMA InsCompareKeeps ==
    ASSUME InsInvariant, InsCompare
    PROVE  InsInvariant'
<1> DEFINE m == insRun.manifest
           ok == insRun.valid /\ insRun.found \subseteq InsDeclared(m) \cup ToSet(m.excluded)
                              /\ InsDeclared(m) \subseteq insRun.found
           q == [insRun EXCEPT !.at = "reported", !.valid = ok]
<1>1. /\ insRun.at = "scan" /\ insDisk' = insDisk /\ insSeen' = insSeen /\ insRun.left = {}
      /\ DOMAIN insDisk = DOMAIN InsFiles /\ DOMAIN insSeen = DOMAIN InsFiles
      /\ InsShape(insRun) /\ InsMetadataHolds(insRun) /\ insRun.files /\ insRun.todo = {}
      /\ insRun.valid => InsHashed(insRun) /\ InsScanned(insRun)
  BY DEF InsInvariant, InsCompare, InsRunning
<1>2. insRun' = q
  BY DEF InsCompare
<1> HIDE DEF ok
<1>3. q = [insRun EXCEPT !.at = "reported", !.valid = ok]
  OBVIOUS
<1> HIDE DEF q
<1>4. /\ q.at = "reported" /\ q.manifest = insRun.manifest /\ q.files = insRun.files /\ q.todo = {}
      /\ q.found = insRun.found /\ q.left = {} /\ q.valid = ok /\ q.pass = insRun.pass
      /\ InsShape(q)
  BY ONLY <1>1, <1>3 DEF InsShape
<1>5. InsMetadataHolds(q)
  BY <1>1, <1>4 DEF InsMetadataHolds, ok
<1>6. q.valid => InsHashed(q) /\ InsScanned(q) /\ InsCompared(q)
  BY <1>1, <1>4 DEF InsHashed, InsScanned, InsCompared, ok
<1> QED BY <1>1, <1>2, <1>4, <1>5, <1>6
         DEF InsInvariant, InsRunning, InsShape, InsMetadataHolds, InsHashed, InsScanned, InsCompared

LEMMA InsTouchKeeps ==
    ASSUME InsInvariant, InsTouch
    PROVE  InsInvariant'
<1>1. /\ insRun.at \in {"hash", "scan"} /\ insRun' = insRun
      /\ DOMAIN insDisk = DOMAIN InsFiles /\ DOMAIN insSeen = DOMAIN InsFiles
      /\ InsShape(insRun) /\ InsMetadataHolds(insRun) /\ insRun.files
      /\ insRun.at /= "hash" => insRun.todo = {}
      /\ insRun.valid => InsHashed(insRun) /\ InsScanned(insRun)
      /\ \A f \in DOMAIN InsFiles : insDisk[f] \in insSeen[f]
  BY DEF InsInvariant, InsTouch, InsRunning
<1>2. PICK f \in DOMAIN InsFiles : \E now \in {"none", "link"} \cup DOMAIN InsSize :
          /\ insDisk' = [insDisk EXCEPT ![f] = now]
          /\ insSeen' = [insSeen EXCEPT ![f] = @ \cup {now}]
  BY DEF InsTouch
<1>3. /\ DOMAIN insDisk' = DOMAIN InsFiles /\ DOMAIN insSeen' = DOMAIN InsFiles
      /\ \A g \in DOMAIN InsFiles : insSeen[g] \subseteq insSeen'[g] /\ insDisk'[g] \in insSeen'[g]
  BY <1>1, <1>2
<1>4. InsHashed(insRun) => InsHashed(insRun)'
  BY <1>1, <1>3 DEF InsHashed
<1>5. InsScanned(insRun) => InsScanned(insRun)'
  BY <1>1, <1>3 DEF InsScanned
<1>6. InsMetadataHolds(insRun)' /\ InsShape(insRun)'
  BY <1>1 DEF InsMetadataHolds, InsShape
<1> QED BY <1>1, <1>3, <1>4, <1>5, <1>6 DEF InsInvariant, InsRunning

LEMMA InsKeeps ==
    ASSUME InsInvariant, [InsNext]_insVars
    PROVE  InsInvariant'
<1>1. CASE InsReset
  BY <1>1 DEF InsReset, InsInvariant, InsRunning, InsIdle
<1>2. CASE insDisk' = insDisk /\ insRun' = insRun /\ insSeen' = insSeen
  BY <1>2 DEF InsInvariant, InsRunning, InsShape, InsMetadataHolds, InsHashed, InsScanned, InsCompared
<1>3. CASE InsBaseline
  BY <1>2, <1>3 DEF InsBaseline
<1>4. CASE UNCHANGED insVars
  BY <1>2, <1>4 DEF insVars
<1> QED BY <1>1, <1>3, <1>4, InsInspectKeeps, InsHashKeeps, InsScanKeeps, InsCompareKeeps, InsTouchKeeps
         DEF InsNext

\* What the invariant says of a report that finds nothing wrong.
LEMMA InsMeans == InsInvariant => InsCleanReportsHold
<1> SUFFICES ASSUME InsInvariant, insRun.at = "reported", insRun.valid
             PROVE  LET m == insRun.manifest
                    IN  /\ insRun.files =>
                             /\ \A v \in ToSet(m.variants) : \E f \in DOMAIN InsFiles :
                                   InsFiles[f].path = v.path /\ v.digest \in insSeen[f]
                             /\ \A f \in DOMAIN InsFiles :
                                   (/\ insSeen[f] \subseteq DOMAIN InsSize
                                    /\ InsLower(InsFiles[f].ext) \in
                                           {InsLower(e) : e \in ToSet(m.extensions)}) =>
                                       InsFiles[f].path \in InsDeclared(m) \cup ToSet(m.excluded)
                        /\ insRun.pass => \A b \in m.budgets : \A max \in b.limit \ {InsMax} :
                                              InsExact(m, b) <= max
  BY DEF InsCleanReportsHold
<1> DEFINE m == insRun.manifest
<1>1. /\ InsMetadataHolds(insRun) /\ insRun.todo = {}
      /\ insRun.files => InsHashed(insRun) /\ InsScanned(insRun) /\ InsCompared(insRun)
  BY DEF InsInvariant, InsRunning
<1>2. PICK w \in DOMAIN InsManifests : m = InsManifests[w]
  BY <1>1 DEF InsMetadataHolds
<1>3. InsVariantsOk(m)
  BY <1>1 DEF InsMetadataHolds
<1> HIDE DEF m
<1>4. /\ m.variants \in Seq(ToSet(m.variants)) /\ DOMAIN m.variants = 1..Len(m.variants)
      /\ \A v \in ToSet(m.variants) : v.path \in Seq(ToSet(v.path))
  BY <1>2, InsManifestsAssumption
<1>5. ASSUME insRun.files, NEW v \in ToSet(m.variants)
      PROVE  \E f \in DOMAIN InsFiles : InsFiles[f].path = v.path /\ v.digest \in insSeen[f]
  <2>1. v.id \in InsKnown(m) /\ v.path \in InsDeclared(m)
    BY DEF InsKnown, InsDeclared
  <2>2. PICK f \in DOMAIN InsFiles : /\ InsFiles[f].path = InsNamed(InsVariant(m, v.id).path)
                                     /\ InsVariant(m, v.id).digest \in insSeen[f]
    BY <1>1, <1>5, <2>1 DEF InsHashed, m
  <2>3. PICK i \in 1..Len(m.variants) : v = m.variants[i]
    BY <1>4 DEF ToSet
  <2>4. PICK j \in 1..Len(m.variants) : InsVariant(m, v.id) = m.variants[j] /\ m.variants[j].id = v.id
    BY <1>2, <2>1, InsVariantIs
  <2>5. \A a, b \in 1..Len(m.variants) : m.variants[a].id = m.variants[b].id => a = b
    BY <1>3, <1>4 DEF InsVariantsOk, InsDistinct, IsInjective
  <2>6. InsVariant(m, v.id) = v
    BY <2>3, <2>4, <2>5
  <2>7. PICK g \in DOMAIN InsFiles : v.path = InsFiles[g].path
    BY <1>1, <1>5, <2>1 DEF InsCompared, InsScanned, m
  <2> DEFINE p == v.path
             P == ToSet(p)
  <2>8. p \in Seq(P) /\ "." \notin ToSet(p)
    BY <1>4, <2>7, InsFilesAssumption
  <2> HIDE DEF p
  <2>9. \A k \in 1..Len(p) : p[k] # "."
    <3>1. DOMAIN p = 1..Len(p)
      BY <2>8
    <3> QED BY <2>8, <3>1 DEF ToSet
  <2> HIDE DEF P
  <2>10. InsNamed(p) = p
    BY <2>8, <2>9, InsNamedPlain
  <2> QED BY <2>2, <2>6, <2>10 DEF p
<1>6. ASSUME insRun.files, NEW f \in DOMAIN InsFiles, insSeen[f] \subseteq DOMAIN InsSize,
             InsLower(InsFiles[f].ext) \in {InsLower(e) : e \in ToSet(m.extensions)}
      PROVE  InsFiles[f].path \in InsDeclared(m) \cup ToSet(m.excluded)
  BY <1>6, <1>1 DEF InsTracked, InsScanned, InsCompared, m
<1>7. ASSUME insRun.pass, NEW b \in m.budgets, NEW max \in b.limit \ {InsMax}
      PROVE  InsExact(m, b) <= max
  <2>1. InsBudgetPasses(m, b)
    BY <1>1, <1>7 DEF InsMetadataHolds, m
  <2> QED BY <1>2, <2>1, InsBudgetsFit
<1> QED BY <1>5, <1>6, <1>7 DEF m

\* A report that finds nothing wrong is true, whatever is done to the directory
\* while verify_files reads it: the declared files had their content, no tracked
\* file goes unmentioned, and the budgets that pass hold of the exact sizes.
THEOREM CleanReportsHold == InsSpec => []InsCleanReportsHold
<1>1. InsSpec => []InsInvariant
  <2>1. InsInvariant /\ [InsNext]_insVars => InsInvariant'
    BY InsKeeps
  <2> QED BY InsStart, <2>1, PTL DEF InsSpec
<1> QED BY <1>1, InsMeans, PTL

-----------------------------------------------------------------------------
(* Assets: what a selection may load.                                      *)

\* The amounts of a set of variants.
LEMMA AssAmountSum ==
    ASSUME NEW S, IsFiniteSet(S), NEW g, NEW F, SumsTo(g, S, F), NEW T \in SUBSET S, NEW class,
           \A e \in S : F[e] = AssAmount(e, class) /\ AssAmount(e, class) \in Nat
    PROVE  AssAmounts(T, class) = g[T]
<1> DEFINE Val(e) == AssAmount(e, class)
           Eq(h) == h = [R \in SUBSET T |->
                            IF R = {} THEN 0
                            ELSE Val(CHOOSE x \in R : TRUE) + h[R \ {CHOOSE x \in R : TRUE}]]
           H == CHOOSE h : Eq(h)
           E == [e \in T |-> Val(e)]
<1>1. AssAmounts(T, class) = H[T]
  BY DEF AssAmounts, MapThenSumSet, MapThenFoldSet
<1>0. \A e \in S : F[e] = Val(e) /\ Val(e) \in Nat
  OBVIOUS
<1> HIDE DEF Val
<1>2. \A R \in SUBSET T : R # {} => (CHOOSE x \in R : TRUE) \in R
  OBVIOUS
<1>3. \A R \in SUBSET T : R # {} => E[CHOOSE x \in R : TRUE] = Val(CHOOSE x \in R : TRUE)
  BY <1>2
<1>4. \A h : SumsByChoice(h, T, E) <=> Eq(h)
  BY <1>3 DEF SumsByChoice
<1>5. PICK k : SumsTo(k, T, E)
  BY <1>0, FS_Subset, SumDefined
<1>6. SumsByChoice(k, T, E)
  BY <1>0, <1>5, SumByChoice
<1>7. Eq(H)
  <2> HIDE DEF Eq, E
  <2>1. Eq(k)
    BY <1>4, <1>6
  <2> QED BY <2>1
<1>8. SumsByChoice(H, T, E)
  <2> HIDE DEF Eq, E, H
  <2> QED BY <1>4, <1>7
<1>9. (\A x \in S : F[x] \in Nat) /\ \A x \in T : E[x] = F[x]
  BY <1>0
<1> HIDE DEF E, H
<1>10. H[T] = g[T]
  BY ONLY <1>8, <1>9, SumUnique, IsFiniteSet(S), SumsTo(g, S, F), T \in SUBSET S
<1> QED BY <1>1, <1>10

\* The worst of each of a set of groups.
LEMMA AssWorstSum ==
    ASSUME NEW S, IsFiniteSet(S), NEW g, NEW F, SumsTo(g, S, F), NEW T \in SUBSET S, NEW here, NEW class,
           \A e \in S : F[e] = AssWorst({v \in here : v.group = e}, class) /\ AssWorst({v \in here : v.group = e}, class) \in Nat
    PROVE  AssWorsts(here, T, class) = g[T]
<1> DEFINE Val(e) == AssWorst({v \in here : v.group = e}, class)
           Eq(h) == h = [R \in SUBSET T |->
                            IF R = {} THEN 0
                            ELSE Val(CHOOSE x \in R : TRUE) + h[R \ {CHOOSE x \in R : TRUE}]]
           H == CHOOSE h : Eq(h)
           E == [e \in T |-> Val(e)]
<1>1. AssWorsts(here, T, class) = H[T]
  BY DEF AssWorsts, MapThenSumSet, MapThenFoldSet
<1>0. \A e \in S : F[e] = Val(e) /\ Val(e) \in Nat
  OBVIOUS
<1> HIDE DEF Val
<1>2. \A R \in SUBSET T : R # {} => (CHOOSE x \in R : TRUE) \in R
  OBVIOUS
<1>3. \A R \in SUBSET T : R # {} => E[CHOOSE x \in R : TRUE] = Val(CHOOSE x \in R : TRUE)
  BY <1>2
<1>4. \A h : SumsByChoice(h, T, E) <=> Eq(h)
  BY <1>3 DEF SumsByChoice
<1>5. PICK k : SumsTo(k, T, E)
  BY <1>0, FS_Subset, SumDefined
<1>6. SumsByChoice(k, T, E)
  BY <1>0, <1>5, SumByChoice
<1>7. Eq(H)
  <2> HIDE DEF Eq, E
  <2>1. Eq(k)
    BY <1>4, <1>6
  <2> QED BY <2>1
<1>8. SumsByChoice(H, T, E)
  <2> HIDE DEF Eq, E, H
  <2> QED BY <1>4, <1>7
<1>9. (\A x \in S : F[x] \in Nat) /\ \A x \in T : E[x] = F[x]
  BY <1>0
<1> HIDE DEF E, H
<1>10. H[T] = g[T]
  BY ONLY <1>8, <1>9, SumUnique, IsFiniteSet(S), SumsTo(g, S, F), T \in SUBSET S
<1> QED BY <1>1, <1>10

\* The largest of alternatives is no less than any of them.
LEMMA AssWorstBounds ==
    ASSUME NEW S, IsFiniteSet(S), S # {}, NEW class, \A v \in S : AssAmount(v, class) \in Nat
    PROVE  AssWorst(S, class) \in Nat /\ \A v \in S : AssAmount(v, class) <= AssWorst(S, class)
<1> DEFINE f == [v \in S |-> AssAmount(v, class)]
           N == {f[v] : v \in S}
<1>1. IsFiniteSet(N)
  <2> HIDE DEF f
  <2> QED BY FiniteImage
<1>2. N = {AssAmount(v, class) : v \in S} /\ N \subseteq Nat /\ N # {}
  OBVIOUS
<1>3. AssWorst(S, class) = Max(N)
  BY <1>2 DEF AssWorst
<1>4. \A v \in S : AssAmount(v, class) \in N
  BY <1>2
<1> HIDE DEF N
<1>5. Max(N) \in N /\ \A y \in N : Max(N) >= y
  BY <1>1, <1>2, FiniteMax
<1>6. Max(N) \in Nat /\ \A y \in N : y <= Max(N)
  BY <1>2, <1>5
<1> QED BY <1>3, <1>4, <1>6

\* Whatever alternatives are picked, the total of evaluate_budgets covers them.
LEMMA AssSelectionFits ==
    ASSUME NEW vs, IsFiniteSet(vs), NEW tier, NEW class, \A v \in vs : AssAmount(v, class) \in Nat,
           NEW loaded \in SUBSET AssInTier(vs, tier),
           \A v \in loaded, w \in loaded : v.group = w.group /\ v.group /= "none" => v = w
    PROVE  /\ AssAmounts(loaded, class) <= AssTotal(vs, tier, class)
           /\ AssAmounts(loaded, class) \in Nat
           /\ AssTotal(vs, tier, class) \in Nat
<1> DEFINE here == AssInTier(vs, tier)
           single == {v \in here : v.group = "none"}
           names == [v \in here |-> v.group]
           groups == {names[v] : v \in here} \ {"none"}
           Of(k) == {v \in here : v.group = k}
           A == [v \in here |-> AssAmount(v, class)]
           W == [k \in groups |-> AssWorst(Of(k), class)]
           L1 == {v \in loaded : v.group = "none"}
           L2 == {v \in loaded : v.group # "none"}
<1>1. here \in SUBSET vs /\ IsFiniteSet(here)
  BY FS_Subset DEF AssInTier
<1>2. IsFiniteSet(groups) /\ groups = {v.group : v \in here} \ {"none"}
  <2>1. IsFiniteSet({names[v] : v \in here})
    <3> HIDE DEF names, here
    <3> QED BY <1>1, FiniteImage
  <2>2. {names[v] : v \in here} = {v.group : v \in here}
    OBVIOUS
  <2> QED BY <2>1, <2>2, FS_Difference
<1>3. \A v \in here : A[v] = AssAmount(v, class) /\ AssAmount(v, class) \in Nat /\ A[v] \in Nat
  BY <1>1
<1>4. AssTotal(vs, tier, class) = AssAmounts(single, class)
          + AssWorsts(here, groups, class)
  BY <1>2 DEF AssTotal
<1>5. /\ single \in SUBSET here /\ L1 \in SUBSET single /\ L1 \in SUBSET here /\ L2 \in SUBSET here
      /\ L1 \subseteq here /\ L2 \subseteq here /\ L1 \cap L2 = {} /\ L1 \cup L2 = loaded
      /\ loaded \in SUBSET here
  OBVIOUS
<1>6. \A v \in L2 : v.group \in groups /\ v \in Of(v.group)
  BY <1>2, <1>5
<1>7. \A k \in groups : /\ AssWorst(Of(k), class) \in Nat
                        /\ \A v \in Of(k) : AssAmount(v, class) <= AssWorst(Of(k), class)
  <2> SUFFICES ASSUME NEW k \in groups
               PROVE  /\ AssWorst(Of(k), class) \in Nat
                      /\ \A v \in Of(k) : AssAmount(v, class) <= AssWorst(Of(k), class)
    OBVIOUS
  <2>1. Of(k) \in SUBSET here /\ Of(k) # {}
    BY <1>2
  <2>2. IsFiniteSet(Of(k)) /\ \A v \in Of(k) : AssAmount(v, class) \in Nat
    <3> HIDE DEF here, Of
    <3> QED BY <1>1, <1>3, <2>1, FS_Subset
  <2> HIDE DEF Of
  <2> QED BY <2>1, <2>2, AssWorstBounds
<1>8. \A k \in groups : /\ W[k] = AssWorst({v \in here : v.group = k}, class)
                        /\ AssWorst({v \in here : v.group = k}, class) \in Nat /\ W[k] \in Nat
  BY <1>7
<1>9. \A v \in L2 : A[v] <= W[v.group]
  BY <1>3, <1>5, <1>6, <1>7
<1>10. \A v, x \in L2 : v.group = x.group => v = x
  BY <1>5
<1> HIDE DEF A, W, single, groups, Of, L1, L2, here, names
<1>11. PICK a : SumsTo(a, here, A)
  BY <1>1, <1>3, SumDefined
<1>12. PICK w : SumsTo(w, groups, W)
  BY <1>2, <1>8, SumDefined
<1>13. /\ AssAmounts(loaded, class) = a[loaded]
       /\ AssAmounts(single, class) = a[single]
       /\ AssAmounts(L2, class) = a[L2]
  BY <1>1, <1>3, <1>5, <1>11, AssAmountSum
<1>14. AssWorsts(here, groups, class) = w[groups]
  <2>1. groups \in SUBSET groups
    OBVIOUS
  <2> QED BY <1>2, <1>8, <1>12, <2>1, AssWorstSum
<1>15. a[L2] <= w[groups]
  <2>1. IsFiniteSet(L2) /\ L2 \in SUBSET L2
    BY <1>1, <1>5, FS_Subset
  <2>2. \A v \in L2 : A[v] = AssAmount(v, class) /\ AssAmount(v, class) \in Nat /\ A[v] \in Nat
    BY <1>3, <1>5
  <2>3. PICK b : SumsTo(b, L2, A)
    BY <2>1, <2>2, SumDefined
  <2>4. AssAmounts(L2, class) = b[L2]
    BY <2>1, <2>2, <2>3, AssAmountSum
  <2> DEFINE G == [v \in L2 |-> v.group]
  <2>5. G \in [L2 -> groups]
    BY <1>6
  <2>6. \A v \in L2 : A[v] <= W[G[v]]
    BY <1>9
  <2>7. \A v, x \in L2 : G[v] = G[x] => v = x
    BY <1>10
  <2>8. \A k \in groups : W[k] \in Nat
    BY <1>8
  <2>9. \A v \in L2 : A[v] \in Nat
    BY <2>2
  <2> HIDE DEF G
  <2>10. b[L2] <= w[groups]
    BY ONLY <1>2, <1>12, <2>1, <2>3, <2>5, <2>6, <2>7, <2>8, <2>9, SumInjected
  <2> QED BY <1>13, <2>4, <2>10
<1>16. a[L1] <= a[single] /\ a[L1] \in Nat /\ a[single] \in Nat
  BY <1>1, <1>3, <1>5, <1>11, SumOfPart
<1>17. a[loaded] = a[L1] + a[L2]
  BY <1>1, <1>3, <1>5, <1>11, SumOfParts
<1>18. a[L2] \in Nat /\ w[groups] \in Nat
  BY <1>5, <1>11, <1>12 DEF SumsTo
<1>19. AssTotal(vs, tier, class) = a[single] + w[groups]
  BY <1>4, <1>13, <1>14
<1>20. a[loaded] <= a[single] + w[groups] /\ a[loaded] \in Nat /\ a[single] + w[groups] \in Nat
  BY ONLY <1>15, <1>16, <1>17, <1>18
<1> QED BY <1>13, <1>19, <1>20

-----------------------------------------------------------------------------
(* Assets: what a manifest promises.                                       *)

\* A job's figures are numbers.
LEMMA AssJobNumbers ==
    ASSUME NEW recipe \in AssRecipes, NEW j, \E a \in recipe.assets : j.op \in a.outputs,
           AssJobContract(j)
    PROVE  j.op.family \in AssFamilies /\ j.decoded \in Nat /\ j.triangles \in Nat /\ j.draws \in Nat
  BY AssAssumption DEF AssJobContract, AssDecoded, AssFamilies

\* What is held against the budgets and passes is a manifest.
LEMMA AssDigestedOk ==
    ASSUME NEW recipe \in AssRecipes, NEW files, NEW q, AssOpened(recipe, files, q), NEW digest,
           AssWithinBudgets(recipe, AssVariants(q, digest))
    PROVE  AssManifestOk(recipe, AssVariants(q, digest))
<1> DEFINE R(j) == [id |-> j.id, digest |-> digest[j.id], bytes |-> q.size[j.id], group |-> j.group,
                    policy |-> j.policy, decoded |-> j.decoded, triangles |-> j.triangles,
                    draws |-> j.draws, op |-> j.op]
           f == [j \in q.plan |-> R(j)]
           vs == AssVariants(q, digest)
<1>1. vs = {R(j) : j \in q.plan}
  BY DEF AssVariants
<1>2. IsFiniteSet(vs)
  <2>1. IsFiniteSet(q.plan)
    BY DEF AssOpened, AssJobsOk
  <2>2. {f[j] : j \in q.plan} = vs
    BY <1>1
  <2>3. IsFiniteSet({f[j] : j \in q.plan})
    <3> HIDE DEF f
    <3> QED BY <2>1, FiniteImage
  <2> QED BY <2>2, <2>3
<1>3. ASSUME NEW v \in vs
      PROVE  /\ AssPolicyValid(v.policy, v.op.family) /\ v.op.family \in AssFamilies
             /\ \A class \in AssClasses : AssAmount(v, class) \in Nat
  BY <1>1, AssJobNumbers DEF AssOpened, AssJobsOk, AssAmount, AssClasses
<1> HIDE DEF vs
<1>4. AssManifestOk(recipe, vs)
  BY <1>2, <1>3 DEF AssManifestOk, vs
<1> QED BY <1>4 DEF vs

\* A page of a tier that takes one of each group stays in the tier's budgets.
LEMMA AssLoadFits ==
    ASSUME NEW recipe \in AssRecipes, NEW vs, AssManifestOk(recipe, vs), NEW tier \in AssTiers,
           NEW reduced, NEW save, NEW loaded \in SUBSET AssDelivery(vs, tier, reduced, save),
           \A v \in loaded, w \in loaded : v.group = w.group /\ v.group /= "none" => v = w,
           NEW b \in recipe.profiles, tier \in DOMAIN b.tiers, NEW class \in AssClasses
    PROVE  AssAmounts(loaded, class) <= b.tiers[tier][class]
  BY AssSelectionFits, AssAssumption DEF AssDelivery, AssManifestOk, AssWithinBudgets

\* Pages that must hold still load neither video nor 3D.
LEMMA AssStillPages ==
    ASSUME NEW recipe, NEW vs, AssManifestOk(recipe, vs),
           NEW v \in AssDelivery(vs, "universal", FALSE, FALSE) \cup AssDelivery(vs, "signature", TRUE, FALSE)
    PROVE  v.op.family \in {"image", "font"}
  BY DEF AssDelivery, AssInTier, AssManifestOk, AssPolicyValid, AssFamilies

LEMMA AssMeans == AssInvariant => AssGuarantees
  BY AssStillPages, AssLoadFits DEF AssInvariant, AssAddressesAreHonest, AssDoneOk, AssKeeps,
     AssBudgetsBound, AssGuarantees

-----------------------------------------------------------------------------
(* Assets: who writes where.                                               *)

\* A step of one publisher that writes nothing.
LEMMA AssQuietStep ==
    ASSUME NEW dest, NEW proc, NEW next, AssWritersOk(dest, proc), AssOutOk(dest, proc),
           NEW p \in AssPublishers, \A q \in AssPublishers \ {p} : next[q] = proc[q], ~AssBusy(next[p]),
           \A i \in AssOut(next[p]) :
              (i \in AssOut(proc[p]) /\ next[p].digest[i] = proc[p].digest[i])
              \/ AssKeeps(dest, next, <<i, next[p].digest[i]>>)
    PROVE  /\ AssWritersOk(dest, next) /\ AssOutOk(dest, next)
           /\ \A path : AssKeeps(dest, proc, path) => AssKeeps(dest, next, path)
<1>1. \A path : AssKeeps(dest, proc, path) => AssKeeps(dest, next, path)
  BY DEF AssKeeps
<1>2. AssWritersOk(dest, next)
  BY DEF AssWritersOk
<1>3. ASSUME NEW q \in AssPublishers, NEW i \in AssOut(next[q])
      PROVE  AssKeeps(dest, next, <<i, next[q].digest[i]>>)
  BY <1>3, <1>1 DEF AssOutOk
<1> QED BY <1>1, <1>2, <1>3 DEF AssOutOk

\* A step of one publisher that writes to a path nobody else writes to and
\* that holds nothing published.
LEMMA AssWritingStep ==
    ASSUME NEW dest, NEW proc, NEW now, NEW next, AssWritersOk(dest, proc), AssOutOk(dest, proc),
           NEW p \in AssPublishers, \A q \in AssPublishers \ {p} : next[q] = proc[q],
           NEW P, DOMAIN now = DOMAIN dest, \A path \in DOMAIN dest : path # P => now[path] = dest[path], ~AssKeeps(dest, proc, P),
           \A q \in AssPublishers \ {p} : AssBusy(proc[q]) => AssAt(proc[q]) # P,
           AssBusy(next[p]) => AssAt(next[p]) = P /\ P \in DOMAIN dest /\ now[P] /= AssAbsent,
           AssOut(next[p]) = AssOut(proc[p]), next[p].digest = proc[p].digest
    PROVE  /\ AssWritersOk(now, next) /\ AssOutOk(now, next)
           /\ \A path : AssKeeps(dest, proc, path) => AssKeeps(now, next, path)
  BY DEF AssKeeps, AssWritersOk, AssOutOk

-----------------------------------------------------------------------------
(* Assets: the invariant is preserved.                                     *)

LEMMA AssRunGrows ==
    ASSUME NEW recipe, NEW n \in Nat, NEW k \in Nat, n <= k, NEW p, NEW q, AssRunOk(recipe, n, p, q)
    PROVE  AssRunOk(recipe, k, p, q)
  BY DEF AssOpened, AssRunOk

\* A step of someone else: files grow, the plan may be another.
LEMMA AssOutsideStep ==
    ASSUME AssInvariant, AssFilesOk', Len(assIno) <= Len(assIno'),
           assRecipe' = assRecipe, assProc' = assProc, assDest' = assDest, assDone' = assDone,
           assPlan' # <<>> \/ assPlan' = assPlan,
           assPlan' = <<>> \/ (assPlan' = <<assPlan'[1]>> /\ AssPlanOk(assRecipe, assPlan'[1]))
    PROVE  AssInvariant'
<1>1. Len(assIno) \in Nat /\ Len(assIno') \in Nat
  BY DEF AssInvariant, AssFilesOk
<1>2. \A p \in AssPublishers : AssRunOk(assRecipe', Len(assIno'), p, assProc'[p])
  BY <1>1, AssRunGrows DEF AssInvariant
<1>3. \A m \in assDone' : AssDoneOk(m)'
  BY DEF AssInvariant, AssDoneOk
<1> QED BY <1>2, <1>3 DEF AssInvariant

\* A step of one publisher.
LEMMA AssInsideStep ==
    ASSUME AssInvariant, NEW p \in AssPublishers, AssFilesOk', Len(assIno) <= Len(assIno'),
           assRecipe' = assRecipe, assPlan' = assPlan,
           DOMAIN assProc' = AssPublishers, \A q \in AssPublishers \ {p} : assProc'[q] = assProc[q],
           AssRunOk(assRecipe, Len(assIno'), p, assProc'[p]),
           assProc'[p].at \in {"validate", "digest"} => assPlan /= <<>>,
           AssWritersOk(assDest', assProc'), AssOutOk(assDest', assProc'),
           \A path : AssKeeps(assDest, assProc, path) => AssKeeps(assDest', assProc', path),
           \A m \in assDone' : m \in assDone \/ AssDoneOk(m)'
    PROVE  AssInvariant'
<1>1. Len(assIno) \in Nat /\ Len(assIno') \in Nat
  BY DEF AssInvariant, AssFilesOk
<1>2. \A q \in AssPublishers : /\ AssRunOk(assRecipe', Len(assIno'), q, assProc'[q])
                               /\ assProc'[q].at \in {"validate", "digest"} => assPlan' /= <<>>
  BY <1>1, AssRunGrows DEF AssInvariant
<1>3. \A m \in assDone' : AssDoneOk(m)'
  BY DEF AssInvariant, AssDoneOk
<1>4. assRecipe' \in AssRecipes
  BY DEF AssInvariant
<1>5. assPlan' = <<>> \/ (assPlan' = <<assPlan'[1]>> /\ AssPlanOk(assRecipe', assPlan'[1]))
  BY DEF AssInvariant
<1> QED BY <1>2, <1>3, <1>4, <1>5 DEF AssInvariant

LEMMA AssQuietKeeps ==
    ASSUME AssInvariant, NEW p \in AssPublishers, AssFilesOk', Len(assIno) <= Len(assIno'),
           assRecipe' = assRecipe, assPlan' = assPlan, assDest' = assDest, assDone' = assDone,
           DOMAIN assProc' = AssPublishers, \A q \in AssPublishers \ {p} : assProc'[q] = assProc[q],
           AssRunOk(assRecipe, Len(assIno'), p, assProc'[p]),
           assProc'[p].at \in {"validate", "digest"} => assPlan /= <<>>,
           ~AssBusy(assProc'[p]),
           \A i \in AssOut(assProc'[p]) :
              (i \in AssOut(assProc[p]) /\ assProc'[p].digest[i] = assProc[p].digest[i])
              \/ AssKeeps(assDest, assProc', <<i, assProc'[p].digest[i]>>)
    PROVE  AssInvariant'
  BY AssQuietStep, AssInsideStep DEF AssInvariant

LEMMA AssWriteKeeps ==
    ASSUME AssInvariant, NEW p \in AssPublishers, assIno' = assIno, assStage' = assStage,
           DOMAIN assDest' = DOMAIN assDest,
           assRecipe' = assRecipe, assPlan' = assPlan, assDone' = assDone,
           DOMAIN assProc' = AssPublishers, \A q \in AssPublishers \ {p} : assProc'[q] = assProc[q],
           AssRunOk(assRecipe, Len(assIno), p, assProc'[p]),
           assProc'[p].at \notin {"validate", "digest"},
           NEW P, \A path \in DOMAIN assDest : path # P => assDest'[path] = assDest[path], ~AssKeeps(assDest, assProc, P),
           \A q \in AssPublishers \ {p} : AssBusy(assProc[q]) => AssAt(assProc[q]) # P,
           AssBusy(assProc'[p]) => AssAt(assProc'[p]) = P /\ P \in DOMAIN assDest /\ assDest'[P] /= AssAbsent,
           AssOut(assProc'[p]) = AssOut(assProc[p]), assProc'[p].digest = assProc[p].digest
    PROVE  AssInvariant'
<1> DEFINE proc == assProc
           next == assProc'
           dest == assDest
           now == assDest'
<1>1. AssWritersOk(dest, proc) /\ AssOutOk(dest, proc)
  BY DEF AssInvariant
<1>2. /\ \A q \in AssPublishers \ {p} : next[q] = proc[q]
      /\ DOMAIN now = DOMAIN dest /\ \A path \in DOMAIN dest : path # P => now[path] = dest[path]
      /\ ~AssKeeps(dest, proc, P)
      /\ \A q \in AssPublishers \ {p} : AssBusy(proc[q]) => AssAt(proc[q]) # P
      /\ AssBusy(next[p]) => AssAt(next[p]) = P /\ P \in DOMAIN dest /\ now[P] /= AssAbsent
      /\ AssOut(next[p]) = AssOut(proc[p]) /\ next[p].digest = proc[p].digest
  OBVIOUS
<1> HIDE DEF proc, next, dest, now
<1>3. /\ AssWritersOk(now, next) /\ AssOutOk(now, next)
      /\ \A path : AssKeeps(dest, proc, path) => AssKeeps(now, next, path)
  BY ONLY <1>1, <1>2, AssWritingStep, p \in AssPublishers
<1>4. /\ AssWritersOk(assDest', assProc') /\ AssOutOk(assDest', assProc')
      /\ \A path : AssKeeps(assDest, assProc, path) => AssKeeps(assDest', assProc', path)
  BY <1>3 DEF proc, next, dest, now
<1>5. AssFilesOk' /\ Len(assIno) <= Len(assIno')
  BY DEF AssInvariant, AssFilesOk
<1> QED BY <1>4, <1>5, AssInsideStep

LEMMA AssFilesStay ==
    ASSUME AssInvariant, assIno' = assIno, assDest' = assDest,
           assStage' = assStage \/ \E i : assStage' = [assStage EXCEPT ![i] = 0]
    PROVE  AssFilesOk' /\ Len(assIno) <= Len(assIno')
  BY DEF AssInvariant, AssFilesOk

LEMMA AssValidateKeeps ==
    ASSUME AssInvariant, NEW p \in AssPublishers, AssValidate(p)
    PROVE  AssInvariant'
<1> DEFINE r == assProc[p]
           t == [r EXCEPT !.at = "digest"]
<1>1. /\ r.at = "validate" /\ assProc' = [assProc EXCEPT ![p] = t]
      /\ UNCHANGED <<assRecipe, assPlan, assIno, assLeft, assStage, assDest, assDone>>
  BY DEF AssValidate, AssGo
<1>2. /\ DOMAIN assProc = AssPublishers /\ AssRunOk(assRecipe, Len(assIno), p, r)
      /\ r.at \in {"validate", "digest"} => assPlan # <<>>
  BY DEF AssInvariant
<1>3. t = [r EXCEPT !.at = "digest"]
  OBVIOUS
<1>4. DOMAIN assProc' = AssPublishers /\ assProc'[p] = t /\ \A q \in AssPublishers \ {p} : assProc'[q] = assProc[q]
  BY <1>1, <1>2
<1> HIDE DEF t, r
<1>5. /\ t.at = "digest" /\ t.plan = r.plan /\ t.held = r.held /\ t.size = r.size /\ t.digest = r.digest
      /\ t.todo = r.todo /\ t.early = r.early /\ AssRunShape(t)
  <2>1. AssRunShape(r)
    BY <1>2 DEF AssRunOk
  <2> QED BY ONLY <1>3, <2>1 DEF AssRunShape
<1>6. AssOpened(assRecipe, Len(assIno), t)
  BY <1>1, <1>2, <1>5 DEF AssRunOk, AssOpened
<1>7. AssRunOk(assRecipe, Len(assIno), p, t)
  BY <1>2, <1>5, <1>6 DEF AssRunOk
<1>8. ~AssBusy(t) /\ AssOut(t) = AssOut(r)
  BY <1>5 DEF AssBusy, AssOut
<1>9. AssFilesOk' /\ Len(assIno) <= Len(assIno')
  BY <1>1, AssFilesStay
<1>10. /\ AssRunOk(assRecipe, Len(assIno'), p, assProc'[p]) /\ ~AssBusy(assProc'[p])
       /\ assProc'[p].at \in {"validate", "digest"} => assPlan /= <<>>
       /\ \A i \in AssOut(assProc'[p]) :
             i \in AssOut(assProc[p]) /\ assProc'[p].digest[i] = assProc[p].digest[i]
  BY <1>1, <1>2, <1>4, <1>5, <1>7, <1>8 DEF r
<1> QED BY <1>1, <1>4, <1>9, <1>10, AssQuietKeeps

LEMMA AssCheckKeeps ==
    ASSUME AssInvariant, NEW p \in AssPublishers, AssCheck(p)
    PROVE  AssInvariant'
<1> DEFINE r == assProc[p]
           t == [r EXCEPT !.at = "publish"]
<1>1. r.at = "check" /\ assProc' = [assProc EXCEPT ![p] = t]
      /\ UNCHANGED <<assRecipe, assPlan, assIno, assLeft, assStage, assDest, assDone>>
  BY DEF AssCheck, AssGo
<1>2. /\ DOMAIN assProc = AssPublishers /\ AssRunOk(assRecipe, Len(assIno), p, r)
      /\ r.at \in {"validate", "digest"} => assPlan # <<>>
  BY DEF AssInvariant
<1>3. t = [r EXCEPT !.at = "publish"]
  OBVIOUS
<1>4. DOMAIN assProc' = AssPublishers /\ assProc'[p] = t /\ \A q \in AssPublishers \ {p} : assProc'[q] = assProc[q]
  BY <1>1, <1>2
<1> HIDE DEF t, r
<1>5. /\ t.at = "publish" /\ t.plan = r.plan /\ t.size = r.size /\ t.digest = r.digest /\ t.held = r.held
      /\ t.todo = r.todo /\ t.early = r.early
      /\ AssRunShape(t)
  <2>1. AssRunShape(r)
    BY <1>2 DEF AssRunOk
  <2> QED BY ONLY <1>3, <2>1 DEF AssRunShape
<1>6. AssVariants(t, t.digest) = AssVariants(r, r.digest)
  BY <1>5 DEF AssVariants
<1>7. AssRunOk(assRecipe, Len(assIno), p, t)
  BY <1>1, <1>2, <1>5, <1>6 DEF AssRunOk
<1>8. ~AssBusy(t) /\ AssOut(t) = AssOut(r)
  BY <1>5 DEF AssBusy, AssOut
<1>9. AssFilesOk' /\ Len(assIno) <= Len(assIno')
  BY <1>1, AssFilesStay
<1>10. /\ AssRunOk(assRecipe, Len(assIno'), p, assProc'[p]) /\ ~AssBusy(assProc'[p])
       /\ assProc'[p].at \in {"validate", "digest"} => assPlan /= <<>>
       /\ \A i \in AssOut(assProc'[p]) :
             i \in AssOut(assProc[p]) /\ assProc'[p].digest[i] = assProc[p].digest[i]
  BY <1>1, <1>2, <1>4, <1>5, <1>7, <1>8 DEF r
<1> QED BY <1>1, <1>4, <1>9, <1>10, AssQuietKeeps

LEMMA AssStopsKeeps ==
    ASSUME AssInvariant, NEW p \in AssPublishers, AssStops(p)
    PROVE  AssInvariant'
<1> DEFINE r == assProc[p]
           t == [r EXCEPT !.at = "failed"]
<1>1. r.at /= "off" /\ assProc' = [assProc EXCEPT ![p] = t]
      /\ UNCHANGED <<assRecipe, assPlan, assIno, assLeft, assStage, assDest, assDone>>
  BY DEF AssStops, AssGo
<1>2. /\ DOMAIN assProc = AssPublishers /\ AssRunOk(assRecipe, Len(assIno), p, r)
      /\ r.at \in {"validate", "digest"} => assPlan # <<>>
  BY DEF AssInvariant
<1>3. t = [r EXCEPT !.at = "failed"]
  OBVIOUS
<1>4. DOMAIN assProc' = AssPublishers /\ assProc'[p] = t /\ \A q \in AssPublishers \ {p} : assProc'[q] = assProc[q]
  BY <1>1, <1>2
<1> HIDE DEF t, r
<1>5. /\ t.at = "failed" /\ t.plan = r.plan /\ t.size = r.size /\ t.digest = r.digest /\ t.held = r.held
      /\ t.todo = r.todo /\ t.early = r.early
      /\ AssRunShape(t)
  <2>1. AssRunShape(r)
    BY <1>2 DEF AssRunOk
  <2> QED BY ONLY <1>3, <2>1 DEF AssRunShape
<1>7. AssRunOk(assRecipe, Len(assIno), p, t)
  BY <1>2, <1>5 DEF AssRunOk
<1>8. ~AssBusy(t) /\ AssOut(t) = AssOut(r)
  BY <1>5 DEF AssBusy, AssOut
<1>9. AssFilesOk' /\ Len(assIno) <= Len(assIno')
  BY <1>1, AssFilesStay
<1>10. /\ AssRunOk(assRecipe, Len(assIno'), p, assProc'[p]) /\ ~AssBusy(assProc'[p])
       /\ assProc'[p].at \in {"validate", "digest"} => assPlan /= <<>>
       /\ \A i \in AssOut(assProc'[p]) :
             i \in AssOut(assProc[p]) /\ assProc'[p].digest[i] = assProc[p].digest[i]
  BY <1>1, <1>2, <1>4, <1>5, <1>7, <1>8 DEF r
<1> QED BY <1>1, <1>4, <1>9, <1>10, AssQuietKeeps

LEMMA AssOpenKeeps ==
    ASSUME AssInvariant, NEW p \in AssPublishers, AssOpen(p)
    PROVE  AssInvariant'
<1> DEFINE r == assProc[p]
           jobs == assPlan[1].jobs
           ids == {j.id : j \in jobs}
           held == [i \in ids |-> assStage[i]]
           size == [i \in ids |-> assIno[held[i]]]
           t == [r EXCEPT !.at = "validate", !.plan = jobs, !.held = held, !.size = size, !.todo = ids]
<1>1. /\ r.at = "idle" /\ p \in AssFinalizers /\ assPlan # <<>> /\ AssPlanValid(assPlan[1])
      /\ \A i \in ids : held[i] # 0
      /\ assProc' = [assProc EXCEPT ![p] = t]
      /\ UNCHANGED <<assRecipe, assPlan, assIno, assLeft, assStage, assDest, assDone>>
  BY DEF AssOpen, AssGo
<1>2. /\ DOMAIN assProc = AssPublishers /\ AssRunOk(assRecipe, Len(assIno), p, r)
      /\ r.at \in {"validate", "digest"} => assPlan # <<>>
  BY DEF AssInvariant
<1>3. t = [r EXCEPT !.at = "validate", !.plan = jobs, !.held = held, !.size = size, !.todo = ids]
  OBVIOUS
<1>4. DOMAIN assProc' = AssPublishers /\ assProc'[p] = t /\ \A q \in AssPublishers \ {p} : assProc'[q] = assProc[q]
  BY <1>1, <1>2
<1> HIDE DEF t, r
<1>5. /\ t.at = "validate" /\ t.plan = jobs /\ t.held = held /\ t.size = size /\ t.todo = ids
      /\ t.digest = r.digest /\ t.early = r.early
      /\ AssRunShape(t)
  <2>1. AssRunShape(r)
    BY <1>2 DEF AssRunOk
  <2> QED BY ONLY <1>3, <2>1 DEF AssRunShape
<1>6. AssJobsOk(assRecipe, jobs)
  BY <1>1 DEF AssInvariant, AssPlanOk
<1>7. ids \subseteq AssIds
  BY <1>6 DEF AssJobsOk
<1>8. DOMAIN held = ids /\ \A i \in ids : held[i] \in 1..Len(assIno) /\ size[i] \in Nat
  <2> SUFFICES ASSUME NEW i \in ids PROVE held[i] \in 1..Len(assIno) /\ size[i] \in Nat
    OBVIOUS
  <2>1. /\ assStage \in [AssIds -> 0..Len(assIno)] /\ Len(assIno) \in Nat
        /\ \A k \in 1..Len(assIno) : assIno[k] \in AssContents \cup {0}
    BY DEF AssInvariant, AssFilesOk
  <2>2. held[i] \in 0..Len(assIno) /\ held[i] # 0
    BY <1>1, <1>7, <2>1
  <2>3. held[i] \in 1..Len(assIno)
    BY <2>1, <2>2
  <2>4. assIno[held[i]] \in AssContents \cup {0}
    BY <2>1, <2>3
  <2> QED BY <2>3, <2>4 DEF AssContents
<1>9. \A j \in jobs : AssPolicyValid(j.policy, j.op.family) /\ AssJobContract(j)
  BY <1>1 DEF AssPlanValid
<1>10. AssOpened(assRecipe, Len(assIno), t)
  <2> HIDE DEF held, size, jobs
  <2> QED BY <1>5, <1>6, <1>8, <1>9 DEF AssOpened
<1>11. DOMAIN r.digest = {} /\ t.digest = r.digest
  BY <1>1, <1>2, <1>5 DEF AssRunOk
<1> HIDE DEF held, size, ids, jobs
<1>12. AssRunOk(assRecipe, Len(assIno), p, t)
  BY <1>5, <1>7, <1>10, <1>11 DEF AssRunOk, AssNames
<1>13. ~AssBusy(t) /\ AssOut(t) = {}
  BY <1>5, <1>11 DEF AssBusy, AssOut
<1>14. AssFilesOk' /\ Len(assIno) <= Len(assIno')
  BY <1>1, AssFilesStay
<1>15. /\ AssRunOk(assRecipe, Len(assIno'), p, assProc'[p]) /\ ~AssBusy(assProc'[p])
       /\ assProc'[p].at \in {"validate", "digest"} => assPlan /= <<>>
       /\ AssOut(assProc'[p]) = {}
  BY <1>1, <1>4, <1>12, <1>13
<1> QED BY <1>1, <1>4, <1>14, <1>15, AssQuietKeeps

LEMMA AssDigestKeeps ==
    ASSUME AssInvariant, NEW p \in AssPublishers, AssDigest(p)
    PROVE  AssInvariant'
<1> DEFINE r == assProc[p]
           d == [i \in r.todo |-> AssHeldBytes(p, i)]
           t == [r EXCEPT !.at = "check", !.digest = d]
<1>1. /\ r.at = "digest" /\ AssWithinBudgets(assPlan[1], AssVariants(r, d))
      /\ assProc' = [assProc EXCEPT ![p] = t]
      /\ UNCHANGED <<assRecipe, assPlan, assIno, assLeft, assStage, assDest, assDone>>
  BY DEF AssDigest, AssGo
<1>2. /\ DOMAIN assProc = AssPublishers /\ AssRunOk(assRecipe, Len(assIno), p, r)
      /\ r.at \in {"validate", "digest"} => assPlan # <<>>
  BY DEF AssInvariant
<1>3. t = [r EXCEPT !.at = "check", !.digest = d]
  OBVIOUS
<1>4. DOMAIN assProc' = AssPublishers /\ assProc'[p] = t /\ \A q \in AssPublishers \ {p} : assProc'[q] = assProc[q]
  BY <1>1, <1>2
<1> HIDE DEF t, r
<1>5. /\ t.at = "check" /\ t.digest = d /\ t.plan = r.plan /\ t.size = r.size /\ t.held = r.held /\ t.todo = r.todo /\ t.early = r.early
      /\ AssRunShape(t)
  <2>1. AssRunShape(r)
    BY <1>2 DEF AssRunOk
  <2> QED BY ONLY <1>3, <2>1 DEF AssRunShape
<1>6. AssOpened(assRecipe, Len(assIno), r) /\ assPlan # <<>> /\ assRecipe \in AssRecipes
  BY <1>1, <1>2 DEF AssRunOk, AssInvariant
<1>7. AssWithinBudgets(assRecipe, AssVariants(r, d))
  BY <1>6, <1>1 DEF AssInvariant, AssPlanOk, AssWithinBudgets
<1>8. AssManifestOk(assRecipe, AssVariants(t, t.digest))
  <2> HIDE DEF d
  <2>1. AssManifestOk(assRecipe, AssVariants(r, d))
    BY <1>6, <1>7, AssDigestedOk
  <2>2. AssVariants(t, t.digest) = AssVariants(r, d)
    BY <1>5 DEF AssVariants
  <2> QED BY <2>1, <2>2
<1>9. DOMAIN d = r.todo /\ \A i \in r.todo : /\ d[i] \in AssContents \cup {0}
                                             /\ i \in DOMAIN r.held /\ r.held[i] \in 1..Len(assIno)
  BY <1>6 DEF AssOpened, AssInvariant, AssFilesOk, AssHeldBytes, r
<1> HIDE DEF d
<1>10. AssRunOk(assRecipe, Len(assIno), p, t)
  BY <1>2, <1>5, <1>8, <1>9 DEF AssRunOk
<1>11. ~AssBusy(t) /\ AssOut(t) = {}
  BY <1>5, <1>9 DEF AssBusy, AssOut
<1>12. AssFilesOk' /\ Len(assIno) <= Len(assIno')
  BY <1>1, AssFilesStay
<1>13. /\ AssRunOk(assRecipe, Len(assIno'), p, assProc'[p]) /\ ~AssBusy(assProc'[p])
       /\ assProc'[p].at \notin {"validate", "digest"} /\ AssOut(assProc'[p]) = {}
  BY <1>1, <1>4, <1>5, <1>10, <1>11
<1> QED BY <1>1, <1>4, <1>12, <1>13, AssQuietKeeps

LEMMA AssPathOk ==
    ASSUME AssInvariant, NEW p \in AssPublishers, NEW i \in DOMAIN assProc[p].digest
    PROVE  /\ <<i, assProc[p].digest[i]>> \in DOMAIN assDest /\ assProc[p].digest[i] # AssAbsent
           /\ i \in DOMAIN assProc[p].held /\ assProc[p].held[i] \in 1..Len(assIno)
  BY DEF AssInvariant, AssFilesOk, AssRunOk, AssContents, AssAbsent

\* A variant is published when its path holds its bytes and nobody else writes
\* to it, or early.

LEMMA AssPublishedKeeps ==
    ASSUME AssInvariant, NEW p \in AssPublishers, NEW i, NEW e,
           assProc' = [assProc EXCEPT ![p] = AssPublished(p, i, e)], assStage' = AssUnstaged(p, i),
           UNCHANGED <<assRecipe, assPlan, assIno, assDest, assDone>>,
           assProc[p].at \in {"publish", "verify"}, i \in assProc[p].todo \cap DOMAIN assProc[p].digest,
           assProc[p].early \subseteq e,
           i \in e \/ (/\ assDest[<<i, assProc[p].digest[i]>>] = assProc[p].digest[i]
                      /\ \A q \in AssPublishers \ {p} :
                            AssBusy(assProc[q]) => AssAt(assProc[q]) # <<i, assProc[p].digest[i]>>)
    PROVE  AssInvariant'
<1> DEFINE r == assProc[p]
           a == IF p \in AssRasters THEN "idle" ELSE "publish"
           td == r.todo \ {i}
           t == [r EXCEPT !.at = a, !.todo = td, !.cur = <<>>, !.early = e]
<1>1. r.at \in {"publish", "verify"} /\ assProc' = [assProc EXCEPT ![p] = t]
      /\ UNCHANGED <<assRecipe, assPlan, assIno, assDest, assDone>>
  BY DEF AssPublished
<1>2. /\ DOMAIN assProc = AssPublishers /\ AssRunOk(assRecipe, Len(assIno), p, r)
      /\ r.at \in {"validate", "digest"} => assPlan # <<>>
  BY DEF AssInvariant
<1>3. t = [r EXCEPT !.at = a, !.todo = td, !.cur = <<>>, !.early = e]
  OBVIOUS
<1>4. DOMAIN assProc' = AssPublishers /\ assProc'[p] = t /\ \A q \in AssPublishers \ {p} : assProc'[q] = assProc[q]
  BY <1>1, <1>2
<1> HIDE DEF t, r
<1>5. /\ t.at = a /\ t.todo = td /\ t.early = e /\ t.plan = r.plan /\ t.size = r.size /\ t.digest = r.digest /\ t.held = r.held
      /\ AssRunShape(t)
  <2>1. AssRunShape(r)
    BY <1>2 DEF AssRunOk
  <2> QED BY ONLY <1>3, <2>1 DEF AssRunShape
<1>6. AssVariants(t, t.digest) = AssVariants(r, r.digest)
  BY <1>5 DEF AssVariants
<1>7. AssRunOk(assRecipe, Len(assIno), p, t)
  BY AssAssumption, <1>2, <1>1, <1>5, <1>6 DEF AssRunOk
<1>8. ~AssBusy(t) /\ a \notin {"validate", "digest"}
  BY <1>5 DEF AssBusy
<1> DEFINE path == <<i, r.digest[i]>>
<1>9. \A k \in AssOut(t) : (k \in AssOut(r) /\ t.digest[k] = r.digest[k]) \/ (k = i /\ i \notin e)
  BY <1>5 DEF AssOut, r
<1>10. i \notin e => AssKeeps(assDest, assProc', path)
  BY AssPathOk, <1>4, <1>8 DEF r, AssKeeps
<1>11. \A k \in AssOut(t) : (k \in AssOut(r) /\ t.digest[k] = r.digest[k])
                              \/ AssKeeps(assDest, assProc', <<k, t.digest[k]>>)
  BY <1>5, <1>9, <1>10
<1>12. AssFilesOk' /\ Len(assIno) <= Len(assIno')
  BY <1>1, AssFilesStay DEF AssUnstaged
<1> HIDE DEF path, a
<1>13. /\ AssRunOk(assRecipe, Len(assIno'), p, assProc'[p]) /\ ~AssBusy(assProc'[p])
       /\ assProc'[p].at \in {"validate", "digest"} => assPlan /= <<>>
       /\ \A k \in AssOut(assProc'[p]) :
             (k \in AssOut(assProc[p]) /\ assProc'[p].digest[k] = assProc[p].digest[k])
             \/ AssKeeps(assDest, assProc', <<k, assProc'[p].digest[k]>>)
  BY <1>1, <1>4, <1>5, <1>7, <1>8, <1>11 DEF r
<1> QED BY <1>1, <1>4, <1>12, <1>13, AssQuietKeeps

LEMMA AssPresentKeeps ==
    ASSUME AssInvariant, NEW p \in AssPublishers, AssPresent(p)
    PROVE  AssInvariant'
<1>1. PICK i \in AssReady(p) :
          /\ assDest[AssPath(p, i)] = assProc[p].digest[i]
          /\ assProc' = [assProc EXCEPT ![p] = AssPublished(p, i,
                 assProc[p].early \cup (IF AssContended(AssPath(p, i)) THEN {i} ELSE {}))]
          /\ assStage' = AssUnstaged(p, i)
  BY DEF AssPresent, AssGo
<1>2. UNCHANGED <<assRecipe, assPlan, assIno, assDest, assDone>> /\ assProc[p].at \in {"publish", "verify"}
  BY DEF AssPresent, AssGo
<1>3. PICK e : e = assProc[p].early \cup (IF AssContended(AssPath(p, i)) THEN {i} ELSE {})
  OBVIOUS
<1>4. i \in assProc[p].todo \cap DOMAIN assProc[p].digest /\ assProc[p].early \subseteq e
  BY <1>3 DEF AssReady
<1>5. i \in e \/ (/\ assDest[<<i, assProc[p].digest[i]>>] = assProc[p].digest[i]
                  /\ \A q \in AssPublishers \ {p} :
                        AssBusy(assProc[q]) => AssAt(assProc[q]) # <<i, assProc[p].digest[i]>>)
  BY <1>1, <1>3 DEF AssContended, AssPath, AssWriting, AssBusy, AssAt, AssPublishers
<1>6. assProc' = [assProc EXCEPT ![p] = AssPublished(p, i, e)] /\ assStage' = AssUnstaged(p, i)
  BY <1>1, <1>3
<1> QED BY <1>2, <1>4, <1>5, <1>6, AssPublishedKeeps

LEMMA AssVerifyKeeps ==
    ASSUME AssInvariant, NEW p \in AssPublishers, AssVerify(p)
    PROVE  AssInvariant'
<1>1. PICK i, e : i = assProc[p].cur /\ e = assProc[p].early
  OBVIOUS
<1>2. /\ assProc[p].at = "verify" /\ assProc' = [assProc EXCEPT ![p] = AssPublished(p, i, e)]
      /\ assStage' = AssUnstaged(p, i) /\ UNCHANGED <<assRecipe, assPlan, assIno, assDest, assDone>>
      /\ assDest[<<i, assProc[p].digest[i]>>] = assProc[p].digest[i]
  BY <1>1 DEF AssVerify, AssGo, AssCopied, AssPath
<1>3. i \in assProc[p].todo \cap DOMAIN assProc[p].digest
  BY <1>1, <1>2 DEF AssInvariant, AssRunOk
<1>4. AssBusy(assProc[p]) /\ AssAt(assProc[p]) = <<i, assProc[p].digest[i]>>
  BY <1>1, <1>2 DEF AssBusy, AssAt
<1>5. \A q \in AssPublishers \ {p} : AssBusy(assProc[q]) => AssAt(assProc[q]) # <<i, assProc[p].digest[i]>>
  BY <1>4 DEF AssInvariant, AssWritersOk
<1> QED BY <1>1, <1>2, <1>3, <1>5, AssPublishedKeeps

LEMMA AssEncodeKeeps ==
    ASSUME AssInvariant, NEW p \in AssPublishers, AssEncode(p)
    PROVE  AssInvariant'
<1> DEFINE r == assProc[p]
           n == Len(assIno) + 1
<1>1. PICK i \in r.todo : \E c \in AssContents :
          /\ assIno' = Append(assIno, c)
          /\ assProc' = [assProc EXCEPT ![p] =
                 [r EXCEPT !.at = "publish",
                           !.held = [k \in DOMAIN r.held \cup {i} |-> IF k = i THEN n ELSE r.held[k]],
                           !.digest = [k \in DOMAIN r.digest \cup {i} |-> IF k = i THEN c ELSE r.digest[k]]]]
  BY ZenonT(60) DEF AssEncode
<1>2. PICK c \in AssContents :
          /\ assIno' = Append(assIno, c)
          /\ assProc' = [assProc EXCEPT ![p] =
                 [r EXCEPT !.at = "publish",
                           !.held = [k \in DOMAIN r.held \cup {i} |-> IF k = i THEN n ELSE r.held[k]],
                           !.digest = [k \in DOMAIN r.digest \cup {i} |-> IF k = i THEN c ELSE r.digest[k]]]]
  BY <1>1
<1> DEFINE h == [k \in DOMAIN r.held \cup {i} |-> IF k = i THEN n ELSE r.held[k]]
           d == [k \in DOMAIN r.digest \cup {i} |-> IF k = i THEN c ELSE r.digest[k]]
           t == [r EXCEPT !.at = "publish", !.held = h, !.digest = d]
<1>3. /\ assProc' = [assProc EXCEPT ![p] = t] /\ p \in AssRasters
      /\ UNCHANGED <<assRecipe, assPlan, assStage, assDest, assDone>>
  BY <1>2 DEF AssEncode
<1>4. DOMAIN assProc = AssPublishers /\ AssRunOk(assRecipe, Len(assIno), p, r)
  BY DEF AssInvariant
<1>5. t = [r EXCEPT !.at = "publish", !.held = h, !.digest = d]
  OBVIOUS
<1>6. DOMAIN assProc' = AssPublishers /\ assProc'[p] = t /\ \A q \in AssPublishers \ {p} : assProc'[q] = assProc[q]
  BY <1>3, <1>4
<1>7. /\ DOMAIN d = DOMAIN r.digest \cup {i} /\ d[i] = c
      /\ \A k \in DOMAIN r.digest : k # i => d[k] = r.digest[k]
  OBVIOUS
<1>8. DOMAIN h = DOMAIN r.held \cup {i} /\ h[i] = n /\ \A k \in DOMAIN r.held : k # i => h[k] = r.held[k]
  OBVIOUS
<1>9. /\ assIno' \in Seq(AssContents \cup {0}) /\ Len(assIno') = n /\ Len(assIno) \in Nat
  BY <1>2 DEF AssInvariant, AssFilesOk
<1> HIDE DEF t, r, h, d
<1>10. /\ t.at = "publish" /\ t.held = h /\ t.digest = d /\ t.todo = r.todo /\ t.early = r.early
       /\ AssRunShape(t)
  <2>1. AssRunShape(r)
    BY <1>4 DEF AssRunOk
  <2> QED BY ONLY <1>5, <2>1 DEF AssRunShape
<1>11. \A k \in DOMAIN d : /\ k \in AssNames /\ d[k] \in AssContents \cup {0}
                            /\ k \in DOMAIN h /\ h[k] \in 1..n
  BY <1>1, <1>4, <1>7, <1>8, <1>9 DEF AssRunOk
<1>12. AssRunOk(assRecipe, Len(assIno'), p, t)
  BY <1>3, AssAssumption, <1>4, <1>10, <1>9, <1>11 DEF AssRunOk
<1>13. ~AssBusy(t) /\ \A k \in AssOut(t) : k \in AssOut(r) /\ t.digest[k] = r.digest[k]
  BY <1>1, <1>7, <1>10 DEF AssBusy, AssOut, r
<1>14. AssFilesOk' /\ Len(assIno) <= Len(assIno')
  BY <1>9, <1>3 DEF AssInvariant, AssFilesOk
<1>15. /\ AssRunOk(assRecipe, Len(assIno'), p, assProc'[p]) /\ ~AssBusy(assProc'[p])
       /\ assProc'[p].at \notin {"validate", "digest"}
       /\ \A k \in AssOut(assProc'[p]) :
             k \in AssOut(assProc[p]) /\ assProc'[p].digest[k] = assProc[p].digest[k]
  BY <1>6, <1>10, <1>12, <1>13 DEF r
<1> QED BY SMTT(60), <1>3, <1>6, <1>14, <1>15, AssQuietKeeps

\* Creating, filling or removing a path: nobody else writes to it, and nothing
\* published is kept there.

LEMMA AssCreateKeeps ==
    ASSUME AssInvariant, NEW p \in AssPublishers, NEW i \in AssReady(p), assProc[p].at = "publish",
           assDest[AssPath(p, i)] = AssAbsent, assDest' = [assDest EXCEPT ![AssPath(p, i)] = 0],
           AssGo(p, [assProc[p] EXCEPT !.at = "copy", !.cur = i]), UNCHANGED <<assStage, assDone>>
    PROVE  AssInvariant'
<1> DEFINE r == assProc[p]
           P == <<i, r.digest[i]>>
           t == [r EXCEPT !.at = "copy", !.cur = i]
<1>1. /\ r.at = "publish" /\ i \in r.todo \cap DOMAIN r.digest
      /\ assDest[P] = AssAbsent /\ assDest' = [assDest EXCEPT ![P] = 0]
      /\ assProc' = [assProc EXCEPT ![p] = t]
      /\ UNCHANGED <<assRecipe, assPlan, assIno, assStage, assDone>>
  BY DEF AssReady, AssGo, AssPath
<1>2. /\ DOMAIN assProc = AssPublishers /\ AssRunOk(assRecipe, Len(assIno), p, r)
      /\ r.at \in {"validate", "digest"} => assPlan # <<>>
  BY DEF AssInvariant
<1>3. t = [r EXCEPT !.at = "copy", !.cur = i]
  OBVIOUS
<1>4. DOMAIN assProc' = AssPublishers /\ assProc'[p] = t /\ \A q \in AssPublishers \ {p} : assProc'[q] = assProc[q]
  BY <1>1, <1>2
<1> HIDE DEF t, r
<1>5. /\ t.at = "copy" /\ t.cur = i /\ t.plan = r.plan /\ t.size = r.size /\ t.digest = r.digest /\ t.held = r.held
      /\ t.todo = r.todo /\ t.early = r.early
      /\ AssRunShape(t)
  <2>1. AssRunShape(r)
    BY <1>2 DEF AssRunOk
  <2> QED BY ONLY <1>3, <2>1 DEF AssRunShape
<1>6. AssVariants(t, t.digest) = AssVariants(r, r.digest)
  BY <1>5 DEF AssVariants
<1>7. AssRunOk(assRecipe, Len(assIno), p, t)
  BY <1>1, <1>2, <1>5, <1>6 DEF AssRunOk
<1>8. AssOut(t) = AssOut(r)
  BY <1>5 DEF AssOut
<1>13. P \in DOMAIN assDest /\ r.digest[i] # AssAbsent
  BY <1>1, AssPathOk DEF r
<1>10. DOMAIN assDest' = DOMAIN assDest /\ assDest'[P] # AssAbsent
       /\ \A path \in DOMAIN assDest : path # P => assDest'[path] = assDest[path]
  <2> HIDE DEF P
  <2> QED BY <1>1, <1>13 DEF AssAbsent
<1>9. AssAt(t) = P
  BY <1>5 DEF AssAt
<1>11. ~AssKeeps(assDest, assProc, P)
  BY <1>1, <1>13 DEF AssKeeps
<1>12. \A q \in AssPublishers \ {p} : AssBusy(assProc[q]) => AssAt(assProc[q]) # P
  BY <1>1 DEF AssInvariant, AssWritersOk
<1>20. /\ AssRunOk(assRecipe, Len(assIno), p, assProc'[p])
       /\ assProc'[p].at \notin {"validate", "digest"}
       /\ AssOut(assProc'[p]) = AssOut(assProc[p]) /\ assProc'[p].digest = assProc[p].digest
  BY <1>4, <1>5, <1>7, <1>8 DEF r
<1>21. AssBusy(assProc'[p]) => AssAt(assProc'[p]) = P /\ P \in DOMAIN assDest /\ assDest'[P] /= AssAbsent
  BY <1>4, <1>9, <1>10, <1>13
<1>22. \A path \in DOMAIN assDest : path # P => assDest'[path] = assDest[path]
  BY <1>10
<1>23. DOMAIN assDest' = DOMAIN assDest
  BY <1>10
<1>24. assIno' = assIno /\ assStage' = assStage /\ assRecipe' = assRecipe /\ assPlan' = assPlan /\ assDone' = assDone
  BY <1>1
<1> HIDE DEF P
<1> QED BY <1>4, <1>11, <1>12, <1>20, <1>21, <1>22, <1>23, <1>24, AssWriteKeeps

LEMMA AssCopyKeeps ==
    ASSUME AssInvariant, NEW p \in AssPublishers, AssCopy(p)
    PROVE  AssInvariant'
<1> DEFINE r == assProc[p]
           P == <<r.cur, r.digest[r.cur]>>
           c == assIno[r.held[r.cur]]
           t == [r EXCEPT !.at = "verify"]
<1>1. /\ r.at = "copy" /\ assDest' = [assDest EXCEPT ![P] = c]
      /\ assProc' = [assProc EXCEPT ![p] = t]
      /\ UNCHANGED <<assRecipe, assPlan, assIno, assStage, assDone>>
  BY DEF AssCopy, AssGo, AssPath, AssHeldBytes
<1>2. /\ DOMAIN assProc = AssPublishers /\ AssRunOk(assRecipe, Len(assIno), p, r)
      /\ r.at \in {"validate", "digest"} => assPlan # <<>>
  BY DEF AssInvariant
<1>3. t = [r EXCEPT !.at = "verify"]
  OBVIOUS
<1>4. DOMAIN assProc' = AssPublishers /\ assProc'[p] = t /\ \A q \in AssPublishers \ {p} : assProc'[q] = assProc[q]
  BY <1>1, <1>2
<1> HIDE DEF t, r
<1>5. /\ t.at = "verify" /\ t.plan = r.plan /\ t.size = r.size /\ t.digest = r.digest /\ t.held = r.held
      /\ t.cur = r.cur /\ t.todo = r.todo /\ t.early = r.early
      /\ AssRunShape(t)
  <2>1. AssRunShape(r)
    BY <1>2 DEF AssRunOk
  <2> QED BY ONLY <1>3, <2>1 DEF AssRunShape
<1>14. AssBusy(r) /\ AssAt(r) = P
  BY <1>1 DEF AssBusy, AssAt
<1>15. r.cur \in r.todo \cap DOMAIN r.digest
  BY <1>1, <1>2 DEF AssRunOk
<1>13. P \in DOMAIN assDest /\ r.held[r.cur] \in 1..Len(assIno)
  BY <1>15, AssPathOk DEF r
<1>11. ~AssKeeps(assDest, assProc, P)
  BY <1>14 DEF AssKeeps, r
<1>12. \A q \in AssPublishers \ {p} : AssBusy(assProc[q]) => AssAt(assProc[q]) # P
  BY <1>14 DEF AssInvariant, AssWritersOk, r
<1>6. AssVariants(t, t.digest) = AssVariants(r, r.digest)
  BY <1>5 DEF AssVariants
<1>7. AssRunOk(assRecipe, Len(assIno), p, t)
  BY <1>1, <1>2, <1>5, <1>6 DEF AssRunOk
<1>8. AssOut(t) = AssOut(r)
  BY <1>5 DEF AssOut
<1>16. c # AssAbsent
  <2>1. \A k \in 1..Len(assIno) : assIno[k] \in AssContents \cup {0}
    BY DEF AssInvariant, AssFilesOk
  <2>2. c \in AssContents \cup {0}
    BY <1>13, <2>1
  <2> HIDE DEF c
  <2> QED BY <2>2 DEF AssContents, AssAbsent
<1>10. DOMAIN assDest' = DOMAIN assDest /\ assDest'[P] # AssAbsent
       /\ \A path \in DOMAIN assDest : path # P => assDest'[path] = assDest[path]
  <2> HIDE DEF P, c
  <2> QED BY <1>1, <1>13, <1>16
<1>9. AssAt(t) = P
  BY <1>5 DEF AssAt
<1>20. /\ AssRunOk(assRecipe, Len(assIno), p, assProc'[p])
       /\ assProc'[p].at \notin {"validate", "digest"}
       /\ AssOut(assProc'[p]) = AssOut(assProc[p]) /\ assProc'[p].digest = assProc[p].digest
  BY <1>4, <1>5, <1>7, <1>8 DEF r
<1>21. AssBusy(assProc'[p]) => AssAt(assProc'[p]) = P /\ P \in DOMAIN assDest /\ assDest'[P] /= AssAbsent
  BY <1>4, <1>9, <1>10, <1>13
<1>22. \A path \in DOMAIN assDest : path # P => assDest'[path] = assDest[path]
  BY <1>10
<1>23. DOMAIN assDest' = DOMAIN assDest
  BY <1>10
<1>24. assIno' = assIno /\ assStage' = assStage /\ assRecipe' = assRecipe /\ assPlan' = assPlan /\ assDone' = assDone
  BY <1>1
<1> HIDE DEF P
<1> QED BY <1>4, <1>11, <1>12, <1>20, <1>21, <1>22, <1>23, <1>24, AssWriteKeeps

LEMMA AssDiscardKeeps ==
    ASSUME AssInvariant, NEW p \in AssPublishers, AssDiscard(p)
    PROVE  AssInvariant'
<1> DEFINE r == assProc[p]
           P == <<r.cur, r.digest[r.cur]>>
           t == [r EXCEPT !.at = "failed"]
<1>1. /\ r.at \in {"copy", "verify"} /\ assDest' = [assDest EXCEPT ![P] = AssAbsent]
      /\ assProc' = [assProc EXCEPT ![p] = t]
      /\ UNCHANGED <<assRecipe, assPlan, assIno, assStage, assDone>>
  BY DEF AssDiscard, AssGo, AssPath
<1>2. /\ DOMAIN assProc = AssPublishers /\ AssRunOk(assRecipe, Len(assIno), p, r)
      /\ r.at \in {"validate", "digest"} => assPlan # <<>>
  BY DEF AssInvariant
<1>3. t = [r EXCEPT !.at = "failed"]
  OBVIOUS
<1>4. DOMAIN assProc' = AssPublishers /\ assProc'[p] = t /\ \A q \in AssPublishers \ {p} : assProc'[q] = assProc[q]
  BY <1>1, <1>2
<1> HIDE DEF t, r
<1>5. /\ t.at = "failed" /\ t.plan = r.plan /\ t.size = r.size /\ t.digest = r.digest /\ t.held = r.held
      /\ t.todo = r.todo /\ t.early = r.early
      /\ AssRunShape(t)
  <2>1. AssRunShape(r)
    BY <1>2 DEF AssRunOk
  <2> QED BY ONLY <1>3, <2>1 DEF AssRunShape
<1>14. AssBusy(r) /\ AssAt(r) = P
  BY <1>1 DEF AssBusy, AssAt
<1>15. r.cur \in r.todo \cap DOMAIN r.digest
  BY <1>1, <1>2 DEF AssRunOk
<1>13. P \in DOMAIN assDest /\ r.held[r.cur] \in 1..Len(assIno)
  BY <1>15, AssPathOk DEF r
<1>11. ~AssKeeps(assDest, assProc, P)
  BY <1>14 DEF AssKeeps, r
<1>12. \A q \in AssPublishers \ {p} : AssBusy(assProc[q]) => AssAt(assProc[q]) # P
  BY <1>14 DEF AssInvariant, AssWritersOk, r
<1>7. AssRunOk(assRecipe, Len(assIno), p, t)
  BY <1>1, <1>2, <1>5 DEF AssRunOk
<1>8. AssOut(t) = AssOut(r)
  BY <1>5 DEF AssOut
<1>10. DOMAIN assDest' = DOMAIN assDest
       /\ \A path \in DOMAIN assDest : path # P => assDest'[path] = assDest[path]
  <2> HIDE DEF P
  <2> QED BY <1>1, <1>13
<1>9. ~AssBusy(t)
  BY <1>5 DEF AssBusy
<1>20. /\ AssRunOk(assRecipe, Len(assIno), p, assProc'[p])
       /\ assProc'[p].at \notin {"validate", "digest"}
       /\ AssOut(assProc'[p]) = AssOut(assProc[p]) /\ assProc'[p].digest = assProc[p].digest
  BY <1>4, <1>5, <1>7, <1>8 DEF r
<1>21. AssBusy(assProc'[p]) => AssAt(assProc'[p]) = P /\ P \in DOMAIN assDest /\ assDest'[P] /= AssAbsent
  BY <1>4, <1>9, <1>10, <1>13
<1>22. \A path \in DOMAIN assDest : path # P => assDest'[path] = assDest[path]
  BY <1>10
<1>23. DOMAIN assDest' = DOMAIN assDest
  BY <1>10
<1>24. assIno' = assIno /\ assStage' = assStage /\ assRecipe' = assRecipe /\ assPlan' = assPlan /\ assDone' = assDone
  BY <1>1
<1> HIDE DEF P
<1> QED BY <1>4, <1>11, <1>12, <1>20, <1>21, <1>22, <1>23, <1>24, AssWriteKeeps

\* What a finished run returns.

LEMMA AssFinishKeeps ==
    ASSUME AssInvariant, NEW p \in AssPublishers, AssFinish(p)
    PROVE  AssInvariant'
<1> DEFINE r == assProc[p]
           m == [digest |-> r.digest, early |-> r.early,
                 variants |-> IF p \in AssRasters THEN {} ELSE AssVariants(r, r.digest)]
           t == [r EXCEPT !.at = "done"]
<1>1. /\ r.todo = {} /\ r.at = (IF p \in AssRasters THEN "idle" ELSE "publish") /\ assDone' = assDone \cup {m}
      /\ assProc' = [assProc EXCEPT ![p] = t]
      /\ UNCHANGED <<assRecipe, assPlan, assIno, assStage, assDest>>
  BY DEF AssFinish, AssGo
<1>2. /\ DOMAIN assProc = AssPublishers /\ AssRunOk(assRecipe, Len(assIno), p, r)
      /\ r.at \in {"validate", "digest"} => assPlan # <<>>
  BY DEF AssInvariant
<1>3. t = [r EXCEPT !.at = "done"]
  OBVIOUS
<1>4. DOMAIN assProc' = AssPublishers /\ assProc'[p] = t /\ \A q \in AssPublishers \ {p} : assProc'[q] = assProc[q]
  BY <1>1, <1>2
<1> HIDE DEF t, r
<1>5. /\ t.at = "done" /\ t.plan = r.plan /\ t.size = r.size /\ t.digest = r.digest /\ t.held = r.held
      /\ t.todo = r.todo /\ t.early = r.early
      /\ AssRunShape(t)
  <2>1. AssRunShape(r)
    BY <1>2 DEF AssRunOk
  <2> QED BY ONLY <1>3, <2>1 DEF AssRunShape
<1>6. AssRunOk(assRecipe, Len(assIno), p, t)
  BY <1>2, <1>5 DEF AssRunOk
<1>7. ~AssBusy(t) /\ AssOut(t) = AssOut(r)
  BY <1>5 DEF AssBusy, AssOut
<1>8. AssFilesOk' /\ Len(assIno) <= Len(assIno')
  BY <1>1, AssFilesStay
<1>9. /\ AssRunOk(assRecipe, Len(assIno'), p, assProc'[p]) /\ ~AssBusy(assProc'[p])
      /\ assProc'[p].at \in {"validate", "digest"} => assPlan /= <<>>
      /\ \A i \in AssOut(assProc'[p]) :
            i \in AssOut(assProc[p]) /\ assProc'[p].digest[i] = assProc[p].digest[i]
  BY <1>1, <1>4, <1>5, <1>6, <1>7 DEF r
<1> DEFINE proc == assProc
           next == assProc'
           dest == assDest
<1>10. AssWritersOk(dest, proc) /\ AssOutOk(dest, proc)
  BY DEF AssInvariant
<1>11. /\ \A q \in AssPublishers \ {p} : next[q] = proc[q]
       /\ ~AssBusy(next[p])
       /\ \A i \in AssOut(next[p]) : i \in AssOut(proc[p]) /\ next[p].digest[i] = proc[p].digest[i]
  BY <1>4, <1>9
<1> HIDE DEF proc, next, dest
<1>12. /\ AssWritersOk(dest, next) /\ AssOutOk(dest, next)
       /\ \A path : AssKeeps(dest, proc, path) => AssKeeps(dest, next, path)
  BY ONLY <1>10, <1>11, AssQuietStep, p \in AssPublishers
<1>13. /\ AssWritersOk(assDest', assProc') /\ AssOutOk(assDest', assProc')
       /\ \A path : AssKeeps(assDest, assProc, path) => AssKeeps(assDest', assProc', path)
  BY <1>1, <1>12 DEF proc, next, dest
<1> HIDE DEF m
<1>17. PICK n : n = m
  OBVIOUS
<1>14. AssDoneOk(n)'
  BY <1>17, <1>1, <1>2, <1>5, <1>13, <1>4 DEF m, AssPublishers, AssRunOk, AssOut, AssOutOk,
     AssDoneOk
<1>15. \A k \in assDone' : k \in assDone \/ AssDoneOk(k)'
  BY <1>1, <1>14, <1>17
<1>16. assRecipe' = assRecipe /\ assPlan' = assPlan
  BY <1>1
<1> QED BY <1>4, <1>8, <1>9, <1>13, <1>15, <1>16, AssInsideStep

-----------------------------------------------------------------------------
(* Assets: the plan, its edits and the tools.                              *)

LEMMA AssJobsFinite ==
    ASSUME NEW recipe \in AssRecipes
    PROVE  IsFiniteSet(AssJobs(recipe))
<1> DEFINE A == recipe.assets
           o == [b \in A |-> b.outputs]
           U == UNION {o[b] : b \in A}
           f == [x \in A \X U |-> AssJob(x[1], x[2])]
<1>1. IsFiniteSet(A) /\ \A b \in A : IsFiniteSet(b.outputs)
  BY AssAssumption
<1>2. \A b \in A : IsFiniteSet(o[b])
  BY <1>1
<1>3. U = UNION {b.outputs : b \in recipe.assets}
  OBVIOUS
<1> HIDE DEF o
<1>4. IsFiniteSet({o[b] : b \in A})
  <2> HIDE DEF A
  <2> QED BY <1>1, FiniteImage
<1>5. IsFiniteSet(U)
  BY <1>2, <1>4, FS_UNION
<1> HIDE DEF U
<1>6. IsFiniteSet(A \X U)
  <2> HIDE DEF A
  <2> QED BY ONLY <1>1, <1>5, FS_Product
<1>7. ASSUME NEW y \in AssJobs(recipe) PROVE y \in {f[x] : x \in A \X U}
  <2>1. PICK a \in A : \E u \in U : y = AssJob(a, u)
    BY <1>3, <1>7 DEF AssJobs
  <2>2. PICK u \in U : y = AssJob(a, u)
    BY <2>1
  <2>3. <<a, u>> \in A \X U /\ f[<<a, u>>] = y
    BY <2>1, <2>2
  <2> HIDE DEF f, A
  <2> QED BY <2>3
<1> HIDE DEF f
<1>8. IsFiniteSet({f[x] : x \in A \X U})
  BY <1>6, FiniteImage
<1> QED BY <1>7, <1>8, FS_Subset

LEMMA AssPlanOfOk ==
    ASSUME NEW recipe \in AssRecipes
    PROVE  AssPlanOk(recipe, AssPlanOf(recipe))
<1> DEFINE plan == AssPlanOf(recipe)
           jobs == {j \in AssJobs(recipe) : \E a \in recipe.assets : a.id = j.source /\ j.op \in a.outputs}
<1>1. plan = [pins |-> plan.pins, profiles |-> recipe.profiles, sources |-> plan.sources, jobs |-> plan.jobs]
  BY DEF AssPlanOf
<1>2. plan.jobs = jobs
  BY DEF AssPlanOf
<1>3. IsFiniteSet(jobs)
  BY AssJobsFinite, FS_Subset
<1>4. ASSUME NEW j \in jobs
      PROVE  AssJobShape(j) /\ j.id \in AssIds /\ \E a \in recipe.assets : j.op \in a.outputs
  BY <1>4 DEF AssJobs, AssJob, AssIds, AssJobShape
<1> HIDE DEF jobs
<1>5. AssJobsOk(recipe, jobs)
  BY <1>3, <1>4 DEF AssJobsOk
<1> HIDE DEF plan
<1>6. AssPlanOk(recipe, plan)
  BY <1>1, <1>2, <1>5 DEF AssPlanOk
<1> QED BY <1>6 DEF plan

LEMMA AssPlanAssetsKeeps ==
    ASSUME AssInvariant, AssPlanAssets
    PROVE  AssInvariant'
  BY AssPlanOfOk, AssFilesStay, AssOutsideStep DEF AssPlanAssets, AssInvariant

\* An edited job is still a job of the recipe's operations.
LEMMA AssForged ==
    ASSUME NEW recipe, NEW plan, AssPlanOk(recipe, plan), NEW j \in plan.jobs,
           NEW forged \in AssForgeries(j), NEW next,
           next = [plan EXCEPT !.jobs = (plan.jobs \ {j}) \cup {forged}]
    PROVE  AssPlanOk(recipe, next)
<1> DEFINE jobs == (plan.jobs \ {j}) \cup {forged}
<1>1. AssJobsOk(recipe, plan.jobs) /\ plan = [pins |-> plan.pins, profiles |-> recipe.profiles,
                                              sources |-> plan.sources, jobs |-> plan.jobs]
  BY DEF AssPlanOk
<1>2. AssJobShape(j) /\ j.id \in AssIds /\ \E a \in recipe.assets : j.op \in a.outputs
  BY <1>1 DEF AssJobsOk
<1>3. AssJobShape(forged) /\ forged.id = j.id /\ forged.op = j.op
  <2>1. \/ forged = [j EXCEPT !.decoded = 0] \/ forged = [j EXCEPT !.group = "none"]
        \/ \E w : forged = [j EXCEPT !.policy = w]
    BY DEF AssForgeries
  <2> QED BY <1>2, <2>1 DEF AssJobShape
<1>4. IsFiniteSet(jobs)
  BY <1>1, FS_RemoveElement, FS_AddElement DEF AssJobsOk
<1>5. AssJobsOk(recipe, jobs)
  BY <1>1, <1>2, <1>3, <1>4 DEF AssJobsOk
<1> HIDE DEF jobs
<1>6. next = [plan EXCEPT !.jobs = jobs]
  BY DEF jobs
<1>7. next.jobs = jobs /\ next = [pins |-> next.pins, profiles |-> recipe.profiles,
                                  sources |-> next.sources, jobs |-> next.jobs]
  BY ONLY <1>1, <1>6
<1> QED BY <1>5, <1>7 DEF AssPlanOk

LEMMA AssEditPlanKeeps ==
    ASSUME AssInvariant, AssEditPlan
    PROVE  AssInvariant'
  BY AssForged, AssFilesStay, AssOutsideStep DEF AssEditPlan, AssInvariant

LEMMA AssWorkKeeps ==
    ASSUME AssInvariant, AssWork
    PROVE  AssInvariant'
<1>1. UNCHANGED <<assRecipe, assPlan, assDest, assProc, assDone>>
  BY DEF AssWork
<1>2. PICK i, c : /\ c \in AssContents /\ assIno' = Append(assIno, c)
                  /\ assStage' = [assStage EXCEPT ![i] = Len(assIno) + 1]
  BY DEF AssWork
<1>3. /\ assIno \in Seq(AssContents \cup {0}) /\ assStage \in [AssIds -> 0..Len(assIno)]
      /\ DOMAIN assDest = AssNames \X (AssContents \cup {0}) /\ Len(assIno) \in Nat
  BY DEF AssInvariant, AssFilesOk
<1>4. assIno' \in Seq(AssContents \cup {0}) /\ Len(assIno') = Len(assIno) + 1
  BY <1>2, <1>3
<1>5. assStage' \in [AssIds -> 0..Len(assIno')]
  <2>1. \A x \in 0..Len(assIno) : x \in 0..(Len(assIno) + 1)
    BY <1>3
  <2>2. Len(assIno) + 1 \in 0..(Len(assIno) + 1)
    BY <1>3
  <2> QED BY <1>2, <1>3, <1>4, <2>1, <2>2
<1>6. AssFilesOk' /\ Len(assIno) <= Len(assIno')
  BY <1>1, <1>3, <1>4, <1>5 DEF AssFilesOk
<1>7. assPlan' = <<>> \/ (assPlan' = <<assPlan'[1]>> /\ AssPlanOk(assRecipe, assPlan'[1]))
  BY <1>1 DEF AssInvariant
<1> QED BY <1>1, <1>6, <1>7, AssOutsideStep

LEMMA AssRewriteKeeps ==
    ASSUME AssInvariant, AssRewrite
    PROVE  AssInvariant'
  BY AssOutsideStep DEF AssRewrite, AssInvariant, AssFilesOk

-----------------------------------------------------------------------------
(* Assets: the theorem.                                                    *)

LEMMA AssStaged ==
    \E f \in [AssIds -> 1..Cardinality(AssIds)] : \A i \in AssIds, k \in AssIds : f[i] = f[k] => i = k
<1> DEFINE n == Cardinality(AssIds)
<1>1. ExistsBijection(1..n, AssIds)
  BY AssAssumption, FS_CardinalityType
<1>2. ExistsBijection(AssIds, 1..n)
  BY <1>1, Fun_ExistsBijSymmetric
<1>3. PICK f \in [AssIds -> 1..n] : IsInjective(f)
  BY <1>2 DEF ExistsBijection, Bijection, Injection
<1> QED BY <1>3 DEF IsInjective

LEMMA AssStarts == AssInit => AssInvariant
<1> SUFFICES ASSUME AssInit PROVE AssInvariant
  OBVIOUS
<1> DEFINE n == Cardinality(AssIds)
<1>1. n \in Nat
  BY AssAssumption, FS_CardinalityType
<1>2. assRecipe \in AssRecipes /\ assPlan = <<>> /\ assDone = {}
  BY DEF AssInit
<1>3. assIno \in Seq(AssContents \cup {0}) /\ Len(assIno) = n
  BY <1>1 DEF AssInit, AssContents
<1>4. assStage \in [AssIds -> 0..n]
  BY AssStaged, <1>1 DEF AssInit
<1>5. AssFilesOk
  BY <1>3, <1>4 DEF AssInit, AssNames, AssFilesOk
<1>6. DOMAIN assProc = AssPublishers
  BY DEF AssInit, AssPublishers
<1>7. ASSUME NEW p \in AssPublishers
      PROVE  /\ AssRunShape(assProc[p]) /\ assProc[p].at \in {"off", "idle"}
             /\ assProc[p].todo \subseteq AssNames /\ DOMAIN assProc[p].digest = {}
  <2>1. PICK on \in {AssFinalizers, AssRasters} :
            assProc = [q \in AssFinalizers \cup AssRasters |->
                        IF q \notin on THEN [AssIdle({}) EXCEPT !.at = "off"]
                        ELSE AssIdle(IF q \in AssRasters THEN AssRasterJobs ELSE {})]
    BY DEF AssInit
  <2>2. \/ assProc[p] = [AssIdle({}) EXCEPT !.at = "off"]
        \/ assProc[p] = AssIdle({}) \/ assProc[p] = AssIdle(AssRasterJobs)
    BY <2>1 DEF AssPublishers
  <2>3. DOMAIN <<>> = {}
    OBVIOUS
  <2>4. CASE assProc[p] = [AssIdle({}) EXCEPT !.at = "off"]
    BY <2>3, <2>4 DEF AssIdle, AssRunShape
  <2>5. CASE assProc[p] = AssIdle({})
    BY <2>3, <2>5 DEF AssIdle, AssRunShape
  <2>6. CASE assProc[p] = AssIdle(AssRasterJobs)
    BY <2>3, <2>6 DEF AssIdle, AssRunShape, AssNames
  <2> QED BY <2>2, <2>4, <2>5, <2>6
<1>8. \A p \in AssPublishers : /\ AssRunOk(assRecipe, Len(assIno), p, assProc[p])
                               /\ assProc[p].at \notin {"validate", "digest"}
  BY <1>7 DEF AssRunOk
<1>9. \A p \in AssPublishers : ~AssBusy(assProc[p]) /\ AssOut(assProc[p]) = {}
  BY <1>7 DEF AssBusy, AssOut
<1>10. AssWritersOk(assDest, assProc) /\ AssOutOk(assDest, assProc)
  BY <1>9 DEF AssWritersOk, AssOutOk
<1> QED BY <1>2, <1>5, <1>6, <1>8, <1>10 DEF AssInvariant

LEMMA AssKeepsAll == AssInvariant /\ [AssNext]_assVars => AssInvariant'
<1> SUFFICES ASSUME AssInvariant, [AssNext]_assVars PROVE AssInvariant'
  OBVIOUS
<1>1. CASE UNCHANGED assVars
  BY <1>1, AssFilesStay, AssOutsideStep DEF assVars, AssInvariant
<1>2. CASE AssPlanAssets
  BY <1>2, AssPlanAssetsKeeps
<1>3. CASE AssEditPlan
  BY <1>3, AssEditPlanKeeps
<1>4. CASE AssWork
  BY <1>4, AssWorkKeeps
<1>5. CASE AssRewrite
  BY <1>5, AssRewriteKeeps
<1>6. ASSUME NEW p \in AssPublishers, AssPublisher(p) PROVE AssInvariant'
  <2>1. CASE AssCreate(p)
    BY <2>1, AssCreateKeeps DEF AssCreate
  <2>2. CASE AssOpen(p) \/ AssValidate(p) \/ AssDigest(p) \/ AssCheck(p)
    BY <2>2, AssOpenKeeps, AssValidateKeeps, AssDigestKeeps, AssCheckKeeps
  <2>3. CASE AssEncode(p) \/ AssPresent(p) \/ AssCopy(p) \/ AssVerify(p)
    BY <2>3, AssEncodeKeeps, AssPresentKeeps, AssCopyKeeps, AssVerifyKeeps
  <2>4. CASE AssDiscard(p) \/ AssStops(p) \/ AssFinish(p)
    BY <2>4, AssDiscardKeeps, AssStopsKeeps, AssFinishKeeps
  <2> QED BY <1>6, <2>1, <2>2, <2>3, <2>4 DEF AssPublisher
<1> QED BY <1>1, <1>2, <1>3, <1>4, <1>5, <1>6 DEF AssNext, AssPublishers

\* Whatever recipes, publishers, contents staged and writes by tools there are:
\* a path that finalize_adaptive_assets or build_raster returned holds the
\* bytes of its digest from then on, unless it was taken as published while
\* its creator was still copying, and whatever alternatives a page picks of a
\* published manifest stays within every budget of its tier.
THEOREM AssetsAreHonest == AssSpec => []AssGuarantees
<1>1. AssInvariant /\ [AssNext]_assVars => AssInvariant'
  BY AssKeepsAll
<1> QED BY <1>1, AssStarts, AssMeans, PTL DEF AssSpec
================================================================================
