---------------------------- MODULE SitePublication ----------------------------
(***************************************************************************)
(* Site::build of pliego-ssg: builder processes that share a project tree  *)
(* and an output directory.  A build captures its inputs, inspects the     *)
(* output it may replace, renders or reuses each artifact, rechecks its    *)
(* inputs, takes the publication lock, stages, verifies and swaps the      *)
(* directory in.  The project is edited and the output tampered with at    *)
(* any time; a file-system call may fail, a builder may be killed.         *)
(*                                                                         *)
(* Versions of a source only grow: an editor that restores the exact bytes *)
(* of an earlier version within one build is outside the model.            *)
(***************************************************************************)
EXTENDS Artifact

CONSTANTS
    PubBuilders,   \* processes running Site::build on one output
    PubProjects,   \* [tree, configuration, excluded, tools, outside] at the start
    PubSite,       \* version of main.rs |-> [pages, assets]
    PubMain,       \* the path of main.rs
    PubOwner,      \* ownership of the project
    PubSpecs,      \* material specifications of the invocation
    PubOutputPath, \* [requested, authorized]
    PubEdits,      \* paths that may be edited
    PubDrifts,     \* how the output may be tampered with
    PubBound       \* [builds, edits, drifts, crashes]

PubProjectFields == {"tree", "configuration", "excluded", "tools", "outside"}

\* The program is a source, and the tree a tree of files.
PubWellFormed(project) ==
    /\ DOMAIN project = PubProjectFields
    /\ \A p \in DOMAIN project.tree :
          DOMAIN project.tree[p] = {"kind", "version", "links"} /\ project.tree[p].version \in Nat
    /\ PubMain \in DOMAIN project.tree \ project.configuration
    /\ ~ArtIgnored(PubMain, project.excluded)

ASSUME PubAssumption ==
    /\ "free" \notin PubBuilders
    /\ \A project \in PubProjects : PubWellFormed(project)

VARIABLES
    pubProject,  \* the project on disk
    pubDisk,     \* the output's parent: name |-> directory
    pubLock,     \* the builder holding the publication lock, or "free"
    pubs,        \* per builder: where its build is
    pubCount,    \* builds, edits, drifts and crashes so far; fresh inodes
    pubLog       \* history: what each publication replaced and wrote

pubVars == <<pubProject, pubDisk, pubLock, pubs, pubCount, pubLog>>

PubOut == <<"out", 0>>
NoReport == [receipt |-> <<>>, sha |-> <<>>]
PubNothing == [id |-> 0, report |-> NoReport, graph |-> <<>>]
PubIdle ==
    [at |-> "idle", context |-> <<>>, prior |-> PubNothing, files |-> <<>>, report |-> NoReport,
     stage |-> 0]

PubInit ==
    /\ pubProject \in PubProjects
    /\ pubDisk = <<>>
    /\ pubLock = "free"
    /\ pubs = [b \in PubBuilders |-> PubIdle]
    /\ pubCount = [builds |-> 0, edits |-> 0, drifts |-> 0, crashes |-> 0, inode |-> 1]
    /\ pubLog = <<>>

PubSet(b, s) == pubs' = [pubs EXCEPT ![b] = s]
PubAt(b, at) == PubSet(b, [pubs[b] EXCEPT !.at = at])

\* An error returns: the stage is removed through its handle, the lock released.
PubWithout(disk, names) == [n \in DOMAIN disk \ names |-> disk[n]]
PubWith(disk, name, d) == [n \in DOMAIN disk \cup {name} |-> IF n = name THEN d ELSE disk[n]]
PubReturn(b, disk) ==
    /\ PubSet(b, PubIdle)
    /\ pubDisk' = PubWithout(disk, {<<"stage", pubs[b].stage>>})
    /\ pubLock' = IF pubLock = b THEN "free" ELSE pubLock
    /\ UNCHANGED <<pubProject, pubCount, pubLog>>
PubFail(b) == PubReturn(b, pubDisk)

-----------------------------------------------------------------------------
(* What a site renders.                                                    *)

PubRoute(r) == IF r = <<>> THEN <<"index.html">>
               ELSE IF r[Len(r)] = "page.html" THEN r ELSE Append(r, "index.html")

\* validate_route and validate_head_urls.
PubPageValid(p) == p.safe /\ \A i \in DOMAIN p.route : p.route[i] \in DOMAIN ArtNames

\* source_dependencies: every declared path is a captured source.
PubDeclared(sources, context) == sources \subseteq DOMAIN context.sources
PubDependencies(sources) == [all |-> sources = {}, paths |-> sources]

\* Page::render and the bytes of an asset: what the program reads of the
\* project as it is, of the sources the artifact declares.
PubRender(name, sources, project) ==
    LET visible == {p \in DOMAIN project.tree : ~ArtIgnored(p, project.excluded)}
        read == IF sources = {} THEN visible \ project.configuration ELSE sources
    IN [name |-> name, read |-> ArtEvidence(project.tree, read \cap DOMAIN project.tree),
        configuration |-> ArtEvidence(project.tree,
            project.configuration \cap DOMAIN project.tree)]

PubPaths(site) ==
    {PubRoute(p.route) : p \in site.pages} \cup {a.path : a \in site.assets}

\* The routes are distinct and the namespace accepts every output.
PubPlanned(site, context) ==
    /\ \A p \in site.pages : PubPageValid(p) /\ PubDeclared(p.sources, context)
    /\ \A a \in site.assets : PubDeclared(a.sources, context)
    /\ ArtNamespace(SetToSeq(PubPaths(site)) \o <<ArtLedger, ArtGraph>>)
    /\ Cardinality(PubPaths(site)) = Cardinality(site.pages) + Cardinality(site.assets)

\* The pending output of a path: kind, producer, route and dependencies.
PubArtifact(site, path) ==
    IF \E p \in site.pages : PubRoute(p.route) = path
    THEN LET p == CHOOSE q \in site.pages : PubRoute(q.route) = path
         IN [kind |-> "route", producer |-> <<"/">> \o p.route, route |-> <<p.route>>,
             sources |-> PubDependencies(p.sources), lazy |-> p.lazy]
    ELSE LET a == CHOOSE q \in site.assets : q.path = path
         IN [kind |-> "asset", producer |-> path, route |-> <<>>,
             sources |-> PubDependencies(a.sources), lazy |-> FALSE]

\* causal_build_graph.
PubGraph(context, site, bytes) ==
    [owner |-> context.owner, sourceSet |-> context.sourceSet, sources |-> context.sources,
     routes |-> [r \in {<<p.route>> : p \in site.pages} |->
        [sources |-> PubArtifact(site, PubRoute(r[1])).sources, artifacts |-> {PubRoute(r[1])}]],
     artifacts |-> [p \in PubPaths(site) |->
        LET a == PubArtifact(site, p)
        IN [kind |-> a.kind, producer |-> a.producer, route |-> a.route, sources |-> a.sources,
            bytes |-> bytes[p]]]]

\* The outputs of a receipt: the artifacts and the graph itself.
PubFiles(context, site, bytes) ==
    [p \in PubPaths(site) \cup {ArtGraph} |->
        IF p = ArtGraph
        THEN [kind |-> "framework", producer |-> <<"causal-build-graph">>,
              bytes |-> PubGraph(context, site, bytes)]
        ELSE [kind |-> PubArtifact(site, p).kind, producer |-> PubArtifact(site, p).producer,
              bytes |-> bytes[p]]]

-----------------------------------------------------------------------------
(* Reuse of a prior artifact.                                              *)

\* contexts_allow_selective_reuse.
PubContextsAllow(before, after) ==
    /\ before.owner = after.owner /\ before.framework = after.framework
    /\ before.toolchain = after.toolchain /\ before.configuration = after.configuration
    /\ before.materials = after.materials /\ before.excluded = after.excluded

\* dependencies_unchanged.
PubUnchangedDeps(d, graph, context) ==
    IF d.all THEN graph.sourceSet = context.sourceSet
    ELSE \A p \in d.paths :
            /\ p \in DOMAIN graph.sources \cap DOMAIN context.sources
            /\ graph.sources[p] = context.sources[p]

\* try_reuse_prior_artifact would reuse it.
PubReusable(prior, context, site, path) ==
    LET a == PubArtifact(site, path) IN
    /\ a.lazy /\ prior.id /= 0
    /\ PubContextsAllow(prior.report.receipt.context, context)
    /\ path \in DOMAIN prior.graph.artifacts
    /\ LET before == prior.graph.artifacts[path]
       IN before.kind = a.kind /\ before.producer = a.producer /\ before.route = a.route
          /\ before.sources = a.sources
    /\ PubUnchangedDeps(a.sources, prior.graph, context)

\* read_verified_prior_file: the directory, the file and its digest are still
\* those that were verified.
PubReadable(prior, path) ==
    /\ PubOut \in DOMAIN pubDisk /\ pubDisk[PubOut].id = prior.id
    /\ path \in DOMAIN pubDisk[PubOut].files
    /\ pubDisk[PubOut].files[path] =
          [bytes |-> prior.report.receipt.files[path].bytes, links |-> 1]

-----------------------------------------------------------------------------
(* A build, up to the lock.                                                *)

\* validate_replaceable_output: a verified directory of this project.
PubReplaceable(name) ==
    /\ name \in DOMAIN pubDisk /\ ArtVerified(pubDisk[name])
    /\ pubDisk[name].report.receipt.context.owner = PubOwner

\* pliego build captures the inputs and hands them over in an invocation.
PubCapture(b) ==
    LET context == ArtCapture(PubOwner, "framework", pubProject, PubSpecs) IN
    /\ pubs[b].at = "idle" /\ pubCount.builds < PubBound.builds
    /\ pubCount' = [pubCount EXCEPT !.builds = @ + 1]
    /\ IF /\ ArtCaptured(pubProject, PubSpecs)
          /\ ArtContextValid(context)
          /\ ArtInvocationValid(PubOutputPath.authorized, context, PubSpecs)
          /\ PubOutputPath.requested = PubOutputPath.authorized
       THEN PubSet(b, [PubIdle EXCEPT !.at = "inspect", !.context = context])
       ELSE UNCHANGED pubs
    /\ UNCHANGED <<pubProject, pubDisk, pubLock, pubLog>>

\* The prior build is loaded with its graph, or there is none.
PubInspect(b) ==
    /\ pubs[b].at = "inspect"
    /\ IF PubOut \notin DOMAIN pubDisk
       THEN PubAt(b, "plan") /\ UNCHANGED <<pubProject, pubDisk, pubLock, pubCount, pubLog>>
       ELSE LET d == pubDisk[PubOut] IN
            IF PubReplaceable(PubOut)
               /\ ArtGraphMatches(d.files[ArtGraph].bytes, d.report)
            THEN /\ PubSet(b, [pubs[b] EXCEPT !.at = "plan",
                        !.prior = [id |-> d.id, report |-> d.report,
                                   graph |-> d.files[ArtGraph].bytes]])
                 /\ UNCHANGED <<pubProject, pubDisk, pubLock, pubCount, pubLog>>
            ELSE PubFail(b)

\* Every page and asset is rendered or reused, the graph and receipt made.
PubPlan(b) ==
    LET q == pubs[b]
        site == PubSite[pubProject.tree[PubMain].version]
        reused == {p \in PubPaths(site) : PubReusable(q.prior, q.context, site, p)}
        bytes == [p \in PubPaths(site) |->
                    IF p \in reused THEN q.prior.report.receipt.files[p].bytes
                    ELSE LET a == PubArtifact(site, p)
                         IN PubRender(a.producer, a.sources.paths, pubProject)]
        files == PubFiles(q.context, site, bytes)
        previous == IF q.prior.id = 0 THEN NoPrevious
                    ELSE [owner |-> q.prior.report.receipt.context.owner,
                          sha |-> q.prior.report.sha]
    IN
    /\ q.at = "plan"
    /\ IF /\ PubPlanned(site, q.context)
          /\ \A p \in reused : PubReadable(q.prior, p)
          /\ ArtReportValid(ArtReport(ArtReceipt(q.context, files, previous)))
          /\ ArtGraphMatches(files[ArtGraph].bytes,
                             ArtReport(ArtReceipt(q.context, files, NoPrevious)))
       THEN /\ PubSet(b, [q EXCEPT !.at = "recheck",
                            !.report = ArtReport(ArtReceipt(q.context, files, previous))])
            /\ UNCHANGED <<pubProject, pubDisk, pubLock, pubCount, pubLog>>
       ELSE PubFail(b)

PubRecheckInputs(b) ==
    /\ pubs[b].at = "recheck"
    /\ IF ArtInputsUnchanged(pubProject, PubSpecs, pubs[b].context)
       THEN PubAt(b, "lock") /\ UNCHANGED <<pubProject, pubDisk, pubLock, pubCount, pubLog>>
       ELSE PubFail(b)

\* PublicationLock::acquire does not wait.
PubAcquire(b) ==
    /\ pubs[b].at = "lock"
    /\ IF pubLock = "free"
       THEN PubAt(b, "compare") /\ pubLock' = b
            /\ UNCHANGED <<pubProject, pubDisk, pubCount, pubLog>>
       ELSE PubFail(b)

-----------------------------------------------------------------------------
(* A build under the lock.                                                 *)

\* The output is the one that was inspected, or is still absent.
PubSamePrior(prior) ==
    IF prior.id = 0 THEN PubOut \notin DOMAIN pubDisk
    ELSE /\ PubReplaceable(PubOut)
         /\ pubDisk[PubOut].id = prior.id /\ pubDisk[PubOut].report.sha = prior.report.sha

\* An artifact that equals the published one is not published again.
PubCompare(b) ==
    LET q == pubs[b] IN
    /\ q.at = "compare"
    /\ IF /\ PubSamePrior(q.prior)
          /\ q.prior.id /= 0 => ~ArtSameCore(q.report.receipt, q.prior.report.receipt)
       THEN PubAt(b, "stage") /\ UNCHANGED <<pubProject, pubDisk, pubLock, pubCount, pubLog>>
       ELSE PubFail(b)

\* StageDirectory::create and write_new_file; a write that fails ends the build.
PubStage(b) ==
    LET q == pubs[b]
        files == q.report.receipt.files
        staged == [id |-> pubCount.inode, report |-> q.report,
                   dirs |-> ArtExpectedDirs(DOMAIN files),
                   files |-> [p \in DOMAIN files |-> [bytes |-> files[p].bytes, links |-> 1]]]
    IN
    /\ q.at = "stage"
    /\ \/ /\ PubSet(b, [q EXCEPT !.at = "verify", !.stage = pubCount.inode])
          /\ pubDisk' = PubWith(pubDisk, <<"stage", pubCount.inode>>, staged)
          /\ pubCount' = [pubCount EXCEPT !.inode = @ + 1]
          /\ UNCHANGED <<pubProject, pubLock, pubLog>>
       \/ PubFail(b)

\* The stage is verified as an output is, and the inputs once more.
PubVerify(b) ==
    /\ pubs[b].at = "verify"
    /\ IF /\ ArtVerified(pubDisk[<<"stage", pubs[b].stage>>])
          /\ ArtInputsUnchanged(pubProject, PubSpecs, pubs[b].context)
       THEN PubAt(b, "swap") /\ UNCHANGED <<pubProject, pubDisk, pubLock, pubCount, pubLog>>
       ELSE PubFail(b)

PubSwap(b) ==
    /\ pubs[b].at = "swap"
    /\ IF PubSamePrior(pubs[b].prior)
       THEN /\ PubAt(b, IF pubs[b].prior.id = 0 THEN "publish" ELSE "aside")
            /\ UNCHANGED <<pubProject, pubDisk, pubLock, pubCount, pubLog>>
       ELSE PubFail(b)

PubRename(disk, from, to) ==
    PubWith(PubWithout(disk, {from}), to, disk[from])
PubBackup(b) == <<"backup", pubs[b].stage>>

\* The old output is moved aside, under a name nobody has.
PubAside(b) ==
    /\ pubs[b].at = "aside"
    /\ \/ /\ PubOut \in DOMAIN pubDisk
          /\ pubDisk' = PubRename(pubDisk, PubOut, PubBackup(b))
          /\ PubAt(b, "reopen")
          /\ UNCHANGED <<pubProject, pubLock, pubCount, pubLog>>
       \/ PubFail(b)

\* What a rename back may leave.
PubRolledBack(b) ==
    {pubDisk} \cup
        (IF PubOut \in DOMAIN pubDisk THEN {} ELSE {PubRename(pubDisk, PubBackup(b), PubOut)})

PubReopen(b) ==
    /\ pubs[b].at = "reopen"
    /\ \/ PubAt(b, "publish") /\ UNCHANGED <<pubProject, pubDisk, pubLock, pubCount, pubLog>>
       \/ \E disk \in PubRolledBack(b) : PubReturn(b, disk)

\* publish_as fails: the cleanup is disarmed, the backup moved back if it can be.
PubPublishFails(b) ==
    /\ pubs[b].at = "publish"
    /\ IF pubs[b].prior.id = 0 THEN PubFail(b)
       ELSE \E disk \in PubRolledBack(b) : PubReturn(b, disk)

\* The rename that publishes; onto a directory that is not empty it fails.
PubPublish(b) ==
    LET q == pubs[b] IN
    /\ q.at = "publish" /\ PubOut \notin DOMAIN pubDisk
    /\ pubDisk' = PubRename(pubDisk, <<"stage", q.stage>>, PubOut)
    /\ pubLog' = Append(pubLog,
          [replaced |-> IF q.prior.id = 0 THEN <<>> ELSE pubDisk[PubBackup(b)].report.sha,
           report |-> q.report])
    /\ PubAt(b, IF q.prior.id = 0 THEN "done" ELSE "clean")
    /\ UNCHANGED <<pubProject, pubLock, pubCount>>

\* remove_now: a failure leaves part of the backup; either way the build is over.
PubClean(b) ==
    /\ pubs[b].at = "clean"
    /\ \/ PubReturn(b, PubWithout(pubDisk, {PubBackup(b)}))
       \/ \E p \in DOMAIN pubDisk[PubBackup(b)].files :
             PubReturn(b, [pubDisk EXCEPT ![PubBackup(b)].files = PubWithout(@, {p})])

PubDone(b) == pubs[b].at = "done" /\ PubFail(b)

-----------------------------------------------------------------------------
(* The rest of the machine.                                                *)

\* A builder is killed: the lock goes with its process, its directories stay.
PubCrash(b) ==
    /\ pubs[b].at \notin {"idle", "done"} /\ pubCount.crashes < PubBound.crashes
    /\ pubCount' = [pubCount EXCEPT !.crashes = @ + 1]
    /\ PubSet(b, PubIdle)
    /\ pubLock' = IF pubLock = b THEN "free" ELSE pubLock
    /\ UNCHANGED <<pubProject, pubDisk, pubLog>>

PubEdit(p) ==
    /\ pubCount.edits < PubBound.edits
    /\ pubCount' = [pubCount EXCEPT !.edits = @ + 1]
    /\ pubProject' = IF p \in DOMAIN pubProject.tree
                     THEN [pubProject EXCEPT !.tree[p].version = @ + 1]
                     ELSE [pubProject EXCEPT !.tree =
                              PubWith(@, p, [kind |-> "file", version |-> 1, links |-> 1])]
    /\ UNCHANGED <<pubDisk, pubLock, pubs, pubLog>>

\* Somebody changes the published directory.
PubTampered(d, how) ==
    CASE how = "file"   -> [d EXCEPT !.files[ArtGraph].bytes = <<>>]
      [] how = "link"   -> [d EXCEPT !.files[ArtGraph].links = 2]
      [] how = "dir"    -> [d EXCEPT !.dirs = @ \cup {<<"stray">>}]
      [] how = "ledger" -> [d EXCEPT !.report.sha = <<>>]

PubDrift(how) ==
    /\ PubOut \in DOMAIN pubDisk /\ pubCount.drifts < PubBound.drifts
    /\ pubCount' = [pubCount EXCEPT !.drifts = @ + 1]
    /\ pubDisk' = [pubDisk EXCEPT ![PubOut] = PubTampered(@, how)]
    /\ UNCHANGED <<pubProject, pubLock, pubs, pubLog>>

PubNext ==
    \/ \E b \in PubBuilders :
          \/ PubCapture(b) \/ PubInspect(b) \/ PubPlan(b) \/ PubRecheckInputs(b) \/ PubAcquire(b)
          \/ PubCompare(b) \/ PubStage(b) \/ PubVerify(b) \/ PubSwap(b) \/ PubAside(b)
          \/ PubReopen(b) \/ PubPublish(b) \/ PubPublishFails(b) \/ PubClean(b) \/ PubDone(b)
          \/ PubCrash(b)
    \/ \E p \in PubEdits : PubEdit(p)
    \/ \E how \in PubDrifts : PubDrift(how)

PubSpec == PubInit /\ [][PubNext]_pubVars

-----------------------------------------------------------------------------
(* Properties.                                                             *)

\* Once a build was published, whatever fails and whoever is killed, the
\* parent directory holds a complete verified artifact, at the output or in a
\* backup beside it (build_with_context_at, lib.rs:710-773), unless somebody
\* changed the output.
PubRecoverable ==
    (pubLog /= <<>> /\ pubCount.drifts = 0) =>
        \E n \in DOMAIN pubDisk : n[1] /= "stage" /\ ArtVerified(pubDisk[n])

\* The bytes a full build of what was captured gives an artifact.
PubExact(context, site, path) ==
    LET a == PubArtifact(site, path)
    IN [name |-> a.producer,
        read |-> IF a.sources.all THEN context.sources
                 ELSE [p \in a.sources.paths |-> context.sources[p]],
        configuration |-> context.configuration]

\* What is published is what a full build of the receipt's inputs would have
\* written, although artifacts were reused and the project was edited
\* meanwhile (try_reuse_prior_artifact, verify_build_context_with_materials).
PubReuseIsExact ==
    (PubOut \in DOMAIN pubDisk /\ pubCount.drifts = 0) =>
        LET r == pubDisk[PubOut].report.receipt
            site == PubSite[r.context.sources[PubMain]]
        IN \A p \in PubPaths(site) : r.files[p].bytes = PubExact(r.context, site, p)

\* A receipt names as its predecessor exactly the artifact it replaced, with
\* several builders at work (lib.rs:630-652 and 693-709), unless somebody
\* changed the output between the last look at it and the rename.
PubHistoryIsLinear ==
    pubCount.drifts = 0 => \A i \in DOMAIN pubLog : pubLog[i].report.receipt.previous.sha = pubLog[i].replaced

\* Publication keeps a whole site at all times, reuses only what is exact, and
\* never undoes a newer one (PublicationLock, publish_as, reusable_artifact).
PubGuarantees ==
    /\ PubRecoverable
    /\ PubReuseIsExact
    /\ PubHistoryIsLinear

-----------------------------------------------------------------------------
(* What makes PubGuarantees inductive.                                     *)

PubStaged == {"verify", "swap", "aside", "reopen", "publish", "clean", "done"}
PubLocked == {"compare", "stage"} \cup PubStaged
PubBefore == {"idle", "inspect", "plan", "recheck", "lock"}
PubFields == {"at", "context", "prior", "files", "report", "stage"}

\* The lock and the stage are of the one builder that is past the lock.
PubPlace(b) ==
    /\ DOMAIN pubs[b] = PubFields
    /\ pubs[b].at \in PubBefore \cup PubLocked
    /\ pubs[b].at \in PubLocked <=> pubLock = b
    /\ pubs[b].at \in PubStaged => pubs[b].stage \in Nat \ {0}
    /\ pubs[b].at \notin PubStaged => pubs[b].stage = 0

PubPlaces ==
    /\ pubs = [b \in PubBuilders |-> pubs[b]]
    /\ DOMAIN pubCount = {"builds", "edits", "drifts", "crashes", "inode"}
    /\ pubCount.drifts \in Nat /\ pubCount.inode \in Nat \ {0}
    /\ \A b \in PubBuilders : PubPlace(b)

PubVisible == {p \in DOMAIN pubProject.tree : ~ArtIgnored(p, pubProject.excluded)}
PubSourcesNow == ArtEvidence(pubProject.tree, PubVisible \ pubProject.configuration)
PubConfigurationNow == ArtEvidence(pubProject.tree, pubProject.configuration)

\* A context was captured from this project, earlier or now.
PubCapturedBefore(context) ==
    /\ context.sourceSet = ArtSourceSet(context.sources, context.materials)
    /\ pubProject.configuration \subseteq DOMAIN pubProject.tree
    /\ DOMAIN context.sources \subseteq DOMAIN pubProject.tree
    /\ \A p \in DOMAIN context.sources :
          context.sources[p] \in Nat /\ context.sources[p] =< pubProject.tree[p].version
    /\ DOMAIN context.configuration = pubProject.configuration
    /\ \A p \in DOMAIN context.configuration :
          context.configuration[p] \in Nat /\ context.configuration[p] =< pubProject.tree[p].version

\* Nothing was edited since, as far as two captures tell.
PubUnedited(context) ==
    context.sources = PubSourcesNow /\ context.configuration = PubConfigurationNow

\* The files of a receipt are those of a full build of its context.
PubWhole(receipt) ==
    LET c == receipt.context
        site == PubSite[c.sources[PubMain]]
    IN /\ ArtGraph \notin PubPaths(site)
       /\ c.sourceSet = ArtSourceSet(c.sources, c.materials)
       /\ receipt.files = PubFiles(c, site, [p \in PubPaths(site) |-> PubExact(c, site, p)])

\* What a builder took for its prior was whole.
PubPriorHolds(prior) ==
    prior.id /= 0 => PubWhole(prior.report.receipt)
                     /\ prior.graph = prior.report.receipt.files[ArtGraph].bytes

\* What a builder made names its prior, and is whole if no input changed.
PubReportHolds(q) ==
    /\ q.report.receipt.context = q.context
    /\ q.report.receipt.previous.sha = IF q.prior.id = 0 THEN <<>> ELSE q.prior.report.sha
    /\ q.at \in {"recheck", "lock", "compare", "stage", "verify"} /\ PubUnedited(q.context)
          => PubWhole(q.report.receipt)
    /\ q.at \in {"swap", "aside", "reopen", "publish"} => PubWhole(q.report.receipt)

\* A directory at the output, or set aside from there.
PubKept(name) == name \in DOMAIN pubDisk /\ ArtVerified(pubDisk[name]) /\ PubWhole(pubDisk[name].report.receipt)

\* What the holder of the lock has on disk.
PubHolding(b) ==
    LET q == pubs[b]
        stage == <<"stage", q.stage>>
    IN /\ q.at \in {"verify", "swap", "aside", "reopen", "publish"} =>
             stage \in DOMAIN pubDisk /\ pubDisk[stage].report = q.report
       /\ q.at \in {"swap", "aside", "reopen", "publish"} => ArtVerified(pubDisk[stage])
       /\ q.at = "aside" => PubOut \in DOMAIN pubDisk /\ pubDisk[PubOut].report.sha = q.prior.report.sha
       /\ q.at \in {"aside", "reopen"} => q.prior.id /= 0
       /\ q.at \in {"reopen", "publish"} /\ q.prior.id /= 0 =>
             PubKept(PubBackup(b)) /\ pubDisk[PubBackup(b)].report.sha = q.prior.report.sha
       /\ q.at \in {"clean", "done"} => PubOut \in DOMAIN pubDisk

PubBuilderHolds(b) ==
    /\ pubs[b].at /= "idle" => PubCapturedBefore(pubs[b].context)
    /\ PubPriorHolds(pubs[b].prior)
    /\ pubs[b].at \in {"recheck", "lock", "compare", "stage", "verify", "swap", "aside", "reopen", "publish"}
          => PubReportHolds(pubs[b])
    /\ PubHolding(b)

PubLogHolds ==
    /\ pubLog \in Seq({pubLog[i] : i \in DOMAIN pubLog})
    /\ pubLog /= <<>> => \E n \in DOMAIN pubDisk : n[1] /= "stage" /\ ArtVerified(pubDisk[n])
    /\ \A i \in DOMAIN pubLog : pubLog[i].report.receipt.previous.sha = pubLog[i].replaced

PubUntampered ==
    /\ PubOut \in DOMAIN pubDisk => PubKept(PubOut)
    /\ \A b \in PubBuilders : PubBuilderHolds(b)
    /\ PubLogHolds

PubInvariant ==
    /\ PubWellFormed(pubProject) /\ PubPlaces
    /\ pubCount.drifts = 0 => PubUntampered
================================================================================
