------------------------------ MODULE DevSession ------------------------------
(***************************************************************************)
(* `pliego dev`: the loop that waits for file events, builds, explains the *)
(* rebuild and publishes a generation (cli/main.rs, cli/development.rs);   *)
(* the server threads that answer documents and reload polls from the      *)
(* shared DevState; and the script a development page runs.  Sources are   *)
(* edited, and `pliego build` is run by hand, at any moment.               *)
(* Every source makes one artifact; two versions of a source may render    *)
(* the same bytes, and DevBad does not compile.                            *)
(***************************************************************************)
EXTENDS Naturals, FiniteSets

CONSTANTS
    DevRouteSources, \* the sources the one route declares
    DevEdits,        \* bound: edits of a file
    DevBuilds,       \* bound: builds run by hand beside the session
    DevLoads         \* bound: documents the page requests, its own reloads included

DevSources == {"page", "style", "script"}
DevFiles == DevSources \cup {"note"}      \* "note" is watched and captured by no graph
DevBad == 3
DevVersions(f) == IF f = "page" THEN 0..DevBad ELSE {0, 1}

VARIABLES
    dev,       \* the loop: where it is, what it captured and is about to publish
    devSrc,    \* the sources on disk
    devOut,    \* the verified output: <<>> or <<the sources its receipt names>>
    devEvents, \* file events not yet taken by next_watch_changes
    devShared, \* DevState: generation, build_failure, update
    devPage,   \* one browser page: its document, the generation it polls from
    devLeft,   \* what is left of the bounds
    devTold    \* history: the artifacts a follower of every update would show

devVars == <<dev, devSrc, devOut, devEvents, devShared, devPage, devLeft, devTold>>

DevReload == [kind |-> "reload", paths |-> {}, routed |-> FALSE]

DevInit ==
    /\ dev = [pc |-> "capture", watching |-> FALSE, cap |-> <<>>, noop |-> FALSE, changed |-> {},
              graph |-> <<>>, fail |-> FALSE, update |-> DevReload, missed |-> FALSE]
    /\ devSrc = [f \in DevSources |-> 0]
    /\ devOut \in {<<>>, <<[f \in DevSources |-> 0]>>}
    /\ devEvents = {}
    /\ devShared = [gen |-> 0, failure |-> FALSE, update |-> DevReload]
    /\ devPage = [at |-> "none", gen |-> 0, req |-> "idle", read |-> <<>>, poll |-> 0, shows |-> <<>>,
                  stood |-> FALSE]
    /\ devLeft = [edits |-> DevEdits, builds |-> DevBuilds, loads |-> DevLoads]
    /\ devTold = <<>>

\* artifact_hashes: the bytes each artifact has when built from these sources.
DevArtifacts(sources) == [f \in DevSources |-> sources[f] % 2]

-----------------------------------------------------------------------------
(* One build, in the steps between which the sources may change.           *)

\* capture_project_build_context, with everything changed so far inside it.
DevCapture ==
    /\ dev.pc = "capture"
    /\ dev' = [dev EXCEPT !.pc = "noop", !.cap = <<devSrc>>, !.missed = FALSE]
    /\ UNCHANGED <<devSrc, devOut, devEvents, devShared, devPage, devLeft, devTold>>

\* revalidate_build_inputs.
DevInputsUnchanged == dev.cap = <<devSrc>>

\* Mutant: any output that verifies is taken for this build's.
DevUpToDateIfPresent == devOut /= <<>>

\* verified_noop_build: the output's receipt names exactly the captured context.
DevUpToDate == devOut = dev.cap

DevNoop ==
    /\ dev.pc = "noop" /\ DevInputsUnchanged
    /\ dev' = [dev EXCEPT !.pc = IF DevUpToDate THEN "explain" ELSE "site", !.noop = DevUpToDate]
    /\ UNCHANGED <<devSrc, devOut, devEvents, devShared, devPage, devLeft, devTold>>

\* The client and the site packages run; the site verifies the context again
\* and replaces the output.
DevSite ==
    /\ dev.pc = "site" /\ DevInputsUnchanged /\ devSrc["page"] /= DevBad
    /\ devOut' = dev.cap
    /\ dev' = [dev EXCEPT !.pc = "verify"]
    /\ UNCHANGED <<devSrc, devEvents, devShared, devPage, devLeft, devTold>>

\* The last revalidation, and the receipt the site emitted.
DevVerify ==
    /\ dev.pc = "verify" /\ DevInputsUnchanged /\ devOut = dev.cap
    /\ dev' = [dev EXCEPT !.pc = "explain"]
    /\ UNCHANGED <<devSrc, devOut, devEvents, devShared, devPage, devLeft, devTold>>

-----------------------------------------------------------------------------
(* What the loop makes of a build.                                         *)

\* explain_rebuild: the artifacts whose bytes differ from the graph last told.
DevChangedArtifacts(after) ==
    {f \in DevSources : dev.graph /= <<>> => DevArtifacts(dev.graph[1])[f] /= DevArtifacts(after)[f]}

\* explain_rebuild, dependencies_touch: the route is affected by a declared
\* source or by a file no graph knows.
DevAffected == dev.changed \cap DevRouteSources /= {} \/ ~(dev.changed \subseteq DevSources)

DevClassifyHmr(changed) ==
    [kind |-> IF changed = {} THEN "none"
              ELSE IF changed = {"style"} THEN "css"
              ELSE IF changed = {"page"} THEN "content"
              ELSE IF changed = {"script"} THEN "adapter"
              ELSE "reload",
     paths |-> changed,
     routed |-> DevAffected]

\* should_publish_dev_generation.
DevShouldPublish(changed) == ~dev.noop \/ changed /= {} \/ devShared.failure

\* The initial build, on success: its graph, and a server without a failure.
DevStarted ==
    /\ dev.pc = "explain" /\ ~dev.watching /\ devOut /= <<>>
    /\ dev' = [dev EXCEPT !.pc = "watch", !.graph = devOut]
    /\ devTold' = <<DevArtifacts(devOut[1])>>
    /\ UNCHANGED <<devSrc, devOut, devEvents, devShared, devPage, devLeft>>

\* A rebuild that succeeded: the graph is loaded from the output as it is now.
DevExplain ==
    /\ dev.pc = "explain" /\ dev.watching /\ devOut /= <<>>
    /\ LET after == devOut[1]
           changed == DevChangedArtifacts(after)
       IN  IF DevShouldPublish(changed)
           THEN /\ dev' = [dev EXCEPT !.pc = "failure", !.fail = FALSE, !.graph = devOut,
                                      !.update = DevClassifyHmr(changed)]
                /\ devTold' = <<[f \in DevSources |-> IF f \in changed THEN DevArtifacts(after)[f]
                                                      ELSE devTold[1][f]]>>
           ELSE /\ dev' = [dev EXCEPT !.pc = "wait", !.graph = devOut]
                /\ UNCHANGED devTold
    /\ UNCHANGED <<devSrc, devOut, devEvents, devShared, devPage, devLeft>>

\* A command fails, inputs moved under the build, or its graph cannot be loaded.
DevFails ==
    /\ dev.pc \in {"capture", "noop", "site", "verify", "explain"}
    /\ IF dev.watching
       THEN /\ dev' = [dev EXCEPT !.pc = "failure", !.fail = TRUE, !.update = DevReload]
            /\ UNCHANGED devShared
       ELSE /\ dev' = [dev EXCEPT !.pc = "watch"]
            /\ devShared' = [devShared EXCEPT !.failure = TRUE]
    /\ UNCHANGED <<devSrc, devOut, devEvents, devPage, devLeft, devTold>>

\* DevState::publish: the failure, then the update, then the generation.
DevPublish ==
    /\ dev.pc \in {"failure", "update", "bump"}
    /\ devShared' =
         CASE dev.pc = "failure" -> [devShared EXCEPT !.failure = dev.fail]
           [] dev.pc = "update" -> [devShared EXCEPT !.update = dev.update]
           [] dev.pc = "bump" -> [devShared EXCEPT !.gen = @ + 1]
    /\ dev' = [dev EXCEPT !.pc = CASE dev.pc = "failure" -> "update"
                                   [] dev.pc = "update" -> "bump"
                                   [] dev.pc = "bump" -> "wait"]
    /\ UNCHANGED <<devSrc, devOut, devEvents, devPage, devLeft, devTold>>

-----------------------------------------------------------------------------
(* Events.                                                                 *)

\* The watcher is installed and the server opened after the first build.
DevWatch ==
    /\ dev.pc = "watch"
    /\ dev' = [dev EXCEPT !.pc = "wait", !.watching = TRUE]
    /\ UNCHANGED <<devSrc, devOut, devEvents, devShared, devPage, devLeft, devTold>>

\* next_watch_changes: what the backend has delivered when the debounce ends.
DevTake ==
    /\ dev.pc = "wait"
    /\ \E taken \in SUBSET devEvents \ {{}} :
          /\ devEvents' = devEvents \ taken
          /\ dev' = [dev EXCEPT !.pc = "capture", !.changed = taken]
    /\ UNCHANGED <<devSrc, devOut, devShared, devPage, devLeft, devTold>>

\* collect_watch_event logs an error of the backend and goes on: the change it
\* stood for is not heard of.
DevWatchError ==
    /\ \E f \in devEvents : devEvents' = devEvents \ {f}
    /\ dev' = [dev EXCEPT !.missed = TRUE]
    /\ UNCHANGED <<devSrc, devOut, devShared, devPage, devLeft, devTold>>

\* A file is written; collect_watch_path keeps it unless it is generated.
DevEdit ==
    /\ devLeft.edits > 0
    /\ \E f \in DevFiles :
          /\ f \in DevSources => \E v \in DevVersions(f) \ {devSrc[f]} : devSrc' = [devSrc EXCEPT ![f] = v]
          /\ f \notin DevSources => UNCHANGED devSrc
          /\ devEvents' = IF dev.watching THEN devEvents \cup {f} ELSE devEvents
    /\ dev' = [dev EXCEPT !.missed = @ \/ ~dev.watching]
    /\ devLeft' = [devLeft EXCEPT !.edits = @ - 1]
    /\ UNCHANGED <<devOut, devShared, devPage, devTold>>

\* `pliego build` from another terminal; the output is not watched.
DevOtherBuild ==
    /\ devLeft.builds > 0 /\ devSrc["page"] /= DevBad
    /\ devOut' = <<devSrc>>
    /\ devLeft' = [devLeft EXCEPT !.builds = @ - 1]
    /\ UNCHANGED <<dev, devSrc, devEvents, devShared, devPage, devTold>>

-----------------------------------------------------------------------------
(* The server and the page.                                                *)

\* respond: the failure, or the file's bytes, are read first.
DevRespond(req) ==
    /\ devLeft.loads > 0
    /\ devPage' = [devPage EXCEPT !.req = IF devShared.failure THEN "error" ELSE req,
                                  !.read = devOut, !.poll = 0]
    /\ devLeft' = [devLeft EXCEPT !.loads = @ - 1]
    /\ UNCHANGED <<dev, devSrc, devOut, devEvents, devShared, devTold>>

DevOpen ==
    /\ dev.watching /\ devPage.at = "none" /\ devPage.req = "idle"
    /\ DevRespond("site")

\* ... and the generation is injected afterwards.  A content fetch keeps the
\* generation it was told; one that fails reloads.
DevAnswer ==
    /\ devPage.req /= "idle"
    /\ devPage' =
         CASE devPage.req = "error" ->
                [devPage EXCEPT !.at = "error", !.req = "idle", !.gen = devShared.gen, !.read = <<>>,
                                !.stood = devShared.failure]
           [] devPage.req = "site" ->
                [devPage EXCEPT !.at = "site", !.req = "idle", !.gen = devShared.gen, !.read = <<>>,
                                !.shows = IF devPage.read = <<>> THEN <<>>
                                          ELSE <<DevArtifacts(devPage.read[1])>>]
           [] devPage.req = "content" ->
                [devPage EXCEPT !.at = "site", !.req = "idle", !.read = <<>>,
                                !.shows = IF devPage.read = <<>> THEN <<>>
                                          ELSE <<DevArtifacts(devPage.read[1])>>]
    /\ UNCHANGED <<dev, devSrc, devOut, devEvents, devShared, devLeft, devTold>>

\* respond_reload: the current generation is read, then the latest update.
DevPoll ==
    /\ devPage.at /= "none" /\ devPage.req = "idle" /\ devPage.poll = 0
    /\ devShared.gen /= devPage.gen
    /\ devPage' = [devPage EXCEPT !.poll = devShared.gen]
    /\ UNCHANGED <<dev, devSrc, devOut, devEvents, devShared, devLeft, devTold>>

\* live_reload_script: no change, or a route that is not shown, polls again.
DevIgnored(update) == update.kind = "none" \/ (update.kind = "content" /\ ~update.routed)

\* live_reload_script: stylesheets the page links to, and adapters that handle
\* the event, are refreshed in place; the failure document has neither.
DevInPlace(update) == update.kind = "css" \/ (update.kind = "adapter" /\ devPage.at = "site")

DevApplyQuietly ==
    /\ devPage.poll /= 0
    /\ DevIgnored(devShared.update) \/ DevInPlace(devShared.update)
    /\ devPage' = [devPage EXCEPT !.gen = devPage.poll, !.poll = 0,
                     !.shows = IF devPage.shows = <<>> \/ devOut = <<>> THEN @
                               ELSE <<[f \in DevSources |-> IF f \in devShared.update.paths \ {"page"}
                                                            THEN DevArtifacts(devOut[1])[f] ELSE @[1][f]]>>]
    /\ UNCHANGED <<dev, devSrc, devOut, devEvents, devShared, devLeft, devTold>>

DevApplyLoudly ==
    /\ devPage.poll /= 0 /\ ~DevIgnored(devShared.update) /\ devShared.update.kind /= "css"
    /\ IF devShared.update.kind = "content"
       THEN /\ ~devShared.failure /\ devLeft.loads > 0
            /\ devPage' = [devPage EXCEPT !.req = "content", !.read = devOut, !.gen = devPage.poll, !.poll = 0]
            /\ devLeft' = [devLeft EXCEPT !.loads = @ - 1]
            /\ UNCHANGED <<dev, devSrc, devOut, devEvents, devShared, devTold>>
       ELSE DevRespond("site")

\* A content fetch answered by the failure document is not ok: reload.
DevApplyFailed ==
    /\ devPage.poll /= 0 /\ devShared.failure
    /\ devShared.update.kind = "content" /\ devShared.update.routed
    /\ DevRespond("site")

DevNext ==
    \/ DevCapture \/ DevNoop \/ DevSite \/ DevVerify \/ DevStarted \/ DevExplain
    \/ DevFails \/ DevPublish \/ DevWatch \/ DevTake \/ DevWatchError \/ DevEdit
    \/ DevOtherBuild \/ DevOpen \/ DevAnswer \/ DevPoll \/ DevApplyQuietly
    \/ DevApplyLoudly \/ DevApplyFailed

DevSpec == DevInit /\ [][DevNext]_devVars

-----------------------------------------------------------------------------
(* Properties.                                                             *)

\* When the loop waits with nothing left to hear of and shows no failure, the
\* output is the build of the sources on disk, however edits, failed builds and
\* builds by hand fell between the steps of its own, and the updates published
\* so far, taken together, turned the first site into this one.
DevQuietIsCurrent ==
    dev.pc = "wait" /\ devEvents = {} /\ ~dev.missed /\ ~devShared.failure =>
        devOut = <<devSrc>> /\ devTold = <<DevArtifacts(devSrc)>>

\* main.rs, development_error_document: "Correct the diagnostic below and save;
\* this page will reload automatically".  A page that was shown the failure
\* document while the failure stood (stood, a history field), and has heard of
\* every generation since, is showing a failure that still stands.
DevFailurePagesRecover ==
    dev.pc = "wait" /\ devPage.at = "error" /\ devPage.req = "idle" /\ devPage.poll = 0
        /\ devPage.stood /\ devPage.gen = devShared.gen
    => devShared.failure

-----------------------------------------------------------------------------
(* What makes DevQuietIsCurrent inductive.                                 *)

DevTrees == [DevSources -> Nat]
DevFields == {"pc", "watching", "cap", "noop", "changed", "graph", "fail", "update", "missed"}

DevTypes ==
    /\ DOMAIN dev = DevFields /\ DOMAIN devShared = {"gen", "failure", "update"}
    /\ dev.missed \in BOOLEAN /\ dev.watching \in BOOLEAN
    /\ devSrc \in DevTrees
    /\ devOut \in {<<>>} \cup {<<s>> : s \in DevTrees}
    /\ dev.graph \in {<<>>} \cup {<<s>> : s \in DevTrees}

\* No change is waiting to be taken, and none went unheard since the capture.
DevHeard == devEvents = {} /\ ~dev.missed

\* The last build succeeded, as far as it is published.
DevSucceeded ==
    \/ dev.pc = "failure" /\ ~dev.fail
    \/ dev.pc \in {"update", "bump", "wait", "watch"} /\ ~devShared.failure

\* The updates published so far lead to the graph that was explained last.
DevToldTheGraph == dev.graph /= <<>> => devTold = <<DevArtifacts(dev.graph[1])>>

\* A build of sources nobody changed since has captured, built and explained them.
DevBuildIsCurrent ==
    DevHeard =>
        /\ dev.pc \in {"noop", "site", "verify", "explain"} => dev.cap = <<devSrc>>
        /\ dev.pc = "explain" \/ DevSucceeded => devOut = <<devSrc>>
        /\ DevSucceeded => dev.graph = <<devSrc>>

DevInvariant == DevTypes /\ DevToldTheGraph /\ DevBuildIsCurrent
================================================================================
