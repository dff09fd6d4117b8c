------------------------------ MODULE ComponentSdk ------------------------------
(***************************************************************************)
(* The component SDK (pliego-sdk): an extension is admitted against a      *)
(* host's contract, instantiated or run as a build transform under fuel    *)
(* and a wall clock that a timer thread watches, and performs effects only *)
(* through a broker that keeps receipts.  A tooling host answers JSON-RPC  *)
(* or MCP messages after a handshake.  Names that are only checked for     *)
(* their spelling are one flag, `spelled'; a binary is its own digest.     *)
(***************************************************************************)
EXTENDS Naturals, Sequences, FiniteSets

CONSTANTS
    SdkManifests,   \* the manifests that may be offered
    SdkBinaries,    \* binaries: [id, imports, exports]
    SdkFeatures,    \* HostContract: features and granted capabilities
    SdkPolicy,
    SdkCeiling,     \* the ceiling of every budget
    SdkMaxReceipts, \* MAX_EFFECT_RECEIPTS
    SdkMessages     \* MAX_RPC_MESSAGES, scaled down

ASSUME SdkAssumption == SdkCeiling \in Nat

VARIABLES
    sdkSide,      \* "extension", "pliego" or "mcp": which entry is in use
    sdkExecutor,  \* the host has an effect executor
    sdkExt,       \* <<>> or <<the admitted manifest>>
    sdkRun,       \* the run in progress
    sdkLate,      \* the wall time of the run has passed
    sdkExpired,   \* EpochDeadline::expired, set by the timer thread
    sdkPerformed, \* history: effects the executor performed
    sdkReturned,  \* history: results returned
    sdkRpc,       \* RpcHost and McpHost flags
    sdkTalk       \* history: messages with their answers

sdkVars == <<sdkSide, sdkExecutor, sdkExt, sdkRun, sdkLate, sdkExpired, sdkPerformed, sdkReturned,
             sdkRpc, sdkTalk>>

-----------------------------------------------------------------------------
(* Admission.                                                              *)

SdkBrowserOnly == {"dom", "motion", "audio", "webgl"}

\* validate_entry.
SdkEntryValid(m) ==
    /\ m.kind = (CASE m.plane \in {"build", "server"} -> "component" [] m.plane = "browser" -> "esm"
                   [] m.plane = "tooling" -> "rpc")
    /\ (m.world /= "none") = (m.kind = "component")
    /\ (m.element /= "none") = (m.kind = "esm")

\* validate_lifecycle.
SdkLifecycleValid(m) ==
    /\ {"init", "dispose"} \subseteq m.hooks
    /\ ("suspend" \in m.hooks) = ("resume" \in m.hooks)
    /\ "hmr" \in m.hooks => "update" \in m.hooks /\ m.plane = "browser"

\* validate_budget.
SdkBudgetValid(budget) == \A limit \in {"fuel", "output"} : budget[limit] \in 1..SdkCeiling

\* validate_manifest_shape.
SdkShapeValid(m) ==
    /\ m.spelled /\ SdkEntryValid(m) /\ SdkLifecycleValid(m) /\ SdkBudgetValid(m.budget)
    /\ m.required \cap m.optional = {}
    /\ m.plane /= "browser" => m.caps \cap SdkBrowserOnly = {}
    /\ m.determinism = "pure" => m.caps = {}
    /\ m.determinism = "recorded" => "effect-broker" \in m.caps

\* classify_import: the capabilities an import needs, {"unknown"} if it has no meaning here.
SdkImportNeeds(import) ==
    CASE import = "wasi:filesystem" -> {"filesystem-read", "filesystem-write"}
      [] import = "wasi:sockets" -> {"network"}
      [] import = "wasi:cli/environment" -> {"environment"}
      [] import = "wasi:clocks" -> {"clock"}
      [] import = "wasi:random" -> {"random"}
      [] import = "wasi:http" -> {"http"}
      [] import = "pliego:effects/broker" -> {"effect-broker"}
      [] import \in {"wasi:io", "pliego:diagnostics"} -> {}
      [] OTHER -> {"unknown"}

SdkNeeds(bin) == UNION {SdkImportNeeds(i) : i \in bin.imports}

\* inspect_component, verify_manifest.
SdkVerified(m, bin) ==
    /\ "unknown" \notin SdkNeeds(bin)
    /\ bin.imports = m.imports /\ bin.exports = m.exports
    /\ SdkNeeds(bin) \subseteq m.caps

\* HostContract::admit.
SdkAdmits(m, bin) ==
    /\ SdkShapeValid(m) /\ m.current /\ m.digest = bin.id
    /\ m.required \subseteq SdkFeatures /\ m.caps \subseteq SdkPolicy

\* HostContract::admit_component for components, admit for everything else.
SdkAdmit(m, bin) ==
    /\ sdkSide = "extension" /\ sdkExt = <<>> /\ SdkAdmits(m, bin)
    /\ m.kind = "component" => SdkVerified(m, bin)
    /\ sdkExt' = <<m>>
    /\ UNCHANGED <<sdkSide, sdkExecutor, sdkRun, sdkLate, sdkExpired, sdkPerformed, sdkReturned, sdkRpc, sdkTalk>>

-----------------------------------------------------------------------------
(* instantiate and execute_build_transform.                                *)

SdkIdle == [at |-> "idle", op |-> "none", broker |-> FALSE, fuel |-> 0, limit |-> 0, receipts |-> <<>>,
            ended |-> "none", overran |-> FALSE, elapsed |-> FALSE]

\* Every import but the broker is refused, and the broker without an executor.
SdkLinkable(bin, executor) ==
    /\ bin.imports \subseteq {"pliego:effects/broker"}
    /\ bin.imports /= {} => executor

SdkTransformable(m, bin) ==
    m.plane = "build" /\ m.world = "transformer" /\ m.determinism = "pure" /\ bin.imports = {}

\* A run starts: the store gets its limits, fuel and broker, the timer its deadline.
SdkStart(op, bin) ==
    /\ sdkExt /= <<>> /\ sdkRun.at = "idle"
    /\ LET m == sdkExt[1] IN
       /\ m.kind = "component" /\ SdkVerified(m, bin)
       /\ IF op = "transform" THEN SdkTransformable(m, bin) ELSE SdkLinkable(bin, sdkExecutor)
       /\ sdkRun' = [SdkIdle EXCEPT !.at = "guest", !.op = op, !.fuel = m.budget.fuel,
                                    !.limit = m.budget.output, !.broker = bin.imports /= {}]
    /\ sdkLate' = FALSE /\ sdkExpired' = FALSE
    /\ UNCHANGED <<sdkSide, sdkExecutor, sdkExt, sdkPerformed, sdkReturned, sdkRpc, sdkTalk>>

SdkRunning(run) ==
    /\ sdkRun' = run
    /\ UNCHANGED <<sdkSide, sdkExecutor, sdkExt, sdkLate, sdkExpired, sdkReturned, sdkRpc, sdkTalk>>

\* Mutant: what the effect itself needs is not asked for.
SdkAllowsBrokerOnly(cap) == "effect-broker" \in sdkExt[1].caps

\* EffectBroker::execute: the policy of the admitted manifest allows the effect.
SdkAllows(cap) == {"effect-broker", cap} \subseteq sdkExt[1].caps

\* The executor is called once, its panic is caught, an answer over the limit
\* is an error, and either outcome is receipted under the next sequence.
SdkReceipted(receipts, cap, outcome) ==
    Append(receipts, [sequence |-> Len(receipts) + 1, cap |-> cap, ok |-> outcome = "ok"])

\* The broker's host function.  A request that is refused changes nothing.
SdkEffect(cap, size, outcome) ==
    /\ sdkRun.at = "guest" /\ sdkRun.broker
    /\ size <= sdkRun.limit /\ SdkAllows(cap) /\ Len(sdkRun.receipts) < SdkMaxReceipts
    /\ SdkRunning([sdkRun EXCEPT !.receipts = SdkReceipted(@, cap, outcome)])
    /\ sdkPerformed' = Append(sdkPerformed, [cap |-> cap, outcome |-> outcome])

SdkEnded(how) ==
    /\ SdkRunning([sdkRun EXCEPT !.at = "measure", !.ended = how, !.overran = sdkLate])
    /\ UNCHANGED sdkPerformed

\* The guest computes, and traps when its fuel is spent.
SdkBurn ==
    /\ sdkRun.at = "guest" /\ sdkRun.fuel > 0
    /\ SdkRunning([sdkRun EXCEPT !.fuel = @ - 1])
    /\ UNCHANGED sdkPerformed

SdkExhausted == sdkRun.at = "guest" /\ sdkRun.fuel = 0 /\ SdkEnded("trap")

\* The epoch moved: the guest is interrupted.
SdkInterrupted == sdkRun.at = "guest" /\ sdkExpired /\ SdkEnded("trap")

\* The guest returns by itself.
SdkGuestEnds(how) == sdkRun.at = "guest" /\ SdkEnded(how)

\* Time passes; the timer thread may notice later, and not once it is cancelled.
SdkTime ==
    /\ sdkRun.at /= "idle" /\ ~sdkLate /\ sdkLate' = TRUE
    /\ UNCHANGED <<sdkSide, sdkExecutor, sdkExt, sdkRun, sdkExpired, sdkPerformed, sdkReturned, sdkRpc, sdkTalk>>

SdkTimerFires ==
    /\ sdkRun.at \in {"guest", "measure", "join"} /\ sdkLate /\ ~sdkExpired /\ sdkExpired' = TRUE
    /\ UNCHANGED <<sdkSide, sdkExecutor, sdkExt, sdkRun, sdkLate, sdkPerformed, sdkReturned, sdkRpc, sdkTalk>>

\* EpochDeadline::finish: the clock is read before the timer is cancelled and joined.
SdkElapsed == sdkLate

SdkMeasure ==
    /\ sdkRun.at = "measure"
    /\ SdkRunning([sdkRun EXCEPT !.at = "join", !.elapsed = SdkElapsed])
    /\ UNCHANGED sdkPerformed

\* The timer thread is joined and the result decided: the deadline before
\* anything the guest said, fuel before other traps, then the output's contract.
SdkResult ==
    CASE sdkRun.elapsed \/ sdkExpired -> "deadline"
      [] ~(sdkRun.elapsed \/ sdkExpired) /\ sdkRun.ended = "trap" ->
            IF sdkRun.fuel = 0 THEN "exhausted" ELSE "runtime"
      [] ~(sdkRun.elapsed \/ sdkExpired) /\ sdkRun.ended /= "trap" -> sdkRun.ended

SdkJoin ==
    /\ sdkRun.at = "join"
    /\ sdkReturned' = Append(sdkReturned, [op |-> sdkRun.op, result |-> SdkResult, overran |-> sdkRun.overran,
                                           receipts |-> sdkRun.receipts])
    /\ sdkRun' = [sdkRun EXCEPT !.at = "done"]
    /\ UNCHANGED <<sdkSide, sdkExecutor, sdkExt, sdkLate, sdkExpired, sdkPerformed, sdkRpc, sdkTalk>>

-----------------------------------------------------------------------------
(* The tooling host.                                                       *)

\* RpcHost::handle: a message without an id is ignored.
SdkPliego(rpc, msg) ==
    CASE ~msg.id -> [rpc |-> rpc, answer |-> "none"]
      [] msg.id /\ ~msg.json2 -> [rpc |-> rpc, answer |-> "invalid"]
      [] msg.id /\ msg.json2 /\ msg.method = "handshake" ->
            [rpc |-> [rpc EXCEPT !.negotiated = msg.ok], answer |-> IF msg.ok THEN "ok" ELSE "version"]
      [] msg.id /\ msg.json2 /\ msg.method = "diagnostics" ->
            [rpc |-> rpc, answer |-> IF rpc.negotiated THEN "ok" ELSE "incomplete"]
      [] msg.id /\ msg.json2 /\ msg.method \notin {"handshake", "diagnostics"} ->
            [rpc |-> rpc, answer |-> "unknown"]

\* "initialize": accepted or not, the notification has to follow.
SdkInitialized(rpc, msg) == [rpc EXCEPT !.accepted = msg.ok, !.initialized = FALSE]

\* McpHost::handle.
SdkMcp(rpc, msg) ==
    CASE ~msg.json2 -> [rpc |-> rpc, answer |-> IF msg.id THEN "invalid" ELSE "none"]
      [] msg.json2 /\ ~msg.id /\ msg.method = "initialized" ->
            [rpc |-> [rpc EXCEPT !.initialized = rpc.accepted], answer |-> "none"]
      [] msg.json2 /\ ~msg.id /\ msg.method /= "initialized" -> [rpc |-> rpc, answer |-> "none"]
      [] msg.json2 /\ msg.id /\ msg.method = "initialize" ->
            [rpc |-> SdkInitialized(rpc, msg), answer |-> IF msg.ok THEN "ok" ELSE "version"]
      [] msg.json2 /\ msg.id /\ msg.method = "ping" -> [rpc |-> rpc, answer |-> "ok"]
      [] msg.json2 /\ msg.id /\ msg.method \notin {"initialize", "ping"} ->
            [rpc |-> rpc, answer |-> IF ~rpc.initialized THEN "incomplete"
                                     ELSE IF msg.method \notin {"tools/list", "tools/call"} THEN "unknown"
                                     ELSE IF msg.ok THEN "ok" ELSE "arguments"]

\* serve_tooling: one line, at most SdkMessages of them.  A line that does not
\* parse is answered and changes nothing.
SdkMessage(msg) ==
    /\ sdkSide \in {"pliego", "mcp"} /\ Len(sdkTalk) < SdkMessages
    /\ LET next == IF sdkSide = "mcp" THEN SdkMcp(sdkRpc, msg) ELSE SdkPliego(sdkRpc, msg) IN
       /\ sdkRpc' = next.rpc
       /\ sdkTalk' = Append(sdkTalk, [msg |-> msg, answer |-> next.answer])
    /\ UNCHANGED <<sdkSide, sdkExecutor, sdkExt, sdkRun, sdkLate, sdkExpired, sdkPerformed, sdkReturned>>

\* The messages tried: what a message may have wrong, one thing at a time.
SdkTried ==
    LET methods == IF sdkSide = "pliego" THEN {"handshake", "diagnostics", "other"}
                   ELSE {"initialize", "initialized", "ping", "tools/list", "tools/call", "other"}
    IN  {[method |-> n, ok |-> TRUE, id |-> i, json2 |-> TRUE] : n \in methods, i \in BOOLEAN}
        \cup {[method |-> n, ok |-> FALSE, id |-> TRUE, json2 |-> v] :
                 n \in methods \cap {"handshake", "initialize", "tools/call"}, v \in BOOLEAN}

SdkInit ==
    /\ sdkSide \in {"extension", "pliego", "mcp"}
    /\ sdkExecutor \in IF sdkSide = "extension" THEN BOOLEAN ELSE {FALSE}
    /\ sdkExt = <<>> /\ sdkRun = SdkIdle /\ sdkLate = FALSE /\ sdkExpired = FALSE
    /\ sdkPerformed = <<>> /\ sdkReturned = <<>> /\ sdkTalk = <<>>
    /\ sdkRpc = [negotiated |-> FALSE, accepted |-> FALSE, initialized |-> FALSE]

SdkNext ==
    \/ \E m \in SdkManifests, bin \in SdkBinaries : SdkAdmit(m, bin)
    \/ \E op \in {"instantiate", "transform"}, bin \in SdkBinaries : SdkStart(op, bin)
    \/ \E cap \in SdkPolicy \cup {"network", "clock"}, size \in 0..2, outcome \in {"ok", "long", "error", "panic"} :
          SdkEffect(cap, size, outcome)
    \/ SdkBurn \/ SdkExhausted \/ SdkInterrupted \/ SdkTime \/ SdkTimerFires \/ SdkMeasure \/ SdkJoin
    \/ \E how \in {"ok", "trap", "guest", "contract", "budget"} : SdkGuestEnds(how)
    \/ \E msg \in SdkTried : SdkMessage(msg)

SdkSpec == SdkInit /\ [][SdkNext]_sdkVars

-----------------------------------------------------------------------------
(* Properties.                                                             *)

\* Every effect the executor performed, whether it succeeded, failed or
\* panicked, has its receipt, in order and under consecutive sequences, and
\* was granted both by the host's policy and by a manifest that is not pure.
SdkEffectsAreReceipted ==
    /\ Len(sdkPerformed) = Len(sdkRun.receipts)
    /\ \A k \in 1..Len(sdkPerformed) :
          /\ sdkRun.receipts[k] = [sequence |-> k, cap |-> sdkPerformed[k].cap,
                                   ok |-> sdkPerformed[k].outcome = "ok"]
          /\ sdkPerformed[k].cap \in SdkPolicy \cap sdkExt[1].caps
          /\ sdkExt[1].determinism /= "pure" /\ sdkExecutor

\* A run whose guest was still at work when its wall time ended never returns
\* a success, however late the timer thread is scheduled.
SdkResultsAreOnTime == \A k \in 1..Len(sdkReturned) : sdkReturned[k].overran => sdkReturned[k].result = "deadline"

\* An MCP tool is only listed or called in a session that the latest
\* initialize opened and a notification confirmed, and diagnostics are only
\* served when the latest handshake succeeded.
SdkToolsNeedHandshake ==
    \A i \in 1..Len(sdkTalk) : sdkTalk[i].answer = "ok" =>
        /\ sdkTalk[i].msg.method \in {"tools/list", "tools/call"} =>
             \E j \in 1..i, k \in 1..i :
                /\ j < k /\ sdkTalk[j].msg.method = "initialize" /\ sdkTalk[j].answer = "ok"
                /\ sdkTalk[k].msg.method = "initialized" /\ ~sdkTalk[k].msg.id
                /\ \A n \in j + 1..i : sdkTalk[n].msg.method = "initialize" => sdkTalk[n].answer \in {"invalid", "none"}
        /\ sdkTalk[i].msg.method = "diagnostics" =>
             \E j \in 1..i : /\ sdkTalk[j].msg.method = "handshake" /\ sdkTalk[j].answer = "ok"
                             /\ \A n \in j + 1..i : sdkTalk[n].answer /= "version"

\* A guest acts only through receipts, answers in time, and no tool runs before
\* the handshake (HostState::execute, EpochDeadline, RpcHost::handle).
SdkGuarantees ==
    /\ SdkEffectsAreReceipted
    /\ SdkResultsAreOnTime
    /\ SdkToolsNeedHandshake

-----------------------------------------------------------------------------
(* The inductive invariant.                                                *)

SdkReceipts == [sequence : Nat, cap : SdkPolicy \cup {"network", "clock"}, ok : BOOLEAN]
SdkOutcomes == [cap : SdkPolicy \cup {"network", "clock"}, outcome : {"ok", "long", "error", "panic"}]
SdkRuns ==
    [at : {"idle", "guest", "measure", "join", "done"}, op : {"none", "instantiate", "transform"},
     broker : BOOLEAN, fuel : Nat, limit : Nat, receipts : Seq(SdkReceipts),
     ended : {"none", "ok", "trap", "guest", "contract", "budget"}, overran : BOOLEAN, elapsed : BOOLEAN]
SdkResults ==
    [op : {"none", "instantiate", "transform"},
     result : {"deadline", "exhausted", "runtime", "none", "ok", "guest", "contract", "budget"},
     overran : BOOLEAN, receipts : Seq(SdkReceipts)]
SdkFlags == [negotiated : BOOLEAN, accepted : BOOLEAN, initialized : BOOLEAN]
SdkLines ==
    [method : {"handshake", "diagnostics", "initialize", "initialized", "ping", "tools/list", "tools/call",
               "other"},
     ok : BOOLEAN, id : BOOLEAN, json2 : BOOLEAN]
SdkAnswers == {"none", "invalid", "ok", "version", "incomplete", "unknown", "arguments"}

SdkTyped ==
    /\ sdkSide \in {"extension", "pliego", "mcp"}
    /\ sdkExecutor \in BOOLEAN /\ sdkLate \in BOOLEAN /\ sdkExpired \in BOOLEAN
    /\ sdkRun \in SdkRuns
    /\ sdkPerformed \in Seq(SdkOutcomes)
    /\ sdkReturned \in Seq(SdkResults)
    /\ sdkRpc \in SdkFlags
    /\ sdkTalk \in Seq([msg : SdkLines, answer : SdkAnswers])

\* The run belongs to an admitted manifest: its broker is there only when the
\* host has an executor, and nothing was performed before the run.
SdkRunIsAdmitted ==
    /\ sdkExt = <<>> => sdkRun.at = "idle"
    /\ sdkExt /= <<>> => /\ sdkExt[1].caps \subseteq SdkPolicy
                         /\ sdkExt[1].determinism = "pure" => sdkExt[1].caps = {}
                         /\ sdkExt[1].budget.fuel \in Nat /\ sdkExt[1].budget.output \in Nat
    /\ sdkRun.broker => sdkExt /= <<>> /\ sdkExecutor
    /\ sdkRun.at = "idle" => sdkPerformed = <<>> /\ sdkRun.receipts = <<>>

\* A guest that overran did so because the time had passed, and the clock is
\* read after it ended.
SdkClockIsReadLast ==
    /\ sdkRun.at \in {"measure", "join"} => (sdkRun.overran => sdkLate)
    /\ sdkRun.at = "join" => (sdkRun.overran => sdkRun.elapsed)

\* What the flags of the tooling host stand for in the talk so far.
SdkOpened(talk, j) ==
    /\ j \in 1..Len(talk) /\ talk[j].msg.method = "initialize" /\ talk[j].answer = "ok"
    /\ \A n \in j + 1..Len(talk) : talk[n].msg.method = "initialize" => talk[n].answer \in {"invalid", "none"}
SdkAgreed(talk, j) ==
    /\ j \in 1..Len(talk) /\ talk[j].msg.method = "handshake" /\ talk[j].answer = "ok"
    /\ \A n \in j + 1..Len(talk) : talk[n].answer /= "version"
SdkConfirmed(talk, j, k) ==
    SdkOpened(talk, j) /\ k \in j + 1..Len(talk) /\ talk[k].msg.method = "initialized" /\ ~talk[k].msg.id
SdkFlagsAreEarned ==
    /\ sdkRpc.accepted => sdkSide = "mcp" /\ \E j \in 1..Len(sdkTalk) : SdkOpened(sdkTalk, j)
    /\ sdkRpc.initialized =>
          sdkSide = "mcp" /\ \E j, k \in 1..Len(sdkTalk) : SdkConfirmed(sdkTalk, j, k)
    /\ sdkRpc.negotiated => sdkSide = "pliego" /\ \E j \in 1..Len(sdkTalk) : SdkAgreed(sdkTalk, j)

SdkInvariant == SdkTyped /\ SdkRunIsAdmitted /\ SdkClockIsReadLast /\ SdkFlagsAreEarned /\ SdkGuarantees
================================================================================
