---------------------------- MODULE RequestContext ----------------------------
(***************************************************************************)
(* One DataContext of pliego-data and its control: loaders shared by the   *)
(* tasks of a request through OnceCells, resource leases, outbound HTTP    *)
(* permits with their redirects, registered cleanups, cancellation and     *)
(* close.  Tasks are futures of the request that run, wait and are dropped *)
(* while the host cancels and closes the context from its own thread.      *)
(***************************************************************************)
EXTENDS Naturals, Sequences, FiniteSets

CONSTANTS
    CtxTasks,        \* concurrent uses of the context
    CtxLoaders,      \* LoaderPolicies
    CtxGranted,      \* the policies the sealed context grants
    CtxInputs,       \* inputs as serialized: sequences of <<field, value>>
    CtxRegistry,     \* resource id -> [caps, lease], lease 0 for none
    CtxGrants,       \* resource id -> granted capabilities
    CtxRequirements, \* [id, caps]
    CtxOutbound,     \* the OutboundHttpPolicy
    CtxUrls,         \* parsed URLs and redirect targets
    CtxResolutions,  \* what the DNS resolver may answer: sets of addresses
    CtxDeadline,     \* the request's deadline
    CtxMaxTime,      \* bound on the clock
    CtxMaxCleanups   \* DataContextOptions.max_cleanups

\* The builder methods of LoaderPolicy.
CtxLoaderAdmitted(p) == p.revision > 0 /\ p.maxOutput \in 1..(16 * 1024 * 1024)

\* The builder methods of OutboundHttpPolicy.
CtxOutboundAdmitted(p) ==
    /\ Cardinality(p.hosts) <= 64
    /\ 0 \notin p.ports /\ Cardinality(p.ports) <= 16
    /\ Cardinality(p.prefixes) \in 1..32
    /\ p.timeout > 0 /\ p.redirects \in 0..10 /\ p.addresses \in 1..64

\* DataContextOptions::validate and open.
CtxOptionsAdmitted == CtxMaxCleanups \in 1..1024 /\ CtxDeadline > 0

ASSUME CtxAssumption ==
    /\ CtxOptionsAdmitted /\ CtxOutboundAdmitted(CtxOutbound)
    /\ \A p \in CtxLoaders : CtxLoaderAdmitted(p)

VARIABLES
    ctxNow,     \* Instant::now
    ctxClose,   \* where close is; "open" before it
    ctxReason,  \* cancel_reason
    ctxCancelled,
    cells,      \* loader_cells: invocation key -> the task whose cell it is
    cell,       \* per task: the OnceCell it created
    cleanups,   \* registered cleanups, then the ones close has taken
    ctxTask,    \* per task: what it does and where it is
    ctxRan,     \* history: cleanups in the order they ran
    ctxLoaded   \* history: invocation key -> outputs its loader returned

ctxVars == <<ctxNow, ctxClose, ctxReason, ctxCancelled, cells, cell, cleanups, ctxTask,
             ctxRan, ctxLoaded>>

CtxClosed == ctxClose # "open"
EmptyCell == [at |-> "empty", result |-> "none"]

CtxInit ==
    /\ ctxNow = 0 /\ ctxClose = "open" /\ ctxReason = "none" /\ ctxCancelled = FALSE
    /\ cells = <<>> /\ cell = [t \in CtxTasks |-> EmptyCell]
    /\ cleanups = [held |-> <<>>, taken |-> <<>>]
    /\ ctxTask = [t \in CtxTasks |-> [op |-> "none", at |-> "idle"]]
    /\ ctxRan = <<>> /\ ctxLoaded = <<>>

CtxDone(t, result) == ctxTask' = [ctxTask EXCEPT ![t] = [op |-> ctxTask[t].op, at |-> result]]
CtxUnchangedRest == UNCHANGED <<ctxNow, ctxClose, ctxReason, ctxCancelled>>

-----------------------------------------------------------------------------
(* DataContext::load.                                                      *)

\* canonical_json_bytes: the order of the fields does not count.
CtxCanonical(input) ==
    [f \in {input[i][1] : i \in DOMAIN input} |->
        (CHOOSE i \in DOMAIN input : input[i][1] = f)]

CtxCanonicalValues(input) ==
    {<<f, input[CtxCanonical(input)[f]][2]>> : f \in DOMAIN CtxCanonical(input)}

\* invocation_key: policy, revision, schemas and cache policy, route and input.
CtxInvocation(policy, input) == <<policy, CtxCanonicalValues(input)>>

CtxLoad(t) ==
    /\ ctxTask[t].at = "idle"
    /\ \E policy \in CtxLoaders, input \in CtxInputs :
          ctxTask' = [ctxTask EXCEPT ![t] =
              IF policy \notin CtxGranted THEN [op |-> "load", at |-> "PolicyNotGranted"]
              ELSE IF CtxClosed THEN [op |-> "load", at |-> "ContextClosed"]
              ELSE IF ctxCancelled THEN [op |-> "load", at |-> "Cancelled"]
              ELSE [op |-> "load", at |-> "joining", policy |-> policy,
                    key |-> CtxInvocation(policy, input), cell |-> t]]
    /\ CtxUnchangedRest
    /\ UNCHANGED <<cells, cell, cleanups, ctxRan, ctxLoaded>>

\* Mutant: the cell of an earlier call is replaced.
CtxJoinAnew(t) ==
    /\ ctxTask[t].at = "joining"
    /\ LET k == ctxTask[t].key
       IN  cells' = [x \in DOMAIN cells \cup {k} |-> IF x = k THEN t ELSE cells[x]]
    /\ ctxTask' = [ctxTask EXCEPT ![t].at = "loading"]
    /\ CtxUnchangedRest
    /\ UNCHANGED <<cell, cleanups, ctxRan, ctxLoaded>>

\* The cell of the key is shared; without deduplication a call has its own.
CtxJoin(t) ==
    LET k == ctxTask[t].key
        shared == ctxTask[t].policy.dedup /\ k \in DOMAIN cells
    IN  /\ ctxTask[t].at = "joining"
        /\ ctxTask' = [ctxTask EXCEPT ![t].at = "loading",
                                      ![t].cell = IF shared THEN cells[k] ELSE t]
        /\ cells' = IF shared \/ ~ctxTask[t].policy.dedup THEN cells
                    ELSE [x \in DOMAIN cells \cup {k} |-> IF x = k THEN t ELSE cells[x]]
        /\ CtxUnchangedRest
        /\ UNCHANGED <<cell, cleanups, ctxRan, ctxLoaded>>

\* get_or_init: one task initializes, the others wait for it.
CtxInitialize(t) ==
    /\ ctxTask[t].at = "loading"
    /\ cell[ctxTask[t].cell].at = "empty"
    /\ cell' = [cell EXCEPT ![ctxTask[t].cell].at = "running"]
    /\ ctxTask' = [ctxTask EXCEPT ![t].at = "running"]
    /\ CtxUnchangedRest
    /\ UNCHANGED <<cells, cleanups, ctxRan, ctxLoaded>>

\* The select is biased: cancellation, the deadline, then the loader's output,
\* which may be too large or an error.  Errors stay in the cell as well.
CtxRun(t) ==
    LET results == IF ctxCancelled THEN {"Cancelled"}
                   ELSE IF ctxNow >= CtxDeadline THEN {"Deadline"}
                   ELSE {"ok", "LoaderOutput"}
        k == ctxTask[t].key
    IN  /\ ctxTask[t].at = "running"
        /\ \E result \in results :
              /\ cell' = [cell EXCEPT ![ctxTask[t].cell] = [at |-> "full", result |-> result]]
              /\ CtxDone(t, result)
              /\ ctxLoaded' = IF result # "ok" \/ ~ctxTask[t].policy.dedup THEN ctxLoaded
                    ELSE [x \in DOMAIN ctxLoaded \cup {k} |->
                            IF x # k THEN ctxLoaded[x]
                            ELSE IF k \in DOMAIN ctxLoaded THEN ctxLoaded[k] + 1 ELSE 1]
        /\ CtxUnchangedRest
        /\ UNCHANGED <<cells, cleanups, ctxRan>>

CtxShareResult(t) ==
    /\ ctxTask[t].at = "loading" /\ cell[ctxTask[t].cell].at = "full"
    /\ CtxDone(t, cell[ctxTask[t].cell].result)
    /\ CtxUnchangedRest
    /\ UNCHANGED <<cells, cell, cleanups, ctxRan, ctxLoaded>>

\* The future is dropped: an initialization it ran passes to a waiter.
CtxDrop(t) ==
    /\ ctxTask[t].at \in {"joining", "loading", "running", "resolving"}
    /\ cell' = IF ctxTask[t].at = "running"
               THEN [cell EXCEPT ![ctxTask[t].cell].at = "empty"] ELSE cell
    /\ CtxDone(t, "dropped")
    /\ CtxUnchangedRest
    /\ UNCHANGED <<cells, cleanups, ctxRan, ctxLoaded>>

-----------------------------------------------------------------------------
(* Resource leases.                                                        *)

\* acquire: the capabilities must be both granted and provided, and a lease ends
\* with the request or with its own bound.
CtxAcquire(t) ==
    /\ ctxTask[t].at = "idle"
    /\ \E r \in CtxRequirements :
          ctxTask' = [ctxTask EXCEPT ![t] =
              IF CtxClosed THEN [op |-> "lease", at |-> "ContextClosed"]
              ELSE IF r.id \notin DOMAIN CtxRegistry \cap DOMAIN CtxGrants
              THEN [op |-> "lease", at |-> "ResourceUnavailable"]
              ELSE IF ~(r.caps \subseteq CtxGrants[r.id] \cap CtxRegistry[r.id].caps)
              THEN [op |-> "lease", at |-> "MissingCapability"]
              ELSE LET bound == ctxNow + CtxRegistry[r.id].lease
                   IN  [op |-> "lease", at |-> "leased", id |-> r.id, caps |-> r.caps,
                        until |-> IF CtxRegistry[r.id].lease # 0 /\ bound < CtxDeadline
                                  THEN bound ELSE CtxDeadline]]
    /\ CtxUnchangedRest
    /\ UNCHANGED <<cells, cell, cleanups, ctxRan, ctxLoaded>>

\* ensure_active, on every use.
CtxUse(t) ==
    /\ ctxTask[t].at = "leased"
    /\ CtxDone(t, IF CtxClosed THEN "ContextClosed"
                  ELSE IF ctxCancelled THEN "Cancelled"
                  ELSE IF ctxNow >= ctxTask[t].until THEN "Deadline" ELSE "used")
    /\ CtxUnchangedRest
    /\ UNCHANGED <<cells, cell, cleanups, ctxRan, ctxLoaded>>

-----------------------------------------------------------------------------
(* OutboundHttpGuard.                                                      *)

\* is_public_ipv4 over the octets; the std predicates are spelled out.
CtxPublicV4(o) ==
    ~ \/ o[1] \in {0, 10, 127} \/ o[1] >= 224
      \/ o[1] = 172 /\ o[2] \in 16..31
      \/ o[1] = 192 /\ o[2] = 168
      \/ o[1] = 169 /\ o[2] = 254
      \/ o[1] = 100 /\ o[2] \in 64..127
      \/ o[1] = 192 /\ o[2] = 0 /\ o[3] \in {0, 2}
      \/ o[1] = 198 /\ (o[2] \in {18, 19} \/ (o[2] = 51 /\ o[3] = 100))
      \/ o[1] = 203 /\ o[2] = 0 /\ o[3] = 113

\* is_public_ip: a mapped IPv6 address is judged as the IPv4 one it holds.
CtxPublic(address) ==
    IF address.kind \in {"v4", "mapped"} THEN CtxPublicV4(address.octets)
    ELSE address.kind = "global"

CtxPathAllowed(url) ==
    "/" \in CtxOutbound.prefixes \/ (~url.odd /\ url.prefix \in CtxOutbound.prefixes)

CtxUrlError(url) ==
    IF url.credentials THEN "ForbiddenUrlComponent"
    ELSE IF ~(url.scheme = "https" \/ (url.scheme = "http" /\ CtxOutbound.http))
    THEN "SchemeRejected"
    ELSE IF url.host \notin CtxOutbound.hosts THEN "HostRejected"
    ELSE IF url.port \notin CtxOutbound.ports THEN "PortRejected"
    ELSE IF ~CtxPathAllowed(url) THEN "PathRejected"
    ELSE "none"

\* authorize_inner up to the resolution of the host.
CtxGuarded(t, url, budget, trail) ==
    IF CtxClosed THEN [op |-> "http", at |-> "ContextClosed"]
    ELSE IF ctxCancelled THEN [op |-> "http", at |-> "Cancelled"]
    ELSE IF ctxNow >= CtxDeadline THEN [op |-> "http", at |-> "Deadline"]
    ELSE IF CtxUrlError(url) # "none" THEN [op |-> "http", at |-> CtxUrlError(url)]
    ELSE [op |-> "http", at |-> "resolving", url |-> url, since |-> ctxNow,
          budget |-> budget, trail |-> trail]

CtxAuthorize(t) ==
    /\ ctxTask[t].at = "idle"
    /\ \E url \in CtxUrls :
          ctxTask' = [ctxTask EXCEPT ![t] = CtxGuarded(t, url, CtxOutbound.redirects, <<>>)]
    /\ CtxUnchangedRest
    /\ UNCHANGED <<cells, cell, cleanups, ctxRan, ctxLoaded>>

CtxAddressError(t, addresses) ==
    IF addresses = {} \/ Cardinality(addresses) > CtxOutbound.addresses THEN "DnsAddressCount"
    ELSE IF ~CtxOutbound.private /\ \E a \in addresses : ~CtxPublic(a)
    THEN "PrivateAddressRejected" ELSE "none"

\* The resolver answers, raced by cancellation and the timeout of the policy.
CtxResolve(t) ==
    /\ ctxTask[t].at = "resolving"
    /\ \E addresses \in IF ctxTask[t].url.literal = {} THEN CtxResolutions
                        ELSE {ctxTask[t].url.literal} :
          ctxTask' = [ctxTask EXCEPT ![t] =
              IF ctxCancelled THEN [op |-> "http", at |-> "Cancelled"]
              ELSE IF ctxNow >= CtxDeadline \/ ctxNow >= ctxTask[t].since + CtxOutbound.timeout
              THEN [op |-> "http", at |-> "Deadline"]
              ELSE IF CtxAddressError(t, addresses) # "none"
              THEN [op |-> "http", at |-> CtxAddressError(t, addresses)]
              ELSE [op |-> "http", at |-> "permitted", budget |-> ctxTask[t].budget,
                    trail |-> Append(ctxTask[t].trail,
                                     [url |-> ctxTask[t].url, addresses |-> addresses])]]
    /\ CtxUnchangedRest
    /\ UNCHANGED <<cells, cell, cleanups, ctxRan, ctxLoaded>>

\* authorize_redirect: the target is authorized like any other URL.
CtxRedirect(t) ==
    /\ ctxTask[t].at = "permitted"
    /\ \E url \in CtxUrls :
          ctxTask' = [ctxTask EXCEPT ![t] =
              IF ctxTask[t].budget = 0 THEN [op |-> "http", at |-> "RedirectLimit"]
              ELSE CtxGuarded(t, url, ctxTask[t].budget - 1, ctxTask[t].trail)]
    /\ CtxUnchangedRest
    /\ UNCHANGED <<cells, cell, cleanups, ctxRan, ctxLoaded>>

-----------------------------------------------------------------------------
(* Cleanups, cancellation and close.                                       *)

\* register_cleanup looks at closed before it takes the lock on the cleanups.
CtxRegister(t) ==
    /\ ctxTask[t].at = "idle"
    /\ ctxTask' = [ctxTask EXCEPT ![t] =
          [op |-> "cleanup", at |-> IF CtxClosed THEN "ContextClosed" ELSE "registering"]]
    /\ CtxUnchangedRest
    /\ UNCHANGED <<cells, cell, cleanups, ctxRan, ctxLoaded>>

CtxPush(t) ==
    LET full == Len(cleanups.held) >= CtxMaxCleanups
    IN  /\ ctxTask[t].at = "registering"
        /\ CtxDone(t, IF full THEN "CleanupLimit"
                      ELSE IF CtxClosed THEN "registered late" ELSE "registered")
        /\ cleanups' = IF full THEN cleanups ELSE [cleanups EXCEPT !.held = Append(@, t)]
        /\ CtxUnchangedRest
        /\ UNCHANGED <<cells, cell, ctxRan, ctxLoaded>>

\* The first reason to cancel is kept.
CtxCancel ==
    /\ \E reason \in {"ClientDisconnect", "Deadline", "Shutdown"} :
          ctxReason' = IF ctxReason = "none" THEN reason ELSE ctxReason
    /\ ~ctxCancelled /\ ctxCancelled' = TRUE
    /\ UNCHANGED <<ctxNow, ctxClose, cells, cell, cleanups, ctxTask, ctxRan, ctxLoaded>>

CtxCloseBegin ==
    /\ ctxClose = "open" /\ ctxClose' = "closed"
    /\ UNCHANGED <<ctxNow, ctxReason, ctxCancelled, cells, cell, cleanups, ctxTask, ctxRan,
                   ctxLoaded>>

CtxCloseCancel ==
    /\ ctxClose = "closed" /\ ctxClose' = "taking"
    /\ ctxReason' = IF ctxReason = "none" THEN "ScopeClosed" ELSE ctxReason
    /\ ctxCancelled' = TRUE
    /\ UNCHANGED <<ctxNow, cells, cell, cleanups, ctxTask, ctxRan, ctxLoaded>>

CtxCloseTake ==
    /\ ctxClose = "taking" /\ ctxClose' = "running"
    /\ cleanups' = [held |-> <<>>, taken |-> cleanups.held]
    /\ UNCHANGED <<ctxNow, ctxReason, ctxCancelled, cells, cell, ctxTask, ctxRan, ctxLoaded>>

\* The last registered cleanup runs first; one that panics is caught.
CtxCloseRun ==
    /\ ctxClose = "running" /\ cleanups.taken # <<>>
    /\ cleanups' = [cleanups EXCEPT !.taken = SubSeq(@, 1, Len(@) - 1)]
    /\ ctxRan' = Append(ctxRan, cleanups.taken[Len(cleanups.taken)])
    /\ UNCHANGED <<ctxNow, ctxClose, ctxReason, ctxCancelled, cells, cell, ctxTask, ctxLoaded>>

CtxCloseEnd ==
    /\ ctxClose = "running" /\ cleanups.taken = <<>>
    /\ ctxClose' = "ended" /\ cells' = <<>>
    /\ UNCHANGED <<ctxNow, ctxReason, ctxCancelled, cell, cleanups, ctxTask, ctxRan, ctxLoaded>>

CtxTick ==
    /\ ctxNow < CtxMaxTime /\ ctxNow' = ctxNow + 1
    /\ UNCHANGED <<ctxClose, ctxReason, ctxCancelled, cells, cell, cleanups, ctxTask, ctxRan,
                   ctxLoaded>>

CtxNext ==
    \/ \E t \in CtxTasks :
          \/ CtxLoad(t) \/ CtxJoin(t) \/ CtxInitialize(t) \/ CtxRun(t) \/ CtxShareResult(t)
          \/ CtxDrop(t) \/ CtxAcquire(t) \/ CtxUse(t) \/ CtxAuthorize(t) \/ CtxResolve(t)
          \/ CtxRedirect(t) \/ CtxRegister(t) \/ CtxPush(t)
    \/ CtxCancel \/ CtxCloseBegin \/ CtxCloseCancel \/ CtxCloseTake \/ CtxCloseRun
    \/ CtxCloseEnd \/ CtxTick

CtxSpec == CtxInit /\ [][CtxNext]_ctxVars

-----------------------------------------------------------------------------
(* Properties.                                                             *)

\* In one request a deduplicated loader returns at most one output per key, also
\* when the task that ran it is dropped and while close clears the cells under
\* tasks that are about to join (loader_cells, the order of cancel and clear).
CtxLoadsOnce == \A k \in DOMAIN ctxLoaded : ctxLoaded[k] = 1

\* However a chain of redirects goes and whatever the resolver answers, every
\* permit is within the policy, to public addresses, and the chain is bounded.
CtxRedirectsStayInside ==
    \A t \in CtxTasks : ctxTask[t].at \in {"resolving", "permitted"} =>
        /\ Len(ctxTask[t].trail) <= CtxOutbound.redirects + 1
        /\ \A i \in DOMAIN ctxTask[t].trail :
              /\ CtxUrlError(ctxTask[t].trail[i].url) = "none"
              /\ \A a \in ctxTask[t].trail[i].addresses : CtxPublic(a) \/ CtxOutbound.private

\* When close has ended, every cleanup whose registration returned before close
\* began has run, and none runs twice; only a registration that looked at closed
\* before close began and pushed after it can be lost (close, register_cleanup).
CtxCleanupsRun ==
    /\ \A i, j \in DOMAIN ctxRan : i # j => ctxRan[i] # ctxRan[j]
    /\ ctxClose = "ended" =>
          \A t \in CtxTasks : ctxTask[t].at = "registered" =>
              \E i \in DOMAIN ctxRan : ctxRan[i] = t

\* What a request context owes to its request: one run per deduplicated load,
\* outbound calls inside the policy, and every cleanup (load, authorize, close).
CtxGuarantees ==
    /\ CtxLoadsOnce
    /\ CtxRedirectsStayInside
    /\ CtxCleanupsRun

-----------------------------------------------------------------------------
(* What makes CtxGuarantees inductive.                                     *)

CtxResults == {"none", "ok", "LoaderOutput", "Cancelled", "Deadline"}
CtxHops == [url : CtxUrls, addresses : CtxResolutions \cup {u.literal : u \in CtxUrls}]

CtxTypes ==
    /\ DOMAIN ctxTask = CtxTasks
    /\ cell \in [CtxTasks -> [at : {"empty", "running", "full"}, result : CtxResults]]
    /\ ctxCancelled \in BOOLEAN
    /\ ctxClose \in {"open", "closed", "taking", "running", "ended"}
    /\ \A k \in DOMAIN cells : cells[k] \in CtxTasks
    /\ cleanups \in [held : Seq(CtxTasks), taken : Seq(CtxTasks)]
    /\ ctxRan \in Seq(CtxTasks)

\* A permit keeps what was checked for it, and each hop costs one of the budget.
CtxHopInside(hop) ==
    /\ CtxUrlError(hop.url) = "none"
    /\ \A a \in hop.addresses : CtxPublic(a) \/ CtxOutbound.private

CtxTaskKept(t) ==
    /\ ctxTask[t].at \in {"joining", "loading", "running"} =>
          /\ DOMAIN ctxTask[t] = {"op", "at", "policy", "key", "cell"}
          /\ ctxTask[t].cell \in CtxTasks
    /\ ctxTask[t].at \in {"resolving", "permitted"} =>
          /\ ctxTask[t].budget \in Nat /\ ctxTask[t].trail \in Seq(CtxHops)
          /\ Len(ctxTask[t].trail) + ctxTask[t].budget <= CtxOutbound.redirects + 1
          /\ \A i \in DOMAIN ctxTask[t].trail : CtxHopInside(ctxTask[t].trail[i])
    /\ ctxTask[t].at = "resolving" =>
          /\ ctxTask[t].url \in CtxUrls /\ CtxUrlError(ctxTask[t].url) = "none"
          /\ Len(ctxTask[t].trail) + ctxTask[t].budget <= CtxOutbound.redirects

\* While the context is not cancelled, who loads a shared key does so in the cell
\* the key is registered with, and a cell has at most one runner.
CtxTaskLoads(t) ==
    /\ ctxTask[t].at = "running" => cell[ctxTask[t].cell].at = "running"
    /\ (ctxTask[t].at \in {"loading", "running"} /\ ctxTask[t].policy.dedup /\ ~ctxCancelled) =>
          ctxTask[t].key \in DOMAIN cells /\ cells[ctxTask[t].key] = ctxTask[t].cell

CtxOneRunner ==
    \A t, u \in CtxTasks :
        (ctxTask[t].at = "running" /\ ctxTask[u].at = "running" /\ ctxTask[t].cell = ctxTask[u].cell)
            => t = u

CtxLoadedIsFull ==
    \A k \in DOMAIN ctxLoaded :
        /\ ctxLoaded[k] = 1
        /\ ~ctxCancelled => k \in DOMAIN cells /\ cell[cells[k]].at = "full"

\* The cleanup of a task is where close has brought it.
CtxBeforeTake == ctxClose \in {"open", "closed", "taking"}
CtxIn(t, list) == \E i \in DOMAIN list : list[i] = t

CtxTaskCleans(t) ==
    ctxTask[t].at = "registered" =>
        IF CtxBeforeTake THEN CtxIn(t, cleanups.held)
        ELSE CtxIn(t, cleanups.taken) \/ CtxIn(t, ctxRan)

CtxDistinct(list) == \A i, j \in DOMAIN list : i # j => list[i] # list[j]

CtxClosing ==
    /\ ctxClose \in {"taking", "running", "ended"} => ctxCancelled
    /\ CtxBeforeTake => cleanups.taken = <<>> /\ ctxRan = <<>>
    /\ ctxClose = "ended" => cleanups.taken = <<>>
    /\ CtxDistinct(cleanups.held) /\ CtxDistinct(cleanups.taken) /\ CtxDistinct(ctxRan)
    /\ \A i \in DOMAIN cleanups.taken, j \in DOMAIN ctxRan : cleanups.taken[i] # ctxRan[j]
    /\ \A i \in DOMAIN cleanups.held :
          ctxTask[cleanups.held[i]].at \in {"registered", "registered late"}

CtxInvariant ==
    /\ CtxTypes /\ CtxOneRunner /\ CtxLoadedIsFull /\ CtxClosing
    /\ \A t \in CtxTasks : CtxTaskKept(t) /\ CtxTaskLoads(t) /\ CtxTaskCleans(t)
=============================================================================
