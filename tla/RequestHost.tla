------------------------------ MODULE RequestHost ------------------------------
(***************************************************************************)
(* The native HTTP host of pliego-runtime: the sealed builder, connections *)
(* and their slots, the request registry and its shutdown, and one         *)
(* RequestScope per request with its deadline task.  A request's dispatch  *)
(* future and response body run in its connection; the deadline, shutdown  *)
(* and the data context's cancellation run beside them and meet it only in *)
(* the locks of the scope.                                                 *)
(***************************************************************************)
EXTENDS Naturals, Sequences, FiniteSets

CONSTANTS
    ReqIds,        \* requests, each on its own connection
    ReqPeers,      \* further requests, of which only the registration is modelled
    ReqBuilders,   \* what an application may hand to build
    ReqHeads,      \* request heads: what limits and routing see of them
    ReqStatuses,   \* status classes an application answers with
    ReqLimits,     \* RequestLimits and TransportLimits
    ReqCauses      \* why the peer's connection may end: a set of strings

\* Requests are told apart, a status is one, and a declared name is a name.
ASSUME ReqAssumption ==
    /\ ReqPeers \cap ReqIds = {}
    /\ ReqStatuses \cap {"none", "fallback"} = {}
    /\ \A b \in ReqBuilders : \A r \in b.routes : "none" \notin r.loaders \cup r.actions

VARIABLES
    host,       \* the builder that was sealed, accepting, where serve is
    registry,   \* RequestRegistry.scopes
    reqs,       \* per request: its scope, and where its future or body is
    cancels,    \* per request and canceller: where RequestScope::cancel is
    reqRan      \* history: cleanups that ran, per request

reqVars == <<host, registry, reqs, cancels, reqRan>>

-----------------------------------------------------------------------------
(* NativeRuntimeBuilder::build.                                            *)

\* RequestLimits::validate.
ReqLimitsValid(l) ==
    /\ \A f \in {"target", "headers", "body", "response", "cleanups", "concurrent"} : l[f] > 0
    /\ l.cleanups <= 4096 /\ l.concurrent <= 65536

\* TransportLimits::validate, of the limit the model uses.
ReqTransportValid(l) == l.connections \in 1..65536

\* What the graph of a builder refers to.
ReqCacheIds(b) ==
    {r.cache : r \in b.routes} \cup {b.loaders[l].cache : l \in DOMAIN b.loaders}
        \cup UNION {b.actions[a].invalidates : a \in DOMAIN b.actions}

\* A registry holds the declared behaviours and no others.
ReqRegistered(required, registered) == required \ {"none"} = registered

ReqResourcesDeclared(b) ==
    \A r \in b.routes :
        /\ \A a \in r.actions : b.actions[a].resources \subseteq r.resources
        /\ \A l \in r.loaders : b.loaders[l].resources \subseteq r.resources

ReqBuildable(b) ==
    /\ ReqLimitsValid(ReqLimits) /\ ReqTransportValid(ReqLimits)
    /\ b.duplicates = {}
    /\ ReqRegistered({r.id : r \in b.routes}, b.handlers)
    /\ ReqRegistered(UNION {{r.layers[i] : i \in DOMAIN r.layers} : r \in b.routes},
                     DOMAIN b.layers \ {b.pre[i] : i \in DOMAIN b.pre})
    /\ ReqRegistered({b.pre[i] : i \in DOMAIN b.pre},
                     DOMAIN b.layers \cap {b.pre[i] : i \in DOMAIN b.pre})
    /\ \A m \in DOMAIN b.layers : b.layers[m] = b.declared[m]
    /\ ReqRegistered(UNION {r.boundaries : r \in b.routes}, b.boundaries)
    /\ ReqRegistered(UNION {r.actions : r \in b.routes}, DOMAIN b.actions)
    /\ ReqRegistered(UNION {r.loaders : r \in b.routes}, DOMAIN b.loaders)
    /\ ReqRegistered(ReqCacheIds(b), b.caches)
    /\ ReqResourcesDeclared(b)

-----------------------------------------------------------------------------
(* RequestScope.                                                           *)

\* transition_allowed.
ReqAllowed(from, to) ==
    \/ from = "Accepted" /\ to \in {"HeadAdmitted", "Rejected", "Cancelled", "Failed"}
    \/ from = "HeadAdmitted"
       /\ to \in {"RouteResolved", "ResponseCommitted", "Rejected", "Cancelled", "Failed"}
    \/ from = "RouteResolved" /\ to \in {"ScopeOpen", "Rejected", "Cancelled", "Failed"}
    \/ from = "ScopeOpen" /\ to \in {"HandlerRunning", "Rejected", "Cancelled", "Failed"}
    \/ from = "HandlerRunning" /\ to \in {"ResponseCommitted", "Cancelled", "Failed"}
    \/ from = "ResponseCommitted"
       /\ to \in {"BodyStreaming", "ScopeDraining", "Cancelled", "Failed"}
    \/ from = "BodyStreaming" /\ to \in {"ScopeDraining", "Cancelled", "Failed"}
    \/ from \in {"Rejected", "Cancelled", "Failed"} /\ to \in {"ResponseCommitted", "ScopeDraining"}
    \/ from = "ScopeDraining" /\ to = "Closed"

ReqMove(q, to) == IF ReqAllowed(q.state, to) THEN [q EXCEPT !.state = to] ELSE q

\* reject and fail: the outcome is set if it is pending, the move may be refused.
ReqSettle(q, outcome) ==
    ReqMove([q EXCEPT !.outcome = IF @ = "Pending" THEN outcome ELSE @], outcome)

ReqDraining(q) == q.state \in {"ScopeDraining", "Closed"}

NewRequest ==
    [at |-> "waiting", state |-> "none", outcome |-> "Pending", reason |-> "none",
     token |-> FALSE, completion |-> FALSE, held |-> 0, internal |-> {}, data |-> "none",
     status |-> "none", committed |-> "none", bytes |-> 0, terminal |-> FALSE, layer |-> 0,
     head |-> {}, span |-> "none", receipts |-> <<>>]

ReqCancellers == {"deadline", "shutdown", "reader", "task"}
NoCancel == [at |-> "none", reason |-> "none"]

ReqInit ==
    /\ host = [at |-> "building", sealed |-> "none", accepting |-> TRUE, pending |-> {},
               lost |-> {}]
    /\ registry = {}
    /\ reqs = [r \in ReqIds |-> NewRequest]
    /\ cancels = [r \in ReqIds |-> [c \in ReqCancellers |-> NoCancel]]
    /\ reqRan = [r \in ReqIds |-> <<>>]

ReqSet(r, q) == reqs' = [reqs EXCEPT ![r] = q]
ReqOnly == UNCHANGED <<host, registry, cancels, reqRan>>

\* recover_error: an internal failure fails the scope, any other error rejects
\* it; error boundaries answer with the public status or are passed over.
ReqRecover(q, class, status) ==
    [ReqSettle(q, IF class = "internal" THEN "Failed" ELSE "Rejected")
        EXCEPT !.at = "answer", !.status = status]

\* The response of layer i is the downstream response of the layer above it.
ReqUp(p, i) == [p EXCEPT !.layer = i, !.at = IF i = 0 THEN "answer" ELSE "up"]

\* A cancelled request is answered so while a boundary or the pipeline runs.
ReqRecovered(q, class, status) ==
    {ReqRecover(q, class, status)} \cup
        IF q.token THEN {[ReqRecover(q, class, status) EXCEPT !.status = "server"]} ELSE {}

-----------------------------------------------------------------------------
(* Building, connections, admission.                                       *)

ReqBuild ==
    /\ host.at = "building"
    /\ \E b \in ReqBuilders :
          host' = IF ReqBuildable(b) THEN [host EXCEPT !.at = "serving", !.sealed = b]
                  ELSE [host EXCEPT !.at = "refused"]
    /\ UNCHANGED <<registry, reqs, cancels, reqRan>>

ReqConnected == {r \in ReqIds : reqs[r].at \notin {"waiting", "unserved", "gone", "served"}}

\* serve: a connection past the slots is closed at once.
ReqAccept(r) ==
    /\ host.at = "serving" /\ reqs[r].at = "waiting"
    /\ ReqSet(r, [reqs[r] EXCEPT !.at =
          IF Cardinality(ReqConnected) < ReqLimits.connections THEN "connected" ELSE "unserved"])
    /\ ReqOnly

\* dispatch opens the scope: its span is active and its deadline task runs.
ReqOpen(r) ==
    /\ reqs[r].at = "connected"
    /\ \E head \in ReqHeads :
          ReqSet(r, [reqs[r] EXCEPT !.at = "admitting", !.state = "Accepted", !.head = {head},
                                    !.span = "active", !.internal = {"registry"}])
    /\ cancels' = [cancels EXCEPT ![r]["deadline"] = [at |-> "armed", reason |-> "Deadline"]]
    /\ UNCHANGED <<host, registry, reqRan>>

\* Mutant: admission does not look at accepting again under the lock.
ReqAdmitLate(r) ==
    LET q == reqs[r]
    IN  /\ q.at = "admitting"
        /\ IF Cardinality(registry) >= ReqLimits.concurrent
           THEN /\ ReqSet(r, [ReqSettle(q, "Rejected") EXCEPT !.at = "answer", !.status = "server",
                                                            !.terminal = TRUE])
                /\ UNCHANGED registry
           ELSE /\ registry' = registry \cup {r}
                /\ ReqSet(r, [q EXCEPT !.at = "head"])
        /\ UNCHANGED <<host, cancels, reqRan>>

\* RequestRegistry::admit, whose checks run under the lock of the scopes.
ReqAdmit(r) ==
    LET q == reqs[r]
    IN  /\ q.at = "admitting"
        /\ IF ~host.accepting \/ Cardinality(registry) >= ReqLimits.concurrent
           THEN /\ ReqSet(r, [ReqSettle(q, "Rejected") EXCEPT !.at = "answer", !.status = "server",
                                                            !.terminal = TRUE])
                /\ UNCHANGED registry
           ELSE /\ registry' = registry \cup {r}
                /\ ReqSet(r, [q EXCEPT !.at = "head"])
        /\ UNCHANGED <<host, cancels, reqRan>>

\* admit_head and admit_body_format.
ReqHeadRefused(head) ==
    \/ head.length /\ head.chunked
    \/ head.target > ReqLimits.target \/ head.headers > ReqLimits.headers
    \/ head.length /\ head.bytes > ReqLimits.body
    \/ head.encoding # "identity" /\ ~(head.encoding = "gzip" /\ ReqLimits.gzip)
    \/ head.multipart /\ ~ReqLimits.multipart

\* A scope that was cancelled before its head is admitted fails its lifecycle.
ReqAdmitHead(r) ==
    LET q == reqs[r]
    IN  /\ q.at = "head"
        /\ IF \E head \in q.head : ReqHeadRefused(head)
           THEN \E p \in ReqRecovered(q, "client", "client") : ReqSet(r, p)
           ELSE IF ~ReqAllowed(q.state, "HeadAdmitted")
           THEN ReqSet(r, [ReqSettle(q, "Failed") EXCEPT !.at = "answer", !.status = "server"])
           ELSE ReqSet(r, [q EXCEPT !.state = "HeadAdmitted", !.at = "layer", !.layer = 1])
        /\ ReqOnly

-----------------------------------------------------------------------------
(* Middleware, routing and the handler.                                    *)

ReqHead(q) == CHOOSE head \in q.head : TRUE

\* open_data_context: cookies or a query the data limits do not admit.
ReqValuesRefused(q) == ReqHead(q).odd

\* The layers of a request: those before routing and those of its route.
ReqRoute(q) == CHOOSE route \in host.sealed.routes : route.id = ReqHead(q).path
ReqRouted(q) == \E route \in host.sealed.routes : route.id = ReqHead(q).path
ReqPre == host.sealed.pre
ReqStack(q) == IF ReqRouted(q) THEN ReqPre \o ReqRoute(q).layers ELSE ReqPre
ReqCaps(q) == host.sealed.layers[ReqStack(q)[q.layer]]

\* validate_forwarded_request: what a layer did to the request it passes on.
ReqForwardable(caps, did) ==
    /\ "body" \in did => "read-body" \in caps
    /\ "method" \notin did
    /\ "path" \in did => "rewrite-path" \in caps
    /\ "query" \notin did

\* require_status_capability.
ReqStatusAllowed(caps, status) ==
    /\ status = "redirect" => "redirect" \in caps
    /\ status \in {"client", "server"} => "reject" \in caps

\* A layer or the handler runs: past the layers before routing, with its data open.
ReqCodeRuns(q) == q.layer <= Len(ReqPre) \/ q.data # "none"

\* A layer calls next; what it must not have done comes back as an error.
ReqForward(r) ==
    LET q == reqs[r]
        n == Len(ReqStack(q))
    IN  /\ q.at = "layer" /\ q.layer <= n /\ ReqCodeRuns(q)
        /\ \E did \in SUBSET {"body", "method", "path", "query"} :
              IF ReqForwardable(ReqCaps(q), did)
              THEN ReqSet(r, [q EXCEPT !.layer = @ + 1])
              ELSE \E p \in ReqRecovered(q, "internal", "server") :
                      ReqSet(r, ReqUp(p, q.layer - 1))
        /\ ReqOnly

\* A layer answers without calling next, or fails or panics.
ReqShort(r) ==
    LET q == reqs[r]
    IN  /\ q.at = "layer" /\ q.layer <= Len(ReqStack(q)) /\ ReqCodeRuns(q)
        /\ \E status \in ReqStatuses, read \in BOOLEAN :
              \E p \in IF /\ ReqStatusAllowed(ReqCaps(q), status)
                          /\ read => "read-body" \in ReqCaps(q)
                       THEN {[q EXCEPT !.status = status]}
                       ELSE ReqRecovered(q, "internal", "server") :
                  ReqSet(r, ReqUp(p, q.layer - 1))
        /\ ReqOnly

\* Code that runs reads past the body's limit: Limited calls cancel before it fails.
ReqReadPast(r) ==
    LET q == reqs[r]
    IN  /\ q.at = "layer" /\ ReqCodeRuns(q) /\ cancels[r]["reader"].at = "none"
        /\ ReqHead(q).bytes > ReqLimits.body
        /\ ReqSet(r, [q EXCEPT !.at = "reading"])
        /\ cancels' = [cancels EXCEPT ![r]["reader"] = [at |-> "called", reason |-> "RequestBodyLimit"]]
        /\ UNCHANGED <<host, registry, reqRan>>

\* The scope moves on with its request, unless it was cancelled meanwhile
\* (lifecycle_failure_uncommitted).
ReqAdvance(r, to, at) ==
    ReqSet(r, IF ReqAllowed(reqs[r].state, to) THEN [reqs[r] EXCEPT !.state = to, !.at = at]
              ELSE ReqUp([ReqSettle(reqs[r], "Failed") EXCEPT !.status = "server"], Len(ReqPre)))

\* routed_response: method, path and resolution ...
ReqResolve(r) ==
    LET q == reqs[r]
    IN  /\ q.at = "layer" /\ q.layer = Len(ReqPre) + 1 /\ q.data = "none"
        /\ IF ReqRouted(q) THEN ReqAdvance(r, "RouteResolved", "routed")
           ELSE \E p \in ReqRecovered(q, "client", "client") : ReqSet(r, ReqUp(p, Len(ReqPre)))
        /\ ReqOnly

ReqOpenScope(r) ==
    /\ reqs[r].at = "routed"
    /\ ReqAdvance(r, "ScopeOpen", "scoped")
    /\ ReqOnly

\* ... the data context of the route ...
ReqOpenData(r) ==
    LET q == reqs[r]
        route == ReqRoute(q)
        wanted == {route.cache} \cup {host.sealed.loaders[l].cache : l \in route.loaders}
                    \cup UNION {host.sealed.actions[a].invalidates : a \in route.actions}
    IN  /\ q.at = "scoped" /\ ReqRouted(q)
        /\ host' = [host EXCEPT !.lost = @ \cup ((wanted \ {"none"}) \ host.sealed.caches)]
        /\ \/ ReqSet(r, [q EXCEPT !.at = "opened", !.data = "open", !.internal = @ \cup {"data"}])
           \/ /\ ReqValuesRefused(q)
              /\ \E p \in ReqRecovered(q, "internal", "server") :
                    ReqSet(r, ReqUp(p, Len(ReqPre)))
        /\ UNCHANGED <<registry, cancels, reqRan>>

\* ... and its layers and handler.
ReqRunHandler(r) ==
    /\ reqs[r].at = "opened"
    /\ ReqAdvance(r, "HandlerRunning", "layer")
    /\ ReqOnly

\* The handler answers, fails with a status of its own, or panics.
ReqHandle(r) ==
    LET q == reqs[r]
        up(p) == ReqUp(p, Len(ReqStack(q)))
    IN  /\ q.at = "layer" /\ q.layer = Len(ReqStack(q)) + 1
        /\ q.data # "none"
        /\ \/ \E status \in ReqStatuses :
                 ReqSet(r, up([q EXCEPT !.status = status]))
           \/ \E class \in {"client", "internal"} :
                 \E p \in ReqRecovered(q, class, IF class = "client" THEN "client" ELSE "server") :
                    ReqSet(r, up(p))
        /\ ReqOnly

\* validate_response_effects, on the way back through a layer that called next.
ReqBack(r) ==
    LET q == reqs[r]
        caps == host.sealed.layers[ReqStack(q)[q.layer]]
    IN  /\ q.at = "up"
        /\ \E status \in ReqStatuses, headers \in BOOLEAN :
              \E p \in IF /\ headers => "mutate-response-headers" \in caps
                          /\ status # q.status => ReqStatusAllowed(caps, status) /\ status # "ok"
                       THEN {[q EXCEPT !.status = status]}
                       ELSE ReqRecovered(q, "internal", "server") :
                  ReqSet(r, ReqUp(p, q.layer - 1))
        /\ ReqOnly

\* The select on cancellation drops the pipeline and answers instead of it.
ReqObserveCancel(r) ==
    /\ reqs[r].token /\ reqs[r].at \in {"layer", "up"}
    /\ ReqSet(r, [reqs[r] EXCEPT !.at = "answer", !.status = "server"])
    /\ ReqOnly

\* Code of the application registers a cleanup, under the lock of the cleanups.
ReqRegisterCleanup(r) ==
    /\ reqs[r].data # "none" /\ reqs[r].at # "opened" /\ ~ReqDraining(reqs[r])
    /\ reqs[r].held + Len(reqRan[r]) < ReqLimits.cleanups
    /\ ReqSet(r, [reqs[r] EXCEPT !.held = @ + 1])
    /\ ReqOnly

-----------------------------------------------------------------------------
(* The response body.                                                      *)

\* wrap_handler_response reads whether the scope is cancelled, then commits.
ReqWrap(r) ==
    /\ reqs[r].at = "answer"
    /\ ReqSet(r, [reqs[r] EXCEPT !.at = "commit", !.terminal = @ \/ reqs[r].token,
                                 !.layer = 0, !.head = {}])
    /\ ReqOnly

\* A refused commit fails and closes the scope and is answered without a scope.
ReqCommit(r) ==
    LET q == reqs[r]
    IN  /\ q.at = "commit"
        /\ ReqSet(r, IF ReqAllowed(q.state, "ResponseCommitted")
                     THEN [q EXCEPT !.state = "ResponseCommitted", !.committed = q.status,
                                    !.status = "none", !.at = "body"]
                     ELSE [ReqSettle(q, "Failed") EXCEPT !.at = "drain", !.committed = "fallback"])
        /\ ReqOnly

\* ScopedBody::poll_frame: a frame of the body, counted against its limit.
ReqFrame(r) ==
    LET q == ReqMove(reqs[r], "BodyStreaming")
    IN  /\ reqs[r].at = "body" /\ (q.token => q.terminal)
        /\ q.bytes <= ReqLimits.response
        /\ IF q.bytes + 1 > ReqLimits.response
           THEN /\ ReqSet(r, [q EXCEPT !.bytes = @ + 1, !.at = "cancelling"])
                /\ cancels' = [cancels EXCEPT ![r]["task"] =
                       [at |-> "called", reason |-> "ResponseBodyLimit"]]
           ELSE /\ ReqSet(r, [q EXCEPT !.bytes = @ + 1])
                /\ UNCHANGED cancels
        /\ UNCHANGED <<host, registry, reqRan>>

\* The body was cancelled, or its stream failed.
ReqBodyStops(r) ==
    /\ reqs[r].at = "body"
    /\ \/ reqs[r].token /\ ~reqs[r].terminal
          /\ ReqSet(r, [reqs[r] EXCEPT !.at = "drain"])
       \/ (reqs[r].token => reqs[r].terminal)
          /\ ReqSet(r, [ReqSettle(reqs[r], "Failed") EXCEPT !.at = "drain"])
    /\ ReqOnly

\* The body ends: complete_success reads the outcome under one lock ...
ReqBodyEnds(r) ==
    /\ reqs[r].at = "body" /\ (reqs[r].token => reqs[r].terminal)
    /\ ReqSet(r, [reqs[r] EXCEPT !.at = IF reqs[r].outcome = "Pending" THEN "success" ELSE "drain"])
    /\ ReqOnly

\* ... and sets it under another.
ReqSucceed(r) ==
    /\ reqs[r].at = "success"
    /\ ReqSet(r, [reqs[r] EXCEPT !.outcome = "Success", !.at = "drain"])
    /\ ReqOnly

\* Mutant: the body is closed without a reason.
ReqDropBodySilently(r) ==
    /\ reqs[r].at = "body"
    /\ ReqSet(r, [reqs[r] EXCEPT !.at = "drain"])
    /\ ReqOnly

\* Drop for ScopedBody: the connection ended before the body did.
ReqDropBody(r) ==
    /\ reqs[r].at = "body"
    /\ IF reqs[r].outcome = "Pending"
       THEN /\ cancels' = [cancels EXCEPT ![r]["task"] =
                   [at |-> "called", reason |-> "ClientDisconnect"]]
            /\ ReqSet(r, [reqs[r] EXCEPT !.at = "cancelling"])
       ELSE /\ ReqSet(r, [reqs[r] EXCEPT !.at = "drain"])
            /\ UNCHANGED cancels
    /\ UNCHANGED <<host, registry, reqRan>>

-----------------------------------------------------------------------------
(* RequestScope::cancel and drain_and_close.                               *)

\* cancel looks at the state, then takes one lock after the other.
ReqCancelCheck(r, c) ==
    /\ cancels[r][c].at \in {"armed", "called"}
    /\ cancels[r][c].at = "armed" => ~reqs[r].completion
    /\ cancels' = [cancels EXCEPT ![r][c].at = IF ReqDraining(reqs[r]) THEN "done" ELSE "reason"]
    /\ UNCHANGED <<host, registry, reqs, reqRan>>

ReqCancelReason(r, c) ==
    /\ cancels[r][c].at = "reason"
    /\ ReqSet(r, [reqs[r] EXCEPT !.reason = IF @ = "none" THEN cancels[r][c].reason ELSE @])
    /\ cancels' = [cancels EXCEPT ![r][c].at = "outcome"]
    /\ UNCHANGED <<host, registry, reqRan>>

ReqCancelOutcome(r, c) ==
    /\ cancels[r][c].at = "outcome"
    /\ ReqSet(r, [reqs[r] EXCEPT !.outcome = IF @ = "Pending" THEN "Cancelled" ELSE @])
    /\ cancels' = [cancels EXCEPT ![r][c].at = "token"]
    /\ UNCHANGED <<host, registry, reqRan>>

ReqCancelToken(r, c) ==
    /\ cancels[r][c].at = "token"
    /\ ReqSet(r, [reqs[r] EXCEPT !.token = TRUE])
    /\ cancels' = [cancels EXCEPT ![r][c].at = "state"]
    /\ UNCHANGED <<host, registry, reqRan>>

ReqCancelState(r, c) ==
    /\ cancels[r][c].at = "state"
    /\ ReqSet(r, LET q == IF reqs[r].state \in {"Rejected", "Failed"} THEN reqs[r]
                          ELSE ReqMove(reqs[r], "Cancelled")
                 IN  IF c = "task" THEN [q EXCEPT !.at = "drain"]
                     ELSE IF c = "reader" THEN [q EXCEPT !.at = "layer"] ELSE q)
    /\ cancels' = [cancels EXCEPT ![r][c].at = "done"]
    /\ UNCHANGED <<host, registry, reqRan>>

\* drain_and_close: refuse new cleanups, read the reason, take and run them.
ReqDrain(r) ==
    /\ reqs[r].at = "drain"
    /\ ReqSet(r, [ReqMove(reqs[r], "ScopeDraining") EXCEPT !.at = "cleanups"])
    /\ ReqOnly

ReqRunCleanups(r) ==
    /\ reqs[r].at = "cleanups"
    /\ reqRan' = [reqRan EXCEPT ![r] = @ \o [i \in 1..reqs[r].held |-> reqs[r].reason]]
    /\ ReqSet(r, [reqs[r] EXCEPT !.held = 0, !.at = "internal"])
    /\ UNCHANGED <<host, registry, cancels>>

\* The internal cleanups close the data context and leave the registry.
ReqRunInternal(r) ==
    /\ reqs[r].at = "internal"
    /\ registry' = registry \ {r}
    /\ ReqSet(r, [ReqMove(reqs[r], "Closed") EXCEPT !.internal = {}, !.at = "receipt", !.completion = TRUE,
                     !.data = IF "data" \in reqs[r].internal THEN "closed" ELSE @])
    /\ UNCHANGED <<host, cancels, reqRan>>

\* error_type of the span: a client that went away is no error.
ReqErrorType(q) ==
    IF q.outcome = "Cancelled" THEN (IF q.reason = "ClientDisconnect" THEN "none" ELSE q.reason)
    ELSE IF q.outcome = "Failed" \/ q.committed \in {"server", "fallback"} THEN "failure" ELSE "none"

\* record_receipt_once: the span ends and the sink is given one receipt.
ReqRecord(r) ==
    LET q == reqs[r]
    IN  /\ q.at = "receipt"
        /\ ReqSet(r, [NewRequest EXCEPT !.at = "served", !.span = "ended", !.state = q.state,
                !.completion = TRUE, !.data = q.data, !.held = q.held,
                !.receipts = Append(q.receipts, [outcome |-> q.outcome, state |-> q.state,
                    reason |-> q.reason, status |-> q.committed, error |-> ReqErrorType(q)])])
        /\ ReqOnly

-----------------------------------------------------------------------------
(* Around a request: its connection, the data context, shutdown.           *)

\* Hyper drops the dispatch future with the connection.
ReqDropFuture(r) ==
    /\ reqs[r].at \in {"connected", "admitting", "head", "layer", "up", "answer", "commit"}
    /\ \E cause \in ReqCauses : TRUE
    /\ ReqSet(r, [reqs[r] EXCEPT !.at = "gone", !.layer = 0, !.head = {}, !.status = "none",
                                 !.terminal = FALSE])
    /\ ReqOnly

\* Another request is admitted under the same lock, or closes.
ReqPeerEnters(p) ==
    /\ host.at # "building" /\ host.accepting /\ p \notin registry
    /\ Cardinality(registry) < ReqLimits.concurrent
    /\ registry' = registry \cup {p}
    /\ UNCHANGED <<host, reqs, cancels, reqRan>>

ReqPeerLeaves(p) ==
    /\ p \in registry /\ registry' = registry \ {p}
    /\ UNCHANGED <<host, reqs, cancels, reqRan>>

\* begin_shutdown: accepting is cleared, then the scopes are taken and cancelled.
ReqShutdown ==
    /\ host.at = "serving"
    /\ host' = [host EXCEPT !.at = "closing", !.accepting = FALSE]
    /\ UNCHANGED <<registry, reqs, cancels, reqRan>>

ReqShutdownTake ==
    /\ host.at = "closing"
    /\ host' = [host EXCEPT !.at = "cancelling", !.pending = registry \cap ReqIds]
    /\ UNCHANGED <<registry, reqs, cancels, reqRan>>

ReqShutdownCancel ==
    /\ host.at = "cancelling"
    /\ \E r \in host.pending :
          \/ /\ cancels[r]["shutdown"].at = "none"
             /\ cancels' = [cancels EXCEPT ![r]["shutdown"] = [at |-> "called", reason |-> "Shutdown"]]
             /\ UNCHANGED host
          \/ /\ cancels[r]["shutdown"].at = "done"
             /\ host' = [host EXCEPT !.pending = @ \ {r}]
             /\ UNCHANGED cancels
    /\ UNCHANGED <<registry, reqs, reqRan>>

\* Connections drain within the grace period; past it they are aborted.
ReqShutdownEnd ==
    /\ host.at = "cancelling" /\ host.pending = {}
    /\ host' = [host EXCEPT !.at = IF ReqConnected = {} THEN "stopped" ELSE "aborting"]
    /\ UNCHANGED <<registry, reqs, cancels, reqRan>>

ReqStep(r) ==
    \/ ReqAccept(r) \/ ReqOpen(r) \/ ReqAdmit(r) \/ ReqAdmitHead(r)
    \/ ReqForward(r) \/ ReqShort(r) \/ ReqHandle(r) \/ ReqBack(r)
    \/ ReqResolve(r) \/ ReqOpenScope(r) \/ ReqOpenData(r) \/ ReqRunHandler(r)
    \/ ReqObserveCancel(r) \/ ReqWrap(r) \/ ReqCommit(r)
    \/ ReqFrame(r) \/ ReqBodyStops(r) \/ ReqBodyEnds(r) \/ ReqSucceed(r)
    \/ ReqDrain(r) \/ ReqRunCleanups(r) \/ ReqRunInternal(r) \/ ReqRecord(r)
    \/ \E c \in ReqCancellers :
          \/ ReqCancelCheck(r, c) \/ ReqCancelReason(r, c) \/ ReqCancelOutcome(r, c)
          \/ ReqCancelToken(r, c) \/ ReqCancelState(r, c)

ReqNext ==
    \/ ReqBuild
    \/ \E r \in ReqIds : ReqStep(r) \/ ReqReadPast(r) \/ ReqRegisterCleanup(r) \/ ReqDropFuture(r)
                          \/ ReqDropBody(r)
    \/ \E p \in ReqPeers : ReqPeerEnters(p) \/ ReqPeerLeaves(p)
    \/ ReqShutdown \/ ReqShutdownTake \/ ReqShutdownCancel \/ ReqShutdownEnd

ReqSpec == ReqInit /\ [][ReqNext]_reqVars

\* Tasks that can run do; peers, applications and operators owe nothing.
ReqFairness ==
    /\ WF_reqVars(ReqShutdownTake \/ ReqShutdownCancel)
    /\ \A r \in ReqIds : WF_reqVars(ReqStep(r))

ReqFairSpec == ReqSpec /\ ReqFairness

-----------------------------------------------------------------------------
(* Properties.                                                             *)

\* Once shutdown has gone through the scopes it took, every request that is still
\* registered was cancelled or is past draining: none slipped in between clearing
\* accepting and taking the scopes (RequestRegistry::admit, begin_shutdown).
ReqShutdownReachesAll ==
    (host.at \in {"cancelling", "aborting", "stopped"} /\ host.pending = {}) =>
        \A r \in registry \cap ReqIds : reqs[r].token \/ ReqDraining(reqs[r])

\* Each request that closes leaves one receipt, with a settled outcome, a reason
\* if it was cancelled, and every cleanup it accepted run before it; its response
\* was committed through its scope (ScopedBody, drain_and_close, record_receipt).
ReqReceiptsSettle ==
    \A r \in ReqIds :
        /\ Len(reqs[r].receipts) <= 1
        /\ reqs[r].receipts # <<>> =>
              LET receipt == reqs[r].receipts[1]
              IN  /\ receipt.outcome # "Pending" /\ receipt.state = "Closed"
                  /\ receipt.outcome = "Cancelled" => receipt.reason # "none"
                  /\ receipt.status \notin {"none", "fallback"}
                  /\ reqs[r].held = 0 /\ r \notin registry
                  /\ reqs[r].data \in {"none", "closed"}

\* What build admits never panics later: each policy a routed request looks up in
\* the sealed registries is there (open_data_context and its expects).
ReqSealedLookupsSucceed == host.lost = {}

\* RFC-008: a disconnect cancels the handler and runs the registered cleanups.
ReqDisconnectsAreCleaned ==
    \A r \in ReqIds : (reqs[r].at = "gone" /\ r \in registry) ~> (r \notin registry)

\* Shutdown reaches every admitted request, and what a sealed application looks
\* up is there (admit, begin_shutdown, build).
ReqGuarantees ==
    /\ ReqShutdownReachesAll
    /\ ReqSealedLookupsSucceed

-----------------------------------------------------------------------------
(* What makes ReqGuarantees and ReqReceiptsSettle inductive.               *)

ReqFields ==
    {"at", "state", "outcome", "reason", "token", "completion", "held", "internal", "data",
     "status", "committed", "bytes", "terminal", "layer", "head", "span", "receipts"}
ReqAnswers == ReqStatuses \cup {"client", "server"}
ReqReasons == {"Deadline", "Shutdown", "RequestBodyLimit", "ResponseBodyLimit", "ClientDisconnect"}

\* The lifecycle states a request may be in where its future or body is.
ReqPlaced(q) ==
    /\ q.at \in {"waiting", "unserved", "connected"} => q.state = "none" /\ q.data = "none"
    /\ q.at \in {"admitting", "head"} => q.state \in {"Accepted", "Cancelled"}
    /\ q.at = "routed" => q.state \in {"RouteResolved", "Cancelled"}
    /\ q.at \in {"scoped", "opened"} => q.state \in {"ScopeOpen", "Cancelled"}
    /\ q.at \in {"layer", "reading", "up", "answer", "commit"} =>
          q.state \in {"HeadAdmitted", "HandlerRunning", "Rejected", "Cancelled", "Failed"}
    /\ q.at \in {"body", "success", "cancelling", "drain"} =>
          q.state \in {"ResponseCommitted", "BodyStreaming", "Cancelled", "Failed"}
    /\ q.at \in {"cleanups", "internal"} => q.state = "ScopeDraining"
    /\ q.at \in {"receipt", "served"} => q.state = "Closed"

\* Nothing reaches the receipt unsettled.
ReqSettles(q) ==
    /\ (q.at # "served" /\ q.token) => q.outcome # "Pending"
    /\ q.at \in {"drain", "cleanups", "internal", "receipt"} => q.outcome # "Pending"
    /\ (q.at # "served" /\ q.outcome = "Cancelled") => q.reason # "none"
    /\ q.at \in {"up", "answer", "commit"} => q.status \in ReqAnswers
    /\ q.at \in {"body", "success", "cancelling", "drain", "cleanups", "internal", "receipt"} =>
          q.committed \in ReqAnswers
    /\ q.at \in {"internal", "receipt", "served"} => q.held = 0
    /\ q.data = "open" => "data" \in q.internal
    /\ q.at \in {"receipt", "served"} => q.data # "open"

ReqReceipted(q) ==
    /\ q.at # "served" => q.receipts = <<>>
    /\ q.at = "served" =>
          /\ Len(q.receipts) = 1
          /\ q.receipts[1].outcome # "Pending" /\ q.receipts[1].state = "Closed"
          /\ q.receipts[1].outcome = "Cancelled" => q.receipts[1].reason # "none"
          /\ q.receipts[1].status \in ReqAnswers

ReqSound(q) ==
    /\ DOMAIN q = ReqFields /\ q.token \in BOOLEAN /\ q.data \in {"none", "open", "closed"}
    /\ ReqPlaced(q) /\ ReqSettles(q) /\ ReqReceipted(q)

\* A canceller has a reason before it has an outcome; the one the body or a
\* reader calls stops it meanwhile; the one of shutdown is done when it was felt.
ReqCancelling(q, cancel) ==
    /\ \A c \in ReqCancellers :
          /\ cancel[c].at # "none" => cancel[c].reason \in ReqReasons
          /\ (cancel[c].at \in {"outcome", "token", "state"} /\ q.at # "served") => q.reason # "none"
          /\ (cancel[c].at \in {"token", "state"} /\ q.at # "served") => q.outcome # "Pending"
    /\ cancel["task"].at \in {"called", "reason", "outcome", "token", "state"} => q.at = "cancelling"
    /\ cancel["reader"].at \in {"called", "reason", "outcome", "token", "state"} => q.at = "reading"
    /\ cancel["task"].at # "armed" /\ cancel["reader"].at # "armed"
    /\ cancel["shutdown"].at \in {"state", "done"} => q.token \/ ReqDraining(q)

ReqHosted ==
    /\ DOMAIN host = {"at", "sealed", "accepting", "pending", "lost"}
    /\ host.accepting => host.at \in {"building", "refused", "serving"}
    /\ host.at \notin {"building", "refused"} =>
          host.sealed \in ReqBuilders /\ ReqBuildable(host.sealed)
    /\ host.lost = {}

ReqRegisteredRight(r) ==
    /\ r \in registry => reqs[r].at \notin {"receipt", "served"}
    /\ (r \in registry /\ host.at \in {"cancelling", "aborting", "stopped"}) =>
          r \in host.pending \/ reqs[r].token \/ ReqDraining(reqs[r])
    /\ host.at \in {"building", "refused"} => reqs[r].at = "waiting"

ReqInvariant ==
    /\ ReqHosted
    /\ DOMAIN reqs = ReqIds
    /\ cancels \in [ReqIds -> [ReqCancellers ->
          [at : {"none", "armed", "called", "reason", "outcome", "token", "state", "done"},
           reason : ReqReasons \cup {"none"}]]]
    /\ \A r \in ReqIds :
          ReqSound(reqs[r]) /\ ReqCancelling(reqs[r], cancels[r]) /\ ReqRegisteredRight(r)
=============================================================================
