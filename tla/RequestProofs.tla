---------------------------- MODULE RequestProofs ---------------------------
(***************************************************************************)
(* Proofs about what serves a request, for any number of requests, tasks,  *)
(* files, documents, routes and limits: its context, its body, the host,   *)
(* the response it renders and the route that answers it.                  *)
(***************************************************************************)
EXTENDS RequestContext, ActionBodies, RequestHost, RenderStream, Router, FoldLemmas,
        SequenceTheorems, FiniteSetTheorems, TLAPS

-----------------------------------------------------------------------------
(* The request context.                                                    *)

LEMMA CtxInitHolds == CtxInit => CtxInvariant
<1> SUFFICES ASSUME CtxInit PROVE CtxInvariant
  OBVIOUS
<1>1. CtxTypes
  <2>1. cell \in [CtxTasks -> [at : {"empty", "running", "full"}, result : CtxResults]]
    BY DEF CtxInit, EmptyCell, CtxResults
  <2>2. <<>> \in Seq(CtxTasks) /\ DOMAIN cells = {}
    BY DEF CtxInit
  <2>3. cleanups \in [held : Seq(CtxTasks), taken : Seq(CtxTasks)] /\ ctxRan \in Seq(CtxTasks)
    BY <2>2 DEF CtxInit
  <2> QED
    BY <2>1, <2>2, <2>3 DEF CtxInit, CtxTypes
<1>2. \A t \in CtxTasks : ctxTask[t].at = "idle"
  BY DEF CtxInit
<1>3. CtxOneRunner /\ CtxLoadedIsFull
  BY <1>2 DEF CtxInit, CtxOneRunner, CtxLoadedIsFull
<1>4. CtxClosing
  BY DEF CtxInit, CtxClosing, CtxDistinct
<1>5. \A t \in CtxTasks : CtxTaskKept(t) /\ CtxTaskLoads(t) /\ CtxTaskCleans(t)
  BY <1>2 DEF CtxTaskKept, CtxTaskLoads, CtxTaskCleans
<1> QED
  BY <1>1, <1>3, <1>4, <1>5 DEF CtxInvariant

LEMMA CtxInvariantSuffices == CtxInvariant => CtxGuarantees
<1> SUFFICES ASSUME CtxInvariant PROVE CtxGuarantees
  OBVIOUS
<1>1. CtxLoadsOnce
  BY DEF CtxLoadsOnce, CtxInvariant, CtxLoadedIsFull
<1>2. CtxRedirectsStayInside
  <2> SUFFICES ASSUME NEW t \in CtxTasks, ctxTask[t].at \in {"resolving", "permitted"}
               PROVE  /\ Len(ctxTask[t].trail) <= CtxOutbound.redirects + 1
                      /\ \A i \in DOMAIN ctxTask[t].trail : CtxHopInside(ctxTask[t].trail[i])
    BY DEF CtxRedirectsStayInside, CtxHopInside
  <2>1. CtxTaskKept(t)
    BY DEF CtxInvariant
  <2>2. /\ ctxTask[t].budget \in Nat /\ Len(ctxTask[t].trail) \in Nat
        /\ Len(ctxTask[t].trail) + ctxTask[t].budget <= CtxOutbound.redirects + 1
        /\ CtxOutbound.redirects \in Nat
    BY <2>1, CtxAssumption, LenProperties DEF CtxTaskKept, CtxOutboundAdmitted
  <2>3. Len(ctxTask[t].trail) <= CtxOutbound.redirects + 1
    BY <2>2
  <2> QED
    BY <2>1, <2>3 DEF CtxTaskKept
<1>3. CtxCleanupsRun
  <2>1. \A i, j \in DOMAIN ctxRan : i # j => ctxRan[i] # ctxRan[j]
    BY DEF CtxInvariant, CtxClosing, CtxDistinct
  <2>2. ASSUME ctxClose = "ended", NEW t \in CtxTasks, ctxTask[t].at = "registered"
        PROVE  \E i \in DOMAIN ctxRan : ctxRan[i] = t
    <3>1. cleanups.taken = <<>> /\ CtxTaskCleans(t)
      BY <2>2 DEF CtxInvariant, CtxClosing
    <3>2. DOMAIN cleanups.taken = {}
      BY <3>1
    <3> QED
      BY <3>1, <3>2, <2>2 DEF CtxTaskCleans, CtxBeforeTake, CtxIn
  <2> QED
    BY <2>1, <2>2 DEF CtxCleanupsRun
<1> QED
  BY <1>1, <1>2, <1>3 DEF CtxGuarantees

LEMMA CtxElements ==
    ASSUME NEW S, NEW s \in Seq(S)
    PROVE  /\ \A i \in DOMAIN s : s[i] \in S
           /\ Len(s) \in Nat /\ DOMAIN s = 1..Len(s)
  BY ElementOfSeq, LenProperties

LEMMA CtxAppended ==
    ASSUME NEW S, NEW s \in Seq(S), NEW e \in S
    PROVE  /\ Append(s, e) \in Seq(S) /\ Len(Append(s, e)) = Len(s) + 1
           /\ DOMAIN Append(s, e) = 1..(Len(s) + 1)
           /\ \A i \in DOMAIN s : i \in DOMAIN Append(s, e) /\ Append(s, e)[i] = s[i]
           /\ Append(s, e)[Len(s) + 1] = e
           /\ \A i \in DOMAIN Append(s, e) : i \in DOMAIN s \/ i = Len(s) + 1
  BY CtxElements, AppendProperties

\* What a step of task t does to the tasks and to what they share.
CtxMoves(t) ==
    /\ DOMAIN ctxTask' = CtxTasks
    /\ \A u \in CtxTasks : u # t => ctxTask'[u] = ctxTask[u]
    /\ UNCHANGED <<ctxClose, ctxCancelled>>

CtxSharesKept(t) ==
    /\ \A k \in DOMAIN cells : k \in DOMAIN cells' /\ cells'[k] = cells[k]
    /\ \A k \in DOMAIN cells' : cells'[k] \in CtxTasks
    /\ cell' \in [CtxTasks -> [at : {"empty", "running", "full"}, result : CtxResults]]
    /\ \A u \in CtxTasks : cell[u].at = "full" => cell'[u].at = "full"
    /\ \A u \in CtxTasks : (u # t /\ ctxTask[u].at = "running") =>
          /\ cell'[ctxTask[u].cell].at = "running"
          /\ ctxTask'[t].at = "running" => ctxTask'[t].cell # ctxTask[u].cell

\* A step of a task that does no more than that, and registers no cleanup.
LEMMA CtxTaskKeeps ==
    ASSUME CtxInvariant, NEW t \in CtxTasks, CtxMoves(t), CtxSharesKept(t),
           ctxTask[t].at \notin {"registered", "registered late"}, ctxTask'[t].at # "registered",
           UNCHANGED <<cleanups, ctxRan>>,
           CtxTaskKept(t)', CtxTaskLoads(t)', CtxLoadedIsFull'
    PROVE  CtxInvariant'
<1>1. CtxTypes'
  BY DEF CtxInvariant, CtxTypes, CtxMoves, CtxSharesKept
<1>2. CtxOneRunner'
  <2> SUFFICES ASSUME NEW u \in CtxTasks, NEW v \in CtxTasks, u # v,
                      ctxTask'[u].at = "running", ctxTask'[v].at = "running",
                      ctxTask'[u].cell = ctxTask'[v].cell
               PROVE  FALSE
    BY DEF CtxOneRunner
  <2>1. CASE u # t /\ v # t
    BY <2>1 DEF CtxInvariant, CtxOneRunner, CtxMoves
  <2>2. CASE u = t
    BY <2>2 DEF CtxMoves, CtxSharesKept
  <2>3. CASE v = t
    BY <2>3 DEF CtxMoves, CtxSharesKept
  <2> QED
    BY <2>1, <2>2, <2>3
<1>3. CtxClosing'
  <2>1. \A i \in DOMAIN cleanups.held : cleanups.held[i] \in CtxTasks
    BY CtxElements DEF CtxInvariant, CtxTypes
  <2>2. \A i \in DOMAIN cleanups.held :
          ctxTask'[cleanups.held[i]].at \in {"registered", "registered late"}
    BY <2>1 DEF CtxInvariant, CtxClosing, CtxMoves
  <2>3. UNCHANGED <<ctxClose, ctxCancelled, cleanups, ctxRan>> /\ CtxClosing
    BY DEF CtxInvariant, CtxMoves
  <2>4. (/\ ctxClose \in {"taking", "running", "ended"} => ctxCancelled
         /\ CtxBeforeTake => cleanups.taken = <<>> /\ ctxRan = <<>>
         /\ ctxClose = "ended" => cleanups.taken = <<>>)'
    BY ONLY <2>3 DEF CtxClosing, CtxBeforeTake
  <2>5. (/\ CtxDistinct(cleanups.held) /\ CtxDistinct(cleanups.taken) /\ CtxDistinct(ctxRan)
         /\ \A i \in DOMAIN cleanups.taken, j \in DOMAIN ctxRan : cleanups.taken[i] # ctxRan[j])'
    BY ONLY <2>3 DEF CtxClosing, CtxDistinct
  <2> QED
    BY ONLY <2>2, <2>3, <2>4, <2>5 DEF CtxClosing
<1>4. ASSUME NEW u \in CtxTasks PROVE CtxTaskKept(u)'
  BY DEF CtxInvariant, CtxTaskKept, CtxMoves
<1>5. ASSUME NEW u \in CtxTasks PROVE CtxTaskLoads(u)'
  <2>1. CASE u # t
    <3>1. ctxTask'[u] = ctxTask[u] /\ UNCHANGED ctxCancelled /\ CtxTaskLoads(u)
      BY <2>1 DEF CtxMoves, CtxInvariant
    <3>2. ctxTask[u].at = "running" => cell'[ctxTask[u].cell].at = "running"
      BY <2>1 DEF CtxSharesKept
    <3>3. ctxTask[u].key \in DOMAIN cells =>
            ctxTask[u].key \in DOMAIN cells' /\ cells'[ctxTask[u].key] = cells[ctxTask[u].key]
      BY DEF CtxSharesKept
    <3> QED
      BY <3>1, <3>2, <3>3 DEF CtxTaskLoads
  <2> QED
    BY <2>1
<1>6. ASSUME NEW u \in CtxTasks PROVE CtxTaskCleans(u)'
  BY DEF CtxInvariant, CtxTaskCleans, CtxMoves, CtxBeforeTake, CtxIn
<1> QED
  BY <1>1, <1>2, <1>3, <1>4, <1>5, <1>6 DEF CtxInvariant

\* The states in which the invariant asks nothing of a task.
CtxRests(at) ==
    at \notin {"joining", "loading", "running", "resolving", "permitted", "registered", "registered late"}

LEMMA CtxRestKeeps ==
    ASSUME CtxInvariant, NEW t \in CtxTasks, CtxMoves(t), CtxSharesKept(t),
           ctxTask[t].at \notin {"registered", "registered late"}, CtxRests(ctxTask'[t].at),
           UNCHANGED <<cleanups, ctxRan, ctxLoaded>>
    PROVE  CtxInvariant'
<1>1. CtxTaskKept(t)' /\ CtxTaskLoads(t)' /\ ctxTask'[t].at # "registered"
  BY DEF CtxRests, CtxTaskKept, CtxTaskLoads
<1>2. CtxLoadedIsFull'
  BY DEF CtxInvariant, CtxLoadedIsFull, CtxMoves, CtxSharesKept, CtxTypes
<1> QED
  BY <1>1, <1>2, CtxTaskKeeps

LEMMA CtxSameShares ==
    ASSUME CtxInvariant, NEW t \in CtxTasks, UNCHANGED <<cells, cell>>, ctxTask'[t].at # "running"
    PROVE  CtxSharesKept(t)
  BY DEF CtxInvariant, CtxSharesKept, CtxTypes, CtxTaskLoads

LEMMA CtxDoneMoves ==
    ASSUME CtxInvariant, NEW t \in CtxTasks, NEW result, CtxDone(t, result), CtxUnchangedRest
    PROVE  CtxMoves(t) /\ ctxTask'[t].at = result
  BY DEF CtxDone, CtxMoves, CtxUnchangedRest, CtxInvariant, CtxTypes

LEMMA CtxSetMoves ==
    ASSUME CtxInvariant, NEW t \in CtxTasks, NEW new, ctxTask' = [ctxTask EXCEPT ![t] = new],
           CtxUnchangedRest
    PROVE  CtxMoves(t) /\ ctxTask'[t] = new
  BY DEF CtxMoves, CtxUnchangedRest, CtxInvariant, CtxTypes

LEMMA CtxLoadKeeps ==
    ASSUME CtxInvariant, NEW t \in CtxTasks, CtxLoad(t)
    PROVE  CtxInvariant'
<1>1. PICK policy \in CtxLoaders, input \in CtxInputs :
        ctxTask' = [ctxTask EXCEPT ![t] =
            IF policy \notin CtxGranted THEN [op |-> "load", at |-> "PolicyNotGranted"]
            ELSE IF CtxClosed THEN [op |-> "load", at |-> "ContextClosed"]
            ELSE IF ctxCancelled THEN [op |-> "load", at |-> "Cancelled"]
            ELSE [op |-> "load", at |-> "joining", policy |-> policy,
                  key |-> CtxInvocation(policy, input), cell |-> t]]
  BY DEF CtxLoad
<1> DEFINE new == IF policy \notin CtxGranted THEN [op |-> "load", at |-> "PolicyNotGranted"]
                  ELSE IF CtxClosed THEN [op |-> "load", at |-> "ContextClosed"]
                  ELSE IF ctxCancelled THEN [op |-> "load", at |-> "Cancelled"]
                  ELSE [op |-> "load", at |-> "joining", policy |-> policy,
                        key |-> CtxInvocation(policy, input), cell |-> t]
<1>2. /\ ctxTask[t].at = "idle" /\ CtxUnchangedRest
      /\ UNCHANGED <<cells, cell, cleanups, ctxRan, ctxLoaded>>
  BY DEF CtxLoad
<1>3. \/ CtxRests(new.at)
      \/ new.at = "joining" /\ new.cell = t /\ DOMAIN new = {"op", "at", "policy", "key", "cell"}
  BY DEF CtxRests
<1>4. ctxTask' = [ctxTask EXCEPT ![t] = new]
  BY <1>1
<1> HIDE DEF new
<1>5. CtxMoves(t) /\ ctxTask'[t] = new
  BY <1>2, <1>4, CtxSetMoves
<1>6. CASE CtxRests(new.at)
  BY <1>2, <1>5, <1>6, CtxSameShares, CtxRestKeeps DEF CtxRests
<1>7. CASE new.at = "joining" /\ new.cell = t /\ DOMAIN new = {"op", "at", "policy", "key", "cell"}
  <2>1. CtxTaskKept(t)' /\ CtxTaskLoads(t)'
    BY <1>5, <1>7 DEF CtxTaskKept, CtxTaskLoads
  <2>2. CtxLoadedIsFull'
    BY <1>2, <1>5 DEF CtxInvariant, CtxLoadedIsFull, CtxMoves
  <2> QED
    BY <1>2, <1>5, <1>7, <2>1, <2>2, CtxSameShares, CtxTaskKeeps
<1> QED
  BY <1>3, <1>6, <1>7

LEMMA CtxJoinKeeps ==
    ASSUME CtxInvariant, NEW t \in CtxTasks, CtxJoin(t)
    PROVE  CtxInvariant'
<1>1. /\ ctxTask[t].at = "joining" /\ CtxUnchangedRest /\ DOMAIN ctxTask = CtxTasks
      /\ DOMAIN ctxTask[t] = {"op", "at", "policy", "key", "cell"}
      /\ UNCHANGED <<cell, cleanups, ctxRan, ctxLoaded>>
  BY DEF CtxJoin, CtxInvariant, CtxTaskKept, CtxTypes
<1>2. PICK k : k = ctxTask[t].key
  OBVIOUS
<1>3. PICK w \in CtxTasks :
        /\ w = IF ctxTask[t].policy.dedup /\ k \in DOMAIN cells THEN cells[k] ELSE t
  BY DEF CtxInvariant, CtxTypes
<1>4. ctxTask' = [ctxTask EXCEPT ![t].at = "loading", ![t].cell = w]
  BY <1>2, <1>3 DEF CtxJoin
<1>5. /\ CtxMoves(t) /\ ctxTask'[t].at = "loading" /\ ctxTask'[t].cell = w
      /\ ctxTask'[t].key = k /\ ctxTask'[t].policy = ctxTask[t].policy
      /\ DOMAIN ctxTask'[t] = {"op", "at", "policy", "key", "cell"}
  BY <1>1, <1>2, <1>4 DEF CtxMoves, CtxUnchangedRest
<1>6. /\ \A x \in DOMAIN cells : x \in DOMAIN cells' /\ cells'[x] = cells[x]
      /\ \A x \in DOMAIN cells' : cells'[x] \in CtxTasks
      /\ ctxTask[t].policy.dedup => k \in DOMAIN cells' /\ cells'[k] = w
  BY <1>2, <1>3 DEF CtxJoin, CtxInvariant, CtxTypes
<1>7. CtxSharesKept(t)
  BY <1>1, <1>5, <1>6 DEF CtxSharesKept, CtxInvariant, CtxTypes, CtxTaskLoads
<1>8. CtxTaskKept(t)' /\ CtxTaskLoads(t)'
  BY <1>5, <1>6 DEF CtxTaskKept, CtxTaskLoads
<1>9. CtxLoadedIsFull'
  BY <1>1, <1>5, <1>6 DEF CtxInvariant, CtxLoadedIsFull, CtxMoves
<1> QED
  BY <1>1, <1>5, <1>7, <1>8, <1>9, CtxTaskKeeps

LEMMA CtxInitializeKeeps ==
    ASSUME CtxInvariant, NEW t \in CtxTasks, CtxInitialize(t)
    PROVE  CtxInvariant'
<1>1. /\ ctxTask[t].at = "loading" /\ CtxUnchangedRest /\ DOMAIN ctxTask = CtxTasks
      /\ DOMAIN ctxTask[t] = {"op", "at", "policy", "key", "cell"}
      /\ ctxTask[t].cell \in CtxTasks /\ CtxTaskLoads(t)
      /\ UNCHANGED <<cells, cleanups, ctxRan, ctxLoaded>>
  BY DEF CtxInitialize, CtxInvariant, CtxTaskKept, CtxTypes
<1>2. PICK w \in CtxTasks : w = ctxTask[t].cell
  BY <1>1
<1>3. /\ cell[w].at = "empty" /\ cell' = [cell EXCEPT ![w].at = "running"]
      /\ ctxTask' = [ctxTask EXCEPT ![t].at = "running"]
  BY <1>2 DEF CtxInitialize
<1>4. /\ CtxMoves(t) /\ ctxTask'[t].at = "running" /\ ctxTask'[t].cell = w
      /\ ctxTask'[t].key = ctxTask[t].key /\ ctxTask'[t].policy = ctxTask[t].policy
      /\ DOMAIN ctxTask'[t] = {"op", "at", "policy", "key", "cell"}
  BY <1>1, <1>2, <1>3 DEF CtxMoves, CtxUnchangedRest
<1>5. /\ cell' \in [CtxTasks -> [at : {"empty", "running", "full"}, result : CtxResults]]
      /\ cell'[w].at = "running" /\ \A u \in CtxTasks : u # w => cell'[u] = cell[u]
  BY <1>3 DEF CtxInvariant, CtxTypes
<1>6. \A u \in CtxTasks : ctxTask[u].at = "running" =>
        ctxTask[u].cell \in CtxTasks /\ cell[ctxTask[u].cell].at = "running"
  BY DEF CtxInvariant, CtxTaskKept, CtxTaskLoads
<1>7. CtxSharesKept(t)
  BY <1>1, <1>3, <1>4, <1>5, <1>6 DEF CtxSharesKept, CtxInvariant, CtxTypes
<1>8. CtxTaskKept(t)' /\ CtxTaskLoads(t)'
  BY <1>1, <1>2, <1>4, <1>5 DEF CtxTaskKept, CtxTaskLoads, CtxMoves
<1>9. CtxLoadedIsFull'
  BY <1>1, <1>3, <1>4, <1>5 DEF CtxInvariant, CtxLoadedIsFull, CtxMoves, CtxTypes
<1> QED
  BY <1>1, <1>4, <1>7, <1>8, <1>9, CtxTaskKeeps

\* A loader that returns fills a cell nobody has filled before.
LEMMA CtxRunKeeps ==
    ASSUME CtxInvariant, NEW t \in CtxTasks, CtxRun(t)
    PROVE  CtxInvariant'
<1>1. /\ ctxTask[t].at = "running" /\ CtxUnchangedRest /\ DOMAIN ctxTask = CtxTasks
      /\ ctxTask[t].cell \in CtxTasks /\ CtxTaskLoads(t)
      /\ UNCHANGED <<cells, cleanups, ctxRan>>
  BY DEF CtxRun, CtxInvariant, CtxTaskKept, CtxTypes
<1>2. PICK w, k : w \in CtxTasks /\ w = ctxTask[t].cell /\ k = ctxTask[t].key
  BY <1>1
<1>3. PICK result \in {"ok", "LoaderOutput", "Cancelled", "Deadline"} :
        /\ result = "ok" => ~ctxCancelled
        /\ cell' = [cell EXCEPT ![w] = [at |-> "full", result |-> result]]
        /\ CtxDone(t, result)
        /\ ctxLoaded' = IF result # "ok" \/ ~ctxTask[t].policy.dedup THEN ctxLoaded
              ELSE [x \in DOMAIN ctxLoaded \cup {k} |->
                      IF x # k THEN ctxLoaded[x]
                      ELSE IF k \in DOMAIN ctxLoaded THEN ctxLoaded[k] + 1 ELSE 1]
  BY <1>2 DEF CtxRun
<1>4. CtxMoves(t) /\ ctxTask'[t].at = result
  BY <1>1, <1>3, CtxDoneMoves
<1>5. /\ cell' \in [CtxTasks -> [at : {"empty", "running", "full"}, result : CtxResults]]
      /\ cell'[w].at = "full" /\ \A u \in CtxTasks : u # w => cell'[u] = cell[u]
  BY <1>2, <1>3 DEF CtxInvariant, CtxTypes, CtxResults
<1>6. \A u \in CtxTasks : (u # t /\ ctxTask[u].at = "running") =>
        ctxTask[u].cell \in CtxTasks /\ ctxTask[u].cell # w /\ cell[ctxTask[u].cell].at = "running"
  BY <1>1, <1>2 DEF CtxInvariant, CtxTaskKept, CtxTaskLoads, CtxOneRunner
<1>7. CtxSharesKept(t)
  BY <1>1, <1>3, <1>4, <1>5, <1>6 DEF CtxSharesKept, CtxInvariant, CtxTypes
<1>8. CtxTaskKept(t)' /\ CtxTaskLoads(t)'
  BY <1>3, <1>4 DEF CtxTaskKept, CtxTaskLoads
<1>9. CtxLoadedIsFull'
  <2>1. ASSUME NEW x \in DOMAIN ctxLoaded, ~ctxCancelled
        PROVE  x \in DOMAIN cells /\ cell'[cells[x]].at = "full"
    BY <2>1, <1>5 DEF CtxInvariant, CtxLoadedIsFull, CtxTypes
  <2>2. \A x \in DOMAIN ctxLoaded : ctxLoaded[x] = 1
    BY DEF CtxInvariant, CtxLoadedIsFull
  <2>3. UNCHANGED <<ctxCancelled, cells>>
    BY <1>1 DEF CtxUnchangedRest
  <2>4. CASE result # "ok" \/ ~ctxTask[t].policy.dedup
    <3>1. UNCHANGED ctxLoaded
      BY <2>4, <1>3
    <3> QED
      BY <2>1, <2>2, <2>3, <3>1 DEF CtxLoadedIsFull
  <2>5. CASE result = "ok" /\ ctxTask[t].policy.dedup
    <3>1. ~ctxCancelled /\ k \in DOMAIN cells /\ cells[k] = w /\ cell[w].at = "running"
      BY <2>5, <1>1, <1>2, <1>3 DEF CtxTaskLoads
    <3>2. k \notin DOMAIN ctxLoaded
      BY <3>1 DEF CtxInvariant, CtxLoadedIsFull
    <3>3. ctxLoaded' = [x \in DOMAIN ctxLoaded \cup {k} |-> IF x # k THEN ctxLoaded[x] ELSE 1]
      BY <2>5, <3>2, <1>3
    <3> QED
      BY <2>1, <2>2, <2>3, <3>1, <3>3, <1>5 DEF CtxLoadedIsFull
  <2> QED
    BY <2>4, <2>5
<1> QED
  BY <1>1, <1>3, <1>4, <1>7, <1>8, <1>9, CtxTaskKeeps

LEMMA CtxShareResultKeeps ==
    ASSUME CtxInvariant, NEW t \in CtxTasks, CtxShareResult(t)
    PROVE  CtxInvariant'
<1>1. PICK w \in CtxTasks : w = ctxTask[t].cell /\ cell[w].result \in CtxResults
  BY DEF CtxShareResult, CtxInvariant, CtxTaskKept, CtxTypes
<1>2. CtxDone(t, cell[w].result) /\ ctxTask[t].at = "loading" /\ CtxUnchangedRest
      /\ UNCHANGED <<cells, cell, cleanups, ctxRan, ctxLoaded>>
  BY <1>1 DEF CtxShareResult
<1>3. CtxMoves(t) /\ ctxTask'[t].at \in CtxResults
  BY <1>1, <1>2, CtxDoneMoves
<1>4. CtxRests(ctxTask'[t].at) /\ ctxTask'[t].at # "running"
  BY <1>3 DEF CtxResults, CtxRests
<1> QED
  BY <1>2, <1>3, <1>4, CtxSameShares, CtxRestKeeps

LEMMA CtxDropKeeps ==
    ASSUME CtxInvariant, NEW t \in CtxTasks, CtxDrop(t)
    PROVE  CtxInvariant'
<1>1. /\ ctxTask[t].at \in {"joining", "loading", "running", "resolving"} /\ CtxUnchangedRest
      /\ CtxDone(t, "dropped") /\ UNCHANGED <<cells, cleanups, ctxRan, ctxLoaded>>
  BY DEF CtxDrop
<1>2. CtxMoves(t) /\ ctxTask'[t].at = "dropped"
  BY <1>1, CtxDoneMoves
<1>3. CASE ctxTask[t].at # "running"
  BY <1>1, <1>2, <1>3, CtxSameShares, CtxRestKeeps DEF CtxDrop, CtxRests
<1>4. CASE ctxTask[t].at = "running"
  <2>1. PICK w \in CtxTasks : w = ctxTask[t].cell /\ cell[w].at = "running"
    BY <1>4 DEF CtxInvariant, CtxTaskKept, CtxTaskLoads
  <2>2. cell' = [cell EXCEPT ![w].at = "empty"]
    BY <1>4, <2>1 DEF CtxDrop
  <2>3. /\ cell' \in [CtxTasks -> [at : {"empty", "running", "full"}, result : CtxResults]]
        /\ \A u \in CtxTasks : u # w => cell'[u] = cell[u]
    BY <2>2 DEF CtxInvariant, CtxTypes
  <2>4. \A u \in CtxTasks : (u # t /\ ctxTask[u].at = "running") =>
          ctxTask[u].cell \in CtxTasks /\ ctxTask[u].cell # w /\ cell[ctxTask[u].cell].at = "running"
    BY <1>4, <2>1 DEF CtxInvariant, CtxTaskKept, CtxTaskLoads, CtxOneRunner
  <2>5. CtxSharesKept(t)
    BY <1>1, <1>2, <2>1, <2>3, <2>4 DEF CtxSharesKept, CtxInvariant, CtxTypes
  <2> QED
    BY <1>1, <1>2, <2>5, CtxRestKeeps DEF CtxRests
<1> QED
  BY <1>3, <1>4

LEMMA CtxLeaseKeeps ==
    ASSUME CtxInvariant, NEW t \in CtxTasks, CtxAcquire(t) \/ CtxUse(t) \/ CtxRegister(t)
    PROVE  CtxInvariant'
<1>1. /\ ctxTask[t].at \in {"idle", "leased"} /\ CtxUnchangedRest
      /\ UNCHANGED <<cells, cell, cleanups, ctxRan, ctxLoaded>>
  BY DEF CtxAcquire, CtxUse, CtxRegister
<1>2. CtxMoves(t) /\ CtxRests(ctxTask'[t].at)
  <2>1. ASSUME CtxAcquire(t) PROVE CtxMoves(t) /\ CtxRests(ctxTask'[t].at)
    <3>1. PICK r \in CtxRequirements :
          ctxTask' = [ctxTask EXCEPT ![t] =
              IF CtxClosed THEN [op |-> "lease", at |-> "ContextClosed"]
              ELSE IF r.id \notin DOMAIN CtxRegistry \cap DOMAIN CtxGrants
              THEN [op |-> "lease", at |-> "ResourceUnavailable"]
              ELSE IF ~(r.caps \subseteq CtxGrants[r.id] \cap CtxRegistry[r.id].caps)
              THEN [op |-> "lease", at |-> "MissingCapability"]
              ELSE [op |-> "lease", at |-> "leased", id |-> r.id, caps |-> r.caps,
                    until |-> IF CtxRegistry[r.id].lease # 0
                                    /\ ctxNow + CtxRegistry[r.id].lease < CtxDeadline
                              THEN ctxNow + CtxRegistry[r.id].lease ELSE CtxDeadline]]
      BY <2>1 DEF CtxAcquire
    <3> DEFINE new ==
              IF CtxClosed THEN [op |-> "lease", at |-> "ContextClosed"]
              ELSE IF r.id \notin DOMAIN CtxRegistry \cap DOMAIN CtxGrants
              THEN [op |-> "lease", at |-> "ResourceUnavailable"]
              ELSE IF ~(r.caps \subseteq CtxGrants[r.id] \cap CtxRegistry[r.id].caps)
              THEN [op |-> "lease", at |-> "MissingCapability"]
              ELSE [op |-> "lease", at |-> "leased", id |-> r.id, caps |-> r.caps,
                    until |-> IF CtxRegistry[r.id].lease # 0
                                    /\ ctxNow + CtxRegistry[r.id].lease < CtxDeadline
                              THEN ctxNow + CtxRegistry[r.id].lease ELSE CtxDeadline]
    <3>2. CtxRests(new.at)
      BY DEF CtxRests
    <3>3. ctxTask' = [ctxTask EXCEPT ![t] = new]
      BY <3>1
    <3> HIDE DEF new
    <3> QED
      BY <3>2, <3>3, <1>1, CtxSetMoves
  <2>2. ASSUME CtxUse(t) PROVE CtxMoves(t) /\ CtxRests(ctxTask'[t].at)
    <3> DEFINE result == IF CtxClosed THEN "ContextClosed"
                         ELSE IF ctxCancelled THEN "Cancelled"
                         ELSE IF ctxNow >= ctxTask[t].until THEN "Deadline" ELSE "used"
    <3>1. CtxRests(result)
      BY DEF CtxRests
    <3>2. CtxDone(t, result)
      BY <2>2 DEF CtxUse
    <3> HIDE DEF result
    <3> QED
      BY <3>1, <3>2, <1>1, CtxDoneMoves
  <2>3. ASSUME CtxRegister(t) PROVE CtxMoves(t) /\ CtxRests(ctxTask'[t].at)
    <3> DEFINE new == [op |-> "cleanup", at |-> IF CtxClosed THEN "ContextClosed" ELSE "registering"]
    <3>1. CtxRests(new.at)
      BY DEF CtxRests
    <3>2. ctxTask' = [ctxTask EXCEPT ![t] = new]
      BY <2>3 DEF CtxRegister
    <3> HIDE DEF new
    <3> QED
      BY <3>1, <3>2, <1>1, CtxSetMoves
  <2> QED
    BY <2>1, <2>2, <2>3
<1> QED
  BY <1>1, <1>2, CtxSameShares, CtxRestKeeps DEF CtxRests

\* A URL that passed its check is resolved under the budget that is left.
LEMMA CtxGuardedTask ==
    ASSUME NEW t \in CtxTasks, NEW url \in CtxUrls, NEW budget \in Nat, NEW trail \in Seq(CtxHops),
           Len(trail) + budget <= CtxOutbound.redirects, CtxOutbound.redirects \in Nat,
           \A i \in DOMAIN trail : CtxHopInside(trail[i]),
           ctxTask'[t] = CtxGuarded(t, url, budget, trail)
    PROVE  CtxRests(ctxTask'[t].at) \/ (ctxTask'[t].at = "resolving" /\ CtxTaskKept(t)')
<1>0. CtxUrlError(url) \in {"none", "ForbiddenUrlComponent", "SchemeRejected", "HostRejected", "PortRejected", "PathRejected"}
  BY DEF CtxUrlError
<1>1. CASE CtxClosed \/ ctxCancelled \/ ctxNow >= CtxDeadline \/ CtxUrlError(url) # "none"
  <2>1. PICK why : /\ CtxGuarded(t, url, budget, trail) = [op |-> "http", at |-> why]
                   /\ why \in {"ContextClosed", "Cancelled", "Deadline", "ForbiddenUrlComponent",
                               "SchemeRejected", "HostRejected", "PortRejected", "PathRejected"}
    BY <1>0, <1>1 DEF CtxGuarded
  <2>2. ctxTask'[t].at = why
    BY <2>1
  <2> QED
    BY <2>1, <2>2 DEF CtxRests
<1>2. CASE ~(CtxClosed \/ ctxCancelled \/ ctxNow >= CtxDeadline \/ CtxUrlError(url) # "none")
  BY <1>2, LenProperties DEF CtxGuarded, CtxTaskKept
<1> QED
  BY <1>1, <1>2

\* A task of the outbound guard shares nothing with the others.
LEMMA CtxHttpKeeps ==
    ASSUME CtxInvariant, NEW t \in CtxTasks, CtxMoves(t), CtxTaskKept(t)',
           ctxTask[t].at \notin {"registered", "registered late"},
           ctxTask'[t].at \in {"resolving", "permitted"},
           UNCHANGED <<cells, cell, cleanups, ctxRan, ctxLoaded>>
    PROVE  CtxInvariant'
  BY CtxSameShares, CtxTaskKeeps DEF CtxTaskLoads, CtxInvariant, CtxLoadedIsFull, CtxMoves

LEMMA CtxAuthorizeKeeps ==
    ASSUME CtxInvariant, NEW t \in CtxTasks, CtxAuthorize(t)
    PROVE  CtxInvariant'
<1>1. PICK url \in CtxUrls :
        ctxTask' = [ctxTask EXCEPT ![t] = CtxGuarded(t, url, CtxOutbound.redirects, <<>>)]
  BY DEF CtxAuthorize
<1>2. /\ ctxTask[t].at = "idle" /\ CtxUnchangedRest
      /\ UNCHANGED <<cells, cell, cleanups, ctxRan, ctxLoaded>>
  BY DEF CtxAuthorize
<1>3. CtxMoves(t) /\ ctxTask'[t] = CtxGuarded(t, url, CtxOutbound.redirects, <<>>)
  BY <1>1, <1>2, CtxSetMoves
<1>4. /\ CtxOutbound.redirects \in Nat /\ <<>> \in Seq(CtxHops)
      /\ Len(<<>>) + CtxOutbound.redirects <= CtxOutbound.redirects
      /\ \A i \in DOMAIN <<>> : CtxHopInside(<<>>[i])
  BY CtxAssumption DEF CtxOutboundAdmitted
<1>5. CtxRests(ctxTask'[t].at) \/ (ctxTask'[t].at = "resolving" /\ CtxTaskKept(t)')
  BY <1>3, <1>4, CtxGuardedTask
<1>6. CASE CtxRests(ctxTask'[t].at)
  BY <1>2, <1>3, <1>6, CtxSameShares, CtxRestKeeps DEF CtxRests
<1>7. CASE ctxTask'[t].at = "resolving" /\ CtxTaskKept(t)'
  BY <1>2, <1>3, <1>7, CtxHttpKeeps
<1> QED
  BY <1>5, <1>6, <1>7

LEMMA CtxRedirectKeeps ==
    ASSUME CtxInvariant, NEW t \in CtxTasks, CtxRedirect(t)
    PROVE  CtxInvariant'
<1>1. /\ ctxTask[t].at = "permitted" /\ CtxUnchangedRest /\ CtxTaskKept(t)
      /\ UNCHANGED <<cells, cell, cleanups, ctxRan, ctxLoaded>>
  BY DEF CtxRedirect, CtxInvariant
<1>2. PICK budget \in Nat, trail \in Seq(CtxHops) :
        /\ budget = ctxTask[t].budget /\ trail = ctxTask[t].trail
        /\ Len(trail) + budget <= CtxOutbound.redirects + 1
        /\ \A i \in DOMAIN trail : CtxHopInside(trail[i])
  BY <1>1 DEF CtxTaskKept
<1>3. PICK url \in CtxUrls :
        ctxTask' = [ctxTask EXCEPT ![t] =
            IF budget = 0 THEN [op |-> "http", at |-> "RedirectLimit"]
            ELSE CtxGuarded(t, url, budget - 1, trail)]
  BY <1>2 DEF CtxRedirect
<1>4. CASE budget = 0
  <2>1. ctxTask' = [ctxTask EXCEPT ![t] = [op |-> "http", at |-> "RedirectLimit"]]
    BY <1>3, <1>4
  <2>2. CtxMoves(t) /\ ctxTask'[t] = [op |-> "http", at |-> "RedirectLimit"]
    BY <2>1, <1>1, CtxSetMoves
  <2>3. ctxTask'[t].at = "RedirectLimit"
    BY <2>2
  <2>4. CtxRests(ctxTask'[t].at)
    BY <2>3 DEF CtxRests
  <2> QED
    BY <1>1, <2>2, <2>3, <2>4, CtxSameShares, CtxRestKeeps
<1>5. CASE budget # 0
  <2>1. ctxTask' = [ctxTask EXCEPT ![t] = CtxGuarded(t, url, budget - 1, trail)]
    BY <1>3, <1>5
  <2>2. CtxMoves(t) /\ ctxTask'[t] = CtxGuarded(t, url, budget - 1, trail)
    BY <2>1, <1>1, CtxSetMoves
  <2>3. PICK left \in Nat : left = budget - 1
    BY <1>5
  <2>4. CtxOutbound.redirects \in Nat /\ Len(trail) \in Nat
    BY CtxAssumption, LenProperties DEF CtxOutboundAdmitted
  <2>5. Len(trail) + left <= CtxOutbound.redirects
    <3>1. PICK n \in Nat, r \in Nat : n = Len(trail) /\ r = CtxOutbound.redirects
      BY <2>4
    <3>2. n + budget <= r + 1
      BY <1>2, <3>1
    <3>3. n + left <= r
      BY ONLY <2>3, <3>2, n \in Nat, r \in Nat, budget \in Nat, left \in Nat
    <3> QED
      BY <3>1, <3>3
  <2>6. ctxTask'[t] = CtxGuarded(t, url, left, trail)
    BY <2>2, <2>3
  <2>7. CtxRests(ctxTask'[t].at) \/ (ctxTask'[t].at = "resolving" /\ CtxTaskKept(t)')
    BY <1>2, <2>4, <2>5, <2>6, CtxGuardedTask
  <2>8. CASE CtxRests(ctxTask'[t].at)
    BY <1>1, <2>2, <2>8, CtxSameShares, CtxRestKeeps DEF CtxRests
  <2>9. CASE ctxTask'[t].at = "resolving" /\ CtxTaskKept(t)'
    BY <1>1, <2>2, <2>9, CtxHttpKeeps
  <2> QED
    BY <2>7, <2>8, <2>9
<1> QED
  BY <1>4, <1>5

\* A permit is for addresses that passed their check.
LEMMA CtxResolveKeeps ==
    ASSUME CtxInvariant, NEW t \in CtxTasks, CtxResolve(t)
    PROVE  CtxInvariant'
<1>1. /\ ctxTask[t].at = "resolving" /\ CtxUnchangedRest /\ CtxTaskKept(t)
      /\ UNCHANGED <<cells, cell, cleanups, ctxRan, ctxLoaded>>
  BY DEF CtxResolve, CtxInvariant
<1>2. PICK budget \in Nat, trail \in Seq(CtxHops), url \in CtxUrls :
        /\ budget = ctxTask[t].budget /\ trail = ctxTask[t].trail /\ url = ctxTask[t].url
        /\ Len(trail) + budget <= CtxOutbound.redirects /\ CtxUrlError(url) = "none"
        /\ \A i \in DOMAIN trail : CtxHopInside(trail[i])
  BY <1>1 DEF CtxTaskKept
<1>3. PICK addresses \in CtxResolutions \cup {u.literal : u \in CtxUrls} :
        ctxTask' = [ctxTask EXCEPT ![t] =
              IF ctxCancelled THEN [op |-> "http", at |-> "Cancelled"]
              ELSE IF ctxNow >= CtxDeadline \/ ctxNow >= ctxTask[t].since + CtxOutbound.timeout
              THEN [op |-> "http", at |-> "Deadline"]
              ELSE IF CtxAddressError(t, addresses) # "none"
              THEN [op |-> "http", at |-> CtxAddressError(t, addresses)]
              ELSE [op |-> "http", at |-> "permitted", budget |-> budget,
                    trail |-> Append(trail, [url |-> url, addresses |-> addresses])]]
  BY ZenonT(60), <1>2 DEF CtxResolve
<1> DEFINE new ==
              IF ctxCancelled THEN [op |-> "http", at |-> "Cancelled"]
              ELSE IF ctxNow >= CtxDeadline \/ ctxNow >= ctxTask[t].since + CtxOutbound.timeout
              THEN [op |-> "http", at |-> "Deadline"]
              ELSE IF CtxAddressError(t, addresses) # "none"
              THEN [op |-> "http", at |-> CtxAddressError(t, addresses)]
              ELSE [op |-> "http", at |-> "permitted", budget |-> budget,
                    trail |-> Append(trail, [url |-> url, addresses |-> addresses])]
<1>4. CtxAddressError(t, addresses) \in {"none", "DnsAddressCount", "PrivateAddressRejected"}
  BY DEF CtxAddressError
<1>5. \/ CtxRests(new.at)
      \/ /\ new.at = "permitted" /\ new.budget = budget /\ CtxAddressError(t, addresses) = "none"
         /\ new.trail = Append(trail, [url |-> url, addresses |-> addresses])
  BY <1>4 DEF CtxRests
<1>6. ctxTask' = [ctxTask EXCEPT ![t] = new]
  BY <1>3
<1> HIDE DEF new
<1>7. CtxMoves(t) /\ ctxTask'[t] = new
  BY <1>1, <1>6, CtxSetMoves
<1>8. CASE CtxRests(new.at)
  BY <1>1, <1>7, <1>8, CtxSameShares, CtxRestKeeps DEF CtxRests
<1>9. CASE /\ new.at = "permitted" /\ new.budget = budget /\ CtxAddressError(t, addresses) = "none"
           /\ new.trail = Append(trail, [url |-> url, addresses |-> addresses])
  <2>1. PICK hop \in CtxHops : hop = [url |-> url, addresses |-> addresses]
    BY DEF CtxHops
  <2>2. hop.url = url /\ hop.addresses = addresses
    BY <2>1
  <2>3. \A a \in addresses : CtxPublic(a) \/ CtxOutbound.private
    BY <1>9 DEF CtxAddressError
  <2>4. CtxHopInside(hop)
    BY <1>2, <2>2, <2>3 DEF CtxHopInside
  <2>5. PICK longer \in Seq(CtxHops) : longer = Append(trail, hop) /\ longer = new.trail
    BY <1>9, <2>1, AppendProperties
  <2>6. Len(longer) = Len(trail) + 1 /\ \A i \in DOMAIN longer : longer[i] = hop \/ (i \in DOMAIN trail /\ longer[i] = trail[i])
    <3>1. /\ Len(Append(trail, hop)) = Len(trail) + 1
          /\ \A i \in DOMAIN trail : Append(trail, hop)[i] = trail[i]
          /\ Append(trail, hop)[Len(trail) + 1] = hop
          /\ \A i \in DOMAIN Append(trail, hop) : i \in DOMAIN trail \/ i = Len(trail) + 1
      BY CtxAppended
    <3> QED
      BY <2>5, <3>1, Zenon
  <2>7. \A i \in DOMAIN longer : CtxHopInside(longer[i])
    BY <1>2, <2>4, <2>6
  <2>8. CtxOutbound.redirects \in Nat /\ Len(trail) \in Nat
    BY CtxAssumption, LenProperties DEF CtxOutboundAdmitted
  <2>9. Len(longer) + budget <= CtxOutbound.redirects + 1
    BY SMTT(60), <1>2, <2>6, <2>8
  <2>10. CtxTaskKept(t)'
    BY <1>7, <1>9, <2>5, <2>7, <2>9 DEF CtxTaskKept
  <2> QED
    BY <1>1, <1>7, <1>9, <2>10, CtxHttpKeeps
<1> QED
  BY <1>5, <1>8, <1>9

-----------------------------------------------------------------------------
(* Cleanups and close.                                                     *)

LEMMA CtxDistinctAppend ==
    ASSUME NEW S, NEW s \in Seq(S), NEW e \in S, CtxDistinct(s), \A i \in DOMAIN s : s[i] # e
    PROVE  CtxDistinct(Append(s, e))
  BY CtxAppended DEF CtxDistinct

LEMMA CtxDistinctFewer ==
    ASSUME NEW n \in Nat, NEW s, NEW r, DOMAIN s = 1..n, DOMAIN r = 1..(n - 1),
           \A i \in 1..(n - 1) : r[i] = s[i], CtxDistinct(s)
    PROVE  /\ CtxDistinct(r)
           /\ \A i \in DOMAIN r : r[i] # s[n]
  BY DEF CtxDistinct

\* A registration that is accepted puts a task into the list that was not in it.
LEMMA CtxPushKeeps ==
    ASSUME CtxInvariant, NEW t \in CtxTasks, CtxPush(t)
    PROVE  CtxInvariant'
<1> DEFINE full == Len(cleanups.held) >= CtxMaxCleanups
           result == IF full THEN "CleanupLimit" ELSE IF CtxClosed THEN "registered late" ELSE "registered"
<1>1. /\ ctxTask[t].at = "registering" /\ CtxUnchangedRest /\ CtxDone(t, result)
      /\ cleanups' = IF full THEN cleanups ELSE [cleanups EXCEPT !.held = Append(@, t)]
      /\ UNCHANGED <<cells, cell, ctxRan, ctxLoaded>>
  BY DEF CtxPush
<1>2. /\ full => result = "CleanupLimit"
      /\ ~full => result \in {"registered", "registered late"}
      /\ result = "registered" => ~CtxClosed
  OBVIOUS
<1> HIDE DEF full, result
<1>3. CtxMoves(t) /\ ctxTask'[t].at = result
  BY <1>1, CtxDoneMoves
<1>4. CASE full
  BY <1>1, <1>2, <1>3, <1>4, CtxSameShares, CtxRestKeeps DEF CtxRests
<1>5. CASE ~full
  <2>1. PICK held \in Seq(CtxTasks), longer \in Seq(CtxTasks) :
          /\ held = cleanups.held /\ cleanups' = [cleanups EXCEPT !.held = longer]
          /\ longer = Append(held, t)
          /\ DOMAIN longer = 1..(Len(held) + 1) /\ DOMAIN held = 1..Len(held) /\ Len(held) \in Nat
          /\ \A i \in DOMAIN held : longer[i] = held[i]
          /\ longer[Len(held) + 1] = t
    <3>1. PICK held \in Seq(CtxTasks) : held = cleanups.held
      BY DEF CtxInvariant, CtxTypes
    <3>2. cleanups' = [cleanups EXCEPT !.held = Append(held, t)]
      BY <1>1, <1>5, <3>1
    <3>3. /\ Append(held, t) \in Seq(CtxTasks) /\ DOMAIN Append(held, t) = 1..(Len(held) + 1)
          /\ \A i \in DOMAIN held : Append(held, t)[i] = held[i]
          /\ Append(held, t)[Len(held) + 1] = t
      BY CtxAppended
    <3>4. DOMAIN held = 1..Len(held) /\ Len(held) \in Nat
      BY CtxElements
    <3> QED
      BY <3>1, <3>2, <3>3, <3>4, Zenon
  <2>2. PICK taken \in Seq(CtxTasks) : taken = cleanups.taken
    BY DEF CtxInvariant, CtxTypes
  <2>3. /\ cleanups' \in [held : Seq(CtxTasks), taken : Seq(CtxTasks)]
        /\ cleanups'.held = longer /\ cleanups'.taken = taken
    BY <2>1, <2>2 DEF CtxInvariant, CtxTypes
  <2>4. /\ DOMAIN ctxTask' = CtxTasks /\ \A u \in CtxTasks : u # t => ctxTask'[u] = ctxTask[u]
        /\ UNCHANGED <<ctxClose, ctxCancelled, cells, cell, ctxRan, ctxLoaded>>
        /\ ctxTask'[t].at \in {"registered", "registered late"}
        /\ ctxTask'[t].at = "registered" => ctxClose = "open"
    BY <1>1, <1>2, <1>3, <1>5 DEF CtxMoves, CtxClosed
  <2>5. CtxTypes'
    BY <2>3, <2>4 DEF CtxInvariant, CtxTypes
  <2>6. CtxOneRunner' /\ CtxLoadedIsFull'
    BY <2>4 DEF CtxInvariant, CtxOneRunner, CtxLoadedIsFull
  <2>7. \A i \in DOMAIN held : held[i] \in CtxTasks /\ held[i] # t
                               /\ ctxTask[held[i]].at \in {"registered", "registered late"}
    BY <1>1, <2>1, CtxElements DEF CtxInvariant, CtxClosing
  <2>8. \A i \in DOMAIN longer : i \in DOMAIN held \/ i = Len(held) + 1
    BY <2>1
  <2>9. CtxClosing'
    <3>1. CtxDistinct(held)
      BY <2>1 DEF CtxInvariant, CtxClosing
    <3>2. CtxDistinct(longer)
      BY <2>7, <3>1, CtxDistinctAppend, <2>1
    <3>3. \A i \in DOMAIN longer : ctxTask'[longer[i]].at \in {"registered", "registered late"}
      <4> SUFFICES ASSUME NEW i \in DOMAIN longer
                   PROVE  ctxTask'[longer[i]].at \in {"registered", "registered late"}
        OBVIOUS
      <4>1. CASE i \in DOMAIN held
        <5>1. longer[i] = held[i] /\ held[i] \in CtxTasks /\ held[i] # t
              /\ ctxTask[held[i]].at \in {"registered", "registered late"}
          BY <4>1, <2>1, <2>7
        <5> QED
          BY <5>1, <2>4
      <4>2. CASE i = Len(held) + 1
        BY <4>2, <2>1, <2>4
      <4> QED
        BY <4>1, <4>2, <2>8
    <3>4. /\ ctxClose \in {"taking", "running", "ended"} => ctxCancelled
          /\ CtxBeforeTake => taken = <<>> /\ ctxRan = <<>>
          /\ ctxClose = "ended" => taken = <<>>
          /\ CtxDistinct(taken) /\ CtxDistinct(ctxRan)
          /\ \A i \in DOMAIN taken, j \in DOMAIN ctxRan : taken[i] # ctxRan[j]
      BY <2>2 DEF CtxInvariant, CtxClosing
    <3>5. (CtxBeforeTake' <=> CtxBeforeTake) /\ (CtxDistinct(ctxRan)' <=> CtxDistinct(ctxRan))
      BY <2>4 DEF CtxBeforeTake, CtxDistinct
    <3>6. CtxDistinct(cleanups.held)' /\ CtxDistinct(cleanups.taken)'
      BY <2>3, <3>2, <3>4 DEF CtxDistinct
    <3> QED
      BY <2>3, <2>4, <3>3, <3>4, <3>5, <3>6 DEF CtxClosing
  <2>10. ASSUME NEW u \in CtxTasks PROVE CtxTaskKept(u)' /\ CtxTaskLoads(u)'
    <3>1. CASE u = t
      BY <2>4, <3>1 DEF CtxTaskKept, CtxTaskLoads
    <3>2. CASE u # t
      BY <2>4, <3>2 DEF CtxTaskKept, CtxTaskLoads, CtxInvariant
    <3> QED
      BY <3>1, <3>2
  <2>11. ASSUME NEW u \in CtxTasks PROVE CtxTaskCleans(u)'
    <3>1. CASE u = t
      BY <2>1, <2>4, <2>3, <3>1 DEF CtxBeforeTake, CtxTaskCleans, CtxIn
    <3>2. CASE u # t
      <4>1. CtxTaskCleans(u) /\ ctxTask'[u] = ctxTask[u]
        BY <2>4, <3>2 DEF CtxInvariant
      <4>2. CtxIn(u, held) => CtxIn(u, longer)
        BY <2>1 DEF CtxIn
      <4> QED
        BY <2>1, <2>2, <2>3, <2>4, <4>1, <4>2 DEF CtxTaskCleans, CtxBeforeTake, CtxIn
    <3> QED
      BY <3>1, <3>2
  <2> QED
    BY <2>5, <2>6, <2>9, <2>10, <2>11 DEF CtxInvariant
<1> QED
  BY <1>4, <1>5

\* A step that leaves the tasks alone and cancels at most.
LEMMA CtxHostKeeps ==
    ASSUME CtxInvariant, UNCHANGED <<ctxTask, cell, ctxLoaded>>,
           ctxCancelled' \in BOOLEAN, ctxCancelled => ctxCancelled',
           cells' = cells \/ (cells' = <<>> /\ ctxCancelled'),
           ctxClose' \in {"open", "closed", "taking", "running", "ended"},
           cleanups' \in [held : Seq(CtxTasks), taken : Seq(CtxTasks)], ctxRan' \in Seq(CtxTasks),
           CtxClosing', \A t \in CtxTasks : CtxTaskCleans(t)'
    PROVE  CtxInvariant'
  BY DEF CtxInvariant, CtxTypes, CtxOneRunner, CtxLoadedIsFull, CtxTaskKept, CtxTaskLoads

LEMMA CtxPlainKeeps ==
    ASSUME CtxInvariant, CtxCancel \/ CtxCloseBegin \/ CtxCloseCancel \/ CtxCloseEnd \/ CtxTick
    PROVE  CtxInvariant'
<1>1. /\ UNCHANGED <<ctxTask, cell, ctxLoaded, cleanups, ctxRan>>
      /\ ctxCancelled' \in BOOLEAN /\ (ctxCancelled => ctxCancelled')
      /\ ctxClose' \in {"open", "closed", "taking", "running", "ended"}
  BY DEF CtxCancel, CtxCloseBegin, CtxCloseCancel, CtxCloseEnd, CtxTick, CtxInvariant, CtxTypes
<1>2. cells' = cells \/ (cells' = <<>> /\ ctxCancelled')
  BY DEF CtxCancel, CtxCloseBegin, CtxCloseCancel, CtxCloseEnd, CtxTick, CtxInvariant, CtxClosing
<1>3. /\ CtxBeforeTake' <=> CtxBeforeTake
      /\ ctxClose' \in {"taking", "running", "ended"} => ctxCancelled'
      /\ ctxClose' = "ended" => cleanups.taken = <<>>
  BY DEF CtxCancel, CtxCloseBegin, CtxCloseCancel, CtxCloseEnd, CtxTick, CtxInvariant, CtxClosing, CtxBeforeTake
<1>4. CtxClosing'
  <2>1. (CtxDistinct(cleanups.held) /\ CtxDistinct(cleanups.taken) /\ CtxDistinct(ctxRan))'
    BY <1>1 DEF CtxInvariant, CtxClosing, CtxDistinct
  <2> QED
    BY <1>1, <1>3, <2>1 DEF CtxInvariant, CtxClosing
<1>5. ASSUME NEW t \in CtxTasks PROVE CtxTaskCleans(t)'
  BY <1>1, <1>3 DEF CtxInvariant, CtxTaskCleans, CtxIn
<1>6. cleanups' \in [held : Seq(CtxTasks), taken : Seq(CtxTasks)] /\ ctxRan' \in Seq(CtxTasks)
  BY <1>1 DEF CtxInvariant, CtxTypes
<1> QED
  BY <1>1, <1>2, <1>4, <1>5, <1>6, CtxHostKeeps

LEMMA CtxCloseTakeKeeps ==
    ASSUME CtxInvariant, CtxCloseTake
    PROVE  CtxInvariant'
<1>1. /\ ctxClose = "taking" /\ ctxClose' = "running"
      /\ UNCHANGED <<ctxTask, cell, ctxLoaded, ctxRan, ctxCancelled, cells>>
      /\ ctxCancelled /\ ctxCancelled \in BOOLEAN
  BY DEF CtxCloseTake, CtxInvariant, CtxClosing, CtxTypes
<1>2. PICK held \in Seq(CtxTasks) : held = cleanups.held
  BY DEF CtxInvariant, CtxTypes
<1>3. /\ cleanups' \in [held : Seq(CtxTasks), taken : Seq(CtxTasks)]
      /\ cleanups'.held = <<>> /\ cleanups'.taken = held
  BY <1>2 DEF CtxCloseTake
<1>4. ctxRan = <<>> /\ CtxBeforeTake /\ ~CtxBeforeTake' /\ CtxDistinct(held)
  BY <1>1, <1>2 DEF CtxBeforeTake, CtxInvariant, CtxClosing
<1>5. DOMAIN <<>> = {}
  OBVIOUS
<1>6. CtxClosing'
  BY <1>1, <1>3, <1>4, <1>5 DEF CtxDistinct, CtxClosing
<1>7. ASSUME NEW t \in CtxTasks PROVE CtxTaskCleans(t)'
  BY <1>1, <1>2, <1>3, <1>4 DEF CtxInvariant, CtxTaskCleans, CtxIn
<1>8. ctxRan' \in Seq(CtxTasks)
  BY <1>1 DEF CtxInvariant, CtxTypes
<1> QED
  BY <1>1, <1>3, <1>6, <1>7, <1>8, CtxHostKeeps

\* The last cleanup taken moves to the end of those that have run.
LEMMA CtxCloseRunKeeps ==
    ASSUME CtxInvariant, CtxCloseRun
    PROVE  CtxInvariant'
<1>1. /\ ctxClose = "running" /\ cleanups.taken # <<>>
      /\ UNCHANGED <<ctxTask, cell, ctxLoaded, ctxCancelled, ctxClose, cells>>
      /\ ctxCancelled /\ ctxCancelled \in BOOLEAN /\ ~CtxBeforeTake
  BY DEF CtxCloseRun, CtxInvariant, CtxClosing, CtxTypes, CtxBeforeTake
<1>2. PICK held \in Seq(CtxTasks), taken \in Seq(CtxTasks), ran \in Seq(CtxTasks) :
        held = cleanups.held /\ taken = cleanups.taken /\ ran = ctxRan
  BY DEF CtxInvariant, CtxTypes
<1>3. /\ Len(taken) \in Nat /\ Len(taken) # 0 /\ DOMAIN taken = 1..Len(taken)
      /\ Len(ran) \in Nat /\ DOMAIN ran = 1..Len(ran)
  BY <1>1, <1>2, CtxElements, EmptySeq
<1>4. PICK last \in CtxTasks : last = taken[Len(taken)]
  BY <1>3, CtxElements
<1>5. PICK fewer \in Seq(CtxTasks) :
        /\ fewer = SubSeq(taken, 1, Len(taken) - 1)
        /\ DOMAIN fewer = 1..(Len(taken) - 1)
        /\ \A i \in 1..(Len(taken) - 1) : fewer[i] = taken[i]
  <2>1. /\ SubSeq(taken, 1, Len(taken) - 1) \in Seq(CtxTasks)
        /\ DOMAIN SubSeq(taken, 1, Len(taken) - 1) = 1..(Len(taken) - 1)
        /\ \A i \in 1..(Len(taken) - 1) : SubSeq(taken, 1, Len(taken) - 1)[i] = taken[i]
    BY <1>3, SubSeqProperties, CtxElements
  <2> QED
    BY <2>1, Zenon
<1>6. PICK longer \in Seq(CtxTasks) :
        /\ longer = Append(ran, last) /\ DOMAIN longer = 1..(Len(ran) + 1)
        /\ \A i \in DOMAIN ran : longer[i] = ran[i]
        /\ longer[Len(ran) + 1] = last
  <2>1. /\ Append(ran, last) \in Seq(CtxTasks) /\ DOMAIN Append(ran, last) = 1..(Len(ran) + 1)
        /\ \A i \in DOMAIN ran : Append(ran, last)[i] = ran[i]
        /\ Append(ran, last)[Len(ran) + 1] = last
    BY CtxAppended
  <2> QED
    BY <2>1, Zenon
<1>7. ctxRan' = longer /\ cleanups' = [cleanups EXCEPT !.taken = fewer]
  BY <1>2, <1>4, <1>5, <1>6 DEF CtxCloseRun
<1>8. /\ cleanups' \in [held : Seq(CtxTasks), taken : Seq(CtxTasks)]
      /\ cleanups'.held = held /\ cleanups'.taken = fewer
  BY SMTT(60), <1>2, <1>7 DEF CtxInvariant, CtxTypes
<1>9. /\ CtxDistinct(held) /\ CtxDistinct(taken) /\ CtxDistinct(ran)
      /\ \A i \in DOMAIN taken, j \in DOMAIN ran : taken[i] # ran[j]
      /\ \A i \in DOMAIN held : ctxTask[held[i]].at \in {"registered", "registered late"}
  BY <1>2 DEF CtxInvariant, CtxClosing
<1>9a. PICK m \in Nat : m = Len(taken) /\ m # 0
  BY <1>3
<1>10. CtxDistinct(fewer) /\ \A i \in DOMAIN fewer : fewer[i] # last
  <2>1. /\ DOMAIN taken = 1..m /\ DOMAIN fewer = 1..(m - 1)
        /\ \A i \in 1..(m - 1) : fewer[i] = taken[i]
    BY <1>3, <1>5, <1>9a
  <2>2. CtxDistinct(fewer) /\ \A i \in DOMAIN fewer : fewer[i] # taken[m]
    BY ONLY <2>1, <1>9, m \in Nat, CtxDistinctFewer
  <2> QED
    BY <1>4, <1>9a, <2>2
<1>10a. \A i \in DOMAIN ran : ran[i] # last
  <2>1. m \in DOMAIN taken /\ taken[m] = last
    BY <1>3, <1>4, <1>9a
  <2> QED
    BY <1>9, <2>1
<1>11. CtxDistinct(longer)
  BY <1>9, <1>10a, CtxDistinctAppend, <1>6
<1>12. \A i \in DOMAIN fewer, j \in DOMAIN longer : fewer[i] # longer[j]
  <2>1. \A i \in DOMAIN fewer : i \in DOMAIN taken /\ fewer[i] = taken[i]
    BY <1>3, <1>5
  <2>2. \A j \in DOMAIN longer : longer[j] = last \/ (j \in DOMAIN ran /\ longer[j] = ran[j])
    BY <1>3, <1>6
  <2> QED
    BY <1>9, <1>10, <2>1, <2>2, Zenon
<1>13. CtxClosing'
  <2>1. CtxDistinct(cleanups.held)' /\ CtxDistinct(cleanups.taken)' /\ CtxDistinct(ctxRan)'
    <3>1. CtxDistinct(cleanups'.held) /\ CtxDistinct(cleanups'.taken) /\ CtxDistinct(ctxRan')
      BY <1>7, <1>8, <1>9, <1>10, <1>11
    <3> QED
      BY <3>1 DEF CtxDistinct
  <2>2. ~CtxBeforeTake' /\ ctxClose' # "ended"
    BY <1>1 DEF CtxBeforeTake
  <2> QED
    BY ZenonT(60), <1>1, <1>7, <1>8, <1>9, <1>12, <2>1, <2>2 DEF CtxClosing
<1>14. ASSUME NEW t \in CtxTasks PROVE CtxTaskCleans(t)'
  <2>1. ASSUME CtxIn(t, taken) PROVE CtxIn(t, fewer) \/ CtxIn(t, longer)
    <3>1. PICK i \in DOMAIN taken : taken[i] = t
      BY <2>1 DEF CtxIn
    <3>2. CASE i = Len(taken)
      BY <1>3, <1>4, <1>6, <3>1, <3>2 DEF CtxIn
    <3>3. CASE i # Len(taken)
      <4>1. i \in 1..(Len(taken) - 1)
        BY <1>3, <3>3
      <4> QED
        BY <1>5, <3>1, <4>1 DEF CtxIn
    <3> QED
      BY <3>2, <3>3
  <2>2. ASSUME CtxIn(t, ran) PROVE CtxIn(t, longer)
    BY <2>2, <1>3, <1>6 DEF CtxIn
  <2>3. ctxTask[t].at = "registered" => CtxIn(t, taken) \/ CtxIn(t, ran)
    BY <1>1, <1>2 DEF CtxInvariant, CtxTaskCleans
  <2>4. ctxTask[t].at = "registered" => CtxIn(t, fewer) \/ CtxIn(t, longer)
    BY <2>1, <2>2, <2>3
  <2>5. ~CtxBeforeTake'
    BY <1>1 DEF CtxBeforeTake
  <2> QED
    BY <1>1, <1>7, <1>8, <2>4, <2>5 DEF CtxTaskCleans, CtxIn
<1>15. ctxClose' \in {"open", "closed", "taking", "running", "ended"} /\ ctxRan' \in Seq(CtxTasks)
  BY <1>1, <1>7
<1> QED
  BY <1>1, <1>8, <1>13, <1>14, <1>15, CtxHostKeeps

LEMMA CtxStutterKeeps ==
    ASSUME CtxInvariant, UNCHANGED ctxVars
    PROVE  CtxInvariant'
<1>1. UNCHANGED <<ctxTask, cell, ctxLoaded, cleanups, ctxRan, ctxCancelled, ctxClose, cells>>
  BY DEF ctxVars
<1>2. CtxClosing'
  BY <1>1 DEF CtxInvariant, CtxClosing, CtxDistinct, CtxBeforeTake
<1>3. ASSUME NEW t \in CtxTasks PROVE CtxTaskCleans(t)'
  BY <1>1 DEF CtxInvariant, CtxTaskCleans, CtxIn, CtxBeforeTake
<1>4. /\ cleanups' \in [held : Seq(CtxTasks), taken : Seq(CtxTasks)] /\ ctxRan' \in Seq(CtxTasks)
      /\ ctxCancelled' \in BOOLEAN /\ ctxClose' \in {"open", "closed", "taking", "running", "ended"}
  BY <1>1 DEF CtxInvariant, CtxTypes
<1> QED
  BY <1>1, <1>2, <1>3, <1>4, CtxHostKeeps

\* Whatever the tasks of a request do while it is cancelled and closed, a
\* deduplicated loader returns once per key, no redirect leaves the policy or its
\* budget, and every cleanup registered before close runs exactly once (load,
\* authorize_redirect, register_cleanup, close), for any tasks, loaders,
\* URLs and answers of the resolver.
THEOREM ContextHolds == CtxSpec => []CtxGuarantees
<1>1. CtxInvariant /\ [CtxNext]_ctxVars => CtxInvariant'
  <2> SUFFICES ASSUME CtxInvariant, [CtxNext]_ctxVars PROVE CtxInvariant'
    OBVIOUS
  <2>1. ASSUME NEW t \in CtxTasks,
               \/ CtxLoad(t) \/ CtxJoin(t) \/ CtxInitialize(t) \/ CtxRun(t) \/ CtxShareResult(t)
               \/ CtxDrop(t)
        PROVE  CtxInvariant'
    BY <2>1, CtxLoadKeeps, CtxJoinKeeps, CtxInitializeKeeps, CtxRunKeeps, CtxShareResultKeeps,
       CtxDropKeeps
  <2>2. ASSUME NEW t \in CtxTasks,
               \/ CtxAcquire(t) \/ CtxUse(t) \/ CtxAuthorize(t) \/ CtxResolve(t)
               \/ CtxRedirect(t) \/ CtxRegister(t) \/ CtxPush(t)
        PROVE  CtxInvariant'
    BY <2>2, CtxLeaseKeeps, CtxAuthorizeKeeps, CtxResolveKeeps, CtxRedirectKeeps, CtxPushKeeps
  <2>3. CASE \/ CtxCancel \/ CtxCloseBegin \/ CtxCloseCancel \/ CtxCloseTake \/ CtxCloseRun
             \/ CtxCloseEnd \/ CtxTick
    BY <2>3, CtxPlainKeeps, CtxCloseTakeKeeps, CtxCloseRunKeeps
  <2>4. CASE UNCHANGED ctxVars
    BY <2>4, CtxStutterKeeps
  <2> QED
    BY <2>1, <2>2, <2>3, <2>4 DEF CtxNext
<1> QED
  BY <1>1, CtxInitHolds, CtxInvariantSuffices, PTL DEF CtxSpec

-----------------------------------------------------------------------------
(* Action bodies.                                                          *)

\* What a drop does to a file.
UpDropped(f, T, U, C) ==
    /\ upFiles'[f].clones = UpLeft(f, U, C)
    /\ upFiles'[f].at = "temp" <=> upFiles[f].at = "temp" /\ f \notin T
    /\ upFiles'[f].at = "kept" <=> upFiles[f].at = "kept" /\ UpLeft(f, U, C) # {}

LEMMA UpDropsFiles ==
    ASSUME upFiles \in Seq(UpFile), NEW T, NEW U, NEW C, UpDrops(T, U, C)
    PROVE  /\ upFiles' \in Seq(UpFile) /\ DOMAIN upFiles' = DOMAIN upFiles
           /\ \A f \in DOMAIN upFiles : UpDropped(f, T, U, C)
<1>1. PICK n \in Nat : n = Len(upFiles) /\ DOMAIN upFiles = 1..n
  BY CtxElements
<1>2. \A f \in 1..n : upFiles[f] \in UpFile
  BY <1>1, CtxElements
<1>3. PICK stuck \in SUBSET DOMAIN upFiles :
        upFiles' = [f \in DOMAIN upFiles |->
            [clones |-> UpLeft(f, U, C),
             at     |-> IF \/ upFiles[f].at = "temp" /\ f \in T
                           \/ upFiles[f].at = "kept" /\ UpLeft(f, U, C) = {}
                        THEN IF f \in stuck THEN "stuck" ELSE "gone"
                        ELSE upFiles[f].at]]
  BY DEF UpDrops
<1> DEFINE to(f) == IF \/ upFiles[f].at = "temp" /\ f \in T
                       \/ upFiles[f].at = "kept" /\ UpLeft(f, U, C) = {}
                    THEN IF f \in stuck THEN "stuck" ELSE "gone"
                    ELSE upFiles[f].at
           e(f) == [clones |-> UpLeft(f, U, C), at |-> to(f)]
<1>4. upFiles' = [f \in 1..n |-> e(f)]
  BY <1>1, <1>3
<1>5. \A f \in 1..n : UpLeft(f, U, C) \in SUBSET {"upload", "cleanup"}
  BY <1>2 DEF UpLeft, UpFile
<1>6. \A f \in 1..n : /\ to(f) \in {"temp", "kept", "gone", "stuck"}
                      /\ to(f) = "temp" <=> upFiles[f].at = "temp" /\ f \notin T
                      /\ to(f) = "kept" <=> upFiles[f].at = "kept" /\ UpLeft(f, U, C) # {}
  BY <1>2 DEF UpFile
<1> HIDE DEF to
<1>7. \A f \in 1..n : e(f) \in UpFile /\ e(f).clones = UpLeft(f, U, C) /\ e(f).at = to(f)
  BY <1>5, <1>6 DEF UpFile
<1> HIDE DEF e
<1>8. upFiles' \in Seq(UpFile)
  BY <1>4, <1>7, IsASeq
<1> QED
  BY <1>1, <1>4, <1>6, <1>7, <1>8 DEF UpDropped

\* The uploads of a form that grows.
LEMMA UpAppends ==
    ASSUME NEW form, form \in Seq({form[i] : i \in DOMAIN form}), NEW name, NEW f
    PROVE  LET grown == Append(form, [name |-> name, file |-> f])
           IN  /\ grown \in Seq({grown[i] : i \in DOMAIN grown})
               /\ UpUploads(grown) = UpUploads(form) \cup ({f} \ {0})
<1> DEFINE e == [name |-> name, file |-> f]
           grown == Append(form, e)
           S == {form[i] : i \in DOMAIN form} \cup {e}
<1>1. form \in Seq(S)
  BY SeqMonotonic
<1>2. e \in S
  OBVIOUS
<1>3. e.file = f
  OBVIOUS
<1> HIDE DEF S, e
<1>4. /\ grown \in Seq(S) /\ DOMAIN grown = 1..(Len(form) + 1) /\ DOMAIN form = 1..Len(form) /\ Len(form) \in Nat
      /\ \A i \in DOMAIN form : grown[i] = form[i]
      /\ grown[Len(form) + 1] = e
  BY <1>1, <1>2, CtxAppended, CtxElements
<1> HIDE DEF grown
<1>5. grown \in Seq({grown[i] : i \in DOMAIN grown})
  <2> DEFINE R == {grown[i] : i \in DOMAIN grown}
             n == Len(form) + 1
  <2>1. \A i \in 1..n : grown[i] \in R
    BY <1>4
  <2>2. n \in Nat /\ grown = [i \in 1..n |-> grown[i]]
    BY <1>4, CtxElements
  <2> HIDE DEF R, n
  <2>3. [i \in 1..n |-> grown[i]] \in Seq(R)
    BY ONLY <2>1, <2>2, IsASeq
  <2>4. grown \in Seq(R)
    BY ONLY <2>2, <2>3
  <2> QED
    BY ONLY <2>4 DEF R
<1>6. UpUploads(grown) = UpUploads(form) \cup ({f} \ {0})
  <2>1. ASSUME NEW x PROVE x \in UpUploads(grown) <=> x \in UpUploads(form) \cup ({f} \ {0})
    <3>1. x \in UpUploads(grown) <=> x # 0 /\ \E i \in DOMAIN grown : x = grown[i].file
      BY DEF UpUploads
    <3>2. x \in UpUploads(form) <=> x # 0 /\ \E i \in DOMAIN form : x = form[i].file
      BY DEF UpUploads
    <3> QED
      BY <1>3, <1>4, <3>1, <3>2
  <2> QED
    BY <2>1
<1> QED
  BY <1>5, <1>6 DEF grown, e

\* The invariant looks at these parts of the state only.
UpSame(fields) == DOMAIN up' = UpFields /\ \A x \in fields : up'[x] = up[x]

LEMMA UpInitHolds == UpInit => UpInvariant
<1> SUFFICES ASSUME UpInit PROVE UpInvariant
  OBVIOUS
<1>1. /\ DOMAIN up = UpFields /\ up.at = "none" /\ up.temp = {} /\ up.kept = {} /\ up.form = <<>>
      /\ upFiles = <<>> /\ DOMAIN upContext = {"stage", "cancelled", "cleanups", "taken"}
      /\ upContext.stage = "open" /\ upContext.cleanups = {} /\ upContext.taken = {}
  BY DEF UpInit, UpIdle, UpFields
<1>2. UpUploads(up.form) = {}
  BY <1>1 DEF UpUploads
<1>3. upFiles \in Seq(UpFile) /\ up.form \in Seq({up.form[i] : i \in DOMAIN up.form})
  BY <1>1, EmptySeq
<1> QED
  BY <1>1, <1>2, <1>3 DEF UpInvariant, UpTypes, UpCounts, UpStages, UpClosed

\* A step that leaves the files and the sets of owners alone.
LEMMA UpQuietKeeps ==
    ASSUME UpInvariant, UNCHANGED <<upFiles, upContext>>, UpSame({"temp", "kept", "form"}),
           up'.at # "chunk" => up'.temp = {},
           up'.at \notin {"register", "push"} => up'.kept = {},
           up'.at \in {"none", "failed"} => up'.form = <<>>,
           upContext.stage = "dropped" => up'.at \in {"none", "failed"}
    PROVE  UpInvariant'
<1>1. DOMAIN up' = UpFields /\ up'.temp = up.temp /\ up'.kept = up.kept /\ up'.form = up.form
  BY DEF UpSame
<1>2. UpUploads(up'.form) = UpUploads(up.form)
  BY <1>1
<1>3. UpTypes'
  BY <1>1 DEF UpInvariant, UpTypes
<1>4. UpCounts'
  BY <1>1, <1>2 DEF UpInvariant, UpCounts, UpClosed
<1>5. UpStages'
  BY <1>1, <1>2 DEF UpInvariant, UpStages, UpClosed
<1> QED
  BY <1>3, <1>4, <1>5 DEF UpInvariant

\* An error drops what the decoder holds, and nothing of the context's.
LEMMA UpFailsKeeps ==
    ASSUME UpInvariant, NEW u, DOMAIN u = UpFields, NEW why, UpFails(u, why), UNCHANGED upContext
    PROVE  UpInvariant'
<1> DEFINE U == UpUploads(up.form)
           L(f) == UpLeft(f, up.kept \cup U, up.kept)
<1>1. /\ DOMAIN up' = UpFields /\ up'.at = "failed" /\ up'.temp = {} /\ up'.kept = {} /\ up'.form = <<>>
  BY DEF UpFails, UpFailed, UpFields
<1>2. UpUploads(up'.form) = {} /\ up'.form \in Seq({up'.form[i] : i \in DOMAIN up'.form})
  BY <1>1, EmptySeq DEF UpUploads
<1>3. /\ upFiles' \in Seq(UpFile) /\ DOMAIN upFiles' = DOMAIN upFiles
      /\ \A f \in DOMAIN upFiles : UpDropped(f, up.temp, up.kept \cup U, up.kept)
  BY UpDropsFiles DEF UpFails, UpInvariant, UpTypes
<1>4. ASSUME NEW f \in DOMAIN upFiles
      PROVE  /\ "upload" \in L(f) <=> "upload" \in upFiles[f].clones /\ f \notin up.kept \cup U
             /\ "cleanup" \in L(f) <=> "cleanup" \in upFiles[f].clones /\ f \notin up.kept
             /\ L(f) \subseteq upFiles[f].clones
  BY DEF UpLeft
<1>5. UpTypes'
  BY <1>1, <1>2, <1>3 DEF UpInvariant, UpTypes
<1>6. UpCounts'
  <2> SUFFICES ASSUME NEW f \in DOMAIN upFiles
               PROVE  /\ "upload" \notin upFiles'[f].clones
                      /\ "cleanup" \in upFiles'[f].clones <=> f \in upContext.cleanups \cup upContext.taken
                      /\ upFiles'[f].at # "temp"
                      /\ upFiles'[f].at = "kept" => upFiles'[f].clones # {}
    BY <1>1, <1>2, <1>3 DEF UpCounts, UpClosed
  <2>1. UpDropped(f, up.temp, up.kept \cup U, up.kept)
    BY <1>3
  <2>2. /\ "upload" \in upFiles[f].clones <=> f \in up.kept \cup U
        /\ "cleanup" \in upFiles[f].clones <=> f \in up.kept \cup upContext.cleanups \cup upContext.taken
        /\ upFiles[f].at = "temp" <=> f \in up.temp
    BY DEF UpInvariant, UpCounts
  <2>3. up.kept \cap (U \cup upContext.cleanups \cup upContext.taken) = {}
    BY DEF UpInvariant, UpStages
  <2> HIDE DEF U
  <2> QED
    BY <1>4, <2>1, <2>2, <2>3 DEF UpDropped
<1>7. UpStages'
  BY <1>1, <1>2, <1>3 DEF UpInvariant, UpStages, UpClosed
<1> QED
  BY <1>5, <1>6, <1>7 DEF UpInvariant

LEMMA UpBeginKeeps ==
    ASSUME UpInvariant, UpDecode \/ UpBegin
    PROVE  UpInvariant'
<1>1. up.at = "none" /\ upContext.stage # "dropped" /\ UNCHANGED <<upFiles, upContext>>
  BY DEF UpDecode, UpBegin
<1>2. up.temp = {} /\ up.kept = {} /\ up.form = <<>>
  BY <1>1 DEF UpInvariant, UpStages
<1>3. /\ DOMAIN up' = UpFields /\ up'.temp = {} /\ up'.kept = {} /\ up'.form = <<>>
  <2> DEFINE Fresh(u) == DOMAIN u = UpFields /\ u.temp = {} /\ u.kept = {} /\ u.form = <<>>
  <2>1. \A q, why : Fresh(UpFailed([UpIdle EXCEPT !.req = {q}], why))
    BY DEF UpFailed, UpIdle, UpFields
  <2>2. \A q, a : Fresh([UpIdle EXCEPT !.at = "admitted", !.req = {q}, !.admission = {a}])
    BY DEF UpIdle, UpFields
  <2>3. \A q : Fresh([UpIdle EXCEPT !.at = "field", !.req = {q}])
    BY DEF UpIdle, UpFields
  <2>4. CASE UpDecode
    <3>1. \/ \E q, why : up' = UpFailed([UpIdle EXCEPT !.req = {q}], why)
          \/ \E q, a : up' = [UpIdle EXCEPT !.at = "admitted", !.req = {q}, !.admission = {a}]
      BY <2>4 DEF UpDecode
    <3> QED
      BY <3>1, <2>1, <2>2
  <2>5. CASE UpBegin
    BY <2>5, <2>1, <2>3 DEF UpBegin
  <2> QED
    BY <2>4, <2>5
<1> QED
  BY <1>1, <1>2, <1>3, UpQuietKeeps DEF UpSame

LEMMA UpFieldKeeps ==
    ASSUME UpInvariant, UpField
    PROVE  UpInvariant'
<1> DEFINE u == [up EXCEPT !.part = @ + 1]
<1>1. /\ DOMAIN u = UpFields /\ u.temp = up.temp /\ u.kept = up.kept /\ u.form = up.form
  BY DEF UpInvariant, UpTypes, UpFields
<1>2. up.at = "field" /\ up.temp = {} /\ up.kept = {} /\ UNCHANGED upContext /\ upContext.stage # "dropped"
  BY DEF UpField, UpInvariant, UpStages
<1>3. \/ \E error : UpFails(u, error)
      \/ \E file \in BOOLEAN :
            /\ up' = [u EXCEPT !.at = "chunk", !.chunk = 0, !.size = 0,
                               !.files = IF file THEN @ + 1 ELSE @,
                               !.temp = IF file THEN {Len(upFiles) + 1} ELSE {}]
            /\ upFiles' = IF file THEN Append(upFiles, [at |-> "temp", clones |-> {}]) ELSE upFiles
  BY DEF UpField
<1> HIDE DEF u
<1>4. ASSUME NEW error, UpFails(u, error) PROVE UpInvariant'
  BY <1>1, <1>2, <1>4, UpFailsKeeps
<1>5. ASSUME NEW file \in BOOLEAN,
             up' = [u EXCEPT !.at = "chunk", !.chunk = 0, !.size = 0,
                               !.files = IF file THEN @ + 1 ELSE @,
                               !.temp = IF file THEN {Len(upFiles) + 1} ELSE {}],
             upFiles' = IF file THEN Append(upFiles, [at |-> "temp", clones |-> {}]) ELSE upFiles
      PROVE  UpInvariant'
  <2>1. /\ DOMAIN up' = UpFields /\ up'.at = "chunk" /\ up'.kept = {} /\ up'.form = up.form
        /\ up'.temp = IF file THEN {Len(upFiles) + 1} ELSE {}
    BY <1>1, <1>2, <1>5 DEF UpFields
  <2>2. CASE ~file
    BY <1>2, <1>5, <2>1, <2>2, UpQuietKeeps DEF UpSame
  <2>3. CASE file
    <3> DEFINE e == [at |-> "temp", clones |-> {}]
               n == Len(upFiles)
    <3>1. e \in UpFile /\ e.at = "temp" /\ e.clones = {} /\ upFiles \in Seq(UpFile) /\ upFiles' = Append(upFiles, e)
      BY <1>5, <2>3 DEF UpFile, UpInvariant, UpTypes
    <3> HIDE DEF e
    <3>2. /\ upFiles' \in Seq(UpFile) /\ DOMAIN upFiles' = 1..(n + 1) /\ DOMAIN upFiles = 1..n /\ n \in Nat
          /\ \A f \in DOMAIN upFiles : upFiles'[f] = upFiles[f]
          /\ upFiles'[n + 1] = e
      BY <3>1, CtxAppended, CtxElements
    <3>3. up'.temp = {n + 1}
      BY <2>1, <2>3
    <3> HIDE DEF n
    <3>4. DOMAIN upFiles' = DOMAIN upFiles \cup {n + 1} /\ n + 1 \notin DOMAIN upFiles
      BY <3>2
    <3>5. UpTypes'
      BY <1>2, <2>1, <3>2 DEF UpInvariant, UpTypes
    <3>6. UpCounts'
      BY <1>2, <2>1, <3>1, <3>2, <3>3, <3>4 DEF UpInvariant, UpCounts, UpStages, UpClosed
    <3>7. UpStages'
      BY <1>2, <2>1, <3>3, <3>4 DEF UpInvariant, UpStages, UpClosed
    <3> QED
      BY <3>5, <3>6, <3>7 DEF UpInvariant
  <2> QED
    BY <2>2, <2>3
<1> QED
  BY <1>3, <1>4, <1>5

LEMMA UpChunkKeeps ==
    ASSUME UpInvariant, UpChunk
    PROVE  UpInvariant'
<1> DEFINE n == UpPart.chunks[up.chunk + 1]
           u == [up EXCEPT !.chunk = @ + 1, !.bytes = @ + n, !.size = @ + n]
<1>1. DOMAIN u = UpFields /\ u.temp = up.temp /\ u.kept = up.kept /\ u.form = up.form /\ u.at = up.at
  BY DEF UpInvariant, UpTypes, UpFields
<1>2. /\ up.at = "chunk" /\ up.kept = {} /\ UNCHANGED upContext /\ upContext.stage # "dropped"
      /\ UpFails(u, "PLG-UPL-104") \/ (up' = u /\ UNCHANGED upFiles)
  BY DEF UpChunk, UpInvariant, UpStages
<1> HIDE DEF u
<1> QED
  BY <1>1, <1>2, UpFailsKeeps, UpQuietKeeps DEF UpSame

\* A text part: the form grows by a field without a file.
LEMMA UpTextKeeps ==
    ASSUME UpInvariant, UpText
    PROVE  UpInvariant'
<1>1. /\ DOMAIN up = UpFields /\ up.at = "chunk" /\ up.temp = {} /\ up.kept = {} /\ UNCHANGED upContext
      /\ upContext.stage # "dropped" /\ up.form \in Seq({up.form[i] : i \in DOMAIN up.form})
  BY DEF UpInvariant, UpTypes, UpStages, UpText
<1>2. CASE UpFails(up, "PLG-UPL-103")
  BY <1>1, <1>2, UpFailsKeeps
<1>3. CASE /\ up' = [up EXCEPT !.at = "field", !.form = Append(@, [name |-> UpPart.name, file |-> 0])]
           /\ UNCHANGED upFiles
  <2>1. /\ DOMAIN up' = UpFields /\ up'.at = "field" /\ up'.temp = {} /\ up'.kept = {}
        /\ up'.form = Append(up.form, [name |-> UpPart.name, file |-> 0])
    BY <1>1, <1>3 DEF UpFields
  <2>2. /\ UpUploads(up'.form) = UpUploads(up.form)
        /\ up'.form \in Seq({up'.form[i] : i \in DOMAIN up'.form})
    <3> DEFINE N == UpPart.name
               Z == 0
               G == Append(up.form, [name |-> N, file |-> Z])
    <3> HIDE DEF Z
    <3>1. G \in Seq({G[i] : i \in DOMAIN G}) /\ UpUploads(G) = UpUploads(up.form) \cup ({Z} \ {0})
      BY <1>1, UpAppends
    <3> QED
      BY <2>1, <3>1 DEF Z
  <2>3. UpTypes'
    BY <1>1, <1>3, <2>1, <2>2 DEF UpInvariant, UpTypes
  <2>4. UpCounts'
    BY <1>1, <1>3, <2>1, <2>2 DEF UpInvariant, UpCounts, UpClosed
  <2>5. UpStages'
    BY <1>1, <1>3, <2>1, <2>2 DEF UpInvariant, UpStages, UpClosed
  <2> QED
    BY <2>3, <2>4, <2>5 DEF UpInvariant
<1> QED
  BY <1>2, <1>3 DEF UpText

LEMMA UpKeepKeeps ==
    ASSUME UpInvariant, UpKeep
    PROVE  UpInvariant'
<1>1. /\ DOMAIN up = UpFields /\ up.at = "chunk" /\ up.kept = {} /\ UNCHANGED upContext
      /\ upContext.stage # "dropped" /\ upFiles \in Seq(UpFile)
  BY DEF UpInvariant, UpTypes, UpStages, UpKeep
<1>2. /\ DOMAIN up' = UpFields /\ up'.at = "register" /\ up'.temp = {} /\ up'.kept = up.temp
      /\ up'.form = up.form
  BY <1>1 DEF UpKeep, UpFields
<1>3. PICK n \in Nat : DOMAIN upFiles = 1..n /\ \A f \in 1..n : upFiles[f] \in UpFile
  BY <1>1, CtxElements
<1> DEFINE e(f) == IF f \in up.temp THEN [at |-> "kept", clones |-> {"upload", "cleanup"}] ELSE upFiles[f]
<1>4. upFiles' = [f \in 1..n |-> e(f)]
  BY <1>3 DEF UpKeep
<1>5. \A f \in 1..n : /\ e(f) \in UpFile
                      /\ f \notin up.temp => e(f) = upFiles[f]
                      /\ f \in up.temp => /\ e(f).at = "kept" /\ "upload" \in e(f).clones
                                          /\ "cleanup" \in e(f).clones
  BY <1>3 DEF UpFile
<1> HIDE DEF e
<1>6. upFiles' \in Seq(UpFile) /\ DOMAIN upFiles' = DOMAIN upFiles
  BY <1>3, <1>4, <1>5, IsASeq
<1>7. \A f \in up.temp :
        f \in DOMAIN upFiles /\ f \notin UpUploads(up.form) \cup upContext.cleanups \cup upContext.taken
  BY DEF UpInvariant, UpCounts, UpStages
<1>8. UpTypes'
  BY <1>1, <1>2, <1>6 DEF UpInvariant, UpTypes
<1>9. UpCounts'
  <2> SUFFICES ASSUME NEW f \in DOMAIN upFiles
               PROVE  /\ "upload" \in upFiles'[f].clones <=> f \in up.temp \cup UpUploads(up.form)
                      /\ "cleanup" \in upFiles'[f].clones
                            <=> f \in up.temp \cup upContext.cleanups \cup upContext.taken
                      /\ upFiles'[f].at # "temp"
                      /\ upFiles'[f].at = "kept" => upFiles'[f].clones # {}
                      /\ "upload" \in upFiles'[f].clones => upFiles'[f].at = "kept" \/ UpClosed
    BY <1>1, <1>2, <1>6 DEF UpCounts, UpClosed
  <2>1. upFiles'[f] = e(f)
    BY <1>3, <1>4
  <2>2. CASE f \in up.temp
    BY <1>3, <1>5, <2>1, <2>2
  <2>3. CASE f \notin up.temp
    BY <1>1, <1>3, <1>5, <2>1, <2>3 DEF UpInvariant, UpCounts
  <2> QED
    BY <2>2, <2>3
<1>10. UpStages'
  BY <1>1, <1>2, <1>6, <1>7 DEF UpInvariant, UpStages, UpClosed
<1> QED
  BY <1>8, <1>9, <1>10 DEF UpInvariant

\* The closed check of register_cleanup, and the last part.
LEMMA UpRegisterKeeps ==
    ASSUME UpInvariant, UpRegister \/ UpForm
    PROVE  UpInvariant'
<1>1. /\ DOMAIN up = UpFields /\ UNCHANGED upContext /\ up.at \in {"register", "field"} /\ up.temp = {}
      /\ upContext.stage # "dropped" /\ (up.at = "field" => up.kept = {})
  BY DEF UpInvariant, UpTypes, UpStages, UpRegister, UpForm
<1>2. \/ \E why : UpFails(up, why)
      \/ up.at = "register" /\ up' = [up EXCEPT !.at = "push"] /\ UNCHANGED upFiles
      \/ up.at = "field" /\ UNCHANGED upFiles /\ \E a : up' = [up EXCEPT !.at = "admitted", !.admission = a]
  BY DEF UpRegister, UpForm
<1>3. ASSUME NEW why, UpFails(up, why) PROVE UpInvariant'
  BY <1>1, <1>3, UpFailsKeeps
<1>4. CASE up.at = "register" /\ up' = [up EXCEPT !.at = "push"] /\ UNCHANGED upFiles
  BY <1>1, <1>4, UpQuietKeeps DEF UpSame, UpFields
<1>5. ASSUME NEW a, up.at = "field", UNCHANGED upFiles, up' = [up EXCEPT !.at = "admitted", !.admission = a]
      PROVE  UpInvariant'
  BY <1>1, <1>5, UpQuietKeeps DEF UpSame, UpFields
<1> QED
  BY <1>2, <1>3, <1>4, <1>5

LEMMA UpPushKeeps ==
    ASSUME UpInvariant, UpPush
    PROVE  UpInvariant'
<1>1. /\ DOMAIN up = UpFields /\ up.at = "push" /\ up.temp = {} /\ upContext.stage # "dropped"
      /\ DOMAIN upContext = {"stage", "cancelled", "cleanups", "taken"}
      /\ up.form \in Seq({up.form[i] : i \in DOMAIN up.form})
  BY DEF UpInvariant, UpTypes, UpStages, UpPush
<1>2. CASE UpFails(up, "PLG-UPL-500") /\ UNCHANGED upContext
  BY <1>1, <1>2, UpFailsKeeps
<1>3. CASE UpPushed
  <2>1. /\ DOMAIN upContext' = {"stage", "cancelled", "cleanups", "taken"}
        /\ upContext'.stage = upContext.stage /\ upContext'.taken = upContext.taken
        /\ upContext'.cleanups = upContext.cleanups \cup up.kept /\ UNCHANGED upFiles
    BY <1>1, <1>3 DEF UpPushed
  <2>2. PICK f \in up.kept :
          up' = [up EXCEPT !.at = "field", !.kept = {},
                           !.form = Append(@, [name |-> UpPart.name, file |-> f])]
    BY <1>3 DEF UpPushed
  <2>3. /\ DOMAIN up' = UpFields /\ up'.at = "field" /\ up'.temp = {} /\ up'.kept = {}
        /\ up'.form = Append(up.form, [name |-> UpPart.name, file |-> f])
    BY <1>1, <2>2 DEF UpFields
  <2>4. up.kept = {f} /\ f \in DOMAIN upFiles /\ f # 0
    <3>1. \A g \in up.kept : g = f
      BY <2>2 DEF UpInvariant, UpStages
    <3>2. f \in DOMAIN upFiles /\ upFiles \in Seq(UpFile)
      BY <2>2 DEF UpInvariant, UpStages, UpTypes
    <3>3. f # 0
      BY <3>2, CtxElements
    <3> QED
      BY <2>2, <3>1, <3>2, <3>3
  <2>5. /\ UpUploads(up'.form) = UpUploads(up.form) \cup up.kept
        /\ up'.form \in Seq({up'.form[i] : i \in DOMAIN up'.form})
    <3> DEFINE N == UpPart.name
               G == Append(up.form, [name |-> N, file |-> f])
    <3>1. G \in Seq({G[i] : i \in DOMAIN G}) /\ UpUploads(G) = UpUploads(up.form) \cup ({f} \ {0})
      BY <1>1, UpAppends
    <3> QED
      BY <2>3, <2>4, <3>1
  <2>6. UpTypes'
    BY <1>1, <2>1, <2>3, <2>5 DEF UpInvariant, UpTypes
  <2>7. UpCounts'
    BY <1>1, <2>1, <2>3, <2>5 DEF UpInvariant, UpCounts, UpClosed
  <2>8. UpStages'
    BY <1>1, <2>1, <2>3, <2>5 DEF UpInvariant, UpStages, UpClosed
  <2> QED
    BY <2>6, <2>7, <2>8 DEF UpInvariant
<1> QED
  BY <1>2, <1>3 DEF UpPush

LEMMA UpEndKeeps ==
    ASSUME UpInvariant, UpBroken \/ UpDrop
    PROVE  UpInvariant'
  BY UpFailsKeeps DEF UpBroken, UpDrop, UpInvariant, UpTypes

LEMMA UpContextKeeps ==
    ASSUME UpInvariant, UpCancel \/ UpClose \/ UpTake
    PROVE  UpInvariant'
<1>1. DOMAIN upContext = {"stage", "cancelled", "cleanups", "taken"} /\ UNCHANGED <<up, upFiles>>
  BY DEF UpInvariant, UpTypes, UpCancel, UpClose, UpTake
<1>2. UpUploads(up'.form) = UpUploads(up.form)
  BY <1>1
<1>3. CASE UpCancel
  <2>1. /\ DOMAIN upContext' = DOMAIN upContext /\ upContext'.stage = upContext.stage
        /\ upContext'.cleanups = upContext.cleanups /\ upContext'.taken = upContext.taken
    BY <1>1, <1>3 DEF UpCancel
  <2> QED
    BY <1>1, <1>2, <2>1 DEF UpInvariant, UpTypes, UpCounts, UpStages, UpClosed
<1>4. CASE UpClose
  <2>1. /\ DOMAIN upContext' = DOMAIN upContext /\ upContext'.stage = "closing" /\ upContext.stage = "open"
        /\ upContext'.cleanups = upContext.cleanups /\ upContext'.taken = upContext.taken
    BY <1>1, <1>4 DEF UpClose, UpClosed
  <2> QED
    BY <1>1, <1>2, <2>1 DEF UpInvariant, UpTypes, UpCounts, UpStages, UpClosed
<1>5. CASE UpTake
  <2>1. /\ DOMAIN upContext' = DOMAIN upContext /\ upContext'.stage = "closed"
        /\ upContext.stage = "closing" /\ upContext'.cleanups = {} /\ upContext'.taken = upContext.cleanups
    BY <1>1, <1>5 DEF UpTake
  <2>2. upContext.taken = {}
    BY <2>1 DEF UpInvariant, UpStages
  <2> QED
    BY <1>1, <1>2, <2>1, <2>2 DEF UpInvariant, UpTypes, UpCounts, UpStages, UpClosed
<1> QED
  BY <1>3, <1>4, <1>5

LEMMA UpCleanupKeeps ==
    ASSUME UpInvariant, UpCleanup
    PROVE  UpInvariant'
<1>1. DOMAIN upContext = {"stage", "cancelled", "cleanups", "taken"} /\ UNCHANGED up /\ upFiles \in Seq(UpFile)
  BY DEF UpInvariant, UpTypes, UpCleanup
<1>2. UpUploads(up'.form) = UpUploads(up.form)
  BY <1>1
<1>3. PICK f \in upContext.taken, how \in {"gone", "stuck"} :
        /\ upContext' = [upContext EXCEPT !.taken = @ \ {f}]
        /\ upFiles' = [upFiles EXCEPT ![f] =
              [clones |-> @.clones \ {"cleanup"}, at |-> IF @.at = "kept" THEN how ELSE @.at]]
  BY DEF UpCleanup
<1> DEFINE to == IF upFiles[f].at = "kept" THEN how ELSE upFiles[f].at
           e == [clones |-> upFiles[f].clones \ {"cleanup"}, at |-> to]
<1>4. /\ DOMAIN upContext' = DOMAIN upContext /\ upContext'.stage = upContext.stage
      /\ upContext'.cleanups = upContext.cleanups /\ upContext'.taken = upContext.taken \ {f}
  BY <1>1, <1>3
<1>5. f \in DOMAIN upFiles /\ upContext.stage \notin {"open", "closing"} /\ f \notin up.kept \cup upContext.cleanups
  BY <1>3 DEF UpInvariant, UpStages
<1>6. upFiles[f] \in UpFile /\ upFiles' = [upFiles EXCEPT ![f] = e] /\ f \in 1..Len(upFiles)
  BY <1>1, <1>3, <1>5, CtxElements
<1>7. /\ to \in {"temp", "gone", "stuck"} /\ (to = "temp" <=> upFiles[f].at = "temp")
      /\ e \in UpFile /\ e.clones = upFiles[f].clones \ {"cleanup"} /\ e.at = to
  BY <1>3, <1>6 DEF UpFile
<1> HIDE DEF e, to
<1>8. upFiles' \in Seq(UpFile)
  BY <1>1, <1>6, <1>7, ExceptSeq
<1>9. /\ DOMAIN upFiles' = DOMAIN upFiles /\ upFiles'[f] = e
      /\ \A g \in DOMAIN upFiles : g # f => upFiles'[g] = upFiles[g]
  BY <1>5, <1>6
<1>10. UpTypes'
  BY <1>1, <1>4, <1>8 DEF UpInvariant, UpTypes
<1>11. UpCounts'
  <2> SUFFICES ASSUME NEW g \in DOMAIN upFiles
               PROVE  /\ "upload" \in upFiles'[g].clones <=> g \in up.kept \cup UpUploads(up.form)
                      /\ "cleanup" \in upFiles'[g].clones
                            <=> g \in up.kept \cup upContext.cleanups \cup (upContext.taken \ {f})
                      /\ upFiles'[g].at = "temp" <=> g \in up.temp
                      /\ upFiles'[g].at = "temp" => upFiles'[g].clones = {}
                      /\ upFiles'[g].at = "kept" => upFiles'[g].clones # {}
    BY <1>1, <1>2, <1>4, <1>5, <1>9 DEF UpCounts, UpClosed
  <2>1. CASE g = f
    BY <1>5, <1>7, <1>9, <2>1 DEF UpInvariant, UpCounts
  <2>2. CASE g # f
    BY <1>9, <2>2 DEF UpInvariant, UpCounts
  <2> QED
    BY <2>1, <2>2
<1>12. UpStages'
  BY <1>1, <1>2, <1>4, <1>5, <1>9 DEF UpInvariant, UpStages, UpClosed
<1> QED
  BY <1>10, <1>11, <1>12 DEF UpInvariant

LEMMA UpReleaseKeeps ==
    ASSUME UpInvariant, UpRelease
    PROVE  UpInvariant'
<1> DEFINE L(f) == UpLeft(f, {}, upContext.cleanups)
<1>1. /\ DOMAIN upContext = {"stage", "cancelled", "cleanups", "taken"} /\ UNCHANGED up
      /\ upFiles \in Seq(UpFile) /\ upContext.taken = {} /\ upContext.stage = "closed"
      /\ UpDrops({}, {}, upContext.cleanups) /\ up.at \in {"none", "failed"}
  BY DEF UpInvariant, UpTypes, UpRelease
<1>2. UpUploads(up'.form) = UpUploads(up.form) /\ up.kept = {} /\ UpUploads(up.form) = {} /\ up.temp = {}
  BY <1>1 DEF UpInvariant, UpStages, UpUploads
<1>3. /\ DOMAIN upContext' = DOMAIN upContext /\ upContext'.stage = "dropped"
      /\ upContext'.cleanups = {} /\ upContext'.taken = {}
  BY <1>1 DEF UpRelease
<1>4. /\ upFiles' \in Seq(UpFile) /\ DOMAIN upFiles' = DOMAIN upFiles
      /\ \A f \in DOMAIN upFiles : UpDropped(f, {}, {}, upContext.cleanups)
  BY <1>1, UpDropsFiles
<1>5. UpTypes'
  BY <1>1, <1>3, <1>4 DEF UpInvariant, UpTypes
<1>6. UpCounts'
  <2> SUFFICES ASSUME NEW f \in DOMAIN upFiles
               PROVE  /\ "upload" \notin upFiles'[f].clones /\ "cleanup" \notin upFiles'[f].clones
                      /\ upFiles'[f].at # "temp"
                      /\ upFiles'[f].at = "kept" => upFiles'[f].clones # {}
    BY <1>1, <1>2, <1>3, <1>4 DEF UpCounts, UpClosed
  <2>1. UpDropped(f, {}, {}, upContext.cleanups)
    BY <1>4
  <2>2. /\ "upload" \notin upFiles[f].clones /\ upFiles[f].at # "temp"
        /\ "cleanup" \in upFiles[f].clones <=> f \in upContext.cleanups
    BY <1>1, <1>2 DEF UpInvariant, UpCounts
  <2>3. "upload" \notin L(f) /\ "cleanup" \notin L(f)
    BY <2>2 DEF UpLeft
  <2> QED
    BY <2>1, <2>2, <2>3 DEF UpDropped
<1>7. UpStages'
  BY <1>1, <1>2, <1>3, <1>4 DEF UpInvariant, UpStages, UpClosed
<1> QED
  BY <1>5, <1>6, <1>7 DEF UpInvariant

LEMMA UpInvariantSuffices == UpInvariant => UpFilesAreOwned
<1> SUFFICES ASSUME UpInvariant PROVE UpFilesAreOwned
  OBVIOUS
<1>1. ASSUME NEW f \in DOMAIN upFiles
      PROVE  /\ upFiles[f].at = "temp" => f \in up.temp
             /\ upFiles[f].at = "kept" =>
                   f \in up.kept \cup UpUploads(up.form) \cup upContext.cleanups \cup upContext.taken
             /\ upContext.stage = "dropped" => upFiles[f].at \in {"gone", "stuck"}
  <2>1. upFiles[f] \in UpFile
    BY CtxElements DEF UpInvariant, UpTypes
  <2>2. /\ upFiles[f].at \in {"temp", "kept", "gone", "stuck"}
        /\ upFiles[f].clones # {} => "upload" \in upFiles[f].clones \/ "cleanup" \in upFiles[f].clones
    BY <2>1 DEF UpFile
  <2>3. /\ upFiles[f].at = "temp" => f \in up.temp
        /\ upFiles[f].at = "kept" =>
              f \in up.kept \cup UpUploads(up.form) \cup upContext.cleanups \cup upContext.taken
    BY <2>2 DEF UpInvariant, UpCounts
  <2>4. ASSUME upContext.stage = "dropped" PROVE upFiles[f].at \in {"gone", "stuck"}
    <3>1. up.temp = {} /\ up.kept = {} /\ up.form = <<>> /\ upContext.cleanups = {} /\ upContext.taken = {}
      BY <2>4 DEF UpInvariant, UpStages
    <3>2. UpUploads(up.form) = {}
      BY <3>1 DEF UpUploads
    <3> QED
      BY <2>2, <2>3, <3>1, <3>2
  <2> QED
    BY <2>3, <2>4
<1>2. \A f \in UpUploads(up.form) : upFiles[f].at = "kept" \/ UpClosed
  BY DEF UpInvariant, UpCounts, UpStages
<1> QED
  BY <1>1, <1>2 DEF UpFilesAreOwned

\* However the parts of an upload fail, are cancelled or dropped, and although
\* the data context may close between the check and the push of a cleanup, a
\* temporary file on disk has an owner that deletes it, and none is left once
\* the last handle of the context is gone (upload.rs parse_multipart,
\* TempArtifact, context.rs register_cleanup, close), for any requests and limits.
THEOREM UploadsAreOwned == UpSpec => []UpFilesAreOwned
<1>1. UpInvariant /\ [UpNext]_upVars => UpInvariant'
  <2> SUFFICES ASSUME UpInvariant, [UpNext]_upVars PROVE UpInvariant'
    OBVIOUS
  <2>1. CASE UNCHANGED upVars
    <3>1. up' = up /\ upFiles' = upFiles /\ upContext' = upContext
      BY <2>1 DEF upVars
    <3> QED
      BY <3>1 DEF UpInvariant, UpTypes, UpCounts, UpStages, UpClosed
  <2> QED
    BY <2>1, UpBeginKeeps, UpFieldKeeps, UpChunkKeeps, UpTextKeeps, UpKeepKeeps, UpRegisterKeeps, UpPushKeeps,
       UpEndKeeps, UpContextKeeps, UpCleanupKeeps, UpReleaseKeeps DEF UpNext
<1> QED
  BY <1>1, UpInitHolds, UpInvariantSuffices, PTL DEF UpSpec

-----------------------------------------------------------------------------
(* The host.  A record that differs from another in some fields only.      *)

ReqSame(q, n, fields) ==
    DOMAIN n = ReqFields /\ \A f \in ReqFields \ fields : n[f] = q[f]

\* What the invariants see of a request whose pipeline or body goes on.
ReqPending(q) ==
    /\ DOMAIN q = ReqFields /\ q.token \in BOOLEAN /\ q.data \in {"none", "open", "closed"}
    /\ q.token => q.outcome # "Pending"
    /\ q.outcome = "Cancelled" => q.reason # "none"
    /\ q.data = "open" => "data" \in q.internal
    /\ q.receipts = <<>>

ReqPipeline == {"Accepted", "HeadAdmitted", "RouteResolved", "ScopeOpen", "HandlerRunning",
                "Rejected", "Cancelled", "Failed"}
ReqUndecided == {"Accepted", "RouteResolved", "ScopeOpen"}

LEMMA ReqMoveFacts ==
    ASSUME NEW q, DOMAIN q = ReqFields, NEW to
    PROVE  /\ ReqSame(q, ReqMove(q, to), {"state"})
           /\ ReqMove(q, to).state = IF ReqAllowed(q.state, to) THEN to ELSE q.state
  BY DEF ReqMove, ReqSame, ReqFields

LEMMA ReqSettleFacts ==
    ASSUME NEW q, DOMAIN q = ReqFields, NEW to
    PROVE  /\ ReqSame(q, ReqSettle(q, to), {"state", "outcome"})
           /\ ReqSettle(q, to).state = IF ReqAllowed(q.state, to) THEN to ELSE q.state
           /\ ReqSettle(q, to).outcome = IF q.outcome = "Pending" THEN to ELSE q.outcome
  BY ReqMoveFacts DEF ReqFields, ReqSettle, ReqSame

\* An error is answered: the request has a status and a settled outcome.
LEMMA ReqRecoverFacts ==
    ASSUME NEW q, ReqPending(q), q.state \in ReqPipeline, NEW class, NEW status,
           status \in {"client", "server"}, NEW p \in ReqRecovered(q, class, status)
    PROVE  /\ ReqSame(q, p, {"at", "state", "outcome", "status"})
           /\ p.at = "answer" /\ p.status \in {"client", "server"}
           /\ p.outcome = q.outcome
                \/ (q.outcome = "Pending" /\ p.outcome \in {"Failed", "Rejected"})
           /\ p.state \in ReqPipeline \ ReqUndecided
<1> DEFINE to == IF class = "internal" THEN "Failed" ELSE "Rejected"
           s == ReqSettle(q, to)
<1>1. /\ ReqSame(q, s, {"state", "outcome"})
      /\ s.state = IF ReqAllowed(q.state, to) THEN to ELSE q.state
      /\ s.outcome = IF q.outcome = "Pending" THEN to ELSE q.outcome
  <2> HIDE DEF to
  <2> QED
    BY ReqSettleFacts DEF ReqPending
<1>2. s.state \in ReqPipeline \ ReqUndecided
  BY <1>1 DEF ReqAllowed, ReqPipeline, ReqUndecided
<1>2a. s.outcome = q.outcome \/ (q.outcome = "Pending" /\ s.outcome \in {"Failed", "Rejected"})
  BY <1>1
<1>3. ReqRecover(q, class, status) = [s EXCEPT !.at = "answer", !.status = status]
  BY DEF ReqRecover
<1> HIDE DEF s
<1>4. PICK t \in {status, "server"} :
          p = [[s EXCEPT !.at = "answer", !.status = status] EXCEPT !.status = t]
             \/ p = [s EXCEPT !.at = "answer", !.status = t]
  BY <1>3 DEF ReqRecovered
<1>5. /\ DOMAIN p = ReqFields /\ p.at = "answer" /\ p.status = t
      /\ \A f \in ReqFields \ {"at", "status"} : p[f] = s[f]
  BY <1>1, <1>4 DEF ReqSame, ReqFields
<1>6. p.outcome = s.outcome /\ p.state = s.state
  BY <1>5 DEF ReqFields
<1>7. ReqSame(q, p, {"at", "state", "outcome", "status"})
  BY <1>1, <1>5 DEF ReqSame
<1> QED
  BY <1>2, <1>2a, <1>5, <1>6, <1>7

\* The step of a request's own future or body, as the other parts see it.
ReqOwn(r, n) ==
    /\ reqs' = [reqs EXCEPT ![r] = n]
    /\ ReqSound(n)
    /\ reqs[r].at = "waiting" => host.at = "serving" \/ n.at = "waiting"
    /\ n.at # "served" => /\ reqs[r].at # "served"
                          /\ reqs[r].reason # "none" => n.reason # "none"
                          /\ reqs[r].outcome # "Pending" => n.outcome # "Pending"
    /\ reqs[r].token \/ ReqDraining(reqs[r]) => n.token \/ ReqDraining(n)
    /\ r \in registry' => n.at \notin {"receipt", "served"}

ReqBystanders(r) ==
    /\ registry' \subseteq registry \cup {r}
    /\ r \in registry' \ registry => host.accepting
    /\ ReqHosted' /\ host'.at = host.at /\ host'.pending = host.pending

LEMMA ReqOthersKeep ==
    ASSUME ReqInvariant, NEW r \in ReqIds, NEW n, ReqOwn(r, n), ReqBystanders(r),
           NEW c \in ReqCancellers, NEW k,
           cancels' = cancels \/ cancels' = [cancels EXCEPT ![r] = [cancels[r] EXCEPT ![c] = k]],
           cancels' \in [ReqIds -> [ReqCancellers ->
              [at : {"none", "armed", "called", "reason", "outcome", "token", "state", "done"},
               reason : ReqReasons \cup {"none"}]]],
           ReqCancelling(n, cancels'[r])
    PROVE  ReqInvariant'
<1>1. /\ DOMAIN reqs' = ReqIds /\ reqs'[r] = n
      /\ \A u \in ReqIds : u # r => reqs'[u] = reqs[u] /\ cancels'[u] = cancels[u]
  BY DEF ReqInvariant, ReqOwn
<1>2. ASSUME NEW u \in ReqIds
      PROVE  ReqSound(reqs[u])' /\ ReqCancelling(reqs[u], cancels[u])'
  BY <1>1 DEF ReqOwn, ReqInvariant
<1>3. ASSUME NEW u \in ReqIds PROVE ReqRegisteredRight(u)'
  <2>1. ReqRegisteredRight(u)
    BY DEF ReqInvariant
  <2>2. CASE u = r
    <3>1. reqs'[u] = n
      BY <1>1, <2>2
    <3> QED
      BY <2>1, <2>2, <3>1 DEF ReqRegisteredRight, ReqOwn, ReqBystanders, ReqInvariant, ReqHosted
  <2>3. CASE u # r
    <3>1. reqs'[u] = reqs[u]
      BY <1>1, <2>3
    <3> QED
      BY <2>1, <2>3, <3>1 DEF ReqRegisteredRight, ReqBystanders
  <2> QED
    BY <2>2, <2>3
<1> QED
  BY <1>1, <1>2, <1>3 DEF ReqInvariant, ReqBystanders

\* The own step leaves the cancellers alone.
LEMMA ReqOwnKeeps ==
    ASSUME ReqInvariant, NEW r \in ReqIds, NEW n, ReqOwn(r, n), ReqBystanders(r),
           reqs[r].at \notin {"cancelling", "reading"}, UNCHANGED cancels
    PROVE  ReqInvariant'
<1>1. ReqCancelling(reqs[r], cancels[r])
  BY DEF ReqInvariant
<1>2. ReqCancelling(n, cancels[r])
  BY <1>1 DEF ReqCancelling, ReqOwn
<1>3. "task" \in ReqCancellers
  BY DEF ReqCancellers
<1> QED
  BY <1>2, <1>3, ReqOthersKeep DEF ReqInvariant

LEMMA ReqOnlyBystands ==
    ASSUME ReqInvariant, NEW r \in ReqIds, UNCHANGED <<host, registry>>
    PROVE  ReqBystanders(r)
  BY DEF ReqBystanders, ReqInvariant, ReqHosted

LEMMA ReqUpFacts ==
    ASSUME NEW p, DOMAIN p = ReqFields, NEW i
    PROVE  ReqSame(p, ReqUp(p, i), {"layer", "at"}) /\ ReqUp(p, i).at \in {"up", "answer"}
  BY DEF ReqUp, ReqSame, ReqFields

ReqBusy == {"admitting", "head", "layer", "routed", "scoped", "opened", "up"}

LEMMA ReqPipelinePends ==
    ASSUME NEW q, ReqSound(q), q.at \in ReqBusy
    PROVE  ReqPending(q) /\ q.state \in ReqPipeline
  BY DEF ReqSound, ReqPlaced, ReqSettles, ReqReceipted, ReqPending, ReqPipeline, ReqBusy

\* The request is answered, by a layer, by its handler or for an error.
LEMMA ReqAnsweredOwn ==
    ASSUME ReqInvariant, NEW r \in ReqIds, reqs[r].at \in ReqBusy,
           NEW p, ReqSame(reqs[r], p, {"at", "state", "outcome", "status", "layer", "terminal"}),
           p.at \in {"up", "answer"}, p.status \in ReqAnswers,
           p.state \in ReqPipeline \ ReqUndecided,
           p.outcome = reqs[r].outcome
             \/ (reqs[r].outcome = "Pending" /\ p.outcome \in {"Failed", "Rejected"}),
           reqs' = [reqs EXCEPT ![r] = p], UNCHANGED registry
    PROVE  ReqOwn(r, p)
<1>1. ReqSound(reqs[r]) /\ ReqPending(reqs[r])
  BY ReqPipelinePends DEF ReqInvariant
<1>2. /\ DOMAIN p = ReqFields /\ p.token = reqs[r].token /\ p.data = reqs[r].data
      /\ p.reason = reqs[r].reason /\ p.internal = reqs[r].internal
      /\ p.receipts = reqs[r].receipts /\ p.held = reqs[r].held
  BY DEF ReqSame, ReqFields
<1>3. ReqPending(p)
  BY <1>1, <1>2 DEF ReqPending
<1>4. ReqPlaced(p)
  BY DEF ReqPlaced, ReqPipeline, ReqUndecided
<1>5. ReqSettles(p) /\ ReqReceipted(p)
  BY <1>3 DEF ReqPending, ReqSettles, ReqReceipted
<1>6. ReqSound(p)
  BY <1>3, <1>4, <1>5 DEF ReqPending, ReqSound
<1>7. ~ReqDraining(reqs[r])
  BY <1>1 DEF ReqSound, ReqPlaced, ReqDraining, ReqBusy
<1> QED
  BY <1>2, <1>6, <1>7 DEF ReqOwn, ReqBusy

\* The same after an error.
LEMMA ReqRecoveredOwn ==
    ASSUME ReqInvariant, NEW r \in ReqIds, reqs[r].at \in ReqBusy,
           NEW class, NEW status, status \in {"client", "server"},
           NEW p \in ReqRecovered(reqs[r], class, status),
           NEW n, n = p \/ \E i : n = ReqUp(p, i),
           reqs' = [reqs EXCEPT ![r] = n], UNCHANGED registry
    PROVE  ReqOwn(r, n)
<1> DEFINE q == reqs[r]
<1>2. ReqPending(q) /\ q.state \in ReqPipeline
  BY ReqPipelinePends DEF ReqInvariant
<1>3. /\ ReqSame(q, p, {"at", "state", "outcome", "status"})
      /\ p.at = "answer" /\ p.status \in {"client", "server"}
      /\ p.outcome = q.outcome
           \/ (q.outcome = "Pending" /\ p.outcome \in {"Failed", "Rejected"})
      /\ p.state \in ReqPipeline \ ReqUndecided
  BY <1>2, ReqRecoverFacts
<1>4. ReqSame(p, n, {"layer", "at"}) /\ n.at \in {"up", "answer"}
  BY <1>3, ReqUpFacts DEF ReqSame
<1>5. /\ n.status = p.status /\ n.state = p.state /\ n.outcome = p.outcome
  BY <1>4 DEF ReqSame, ReqFields
<1>6. ReqSame(reqs[r], n, {"at", "state", "outcome", "status", "layer", "terminal"})
  BY <1>3, <1>4 DEF ReqSame, ReqFields
<1>7. p.status \in ReqAnswers
  BY <1>3 DEF ReqAnswers
<1>8. n.outcome = reqs[r].outcome
        \/ (reqs[r].outcome = "Pending" /\ n.outcome \in {"Failed", "Rejected"})
  BY <1>3, <1>5
<1> HIDE DEF ReqRecovered
<1> QED
  BY <1>3, <1>4, <1>5, <1>6, <1>7, <1>8, ReqAnsweredOwn

LEMMA ReqSoundHere ==
    ASSUME ReqInvariant, NEW r \in ReqIds
    PROVE  ReqSound(reqs[r]) /\ DOMAIN reqs[r] = ReqFields /\ DOMAIN reqs = ReqIds
  BY DEF ReqInvariant, ReqSound

LEMMA ReqAcceptKeeps ==
    ASSUME ReqInvariant, NEW r \in ReqIds, ReqAccept(r)
    PROVE  ReqInvariant'
<1>1. ReqSound(reqs[r]) /\ DOMAIN reqs[r] = ReqFields
  BY ReqSoundHere
<1>2. PICK to \in {"connected", "unserved"} : reqs' = [reqs EXCEPT ![r] = [reqs[r] EXCEPT !.at = to]]
  BY DEF ReqAccept, ReqSet
<1> DEFINE n == [reqs[r] EXCEPT !.at = to]
<1>3. ReqSame(reqs[r], n, {"at"}) /\ n.at = to
  BY <1>1 DEF ReqSame, ReqFields
<1>4. reqs' = [reqs EXCEPT ![r] = n]
  BY <1>2
<1> HIDE DEF n
<1>5. ReqSound(n)
  BY <1>1, <1>3 DEF ReqAccept, ReqSame, ReqFields, ReqSound, ReqPlaced, ReqSettles, ReqReceipted
<1>6. ReqOwn(r, n)
  BY <1>3, <1>4, <1>5 DEF ReqOwn, ReqSame, ReqFields, ReqAccept, ReqDraining
<1> QED
  BY <1>6, ReqOwnKeeps, ReqOnlyBystands DEF ReqAccept, ReqOnly

\* The deadline task is armed when the scope opens.
LEMMA ReqOpenKeeps ==
    ASSUME ReqInvariant, NEW r \in ReqIds, ReqOpen(r)
    PROVE  ReqInvariant'
<1>1. ReqSound(reqs[r]) /\ DOMAIN reqs[r] = ReqFields
  BY ReqSoundHere
<1>2. PICK head \in ReqHeads :
        reqs' = [reqs EXCEPT ![r] =
                   [reqs[r] EXCEPT !.at = "admitting", !.state = "Accepted", !.head = {head},
                                   !.span = "active", !.internal = {"registry"}]]
  BY DEF ReqOpen, ReqSet
<1> DEFINE n == [reqs[r] EXCEPT !.at = "admitting", !.state = "Accepted", !.head = {head},
                                !.span = "active", !.internal = {"registry"}]
           k == [at |-> "armed", reason |-> "Deadline"]
<1>3. /\ ReqSame(reqs[r], n, {"at", "state", "head", "span", "internal"})
      /\ n.at = "admitting" /\ n.state = "Accepted"
  BY <1>1 DEF ReqSame, ReqFields
<1>4. reqs' = [reqs EXCEPT ![r] = n]
  BY <1>2
<1> HIDE DEF n
<1>5. /\ n.token = reqs[r].token /\ n.outcome = reqs[r].outcome /\ n.reason = reqs[r].reason
      /\ n.data = reqs[r].data /\ n.receipts = reqs[r].receipts /\ DOMAIN n = ReqFields
  BY <1>3 DEF ReqSame, ReqFields
<1>6. reqs[r].at = "connected" /\ reqs[r].data = "none" /\ ~ReqDraining(reqs[r])
  BY <1>1 DEF ReqOpen, ReqSound, ReqPlaced, ReqDraining
<1>7. ReqSound(n)
  BY <1>1, <1>3, <1>5, <1>6 DEF ReqSound, ReqPlaced, ReqSettles, ReqReceipted
<1>8. ReqOwn(r, n)
  BY <1>3, <1>4, <1>5, <1>6, <1>7 DEF ReqOwn
<1>9. cancels' = [cancels EXCEPT ![r] = [cancels[r] EXCEPT !["deadline"] = k]]
  BY DEF ReqOpen
<1> HIDE DEF k
<1>10. /\ k \in [at : {"none", "armed", "called", "reason", "outcome", "token", "state", "done"},
                 reason : ReqReasons \cup {"none"}]
       /\ k.at = "armed" /\ k.reason \in ReqReasons
  BY DEF k, ReqReasons
<1>11. /\ cancels' \in [ReqIds -> [ReqCancellers ->
             [at : {"none", "armed", "called", "reason", "outcome", "token", "state", "done"},
              reason : ReqReasons \cup {"none"}]]]
       /\ cancels'[r]["deadline"] = k /\ cancels'[r]["task"] = cancels[r]["task"]
       /\ cancels'[r]["shutdown"] = cancels[r]["shutdown"]
       /\ cancels'[r]["reader"] = cancels[r]["reader"]
  BY <1>9, <1>10 DEF ReqInvariant, ReqCancellers
<1>12. ReqCancelling(reqs[r], cancels[r])
  BY DEF ReqInvariant
<1>13. ReqCancelling(n, cancels'[r])
  BY <1>3, <1>5, <1>6, <1>10, <1>11, <1>12 DEF ReqCancelling, ReqCancellers
<1>14. "deadline" \in ReqCancellers /\ ReqBystanders(r)
  BY ReqOnlyBystands DEF ReqCancellers, ReqOpen
<1> QED
  BY <1>8, <1>9, <1>11, <1>13, <1>14, ReqOthersKeep

LEMMA ReqAdmitKeeps ==
    ASSUME ReqInvariant, NEW r \in ReqIds, ReqAdmit(r)
    PROVE  ReqInvariant'
<1>1. ReqSound(reqs[r]) /\ DOMAIN reqs[r] = ReqFields /\ reqs[r].at = "admitting"
  BY ReqSoundHere DEF ReqAdmit
<1>2. ReqPending(reqs[r]) /\ reqs[r].state \in {"Accepted", "Cancelled"}
  BY <1>1, ReqPipelinePends DEF ReqSound, ReqPlaced, ReqBusy
<1>3. CASE UNCHANGED registry /\ reqs' = [reqs EXCEPT ![r] =
             [ReqSettle(reqs[r], "Rejected") EXCEPT !.at = "answer", !.status = "server",
                                                    !.terminal = TRUE]]
  <2> DEFINE s == ReqSettle(reqs[r], "Rejected")
             n == [s EXCEPT !.at = "answer", !.status = "server", !.terminal = TRUE]
  <2>1. /\ ReqSame(reqs[r], s, {"state", "outcome"})
        /\ s.state = IF ReqAllowed(reqs[r].state, "Rejected") THEN "Rejected" ELSE reqs[r].state
        /\ s.outcome = IF reqs[r].outcome = "Pending" THEN "Rejected" ELSE reqs[r].outcome
    BY <1>1, ReqSettleFacts
  <2>2. reqs' = [reqs EXCEPT ![r] = n]
    BY <1>3
  <2> HIDE DEF s
  <2>3. /\ ReqSame(s, n, {"at", "status", "terminal"})
        /\ n.at = "answer" /\ n.status = "server"
    BY <2>1 DEF ReqSame, ReqFields
  <2> HIDE DEF n
  <2>4. n.state = s.state /\ n.outcome = s.outcome
    BY <2>3 DEF ReqSame, ReqFields
  <2>5. ReqSame(reqs[r], n, {"at", "state", "outcome", "status", "layer", "terminal"})
    BY <2>1, <2>3 DEF ReqSame, ReqFields
  <2>6. s.state \in ReqPipeline \ ReqUndecided
    BY <1>2, <2>1 DEF ReqPipeline, ReqAllowed, ReqUndecided
  <2>6a. /\ n.outcome = reqs[r].outcome
              \/ (reqs[r].outcome = "Pending" /\ n.outcome \in {"Failed", "Rejected"})
         /\ n.status \in ReqAnswers /\ n.state \in ReqPipeline \ ReqUndecided
    BY <2>1, <2>3, <2>4, <2>6 DEF ReqAnswers
  <2>7. ReqOwn(r, n)
    BY <1>1, <1>3, <2>2, <2>3, <2>5, <2>6a, ReqAnsweredOwn DEF ReqBusy
  <2>8. ReqBystanders(r)
    BY <1>3, ReqOnlyBystands DEF ReqAdmit
  <2> QED
    BY <1>1, <2>7, <2>8, ReqOwnKeeps DEF ReqAdmit
<1>4. CASE host.accepting /\ registry' = registry \cup {r}
           /\ reqs' = [reqs EXCEPT ![r] = [reqs[r] EXCEPT !.at = "head"]]
  <2> DEFINE n == [reqs[r] EXCEPT !.at = "head"]
  <2>1. ReqSame(reqs[r], n, {"at"}) /\ n.at = "head" /\ reqs' = [reqs EXCEPT ![r] = n]
    BY <1>1, <1>4 DEF ReqSame, ReqFields
  <2> HIDE DEF n
  <2>2. /\ n.token = reqs[r].token /\ n.outcome = reqs[r].outcome /\ n.reason = reqs[r].reason
        /\ n.data = reqs[r].data /\ n.receipts = reqs[r].receipts /\ DOMAIN n = ReqFields
        /\ n.state = reqs[r].state /\ n.internal = reqs[r].internal
    BY <2>1 DEF ReqSame, ReqFields
  <2>3. ReqSound(n)
    BY <1>1, <2>1, <2>2 DEF ReqSound, ReqPlaced, ReqSettles, ReqReceipted
  <2>4. ReqOwn(r, n)
    BY <1>1, <2>1, <2>2, <2>3 DEF ReqOwn, ReqDraining
  <2>5. ReqBystanders(r)
    BY <1>4 DEF ReqBystanders, ReqAdmit, ReqInvariant, ReqHosted
  <2> QED
    BY <1>1, <2>4, <2>5, ReqOwnKeeps DEF ReqAdmit
<1> QED
  BY <1>3, <1>4 DEF ReqAdmit, ReqSet

\* A step of the pipeline that leaves the scope alone.
LEMMA ReqGoesOn ==
    ASSUME ReqInvariant, NEW r \in ReqIds, NEW n, NEW fields,
           fields \subseteq {"at", "layer", "head", "terminal", "span", "bytes", "completion"},
           ReqSame(reqs[r], n, fields), reqs' = [reqs EXCEPT ![r] = n],
           reqs[r].at \notin {"waiting", "cancelling", "reading"}, ReqBystanders(r),
           UNCHANGED <<registry, cancels>>,
           \/ n.at = reqs[r].at
           \/ /\ ReqPlaced(n) /\ n.at \notin {"served", "receipt", "internal", "cleanups"}
              /\ reqs[r].at \notin {"served", "receipt"}
              /\ n.at = "drain" => n.outcome # "Pending"
              /\ n.at \in {"up", "answer", "commit"} => n.status \in ReqAnswers
              /\ n.at \in {"body", "success", "drain", "cancelling"} =>
                    reqs[r].at \in {"body", "success", "drain", "cancelling"}
    PROVE  ReqInvariant'
<1>1. ReqSound(reqs[r]) /\ DOMAIN reqs[r] = ReqFields /\ ReqRegisteredRight(r)
  BY ReqSoundHere DEF ReqInvariant
<1>2. /\ n.token = reqs[r].token /\ n.outcome = reqs[r].outcome /\ n.reason = reqs[r].reason
      /\ n.data = reqs[r].data /\ n.receipts = reqs[r].receipts /\ DOMAIN n = ReqFields
      /\ n.state = reqs[r].state /\ n.internal = reqs[r].internal /\ n.held = reqs[r].held
      /\ n.status = reqs[r].status /\ n.committed = reqs[r].committed
  BY DEF ReqSame, ReqFields
<1>3. ReqSound(n)
  BY <1>1, <1>2 DEF ReqSound, ReqPlaced, ReqSettles, ReqReceipted
<1>4. ReqOwn(r, n)
  BY <1>1, <1>2, <1>3 DEF ReqOwn, ReqDraining, ReqRegisteredRight, ReqBystanders
<1> QED
  BY <1>4, ReqOwnKeeps

LEMMA ReqAdmitHeadKeeps ==
    ASSUME ReqInvariant, NEW r \in ReqIds, ReqAdmitHead(r)
    PROVE  ReqInvariant'
<1>1. /\ ReqSound(reqs[r]) /\ DOMAIN reqs[r] = ReqFields /\ reqs[r].at = "head"
      /\ UNCHANGED <<host, registry, cancels>> /\ ReqBystanders(r)
  BY ReqSoundHere, ReqOnlyBystands DEF ReqAdmitHead, ReqOnly
<1>2. ReqPending(reqs[r]) /\ reqs[r].state \in {"Accepted", "Cancelled"}
  BY <1>1, ReqPipelinePends DEF ReqSound, ReqPlaced, ReqBusy
<1>3. CASE \E p \in ReqRecovered(reqs[r], "client", "client") : reqs' = [reqs EXCEPT ![r] = p]
  BY <1>3, <1>1, <1>2, ReqRecoveredOwn, ReqOwnKeeps DEF ReqSame, ReqPipeline, ReqBusy
<1>4. CASE reqs' = [reqs EXCEPT ![r] =
             [ReqSettle(reqs[r], "Failed") EXCEPT !.at = "answer", !.status = "server"]]
  <2> DEFINE s == ReqSettle(reqs[r], "Failed")
             n == [s EXCEPT !.at = "answer", !.status = "server"]
  <2>1. /\ ReqSame(reqs[r], s, {"state", "outcome"})
        /\ s.state = IF ReqAllowed(reqs[r].state, "Failed") THEN "Failed" ELSE reqs[r].state
        /\ s.outcome = IF reqs[r].outcome = "Pending" THEN "Failed" ELSE reqs[r].outcome
    BY <1>1, ReqSettleFacts
  <2>2. reqs' = [reqs EXCEPT ![r] = n]
    BY <1>4
  <2> HIDE DEF s
  <2>3. ReqSame(s, n, {"at", "status"}) /\ n.at = "answer" /\ n.status = "server"
    BY <2>1 DEF ReqSame, ReqFields
  <2> HIDE DEF n
  <2>4. n.state = s.state /\ n.outcome = s.outcome
    BY <2>3 DEF ReqSame, ReqFields
  <2>5. ReqSame(reqs[r], n, {"at", "state", "outcome", "status", "layer", "terminal"})
    BY <2>1, <2>3 DEF ReqSame, ReqFields
  <2>6. s.state \in ReqPipeline \ ReqUndecided
    BY <1>2, <2>1 DEF ReqPipeline, ReqAllowed, ReqUndecided
  <2>7. /\ n.outcome = reqs[r].outcome
             \/ (reqs[r].outcome = "Pending" /\ n.outcome \in {"Failed", "Rejected"})
        /\ n.status \in ReqAnswers /\ n.state \in ReqPipeline \ ReqUndecided
    BY <2>1, <2>3, <2>4, <2>6 DEF ReqAnswers
  <2>8. ReqOwn(r, n)
    BY <1>1, <2>2, <2>3, <2>5, <2>7, ReqAnsweredOwn DEF ReqBusy
  <2> QED
    BY <1>1, <2>8, ReqOwnKeeps
<1>5. CASE reqs' = [reqs EXCEPT ![r] =
             [reqs[r] EXCEPT !.state = "HeadAdmitted", !.at = "layer", !.layer = 1]]
           /\ ReqAllowed(reqs[r].state, "HeadAdmitted")
  <2> DEFINE n == [reqs[r] EXCEPT !.state = "HeadAdmitted", !.at = "layer", !.layer = 1]
  <2>1. /\ ReqSame(reqs[r], n, {"at", "state", "layer"}) /\ n.at = "layer"
        /\ n.state = "HeadAdmitted" /\ reqs' = [reqs EXCEPT ![r] = n]
    BY <1>1, <1>5 DEF ReqSame, ReqFields
  <2> HIDE DEF n
  <2>2. /\ n.token = reqs[r].token /\ n.outcome = reqs[r].outcome /\ n.reason = reqs[r].reason
        /\ n.data = reqs[r].data /\ n.receipts = reqs[r].receipts /\ DOMAIN n = ReqFields
        /\ n.internal = reqs[r].internal
    BY <2>1 DEF ReqSame, ReqFields
  <2>3. ReqSound(n)
    BY <1>1, <2>1, <2>2 DEF ReqSound, ReqPlaced, ReqSettles, ReqReceipted
  <2>4. ReqOwn(r, n)
    BY <1>1, <1>2, <2>1, <2>2, <2>3 DEF ReqOwn, ReqDraining
  <2> QED
    BY <1>1, <2>4, ReqOwnKeeps
<1> QED
  BY <1>3, <1>4, <1>5 DEF ReqAdmitHead, ReqSet

\* An error in the pipeline, and an answer of a layer or of the handler.
LEMMA ReqErrorKeeps ==
    ASSUME ReqInvariant, NEW r \in ReqIds, reqs[r].at \in {"layer", "scoped", "up"},
           NEW class, NEW status, status \in {"client", "server"}, NEW i,
           NEW p \in ReqRecovered(reqs[r], class, status),
           reqs' = [reqs EXCEPT ![r] = ReqUp(p, i)],
           UNCHANGED <<registry, cancels>>, ReqBystanders(r)
    PROVE  ReqInvariant'
  BY ReqSoundHere, ReqPipelinePends, ReqRecoveredOwn, ReqOwnKeeps DEF ReqSame, ReqBusy

LEMMA ReqAnswerKeeps ==
    ASSUME ReqInvariant, NEW r \in ReqIds, reqs[r].at \in {"layer", "up"},
           NEW status \in ReqStatuses, NEW i,
           reqs' = [reqs EXCEPT ![r] = ReqUp([reqs[r] EXCEPT !.status = status], i)],
           UNCHANGED <<registry, cancels>>, ReqBystanders(r)
    PROVE  ReqInvariant'
<1>1. ReqSound(reqs[r]) /\ DOMAIN reqs[r] = ReqFields
  BY ReqSoundHere
<1> DEFINE p == [reqs[r] EXCEPT !.status = status]
           n == ReqUp(p, i)
<1>2. ReqSame(reqs[r], p, {"status"}) /\ p.status = status /\ DOMAIN p = ReqFields
  BY <1>1 DEF ReqSame, ReqFields
<1>3. reqs' = [reqs EXCEPT ![r] = n]
  OBVIOUS
<1> HIDE DEF p
<1>4. ReqSame(p, n, {"layer", "at"}) /\ n.at \in {"up", "answer"}
  BY <1>2, ReqUpFacts
<1> HIDE DEF n
<1>5. ReqSame(reqs[r], n, {"at", "state", "outcome", "status", "layer", "terminal"})
  BY <1>2, <1>4 DEF ReqSame, ReqFields
<1>6. n.status \in ReqAnswers /\ n.state = reqs[r].state /\ n.outcome = reqs[r].outcome
  BY <1>2, <1>4 DEF ReqSame, ReqFields, ReqAnswers
<1>7. reqs[r].state \in ReqPipeline \ ReqUndecided
  BY <1>1 DEF ReqSound, ReqPlaced, ReqPipeline, ReqUndecided
<1>8. ReqOwn(r, n)
  BY <1>3, <1>4, <1>5, <1>6, <1>7, ReqAnsweredOwn DEF ReqBusy
<1> QED
  BY <1>8, ReqOwnKeeps

LEMMA ReqLayersKeep ==
    ASSUME ReqInvariant, NEW r \in ReqIds,
           ReqForward(r) \/ ReqShort(r) \/ ReqHandle(r) \/ ReqBack(r)
    PROVE  ReqInvariant'
<1>1. /\ reqs[r].at \in {"layer", "up"} /\ UNCHANGED <<host, registry, cancels>>
      /\ ReqBystanders(r) /\ DOMAIN reqs[r] = ReqFields
  BY ReqSoundHere, ReqOnlyBystands DEF ReqForward, ReqShort, ReqHandle, ReqBack, ReqOnly
<1>2. \/ reqs' = [reqs EXCEPT ![r] = [reqs[r] EXCEPT !.layer = reqs[r].layer + 1]]
      \/ \E status \in ReqStatuses : \E i :
            reqs' = [reqs EXCEPT ![r] = ReqUp([reqs[r] EXCEPT !.status = status], i)]
      \/ \E class : \E status \in {"client", "server"} : \E i :
            \E p \in ReqRecovered(reqs[r], class, status) :
               reqs' = [reqs EXCEPT ![r] = ReqUp(p, i)]
  BY DEF ReqForward, ReqSet, ReqShort, ReqHandle, ReqBack
<1>3. CASE reqs' = [reqs EXCEPT ![r] = [reqs[r] EXCEPT !.layer = reqs[r].layer + 1]]
  BY <1>1, <1>3, ReqGoesOn DEF ReqSame, ReqFields
<1> QED
  BY <1>1, <1>2, <1>3, ReqErrorKeeps, ReqAnswerKeeps

\* What build has admitted holds every policy a route leads to.
LEMMA ReqLookups ==
    ASSUME NEW b \in ReqBuilders, ReqBuildable(b), NEW route \in b.routes
    PROVE  /\ route.cache \in ReqCacheIds(b)
           /\ \A l \in route.loaders : b.loaders[l].cache \in ReqCacheIds(b)
           /\ \A a \in route.actions : b.actions[a].invalidates \subseteq ReqCacheIds(b)
  BY ReqAssumption DEF ReqBuildable, ReqRegistered, ReqCacheIds

LEMMA ReqOpenDataBystands ==
    ASSUME ReqInvariant, NEW r \in ReqIds, ReqOpenData(r)
    PROVE  ReqBystanders(r)
<1> DEFINE route == ReqRoute(reqs[r])
           wanted == {route.cache} \cup {host.sealed.loaders[l].cache : l \in route.loaders}
                       \cup UNION {host.sealed.actions[a].invalidates : a \in route.actions}
           found == (wanted \ {"none"}) \ host.sealed.caches
<1>1. host' = [host EXCEPT !.lost = host.lost \cup found] /\ UNCHANGED registry
  BY DEF ReqOpenData
<1>2. host.sealed \in ReqBuilders /\ ReqBuildable(host.sealed) /\ ReqHosted
  BY DEF ReqOpenData, ReqInvariant, ReqRegisteredRight, ReqHosted
<1>3. found = {}
  <2>1. route \in host.sealed.routes
    BY DEF ReqOpenData, ReqRouted, ReqRoute
  <2> HIDE DEF route
  <2>2. wanted \subseteq ReqCacheIds(host.sealed)
    BY <1>2, <2>1, ReqLookups
  <2> HIDE DEF wanted
  <2>3. ReqCacheIds(host.sealed) \ {"none"} = host.sealed.caches
    BY <1>2 DEF ReqBuildable, ReqRegistered
  <2> QED
    BY <2>2, <2>3
<1> HIDE DEF found
<1>4. /\ DOMAIN host' = {"at", "sealed", "accepting", "pending", "lost"}
      /\ host'.at = host.at /\ host'.sealed = host.sealed /\ host'.accepting = host.accepting
      /\ host'.pending = host.pending /\ host'.lost = {}
  BY <1>1, <1>2, <1>3 DEF ReqHosted
<1> QED
  BY <1>1, <1>2, <1>4 DEF ReqBystanders, ReqHosted

\* The scope moves on, or the request is answered for it.
LEMMA ReqAdvanceKeeps ==
    ASSUME ReqInvariant, NEW r \in ReqIds, reqs[r].at \in {"layer", "routed", "opened"},
           NEW to, NEW at, ReqAdvance(r, to, at), UNCHANGED <<host, registry, cancels>>,
           <<to, at>> \in {<<"RouteResolved", "routed">>, <<"ScopeOpen", "scoped">>,
                          <<"HandlerRunning", "layer">>}
    PROVE  ReqInvariant'
<1>1. /\ ReqSound(reqs[r]) /\ DOMAIN reqs[r] = ReqFields /\ ReqBystanders(r)
      /\ reqs[r].state \in ReqPipeline /\ reqs[r].at \in ReqBusy
  BY ReqSoundHere, ReqOnlyBystands, ReqPipelinePends DEF ReqBusy
<1>2. CASE ~ReqAllowed(reqs[r].state, to)
  <2> DEFINE s == ReqSettle(reqs[r], "Failed")
             p == [s EXCEPT !.status = "server"]
             n == ReqUp(p, Len(ReqPre))
  <2>1. /\ ReqSame(reqs[r], s, {"state", "outcome"})
        /\ s.state = IF ReqAllowed(reqs[r].state, "Failed") THEN "Failed" ELSE reqs[r].state
        /\ s.outcome = IF reqs[r].outcome = "Pending" THEN "Failed" ELSE reqs[r].outcome
    BY <1>1, ReqSettleFacts
  <2>2. reqs' = [reqs EXCEPT ![r] = n]
    BY <1>2 DEF ReqAdvance, ReqSet
  <2> HIDE DEF s
  <2>3. ReqSame(s, p, {"status"}) /\ p.status = "server" /\ DOMAIN p = ReqFields
    BY <2>1 DEF ReqSame, ReqFields
  <2> HIDE DEF p
  <2>3a. ReqSame(p, n, {"layer", "at"}) /\ n.at \in {"up", "answer"}
    BY <2>3, ReqUpFacts
  <2> HIDE DEF n
  <2>4. n.state = s.state /\ n.outcome = s.outcome /\ n.status = "server"
    BY <2>3, <2>3a DEF ReqSame, ReqFields
  <2>5. ReqSame(reqs[r], n, {"at", "state", "outcome", "status", "layer", "terminal"})
    BY <2>1, <2>3, <2>3a DEF ReqSame, ReqFields
  <2>6. s.state \in ReqPipeline \ ReqUndecided
    BY <1>1, <2>1 DEF ReqPipeline, ReqUndecided, ReqAllowed
  <2>7. /\ n.outcome = reqs[r].outcome
             \/ (reqs[r].outcome = "Pending" /\ n.outcome \in {"Failed", "Rejected"})
        /\ n.status \in ReqAnswers /\ n.state \in ReqPipeline \ ReqUndecided
    BY <2>1, <2>4, <2>6 DEF ReqAnswers
  <2>8. ReqOwn(r, n)
    BY <1>1, <2>2, <2>3a, <2>5, <2>7, ReqAnsweredOwn
  <2> QED
    BY <1>1, <2>8, ReqOwnKeeps
<1>3. CASE ReqAllowed(reqs[r].state, to)
  <2> DEFINE n == [reqs[r] EXCEPT !.state = to, !.at = at]
  <2>1. reqs' = [reqs EXCEPT ![r] = n]
    BY <1>3 DEF ReqAdvance, ReqSet
  <2>2. ReqSame(reqs[r], n, {"state", "at"}) /\ n.state = to /\ n.at = at
    BY <1>1 DEF ReqSame, ReqFields
  <2> HIDE DEF n
  <2>3. /\ n.token = reqs[r].token /\ n.outcome = reqs[r].outcome /\ n.reason = reqs[r].reason
        /\ n.data = reqs[r].data /\ n.receipts = reqs[r].receipts /\ DOMAIN n = ReqFields
        /\ n.internal = reqs[r].internal
    BY <2>2 DEF ReqSame, ReqFields
  <2>4. n.at \in {"routed", "scoped", "layer"} /\ ReqPlaced(n)
    BY <2>2 DEF ReqPlaced
  <2>5. ReqSound(n)
    BY <1>1, <2>3, <2>4 DEF ReqSound, ReqSettles, ReqReceipted
  <2>6. ~ReqDraining(reqs[r])
    BY <1>1 DEF ReqPipeline, ReqDraining
  <2>7. ReqOwn(r, n)
    BY <1>1, <2>1, <2>3, <2>4, <2>5, <2>6 DEF ReqOwn
  <2> QED
    BY <1>1, <2>7, ReqOwnKeeps
<1> QED
  BY <1>2, <1>3

LEMMA ReqResolveKeeps ==
    ASSUME ReqInvariant, NEW r \in ReqIds,
           ReqResolve(r) \/ ReqOpenScope(r) \/ ReqRunHandler(r)
    PROVE  ReqInvariant'
<1>1. UNCHANGED <<host, registry, cancels>> /\ ReqBystanders(r)
  BY ReqOnlyBystands DEF ReqResolve, ReqOpenScope, ReqRunHandler, ReqOnly
<1>2. CASE ReqOpenScope(r) \/ ReqRunHandler(r)
  BY <1>1, <1>2, ReqAdvanceKeeps DEF ReqOpenScope, ReqRunHandler
<1>3. CASE ReqResolve(r) /\ ReqAdvance(r, "RouteResolved", "routed")
  BY <1>1, <1>3, ReqAdvanceKeeps DEF ReqResolve
<1>4. CASE ReqResolve(r) /\ \E p \in ReqRecovered(reqs[r], "client", "client") :
                             reqs' = [reqs EXCEPT ![r] = ReqUp(p, Len(ReqPre))]
  BY <1>1, <1>4, ReqErrorKeeps DEF ReqResolve
<1> QED
  BY <1>2, <1>3, <1>4 DEF ReqResolve, ReqSet

LEMMA ReqOpenDataKeeps ==
    ASSUME ReqInvariant, NEW r \in ReqIds, ReqOpenData(r)
    PROVE  ReqInvariant'
<1>1. /\ ReqSound(reqs[r]) /\ DOMAIN reqs[r] = ReqFields /\ reqs[r].at = "scoped"
      /\ UNCHANGED <<registry, cancels>> /\ ReqBystanders(r)
  BY ReqSoundHere, ReqOpenDataBystands DEF ReqOpenData
<1>2. CASE \E p \in ReqRecovered(reqs[r], "internal", "server") :
              reqs' = [reqs EXCEPT ![r] = ReqUp(p, Len(ReqPre))]
  BY <1>1, <1>2, ReqErrorKeeps
<1>3. CASE reqs' = [reqs EXCEPT ![r] = [reqs[r] EXCEPT !.at = "opened", !.data = "open",
                                            !.internal = reqs[r].internal \cup {"data"}]]
  <2> DEFINE n == [reqs[r] EXCEPT !.at = "opened", !.data = "open",
                                  !.internal = reqs[r].internal \cup {"data"}]
  <2>1. /\ ReqSame(reqs[r], n, {"at", "data", "internal"}) /\ n.at = "opened" /\ n.data = "open"
        /\ "data" \in n.internal /\ reqs' = [reqs EXCEPT ![r] = n]
    BY <1>1, <1>3 DEF ReqSame, ReqFields
  <2> HIDE DEF n
  <2>2. /\ n.token = reqs[r].token /\ n.outcome = reqs[r].outcome /\ n.reason = reqs[r].reason
        /\ n.state = reqs[r].state /\ n.receipts = reqs[r].receipts /\ DOMAIN n = ReqFields
    BY <2>1 DEF ReqSame, ReqFields
  <2>3. ReqSound(n)
    BY <1>1, <2>1, <2>2 DEF ReqSound, ReqPlaced, ReqSettles, ReqReceipted
  <2>4. ReqOwn(r, n)
    BY <1>1, <2>1, <2>2, <2>3 DEF ReqOwn, ReqDraining
  <2> QED
    BY <1>1, <2>4, ReqOwnKeeps
<1> QED
  BY <1>2, <1>3 DEF ReqOpenData, ReqSet

\* Steps that move the request on: the pipeline is dropped for a cancellation, the
\* answer is wrapped, the body ends, the future is dropped.
LEMMA ReqObserveCancelKeeps ==
    ASSUME ReqInvariant, NEW r \in ReqIds, ReqObserveCancel(r)
    PROVE  ReqInvariant'
<1>1. /\ ReqSound(reqs[r]) /\ DOMAIN reqs[r] = ReqFields /\ reqs[r].at \in {"layer", "up"}
      /\ UNCHANGED <<host, registry, cancels>> /\ ReqBystanders(r)
  BY ReqSoundHere, ReqOnlyBystands DEF ReqObserveCancel, ReqOnly
<1> DEFINE n == [reqs[r] EXCEPT !.at = "answer", !.status = "server"]
<1>2. /\ ReqSame(reqs[r], n, {"at", "state", "outcome", "status", "layer", "terminal"})
      /\ n.at = "answer" /\ n.status = "server" /\ n.state = reqs[r].state
      /\ n.outcome = reqs[r].outcome /\ reqs' = [reqs EXCEPT ![r] = n]
  BY <1>1 DEF ReqSame, ReqFields, ReqObserveCancel, ReqSet
<1> HIDE DEF n
<1>3. n.state \in ReqPipeline \ ReqUndecided /\ n.status \in ReqAnswers
  BY <1>1, <1>2 DEF ReqSound, ReqPlaced, ReqPipeline, ReqAnswers, ReqUndecided
<1>4. ReqOwn(r, n)
  BY <1>1, <1>2, <1>3, ReqAnsweredOwn DEF ReqBusy
<1> QED
  BY <1>1, <1>4, ReqOwnKeeps

LEMMA ReqWrapKeeps ==
    ASSUME ReqInvariant, NEW r \in ReqIds, ReqWrap(r)
    PROVE  ReqInvariant'
<1>1. /\ ReqSound(reqs[r]) /\ DOMAIN reqs[r] = ReqFields /\ reqs[r].at = "answer"
      /\ UNCHANGED <<host, registry, cancels>> /\ ReqBystanders(r)
  BY ReqSoundHere, ReqOnlyBystands DEF ReqWrap, ReqOnly
<1>2. PICK t : t = (reqs[r].terminal \/ reqs[r].token)
  OBVIOUS
<1> DEFINE n == [reqs[r] EXCEPT !.at = "commit", !.terminal = t, !.layer = 0, !.head = {}]
<1>3. /\ ReqSame(reqs[r], n, {"at", "terminal", "layer", "head"}) /\ n.at = "commit"
      /\ reqs' = [reqs EXCEPT ![r] = n] /\ n.state = reqs[r].state /\ n.status = reqs[r].status
  BY <1>1, <1>2 DEF ReqSame, ReqFields, ReqWrap, ReqSet
<1> HIDE DEF n
<1>4. ReqPlaced(n) /\ n.status \in ReqAnswers
  BY <1>1, <1>3 DEF ReqSound, ReqPlaced, ReqSettles
<1> QED
  BY <1>1, <1>3, <1>4, ReqGoesOn

LEMMA ReqDropFutureKeeps ==
    ASSUME ReqInvariant, NEW r \in ReqIds, ReqDropFuture(r)
    PROVE  ReqInvariant'
<1>1. /\ ReqSound(reqs[r]) /\ DOMAIN reqs[r] = ReqFields
      /\ reqs[r].at \in {"connected", "admitting", "head", "layer", "up", "answer", "commit"}
      /\ UNCHANGED <<host, registry, cancels>> /\ ReqBystanders(r)
  BY ReqSoundHere, ReqOnlyBystands DEF ReqDropFuture, ReqOnly
<1> DEFINE n == [reqs[r] EXCEPT !.at = "gone", !.layer = 0, !.head = {}, !.status = "none",
                                !.terminal = FALSE]
<1>2. /\ ReqSame(reqs[r], n, {"at", "layer", "head", "status", "terminal"}) /\ n.at = "gone"
      /\ reqs' = [reqs EXCEPT ![r] = n]
  BY <1>1 DEF ReqSame, ReqFields, ReqDropFuture, ReqSet
<1> HIDE DEF n
<1>3. /\ n.token = reqs[r].token /\ n.outcome = reqs[r].outcome /\ n.reason = reqs[r].reason
      /\ n.data = reqs[r].data /\ n.receipts = reqs[r].receipts /\ DOMAIN n = ReqFields
      /\ n.internal = reqs[r].internal /\ n.state = reqs[r].state
  BY <1>2 DEF ReqSame, ReqFields
<1>4. ReqSound(n)
  BY <1>1, <1>2, <1>3 DEF ReqSound, ReqPlaced, ReqSettles, ReqReceipted
<1>5. ReqOwn(r, n)
  BY <1>1, <1>2, <1>3, <1>4 DEF ReqOwn, ReqDraining
<1> QED
  BY <1>1, <1>5, ReqOwnKeeps

LEMMA ReqCleanupsKeep ==
    ASSUME ReqInvariant, NEW r \in ReqIds, ReqRegisterCleanup(r) \/ ReqRunCleanups(r)
    PROVE  ReqInvariant'
<1>1. /\ ReqSound(reqs[r]) /\ DOMAIN reqs[r] = ReqFields
      /\ UNCHANGED <<host, registry, cancels>> /\ ReqBystanders(r)
  BY ReqSoundHere, ReqOnlyBystands DEF ReqRegisterCleanup, ReqRunCleanups, ReqOnly
<1>2. PICK h, to :
        /\ reqs' = [reqs EXCEPT ![r] = [reqs[r] EXCEPT !.held = h, !.at = to]]
        /\ \/ to = reqs[r].at /\ ~ReqDraining(reqs[r]) /\ reqs[r].data # "none"
           \/ reqs[r].at = "cleanups" /\ to = "internal" /\ h = 0
  <2>1. CASE ReqRegisterCleanup(r)
    BY <1>1, <2>1 DEF ReqFields, ReqRegisterCleanup, ReqSet
  <2>2. CASE ReqRunCleanups(r)
    BY <2>2 DEF ReqRunCleanups, ReqSet
  <2> QED
    BY <2>1, <2>2
<1> DEFINE n == [reqs[r] EXCEPT !.held = h, !.at = to]
<1>3. /\ ReqSame(reqs[r], n, {"held", "at"}) /\ n.held = h /\ n.at = to
      /\ reqs' = [reqs EXCEPT ![r] = n]
  BY <1>1, <1>2 DEF ReqSame, ReqFields
<1> HIDE DEF n
<1>4. /\ n.token = reqs[r].token /\ n.outcome = reqs[r].outcome /\ n.reason = reqs[r].reason
      /\ n.data = reqs[r].data /\ n.receipts = reqs[r].receipts /\ DOMAIN n = ReqFields
      /\ n.internal = reqs[r].internal /\ n.state = reqs[r].state /\ n.status = reqs[r].status
      /\ n.committed = reqs[r].committed
  BY <1>3 DEF ReqSame, ReqFields
<1>5. reqs[r].at \notin {"waiting", "served", "receipt"}
  BY <1>1, <1>2 DEF ReqSound, ReqPlaced, ReqDraining
<1>6. ReqSound(n)
  BY <1>1, <1>2, <1>3, <1>4, <1>5
     DEF ReqSound, ReqPlaced, ReqSettles, ReqReceipted, ReqDraining
<1>7. ReqOwn(r, n)
  BY <1>1, <1>2, <1>3, <1>4, <1>5, <1>6 DEF ReqOwn, ReqDraining
<1>8. ReqCancelling(reqs[r], cancels[r])
  BY DEF ReqInvariant
<1>9. ReqCancelling(n, cancels[r])
  BY <1>2, <1>3, <1>4, <1>5, <1>8 DEF ReqCancelling, ReqDraining
<1>10. "task" \in ReqCancellers /\ cancels' = cancels
  BY <1>1 DEF ReqCancellers
<1> QED
  BY <1>1, <1>7, <1>9, <1>10, ReqOthersKeep DEF ReqInvariant

\* A step of the body or of the drain: what it may do to the scope's record.
LEMMA ReqClosesOwn ==
    ASSUME ReqInvariant, NEW r \in ReqIds, NEW n, ReqBystanders(r),
           reqs[r].at \in {"commit", "body", "success", "drain", "internal"},
           ReqSame(reqs[r], n, {"at", "state", "outcome", "status", "committed", "bytes",
                                "internal", "data", "completion"}),
           n.at \in {"body", "success", "cancelling", "drain", "cleanups", "receipt"},
           ReqPlaced(n), n.committed \in ReqAnswers,
           n.outcome = "Cancelled" => reqs[r].outcome = "Cancelled",
           reqs[r].outcome # "Pending" => n.outcome # "Pending",
           n.at \in {"drain", "cleanups", "receipt"} => n.outcome # "Pending",
           n.data = reqs[r].data \/ n.data = "closed",
           n.at = "receipt" => n.data # "open" /\ reqs[r].at = "internal" /\ r \notin registry',
           n.at # "receipt" => n.internal = reqs[r].internal,
           ReqDraining(reqs[r]) => ReqDraining(n),
           reqs' = [reqs EXCEPT ![r] = n]
    PROVE  ReqOwn(r, n)
  BY ReqSoundHere DEF ReqSame, ReqFields, ReqSound, ReqSettles, ReqReceipted, ReqOwn

LEMMA ReqCommitKeeps ==
    ASSUME ReqInvariant, NEW r \in ReqIds, ReqCommit(r)
    PROVE  ReqInvariant'
<1>1. /\ ReqSound(reqs[r]) /\ DOMAIN reqs[r] = ReqFields /\ reqs[r].at = "commit"
      /\ UNCHANGED <<host, registry, cancels>> /\ ReqBystanders(r)
  BY ReqSoundHere, ReqOnlyBystands DEF ReqCommit, ReqOnly
<1>2. ReqAllowed(reqs[r].state, "ResponseCommitted") /\ reqs[r].status \in ReqAnswers
  BY <1>1 DEF ReqSound, ReqPlaced, ReqSettles, ReqAllowed
<1> DEFINE n == [reqs[r] EXCEPT !.state = "ResponseCommitted", !.committed = reqs[r].status,
                                !.status = "none", !.at = "body"]
<1>3. /\ ReqSame(reqs[r], n, {"at", "state", "status", "committed"})
      /\ n.at = "body" /\ n.state = "ResponseCommitted" /\ n.committed = reqs[r].status
      /\ reqs' = [reqs EXCEPT ![r] = n]
  BY <1>1, <1>2 DEF ReqSame, ReqFields, ReqCommit, ReqSet
<1> HIDE DEF n
<1>4. /\ ReqSame(reqs[r], n, {"at", "state", "outcome", "status", "committed", "bytes",
                              "internal", "data", "completion"})
      /\ n.outcome = reqs[r].outcome /\ n.data = reqs[r].data /\ n.internal = reqs[r].internal
  BY <1>3 DEF ReqSame, ReqFields
<1>5. ReqPlaced(n) /\ ~ReqDraining(reqs[r])
  BY <1>1, <1>3 DEF ReqPlaced, ReqDraining, ReqSound
<1>6. ReqOwn(r, n)
  BY <1>1, <1>2, <1>3, <1>4, <1>5, ReqClosesOwn
<1> QED
  BY <1>1, <1>6, ReqOwnKeeps

\* The body ends, fails or was cancelled, and complete_success sets the outcome.
LEMMA ReqBodyKeeps ==
    ASSUME ReqInvariant, NEW r \in ReqIds, ReqBodyStops(r) \/ ReqBodyEnds(r) \/ ReqSucceed(r)
    PROVE  ReqInvariant'
<1>1. /\ ReqSound(reqs[r]) /\ DOMAIN reqs[r] = ReqFields /\ reqs[r].at \in {"body", "success"}
      /\ UNCHANGED <<host, registry, cancels>> /\ ReqBystanders(r)
  BY ReqSoundHere, ReqOnlyBystands DEF ReqBodyStops, ReqBodyEnds, ReqSucceed, ReqOnly
<1>2. PICK n : /\ reqs' = [reqs EXCEPT ![r] = n]
               /\ ReqSame(reqs[r], n, {"at", "state", "outcome"}) /\ n.at \in {"success", "drain"}
               /\ n.state \in {reqs[r].state, "Failed"}
               /\ \/ n.outcome = reqs[r].outcome /\ (n.at = "drain" => n.outcome # "Pending")
                  \/ n.outcome = "Success"
                  \/ n.outcome = "Failed"
  <2>1. CASE ReqBodyStops(r)
    <3>1. CASE reqs[r].token /\ reqs' = [reqs EXCEPT ![r] = [reqs[r] EXCEPT !.at = "drain"]]
      <4> DEFINE n == [reqs[r] EXCEPT !.at = "drain"]
      <4>1. /\ ReqSame(reqs[r], n, {"at", "state", "outcome"}) /\ n.at = "drain"
            /\ n.state = reqs[r].state /\ n.outcome = reqs[r].outcome
        BY <1>1 DEF ReqSame, ReqFields
      <4>2. reqs' = [reqs EXCEPT ![r] = n]
        BY <3>1
      <4> HIDE DEF n
      <4>3. n.outcome # "Pending"
        BY <1>1, <3>1, <4>1 DEF ReqSound, ReqSettles
      <4> QED
        BY <4>1, <4>2, <4>3
    <3>2. CASE reqs' = [reqs EXCEPT ![r] = [ReqSettle(reqs[r], "Failed") EXCEPT !.at = "drain"]]
      <4> DEFINE s == ReqSettle(reqs[r], "Failed")
                 n == [s EXCEPT !.at = "drain"]
      <4>1. /\ ReqSame(reqs[r], s, {"state", "outcome"})
            /\ s.state = IF ReqAllowed(reqs[r].state, "Failed") THEN "Failed" ELSE reqs[r].state
            /\ s.outcome = IF reqs[r].outcome = "Pending" THEN "Failed" ELSE reqs[r].outcome
        BY <1>1, ReqSettleFacts
      <4>2. reqs' = [reqs EXCEPT ![r] = n]
        BY <3>2
      <4> HIDE DEF s
      <4>3. /\ ReqSame(reqs[r], n, {"at", "state", "outcome"}) /\ n.at = "drain"
            /\ n.state = s.state /\ n.outcome = s.outcome
        BY <4>1 DEF ReqSame, ReqFields
      <4> HIDE DEF n
      <4> QED
        BY <4>1, <4>2, <4>3
    <3> QED
      BY <2>1, <3>1, <3>2 DEF ReqBodyStops, ReqSet
  <2>2. CASE ReqBodyEnds(r)
    <3>1. PICK to : to = IF reqs[r].outcome = "Pending" THEN "success" ELSE "drain"
      OBVIOUS
    <3> DEFINE n == [reqs[r] EXCEPT !.at = to]
    <3>2. /\ ReqSame(reqs[r], n, {"at", "state", "outcome"}) /\ n.at = to
          /\ n.state = reqs[r].state /\ n.outcome = reqs[r].outcome
      BY <1>1 DEF ReqSame, ReqFields
    <3>3. reqs' = [reqs EXCEPT ![r] = n]
      BY <2>2, <3>1 DEF ReqBodyEnds, ReqSet
    <3> HIDE DEF n
    <3> QED
      BY <3>1, <3>2, <3>3
  <2>3. CASE ReqSucceed(r)
    <3> DEFINE n == [reqs[r] EXCEPT !.outcome = "Success", !.at = "drain"]
    <3>1. /\ ReqSame(reqs[r], n, {"at", "state", "outcome"}) /\ n.at = "drain"
          /\ n.state = reqs[r].state /\ n.outcome = "Success"
      BY <1>1 DEF ReqSame, ReqFields
    <3>2. reqs' = [reqs EXCEPT ![r] = n]
      BY <2>3 DEF ReqSucceed, ReqSet
    <3> HIDE DEF n
    <3> QED
      BY <3>1, <3>2
  <2> QED
    BY <2>1, <2>2, <2>3
<1>3. /\ ReqSame(reqs[r], n, {"at", "state", "outcome", "status", "committed", "bytes",
                              "internal", "data", "completion"})
      /\ n.data = reqs[r].data /\ n.internal = reqs[r].internal
      /\ n.committed = reqs[r].committed
  BY <1>2 DEF ReqSame, ReqFields
<1>4. /\ reqs[r].state \in {"ResponseCommitted", "BodyStreaming", "Cancelled", "Failed"}
      /\ reqs[r].committed \in ReqAnswers
  BY <1>1 DEF ReqSound, ReqPlaced, ReqSettles
<1>5. ReqPlaced(n) /\ ~ReqDraining(reqs[r])
  BY <1>2, <1>4 DEF ReqPlaced, ReqDraining
<1>6. ReqOwn(r, n)
  BY <1>1, <1>2, <1>3, <1>4, <1>5, ReqClosesOwn
<1> QED
  BY <1>1, <1>6, ReqOwnKeeps

LEMMA ReqDrainKeeps ==
    ASSUME ReqInvariant, NEW r \in ReqIds, ReqDrain(r)
    PROVE  ReqInvariant'
<1>1. /\ ReqSound(reqs[r]) /\ DOMAIN reqs[r] = ReqFields /\ reqs[r].at = "drain"
      /\ UNCHANGED <<host, registry, cancels>> /\ ReqBystanders(r)
  BY ReqSoundHere, ReqOnlyBystands DEF ReqDrain, ReqOnly
<1> DEFINE s == ReqMove(reqs[r], "ScopeDraining")
           n == [s EXCEPT !.at = "cleanups"]
<1>2. ReqAllowed(reqs[r].state, "ScopeDraining")
  BY <1>1 DEF ReqSound, ReqPlaced, ReqAllowed
<1>3. ReqSame(reqs[r], s, {"state"}) /\ s.state = "ScopeDraining"
  BY <1>1, <1>2, ReqMoveFacts
<1>4. reqs' = [reqs EXCEPT ![r] = n]
  BY DEF ReqDrain, ReqSet
<1> HIDE DEF s
<1>5. ReqSame(reqs[r], n, {"at", "state"}) /\ n.at = "cleanups" /\ n.state = "ScopeDraining"
  BY <1>3 DEF ReqSame, ReqFields
<1> HIDE DEF n
<1>6. /\ ReqSame(reqs[r], n, {"at", "state", "outcome", "status", "committed", "bytes",
                              "internal", "data", "completion"})
      /\ n.data = reqs[r].data /\ n.internal = reqs[r].internal
      /\ n.committed = reqs[r].committed /\ n.outcome = reqs[r].outcome
  BY <1>5 DEF ReqSame, ReqFields
<1>7. reqs[r].committed \in ReqAnswers /\ reqs[r].outcome # "Pending" /\ ReqDraining(n)
  BY <1>1, <1>5 DEF ReqSound, ReqSettles, ReqDraining
<1>8. ReqPlaced(n)
  BY <1>5 DEF ReqPlaced
<1>9. ReqOwn(r, n)
  BY <1>1, <1>4, <1>5, <1>6, <1>7, <1>8, ReqClosesOwn
<1> QED
  BY <1>1, <1>9, ReqOwnKeeps

LEMMA ReqRunInternalKeeps ==
    ASSUME ReqInvariant, NEW r \in ReqIds, ReqRunInternal(r)
    PROVE  ReqInvariant'
<1>1. /\ ReqSound(reqs[r]) /\ DOMAIN reqs[r] = ReqFields /\ reqs[r].at = "internal"
      /\ UNCHANGED <<host, cancels>> /\ registry' = registry \ {r}
  BY ReqSoundHere DEF ReqRunInternal
<1>2. ReqBystanders(r)
  BY <1>1 DEF ReqBystanders, ReqInvariant, ReqHosted
<1> DEFINE s == ReqMove(reqs[r], "Closed")
<1>3. PICK d : d = IF "data" \in reqs[r].internal THEN "closed" ELSE s.data
  OBVIOUS
<1> DEFINE n == [s EXCEPT !.internal = {}, !.at = "receipt", !.completion = TRUE, !.data = d]
<1>4. ReqAllowed(reqs[r].state, "Closed") /\ reqs[r].state = "ScopeDraining"
  BY <1>1 DEF ReqSound, ReqPlaced, ReqAllowed
<1>5. ReqSame(reqs[r], s, {"state"}) /\ s.state = "Closed"
  BY <1>1, <1>4, ReqMoveFacts
<1>6. reqs' = [reqs EXCEPT ![r] = n]
  BY <1>3 DEF ReqRunInternal, ReqSet
<1>7. s.data = reqs[r].data
  BY <1>5 DEF ReqSame, ReqFields
<1> HIDE DEF s
<1>8. /\ ReqSame(reqs[r], n, {"at", "state", "internal", "completion", "data"})
      /\ n.at = "receipt" /\ n.state = "Closed" /\ n.data = d
  BY <1>5 DEF ReqSame, ReqFields
<1> HIDE DEF n
<1>9. /\ ReqSame(reqs[r], n, {"at", "state", "outcome", "status", "committed", "bytes",
                              "internal", "data", "completion"})
      /\ n.committed = reqs[r].committed /\ n.outcome = reqs[r].outcome
  BY <1>8 DEF ReqSame, ReqFields
<1>10. /\ reqs[r].committed \in ReqAnswers /\ reqs[r].outcome # "Pending" /\ ReqDraining(n)
       /\ (d = reqs[r].data \/ d = "closed") /\ d # "open"
  BY <1>1, <1>3, <1>7, <1>8 DEF ReqSound, ReqSettles, ReqDraining
<1>11. ReqPlaced(n)
  BY <1>8 DEF ReqPlaced
<1>12. ReqOwn(r, n)
  BY <1>1, <1>2, <1>6, <1>8, <1>9, <1>10, <1>11, ReqClosesOwn
<1> QED
  BY <1>1, <1>2, <1>12, ReqOwnKeeps

LEMMA ReqRecordKeeps ==
    ASSUME ReqInvariant, NEW r \in ReqIds, ReqRecord(r)
    PROVE  ReqInvariant'
<1>1. /\ ReqSound(reqs[r]) /\ DOMAIN reqs[r] = ReqFields /\ reqs[r].at = "receipt"
      /\ UNCHANGED <<host, registry, cancels>> /\ ReqBystanders(r) /\ ReqRegisteredRight(r)
  BY ReqSoundHere, ReqOnlyBystands DEF ReqRecord, ReqOnly, ReqInvariant
<1>2. PICK e : e = ReqErrorType(reqs[r])
  OBVIOUS
<1> DEFINE receipt == [outcome |-> reqs[r].outcome, state |-> reqs[r].state,
                       reason |-> reqs[r].reason, status |-> reqs[r].committed, error |-> e]
           n == [NewRequest EXCEPT !.at = "served", !.span = "ended", !.state = reqs[r].state,
                    !.completion = TRUE, !.data = reqs[r].data, !.held = reqs[r].held,
                    !.receipts = Append(reqs[r].receipts, receipt)]
<1>3. reqs' = [reqs EXCEPT ![r] = n]
  BY <1>2 DEF ReqRecord, ReqSet
<1>4. /\ receipt.outcome = reqs[r].outcome /\ receipt.state = reqs[r].state
      /\ receipt.reason = reqs[r].reason /\ receipt.status = reqs[r].committed
  OBVIOUS
<1> HIDE DEF receipt
<1>5. /\ DOMAIN n = ReqFields /\ n.at = "served" /\ n.state = reqs[r].state
      /\ n.data = reqs[r].data /\ n.held = reqs[r].held /\ n.token = FALSE
      /\ n.receipts = Append(reqs[r].receipts, receipt)
  BY DEF NewRequest, ReqFields
<1> HIDE DEF n
<1>6. reqs[r].receipts = <<>>
  BY <1>1 DEF ReqSound, ReqReceipted
<1>7. Len(n.receipts) = 1 /\ n.receipts[1] = receipt
  BY <1>5, <1>6
<1>8. /\ reqs[r].state = "Closed" /\ reqs[r].outcome # "Pending" /\ reqs[r].held = 0
      /\ reqs[r].outcome = "Cancelled" => reqs[r].reason # "none"
      /\ reqs[r].committed \in ReqAnswers /\ reqs[r].data \in {"none", "closed"}
  BY <1>1 DEF ReqSound, ReqPlaced, ReqSettles
<1>9. ReqSound(n)
  BY <1>4, <1>5, <1>7, <1>8 DEF ReqSound, ReqPlaced, ReqSettles, ReqReceipted
<1>10. ReqOwn(r, n)
  BY <1>1, <1>3, <1>5, <1>8, <1>9 DEF ReqOwn, ReqDraining, ReqRegisteredRight
<1> QED
  BY <1>1, <1>10, ReqOwnKeeps

\* The body calls cancel on its own scope, and waits for it.
LEMMA ReqCallsCancel ==
    ASSUME ReqInvariant, NEW r \in ReqIds, reqs[r].at = "body", NEW n, ReqOwn(r, n),
           n.at = "cancelling", n.reason = reqs[r].reason, ReqBystanders(r),
           NEW k, k.at = "called", k.reason \in ReqReasons,
           k \in [at : {"none", "armed", "called", "reason", "outcome", "token", "state", "done"},
                  reason : ReqReasons \cup {"none"}],
           cancels' = [cancels EXCEPT ![r] = [cancels[r] EXCEPT !["task"] = k]]
    PROVE  ReqInvariant'
<1>1. ReqCancelling(reqs[r], cancels[r])
  BY DEF ReqInvariant
<1>2. /\ cancels' \in [ReqIds -> [ReqCancellers ->
             [at : {"none", "armed", "called", "reason", "outcome", "token", "state", "done"},
              reason : ReqReasons \cup {"none"}]]]
      /\ cancels'[r]["task"] = k /\ cancels'[r]["deadline"] = cancels[r]["deadline"]
      /\ cancels'[r]["shutdown"] = cancels[r]["shutdown"] /\ "task" \in ReqCancellers
      /\ cancels'[r]["reader"] = cancels[r]["reader"]
  BY DEF ReqInvariant, ReqCancellers
<1>3. ReqCancelling(n, cancels'[r])
  BY <1>1, <1>2 DEF ReqCancelling, ReqCancellers, ReqOwn
<1> QED
  BY <1>2, <1>3, ReqOthersKeep

LEMMA ReqFrameKeeps ==
    ASSUME ReqInvariant, NEW r \in ReqIds, ReqFrame(r)
    PROVE  ReqInvariant'
<1>1. /\ ReqSound(reqs[r]) /\ DOMAIN reqs[r] = ReqFields /\ reqs[r].at = "body"
      /\ UNCHANGED <<host, registry>> /\ ReqBystanders(r)
  BY ReqSoundHere, ReqOnlyBystands DEF ReqFrame
<1> DEFINE s == ReqMove(reqs[r], "BodyStreaming")
           k == [at |-> "called", reason |-> "ResponseBodyLimit"]
<1>2. /\ ReqSame(reqs[r], s, {"state"})
      /\ s.state = IF ReqAllowed(reqs[r].state, "BodyStreaming") THEN "BodyStreaming"
                   ELSE reqs[r].state
  BY <1>1, ReqMoveFacts
<1>3. PICK to \in {"body", "cancelling"} :
        /\ reqs' = [reqs EXCEPT ![r] = [s EXCEPT !.bytes = s.bytes + 1, !.at = to]]
        /\ to = "cancelling" =>
              cancels' = [cancels EXCEPT ![r] = [cancels[r] EXCEPT !["task"] = k]]
        /\ to = "body" => cancels' = cancels
  <2>1. s.at = "body" /\ DOMAIN s = ReqFields
    BY <1>1, <1>2 DEF ReqSame, ReqFields
  <2>2. \/ /\ reqs' = [reqs EXCEPT ![r] = [s EXCEPT !.bytes = s.bytes + 1, !.at = "cancelling"]]
           /\ cancels' = [cancels EXCEPT ![r] = [cancels[r] EXCEPT !["task"] = k]]
        \/ /\ reqs' = [reqs EXCEPT ![r] = [s EXCEPT !.bytes = s.bytes + 1]]
           /\ cancels' = cancels
    BY DEF ReqFrame, ReqSet
  <2> HIDE DEF s, k
  <2>3. PICK x : x = s.bytes + 1
    OBVIOUS
  <2>4. [s EXCEPT !.bytes = x] = [s EXCEPT !.bytes = x, !.at = "body"]
    BY <2>1 DEF ReqFields
  <2> QED
    BY <2>1, <2>2, <2>3, <2>4
<1>4. PICK x : x = s.bytes + 1
  OBVIOUS
<1> DEFINE n == [s EXCEPT !.bytes = x, !.at = to]
<1>5. reqs' = [reqs EXCEPT ![r] = n]
  BY <1>3, <1>4
<1> HIDE DEF s
<1>6. ReqSame(reqs[r], n, {"at", "state", "bytes"}) /\ n.at = to /\ n.state = s.state
  BY <1>2 DEF ReqSame, ReqFields
<1> HIDE DEF n
<1>7. /\ ReqSame(reqs[r], n, {"at", "state", "outcome", "status", "committed", "bytes",
                              "internal", "data", "completion"})
      /\ n.data = reqs[r].data /\ n.internal = reqs[r].internal /\ n.reason = reqs[r].reason
      /\ n.committed = reqs[r].committed /\ n.outcome = reqs[r].outcome
  BY <1>6 DEF ReqSame, ReqFields
<1>8. /\ reqs[r].state \in {"ResponseCommitted", "BodyStreaming", "Cancelled", "Failed"}
      /\ reqs[r].committed \in ReqAnswers
  BY <1>1 DEF ReqSound, ReqPlaced, ReqSettles
<1>9. ReqPlaced(n) /\ ~ReqDraining(reqs[r])
  BY <1>2, <1>6, <1>8 DEF ReqPlaced, ReqDraining
<1>10. ReqOwn(r, n)
  BY <1>1, <1>5, <1>6, <1>7, <1>8, <1>9, ReqClosesOwn
<1>11. CASE to = "body"
  BY <1>1, <1>3, <1>10, <1>11, ReqOwnKeeps
<1>12. CASE to = "cancelling"
  <2>1. /\ k \in [at : {"none", "armed", "called", "reason", "outcome", "token", "state", "done"},
                  reason : ReqReasons \cup {"none"}]
        /\ k.at = "called" /\ k.reason \in ReqReasons
    BY DEF ReqReasons
  <2> HIDE DEF k
  <2> QED
    BY <1>1, <1>3, <1>6, <1>7, <1>10, <1>12, <2>1, ReqCallsCancel
<1> QED
  BY <1>11, <1>12

LEMMA ReqDropBodyKeeps ==
    ASSUME ReqInvariant, NEW r \in ReqIds, ReqDropBody(r)
    PROVE  ReqInvariant'
<1>1. /\ ReqSound(reqs[r]) /\ DOMAIN reqs[r] = ReqFields /\ reqs[r].at = "body"
      /\ UNCHANGED <<host, registry>> /\ ReqBystanders(r)
  BY ReqSoundHere, ReqOnlyBystands DEF ReqDropBody
<1> DEFINE k == [at |-> "called", reason |-> "ClientDisconnect"]
<1>2. PICK to \in {"drain", "cancelling"} :
        /\ reqs' = [reqs EXCEPT ![r] = [reqs[r] EXCEPT !.at = to]]
        /\ to = "cancelling" =>
              cancels' = [cancels EXCEPT ![r] = [cancels[r] EXCEPT !["task"] = k]]
        /\ to = "drain" => cancels' = cancels /\ reqs[r].outcome # "Pending"
  BY DEF ReqDropBody, ReqSet
<1> DEFINE n == [reqs[r] EXCEPT !.at = to]
<1>3. /\ ReqSame(reqs[r], n, {"at"}) /\ n.at = to /\ reqs' = [reqs EXCEPT ![r] = n]
  BY <1>1, <1>2 DEF ReqSame, ReqFields
<1> HIDE DEF n
<1>4. /\ ReqSame(reqs[r], n, {"at", "state", "outcome", "status", "committed", "bytes",
                              "internal", "data", "completion"})
      /\ n.data = reqs[r].data /\ n.internal = reqs[r].internal /\ n.reason = reqs[r].reason
      /\ n.committed = reqs[r].committed /\ n.outcome = reqs[r].outcome
      /\ n.state = reqs[r].state
  BY <1>3 DEF ReqSame, ReqFields
<1>5. /\ reqs[r].state \in {"ResponseCommitted", "BodyStreaming", "Cancelled", "Failed"}
      /\ reqs[r].committed \in ReqAnswers
  BY <1>1 DEF ReqSound, ReqPlaced, ReqSettles
<1>6. ReqPlaced(n) /\ ~ReqDraining(reqs[r])
  BY <1>3, <1>4, <1>5 DEF ReqPlaced, ReqDraining
<1>7. ReqOwn(r, n)
  BY <1>1, <1>2, <1>3, <1>4, <1>5, <1>6, ReqClosesOwn
<1>8. CASE to = "drain"
  BY <1>1, <1>2, <1>7, <1>8, ReqOwnKeeps
<1>9. CASE to = "cancelling"
  <2>1. /\ k \in [at : {"none", "armed", "called", "reason", "outcome", "token", "state", "done"},
                  reason : ReqReasons \cup {"none"}]
        /\ k.at = "called" /\ k.reason \in ReqReasons
    BY DEF ReqReasons
  <2> HIDE DEF k
  <2> QED
    BY <1>1, <1>2, <1>3, <1>4, <1>7, <1>9, <2>1, ReqCallsCancel
<1> QED
  BY <1>8, <1>9

ReqCancelKinds ==
    [at : {"none", "armed", "called", "reason", "outcome", "token", "state", "done"},
     reason : ReqReasons \cup {"none"}]

\* Code that reads too much calls cancel, and waits for it.
LEMMA ReqReadPastKeeps ==
    ASSUME ReqInvariant, NEW r \in ReqIds, ReqReadPast(r)
    PROVE  ReqInvariant'
<1>1. /\ ReqSound(reqs[r]) /\ DOMAIN reqs[r] = ReqFields /\ reqs[r].at = "layer"
      /\ UNCHANGED <<host, registry>> /\ ReqBystanders(r) /\ ReqCancelling(reqs[r], cancels[r])
  BY ReqSoundHere, ReqOnlyBystands DEF ReqReadPast, ReqInvariant
<1> DEFINE n == [reqs[r] EXCEPT !.at = "reading"]
           k == [at |-> "called", reason |-> "RequestBodyLimit"]
<1>2. /\ ReqSame(reqs[r], n, {"at"}) /\ n.at = "reading" /\ reqs' = [reqs EXCEPT ![r] = n]
  BY <1>1 DEF ReqSame, ReqFields, ReqReadPast, ReqSet
<1>3. cancels' = [cancels EXCEPT ![r] = [cancels[r] EXCEPT !["reader"] = k]]
  BY DEF ReqReadPast
<1> HIDE DEF n
<1>4. /\ n.token = reqs[r].token /\ n.outcome = reqs[r].outcome /\ n.reason = reqs[r].reason
      /\ n.data = reqs[r].data /\ n.receipts = reqs[r].receipts /\ DOMAIN n = ReqFields
      /\ n.state = reqs[r].state /\ n.internal = reqs[r].internal
  BY <1>2 DEF ReqSame, ReqFields
<1>5. ReqSound(n)
  BY <1>1, <1>2, <1>4 DEF ReqSound, ReqPlaced, ReqSettles, ReqReceipted
<1>6. ReqOwn(r, n)
  BY <1>1, <1>2, <1>4, <1>5 DEF ReqOwn, ReqDraining
<1>7. k \in ReqCancelKinds /\ k.at = "called" /\ k.reason \in ReqReasons
  BY DEF ReqCancelKinds, ReqReasons
<1> HIDE DEF k
<1>8. /\ cancels' \in [ReqIds -> [ReqCancellers -> ReqCancelKinds]]
      /\ cancels'[r]["reader"] = k /\ cancels'[r]["deadline"] = cancels[r]["deadline"]
      /\ cancels'[r]["shutdown"] = cancels[r]["shutdown"] /\ "reader" \in ReqCancellers
      /\ cancels'[r]["task"] = cancels[r]["task"]
  BY <1>3, <1>7 DEF ReqInvariant, ReqCancellers, ReqCancelKinds
<1>9. ReqCancelling(n, cancels'[r])
  BY <1>1, <1>2, <1>4, <1>7, <1>8 DEF ReqCancelling, ReqCancellers, ReqDraining
<1> QED
  BY <1>1, <1>3, <1>6, <1>8, <1>9, ReqOthersKeep DEF ReqCancelKinds

\* One of the locks of RequestScope::cancel: canceller c of r goes on to k.
ReqCancelMoved(r, c, k) ==
    /\ k \in ReqCancelKinds /\ k.reason = cancels[r][c].reason
    /\ cancels' = [cancels EXCEPT ![r] = [cancels[r] EXCEPT ![c] = k]]
    /\ cancels' \in [ReqIds -> [ReqCancellers -> ReqCancelKinds]]
    /\ cancels'[r][c] = k
    /\ \A d \in ReqCancellers : d # c => cancels'[r][d] = cancels[r][d]

LEMMA ReqCancelMoves ==
    ASSUME ReqInvariant, NEW r \in ReqIds, NEW c \in ReqCancellers, NEW to,
           to \in {"none", "armed", "called", "reason", "outcome", "token", "state", "done"},
           cancels' = [cancels EXCEPT ![r][c].at = to]
    PROVE  \E k : ReqCancelMoved(r, c, k) /\ k.at = to
<1> DEFINE k == [cancels[r][c] EXCEPT !.at = to]
           K == ReqCancelKinds
<1>1. cancels \in [ReqIds -> [ReqCancellers -> K]]
  BY DEF ReqInvariant, ReqCancelKinds
<1>2. cancels[r] \in [ReqCancellers -> K] /\ cancels[r][c] \in K
  BY <1>1
<1>3. k \in K /\ k.at = to /\ k.reason = cancels[r][c].reason
  BY <1>2 DEF ReqCancelKinds
<1>4. cancels' = [cancels EXCEPT ![r] = [cancels[r] EXCEPT ![c] = k]]
  OBVIOUS
<1> HIDE DEF k, K
<1>5. [cancels[r] EXCEPT ![c] = k] \in [ReqCancellers -> K]
  BY <1>2, <1>3
<1>6. /\ cancels' \in [ReqIds -> [ReqCancellers -> K]] /\ cancels'[r][c] = k
      /\ \A d \in ReqCancellers : d # c => cancels'[r][d] = cancels[r][d]
  BY <1>1, <1>2, <1>3, <1>4, <1>5
<1> QED
  BY <1>3, <1>4, <1>6 DEF K, ReqCancelMoved

LEMMA ReqCancellersKeep ==
    ASSUME ReqInvariant, NEW r \in ReqIds, UNCHANGED <<host, registry, reqs>>,
           cancels' \in [ReqIds -> [ReqCancellers ->
              [at : {"none", "armed", "called", "reason", "outcome", "token", "state", "done"},
               reason : ReqReasons \cup {"none"}]]],
           \A u \in ReqIds : u # r => cancels'[u] = cancels[u],
           ReqCancelling(reqs[r], cancels'[r])
    PROVE  ReqInvariant'
  BY DEF ReqInvariant, ReqHosted, ReqRegisteredRight

LEMMA ReqCancelCheckKeeps ==
    ASSUME ReqInvariant, NEW r \in ReqIds, NEW c \in ReqCancellers, ReqCancelCheck(r, c)
    PROVE  ReqInvariant'
<1>1. PICK to \in {"done", "reason"} :
         cancels' = [cancels EXCEPT ![r][c].at = to] /\ (to = "done" => ReqDraining(reqs[r]))
  BY DEF ReqCancelCheck
<1>2. PICK k : ReqCancelMoved(r, c, k) /\ k.at = to
  <2>1. CASE to = "done"
    <3>1. cancels' = [cancels EXCEPT ![r][c].at = "done"]
      BY <1>1, <2>1
    <3>2. \E k : ReqCancelMoved(r, c, k) /\ k.at = "done"
      BY <3>1, ReqCancelMoves
    <3> QED
      BY <2>1, <3>2
  <2>2. CASE to = "reason"
    <3>1. cancels' = [cancels EXCEPT ![r][c].at = "reason"]
      BY <1>1, <2>2
    <3>2. \E k : ReqCancelMoved(r, c, k) /\ k.at = "reason"
      BY <3>1, ReqCancelMoves
    <3> QED
      BY <2>2, <3>2
  <2> QED
    BY <2>1, <2>2
<1>3. ReqCancelling(reqs[r], cancels[r]) /\ cancels[r][c].at \in {"armed", "called"}
  BY DEF ReqInvariant, ReqCancelCheck
<1>4. ReqCancelling(reqs[r], cancels'[r])
  BY <1>1, <1>2, <1>3 DEF ReqCancelling, ReqCancellers, ReqCancelMoved
<1>5. \A u \in ReqIds : u # r => cancels'[u] = cancels[u]
  BY <1>2 DEF ReqInvariant, ReqCancelMoved
<1> QED
  BY <1>2, <1>4, <1>5, ReqCancellersKeep DEF ReqCancelCheck, ReqCancelMoved, ReqCancelKinds

LEMMA ReqCancelReasonKeeps ==
    ASSUME ReqInvariant, NEW r \in ReqIds, NEW c \in ReqCancellers, ReqCancelReason(r, c)
    PROVE  ReqInvariant'
<1>1. PICK k : ReqCancelMoved(r, c, k) /\ k.at = "outcome"
  BY ReqCancelMoves DEF ReqCancelReason
<1>2. /\ ReqCancelling(reqs[r], cancels[r]) /\ cancels[r][c].at = "reason"
      /\ ReqSound(reqs[r]) /\ DOMAIN reqs[r] = ReqFields /\ ReqBystanders(r)
      /\ ReqRegisteredRight(r) /\ UNCHANGED <<host, registry>>
  BY ReqSoundHere, ReqOnlyBystands DEF ReqInvariant, ReqCancelReason
<1>3. PICK why : /\ why # "none"
                 /\ reqs' = [reqs EXCEPT ![r] = [reqs[r] EXCEPT !.reason = why]]
  BY <1>2 DEF ReqCancelReason, ReqSet, ReqCancelling, ReqReasons
<1> DEFINE n == [reqs[r] EXCEPT !.reason = why]
<1>4. /\ ReqSame(reqs[r], n, {"reason"}) /\ n.reason # "none" /\ reqs' = [reqs EXCEPT ![r] = n]
  BY <1>2, <1>3 DEF ReqSame, ReqFields
<1> HIDE DEF n
<1>5. /\ n.token = reqs[r].token /\ n.outcome = reqs[r].outcome /\ n.at = reqs[r].at
      /\ n.data = reqs[r].data /\ n.receipts = reqs[r].receipts /\ DOMAIN n = ReqFields
      /\ n.internal = reqs[r].internal /\ n.state = reqs[r].state /\ n.status = reqs[r].status
      /\ n.committed = reqs[r].committed /\ n.held = reqs[r].held
  BY <1>4 DEF ReqSame, ReqFields
<1>6. ReqSound(n)
  BY <1>2, <1>4, <1>5 DEF ReqSound, ReqPlaced, ReqSettles, ReqReceipted
<1>7. ReqCancelling(n, cancels'[r])
  BY <1>1, <1>2, <1>4, <1>5 DEF ReqCancelling, ReqCancellers, ReqCancelMoved, ReqDraining
<1>8. ReqOwn(r, n)
  BY <1>2, <1>4, <1>5, <1>6 DEF ReqOwn, ReqDraining, ReqRegisteredRight
<1> QED
  BY <1>1, <1>2, <1>7, <1>8, ReqOthersKeep DEF ReqCancelMoved, ReqCancelKinds

LEMMA ReqCancelOutcomeKeeps ==
    ASSUME ReqInvariant, NEW r \in ReqIds, NEW c \in ReqCancellers, ReqCancelOutcome(r, c)
    PROVE  ReqInvariant'
<1>1. PICK k : ReqCancelMoved(r, c, k) /\ k.at = "token"
  BY ReqCancelMoves DEF ReqCancelOutcome
<1>2. /\ ReqCancelling(reqs[r], cancels[r]) /\ cancels[r][c].at = "outcome"
      /\ ReqSound(reqs[r]) /\ DOMAIN reqs[r] = ReqFields /\ ReqBystanders(r)
      /\ ReqRegisteredRight(r) /\ UNCHANGED <<host, registry>>
  BY ReqSoundHere, ReqOnlyBystands DEF ReqInvariant, ReqCancelOutcome
<1>3. PICK out : out = IF reqs[r].outcome = "Pending" THEN "Cancelled" ELSE reqs[r].outcome
  OBVIOUS
<1> DEFINE n == [reqs[r] EXCEPT !.outcome = out]
<1>4. /\ ReqSame(reqs[r], n, {"outcome"}) /\ n.outcome = out
      /\ reqs' = [reqs EXCEPT ![r] = n]
  BY <1>2, <1>3 DEF ReqSame, ReqFields, ReqCancelOutcome, ReqSet
<1> HIDE DEF n
<1>5. /\ n.reason = reqs[r].reason /\ n.token = reqs[r].token /\ n.at = reqs[r].at
      /\ n.data = reqs[r].data /\ n.receipts = reqs[r].receipts /\ DOMAIN n = ReqFields
      /\ n.internal = reqs[r].internal /\ n.state = reqs[r].state /\ n.status = reqs[r].status
      /\ n.committed = reqs[r].committed /\ n.held = reqs[r].held
  BY <1>4 DEF ReqSame, ReqFields
<1>6. out # "Pending" /\ (reqs[r].at # "served" => reqs[r].reason # "none")
  BY <1>2, <1>3 DEF ReqCancelling
<1>7. ReqSettles(n)
  BY <1>2, <1>4, <1>5, <1>6 DEF ReqSound, ReqSettles
<1>8. ReqSound(n)
  BY <1>2, <1>4, <1>5, <1>7 DEF ReqSound, ReqPlaced, ReqReceipted
<1>9. ReqCancelling(n, cancels'[r])
  BY <1>1, <1>2, <1>4, <1>5, <1>6 DEF ReqCancelling, ReqCancellers, ReqCancelMoved, ReqDraining
<1>10. ReqOwn(r, n)
  BY <1>2, <1>4, <1>5, <1>6, <1>8 DEF ReqOwn, ReqDraining, ReqRegisteredRight
<1> QED
  BY <1>1, <1>2, <1>9, <1>10, ReqOthersKeep DEF ReqCancelMoved, ReqCancelKinds

LEMMA ReqCancelTokenKeeps ==
    ASSUME ReqInvariant, NEW r \in ReqIds, NEW c \in ReqCancellers, ReqCancelToken(r, c)
    PROVE  ReqInvariant'
<1>1. PICK k : ReqCancelMoved(r, c, k) /\ k.at = "state"
  BY ReqCancelMoves DEF ReqCancelToken
<1>2. /\ ReqCancelling(reqs[r], cancels[r]) /\ cancels[r][c].at = "token"
      /\ ReqSound(reqs[r]) /\ DOMAIN reqs[r] = ReqFields /\ ReqBystanders(r)
      /\ ReqRegisteredRight(r) /\ UNCHANGED <<host, registry>>
  BY ReqSoundHere, ReqOnlyBystands DEF ReqInvariant, ReqCancelToken
<1> DEFINE n == [reqs[r] EXCEPT !.token = TRUE]
<1>3. /\ ReqSame(reqs[r], n, {"token"}) /\ n.token = TRUE /\ reqs' = [reqs EXCEPT ![r] = n]
  BY <1>2 DEF ReqSame, ReqFields, ReqCancelToken, ReqSet
<1> HIDE DEF n
<1>4. /\ n.reason = reqs[r].reason /\ n.outcome = reqs[r].outcome /\ n.at = reqs[r].at
      /\ n.data = reqs[r].data /\ n.receipts = reqs[r].receipts /\ DOMAIN n = ReqFields
      /\ n.internal = reqs[r].internal /\ n.state = reqs[r].state /\ n.status = reqs[r].status
      /\ n.committed = reqs[r].committed /\ n.held = reqs[r].held
  BY <1>3 DEF ReqSame, ReqFields
<1>5. reqs[r].at # "served" => reqs[r].reason # "none" /\ reqs[r].outcome # "Pending"
  BY <1>2 DEF ReqCancelling
<1>6. ReqSettles(n)
  <2>1. ReqSettles(reqs[r])
    BY <1>2 DEF ReqSound
  <2>2. (n.at # "served" /\ n.token) => n.outcome # "Pending"
    BY <1>4, <1>5
  <2> QED
    BY <2>1, <2>2, <1>4 DEF ReqSettles
<1>7. ReqSound(n)
  BY <1>2, <1>3, <1>4, <1>6 DEF ReqSound, ReqPlaced, ReqReceipted
<1>8. ReqCancelling(n, cancels'[r])
  BY <1>1, <1>2, <1>3, <1>4 DEF ReqCancelling, ReqCancellers, ReqCancelMoved, ReqDraining
<1>9. ReqOwn(r, n)
  BY <1>2, <1>3, <1>4, <1>7 DEF ReqOwn, ReqDraining, ReqRegisteredRight
<1> QED
  BY <1>1, <1>2, <1>8, <1>9, ReqOthersKeep DEF ReqCancelMoved, ReqCancelKinds

LEMMA ReqCancelStateKeeps ==
    ASSUME ReqInvariant, NEW r \in ReqIds, NEW c \in ReqCancellers, ReqCancelState(r, c)
    PROVE  ReqInvariant'
<1>1. PICK k : ReqCancelMoved(r, c, k) /\ k.at = "done"
  BY ReqCancelMoves DEF ReqCancelState
<1>2. /\ ReqCancelling(reqs[r], cancels[r]) /\ cancels[r][c].at = "state"
      /\ ReqSound(reqs[r]) /\ DOMAIN reqs[r] = ReqFields /\ ReqBystanders(r)
      /\ ReqRegisteredRight(r) /\ UNCHANGED <<host, registry>>
  BY ReqSoundHere, ReqOnlyBystands DEF ReqInvariant, ReqCancelState
<1> DEFINE moved == ReqMove(reqs[r], "Cancelled")
           q == IF reqs[r].state \in {"Rejected", "Failed"} THEN reqs[r] ELSE moved
           n == IF c = "task" THEN [q EXCEPT !.at = "drain"]
                ELSE IF c = "reader" THEN [q EXCEPT !.at = "layer"] ELSE q
<1>3. /\ ReqSame(reqs[r], moved, {"state"})
      /\ moved.state = IF ReqAllowed(reqs[r].state, "Cancelled") THEN "Cancelled"
                       ELSE reqs[r].state
  BY <1>2, ReqMoveFacts
<1>4. reqs' = [reqs EXCEPT ![r] = n]
  BY DEF ReqCancelState, ReqSet
<1> HIDE DEF moved
<1>5. /\ ReqSame(reqs[r], q, {"state"})
      /\ \/ q.state = reqs[r].state
         \/ q.state = "Cancelled" /\ ReqAllowed(reqs[r].state, "Cancelled")
  BY <1>2, <1>3 DEF ReqSame
<1> HIDE DEF q
<1>6. /\ ReqSame(q, n, {"at"}) /\ n.state = q.state
      /\ n.at = IF c = "task" THEN "drain" ELSE IF c = "reader" THEN "layer" ELSE q.at
  BY <1>5 DEF ReqSame, ReqFields
<1> HIDE DEF n
<1>7. /\ n.reason = reqs[r].reason /\ n.token = reqs[r].token /\ n.outcome = reqs[r].outcome
      /\ n.data = reqs[r].data /\ n.receipts = reqs[r].receipts /\ DOMAIN n = ReqFields
      /\ n.internal = reqs[r].internal /\ n.status = reqs[r].status
      /\ n.committed = reqs[r].committed /\ n.held = reqs[r].held /\ q.at = reqs[r].at
  BY <1>5, <1>6 DEF ReqSame, ReqFields
<1>8. /\ \/ n.at = reqs[r].at
         \/ reqs[r].at = "cancelling" /\ n.at = "drain" /\ c = "task"
         \/ reqs[r].at = "reading" /\ n.at = "layer" /\ c = "reader"
      /\ c = "task" => reqs[r].at = "cancelling" /\ n.at = "drain"
      /\ c = "reader" => reqs[r].at = "reading" /\ n.at = "layer"
      /\ reqs[r].at # "served" => reqs[r].reason # "none" /\ reqs[r].outcome # "Pending"
  BY <1>2, <1>6, <1>7 DEF ReqCancelling
<1>9. ReqPlaced(n)
  BY <1>2, <1>5, <1>6, <1>7, <1>8 DEF ReqSound, ReqPlaced, ReqAllowed
<1>10. ReqSettles(n)
  BY <1>2, <1>7, <1>8 DEF ReqSound, ReqSettles
<1>11. ReqSound(n)
  BY <1>2, <1>7, <1>8, <1>9, <1>10 DEF ReqSound, ReqReceipted
<1>12. ReqDraining(reqs[r]) => ReqDraining(n)
  BY <1>5, <1>6 DEF ReqDraining, ReqAllowed
<1>13. ReqCancelling(n, cancels'[r])
  BY <1>1, <1>2, <1>7, <1>8, <1>12 DEF ReqCancelling, ReqCancellers, ReqCancelMoved
<1>14. ReqOwn(r, n)
  BY <1>2, <1>4, <1>7, <1>8, <1>11, <1>12 DEF ReqOwn, ReqRegisteredRight
<1> QED
  BY <1>1, <1>2, <1>13, <1>14, ReqOthersKeep DEF ReqCancelMoved, ReqCancelKinds

\* The registry, the builder and shutdown leave the requests alone.
LEMMA ReqAroundKeeps ==
    ASSUME ReqInvariant, UNCHANGED <<reqs, cancels>>, ReqHosted',
           \A r \in ReqIds : ReqRegisteredRight(r)'
    PROVE  ReqInvariant'
  BY DEF ReqInvariant

LEMMA ReqHostKeeps ==
    ASSUME ReqInvariant,
           ReqBuild \/ ReqShutdown \/ ReqShutdownTake \/ ReqShutdownEnd
    PROVE  ReqInvariant'
<1>1. /\ ReqHosted /\ \A r \in ReqIds : ReqRegisteredRight(r)
      /\ UNCHANGED <<registry, reqs, cancels>>
  BY DEF ReqInvariant, ReqBuild, ReqShutdown, ReqShutdownTake, ReqShutdownEnd
<1>2. CASE ReqBuild
  BY <1>2, <1>1, ReqAroundKeeps DEF ReqBuild, ReqHosted, ReqRegisteredRight
<1>3. CASE ReqShutdown
  BY <1>1, <1>3, ReqAroundKeeps DEF ReqShutdown, ReqHosted, ReqRegisteredRight
<1>4. CASE ReqShutdownTake
  BY <1>1, <1>4, ReqAroundKeeps DEF ReqShutdownTake, ReqHosted, ReqRegisteredRight
<1>5. CASE ReqShutdownEnd
  BY <1>1, <1>5, ReqAroundKeeps DEF ReqShutdownEnd, ReqHosted, ReqRegisteredRight
<1> QED
  BY <1>2, <1>3, <1>4, <1>5

LEMMA ReqPeersKeep ==
    ASSUME ReqInvariant, NEW p \in ReqPeers, ReqPeerEnters(p) \/ ReqPeerLeaves(p)
    PROVE  ReqInvariant'
  BY ReqAssumption, ReqAroundKeeps DEF ReqInvariant, ReqPeerEnters, ReqPeerLeaves, ReqHosted,
     ReqRegisteredRight

\* Shutdown calls cancel on a scope it took, or is done with it.
LEMMA ReqShutdownCancelKeeps ==
    ASSUME ReqInvariant, ReqShutdownCancel
    PROVE  ReqInvariant'
<1>1. PICK r \in host.pending :
        \/ /\ cancels[r]["shutdown"].at = "none"
           /\ cancels' = [cancels EXCEPT ![r]["shutdown"] = [at |-> "called", reason |-> "Shutdown"]]
           /\ UNCHANGED host
        \/ /\ cancels[r]["shutdown"].at = "done"
           /\ host' = [host EXCEPT !.pending = @ \ {r}]
           /\ UNCHANGED cancels
  BY DEF ReqShutdownCancel
<1>2. /\ ReqHosted /\ (\A u \in ReqIds : ReqRegisteredRight(u))
      /\ UNCHANGED <<registry, reqs>> /\ host.at = "cancelling"
  BY DEF ReqInvariant, ReqShutdownCancel
<1>3. CASE host' = [host EXCEPT !.pending = @ \ {r}] /\ UNCHANGED cancels
           /\ cancels[r]["shutdown"].at = "done"
  <2>1. ReqHosted' /\ host'.at = host.at /\ host'.pending = host.pending \ {r}
    BY <1>2, <1>3 DEF ReqHosted
  <2>2. r \in ReqIds => reqs[r].token \/ ReqDraining(reqs[r])
    BY <1>3 DEF ReqInvariant, ReqCancelling
  <2>3. \A u \in ReqIds : ReqRegisteredRight(u)'
    BY <1>2, <2>1, <2>2 DEF ReqRegisteredRight
  <2> QED
    BY <1>2, <1>3, <2>1, <2>3, ReqAroundKeeps
<1>4. CASE /\ cancels[r]["shutdown"].at = "none" /\ UNCHANGED host
           /\ cancels' = [cancels EXCEPT ![r]["shutdown"] = [at |-> "called", reason |-> "Shutdown"]]
  <2> DEFINE k == [at |-> "called", reason |-> "Shutdown"]
  <2>1. CASE r \in ReqIds
    BY <1>4, <2>1, <1>2, ReqCancellersKeep DEF ReqCancelKinds, ReqReasons, ReqInvariant,
       ReqCancellers, ReqCancelling
  <2>2. CASE r \notin ReqIds
    BY <1>4, <2>2, <1>2, ReqAroundKeeps DEF ReqInvariant, ReqHosted, ReqRegisteredRight
  <2> QED
    BY <2>1, <2>2
<1> QED
  BY <1>1, <1>3, <1>4

LEMMA ReqInitHolds == ReqInit => ReqInvariant
<1> SUFFICES ASSUME ReqInit PROVE ReqInvariant
  OBVIOUS
<1>1. ReqHosted
  BY DEF ReqInit, ReqHosted
<1>2. /\ DOMAIN reqs = ReqIds
      /\ cancels \in [ReqIds -> [ReqCancellers ->
            [at : {"none", "armed", "called", "reason", "outcome", "token", "state", "done"},
             reason : ReqReasons \cup {"none"}]]]
  BY DEF ReqInit, NoCancel
<1>3. ASSUME NEW r \in ReqIds
      PROVE  ReqSound(reqs[r]) /\ ReqCancelling(reqs[r], cancels[r]) /\ ReqRegisteredRight(r)
  <2>1. reqs[r] = NewRequest /\ \A c \in ReqCancellers : cancels[r][c] = NoCancel
    BY DEF ReqInit
  <2>2. ReqSound(NewRequest) /\ NewRequest.at = "waiting"
    BY DEF NewRequest, ReqSound, ReqFields, ReqPlaced, ReqSettles, ReqReceipted
  <2>3. ReqCancelling(reqs[r], cancels[r])
    BY <2>1 DEF ReqCancelling, ReqCancellers, NoCancel
  <2>4. ReqRegisteredRight(r)
    BY <2>1, <2>2 DEF ReqRegisteredRight, ReqInit
  <2> QED
    BY <2>1, <2>2, <2>3, <2>4
<1> QED
  BY <1>1, <1>2, <1>3 DEF ReqInvariant

LEMMA ReqStepKeeps ==
    ASSUME ReqInvariant, NEW r \in ReqIds, ReqStep(r)
    PROVE  ReqInvariant'
<1>1. CASE \E c \in ReqCancellers :
              \/ ReqCancelCheck(r, c) \/ ReqCancelReason(r, c) \/ ReqCancelOutcome(r, c)
              \/ ReqCancelToken(r, c) \/ ReqCancelState(r, c)
  BY <1>1, ReqCancelCheckKeeps, ReqCancelReasonKeeps, ReqCancelOutcomeKeeps, ReqCancelTokenKeeps,
     ReqCancelStateKeeps
<1>2. CASE ReqForward(r) \/ ReqShort(r) \/ ReqHandle(r) \/ ReqBack(r)
  BY <1>2, ReqLayersKeep
<1>3. CASE ReqBodyStops(r) \/ ReqBodyEnds(r) \/ ReqSucceed(r)
  BY <1>3, ReqBodyKeeps
<1> QED
  BY <1>1, <1>2, <1>3, ReqAcceptKeeps, ReqOpenKeeps, ReqAdmitKeeps, ReqAdmitHeadKeeps,
     ReqResolveKeeps, ReqOpenDataKeeps, ReqObserveCancelKeeps, ReqWrapKeeps, ReqCommitKeeps, ReqFrameKeeps,
     ReqDrainKeeps, ReqCleanupsKeep, ReqRunInternalKeeps, ReqRecordKeeps DEF ReqStep

(* However requests, the deadline task, a shutdown and the bodies interleave (scope.rs, host.rs):  *)
(* what the host keeps for a request always agrees with how far that request has come.             *)
THEOREM HostInvariant == ReqSpec => []ReqInvariant
<1>1. ReqInvariant /\ [ReqNext]_reqVars => ReqInvariant'
  BY ReqStepKeeps, ReqReadPastKeeps, ReqCleanupsKeep, ReqDropFutureKeeps, ReqDropBodyKeeps, ReqHostKeeps,
     ReqPeersKeep, ReqShutdownCancelKeeps DEF reqVars, ReqInvariant, ReqHosted,
     ReqRegisteredRight, ReqNext
<1> QED
  BY <1>1, ReqInitHolds, PTL DEF ReqSpec

\* Whatever the requests, peers, routes and limits: once shutdown has gone through
\* the scopes it took every registered request was cancelled or is draining, and
\* no policy a sealed application looks up is missing (RequestRegistry::admit and
\* begin_shutdown; NativeRuntimeBuilder::build).
THEOREM HostHolds == ReqSpec => []ReqGuarantees
<1>1. ReqInvariant => ReqGuarantees
  BY DEF ReqInvariant, ReqGuarantees, ReqShutdownReachesAll, ReqSealedLookupsSucceed, ReqHosted,
         ReqRegisteredRight
<1> QED
  BY <1>1, HostInvariant, PTL

\* Whatever cancels a request, in whatever order the locks are taken: its receipt
\* is given once, settled, with a reason if it was cancelled, for a response that
\* was committed through the scope, after its cleanups (ScopedBody,
\* drain_and_close, record_receipt_once).
THEOREM ReceiptsSettle == ReqSpec => []ReqReceiptsSettle
<1>1. ReqInvariant => ReqReceiptsSettle
  <2> SUFFICES ASSUME ReqInvariant, NEW r \in ReqIds
               PROVE  /\ Len(reqs[r].receipts) <= 1
                      /\ reqs[r].receipts # <<>> =>
                           /\ reqs[r].receipts[1].outcome # "Pending"
                           /\ reqs[r].receipts[1].state = "Closed"
                           /\ reqs[r].receipts[1].outcome = "Cancelled" =>
                                 reqs[r].receipts[1].reason # "none"
                           /\ reqs[r].receipts[1].status \notin {"none", "fallback"}
                           /\ reqs[r].held = 0 /\ r \notin registry
                           /\ reqs[r].data \in {"none", "closed"}
    BY DEF ReqReceiptsSettle
  <2>1. ReqSound(reqs[r]) /\ ReqRegisteredRight(r)
    BY DEF ReqInvariant
  <2>2. CASE reqs[r].at # "served"
    BY <2>1, <2>2 DEF ReqSound, ReqReceipted
  <2>3. CASE reqs[r].at = "served"
    <3>1. "none" \notin ReqAnswers /\ "fallback" \notin ReqAnswers
      BY ReqAssumption DEF ReqAnswers
    <3>2. /\ Len(reqs[r].receipts) = 1
          /\ reqs[r].receipts[1].outcome # "Pending" /\ reqs[r].receipts[1].state = "Closed"
          /\ reqs[r].receipts[1].outcome = "Cancelled" => reqs[r].receipts[1].reason # "none"
          /\ reqs[r].receipts[1].status \in ReqAnswers
      BY <2>1, <2>3 DEF ReqSound, ReqReceipted
    <3>3. reqs[r].held = 0 /\ reqs[r].data \in {"none", "closed"} /\ r \notin registry
      BY <2>1, <2>3 DEF ReqSound, ReqSettles, ReqRegisteredRight
    <3> QED
      BY <3>1, <3>2, <3>3
  <2> QED
    BY <2>2, <2>3
<1> QED
  BY <1>1, HostInvariant, PTL

-----------------------------------------------------------------------------
(* Rendering: the response body.                                           *)

\* Pieces have a size.
RenSized(P) == \A p \in P : p[2] \in Nat

\* A layer whose operations add markup made of the pieces P.
RenLayerOf(layer, P) ==
    /\ layer.operations \in Seq(ToSet(layer.operations))
    /\ \A op \in ToSet(layer.operations) : op.before \in Seq(P) /\ op.after \in Seq(P)

\* The frame after each operation of a layer.
RenLayerRun(f, layer, x, P) ==
    LET ops == layer.operations
    IN  /\ f \in [0..Len(ops) -> Seq(P)] /\ f[0] = x
        /\ \A k \in 1..Len(ops) :
              f[k] = Joined(Joined(ops[k].before, f[k - 1]), ops[k].after)
        /\ RenLayer(layer, x) = f[Len(ops)]

\* A document whose layers add markup made of the pieces P.
RenDocumentOf(doc, P) ==
    /\ doc.layouts \in Seq(ToSet(doc.layouts))
    /\ \A id \in ToSet(doc.layouts) : RenLayerOf(doc.layers[id], P)

\* The frame after each layout of a document, the innermost first.
RenBodyRun(f, doc, x, P) ==
    LET order == Reverse(doc.layouts)
    IN  /\ f \in [0..Len(order) -> Seq(P)] /\ f[0] = x
        /\ \A k \in 1..Len(order) : f[k] = RenLayer(doc.layers[order[k]], f[k - 1])
        /\ RenBody(doc, x) = f[Len(order)]

\* compose: the frame after each operation.
LEMMA RenLayerRuns ==
    ASSUME NEW P, NEW layer, RenLayerOf(layer, P), NEW x \in Seq(P)
    PROVE  \E f : RenLayerRun(f, layer, x, P)
<1> DEFINE n == Len(layer.operations)
           Step(v, i) == layer.operations[i].before \o v \o layer.operations[i].after
           Eq(F) == F = [S \in SUBSET (1..n) |->
                            IF S = {} THEN x ELSE Step(F[S \ {Max(S)}], Max(S))]
           G == [y \in (1..n) \X Seq(P) |-> Step(y[2], y[1])]
           F == CHOOSE h : Eq(h)
           f == [k \in 0..n |-> F[1..k]]
<1>1. /\ n \in Nat /\ DOMAIN layer.operations = 1..n /\ x \in Seq(P)
      /\ \A i \in 1..n, v \in Seq(P) : Step(v, i) \in Seq(P)
  BY DEF RenLayerOf
<1>2. RenLayer(layer, x) = F[1..n]
  BY <1>1 DEF RenLayer, FoldLeft, MapThenFoldSet
<1> HIDE DEF Step, n
<1>3. G \in [(1..n) \X Seq(P) -> Seq(P)]
  BY <1>1
<1>4. PICK g : FoldsTo(g, n, Seq(P), x, G)
  BY <1>1, <1>3, FoldDefined
<1>5. g \in [SUBSET (1..n) -> Seq(P)] /\ g[{}] = x
  BY <1>4 DEF FoldsTo
<1>6. \A S \in SUBSET (1..n) : S # {} => g[S] = Step(g[S \ {Max(S)}], Max(S))
  <2> SUFFICES ASSUME NEW S \in SUBSET (1..n), S # {}
               PROVE  g[S] = Step(g[S \ {Max(S)}], Max(S))
    OBVIOUS
  <2>1. Max(S) \in 1..n
    BY <1>1, MaxExists
  <2> DEFINE m == Max(S)
             v == g[S \ {m}]
  <2>2. v \in Seq(P)
    BY <1>5
  <2>3. g[S] = G[<<m, v>>]
    <3> HIDE DEF G
    <3> QED BY <1>4 DEF FoldsTo
  <2>4. m \in 1..n
    BY <2>1
  <2> HIDE DEF m, v
  <2>5. G[<<m, v>>] = Step(v, m)
    BY <2>2, <2>4
  <2> QED BY <2>3, <2>5 DEF m, v
<1>7. Eq(g)
  BY <1>5, <1>6
<1>8. Eq(F)
  <2> HIDE DEF Eq
  <2> QED BY <1>7
<1> HIDE DEF F, G
<1>9. F[{}] = x
  BY <1>8
<1>10. \A k \in 1..n : F[1..k] = Step(F[1..(k - 1)], k)
  <2> SUFFICES ASSUME NEW k \in 1..n PROVE F[1..k] = Step(F[1..(k - 1)], k)
    OBVIOUS
  <2>0. k \in Nat /\ k > 0
    BY <1>1
  <2>1. Max(1..k) = k /\ (1..k) \ {k} = 1..(k - 1) /\ 1..k # {}
    BY ONLY <2>0, MaxUpTo
  <2>2. 1..k \in SUBSET (1..n)
    BY <1>1
  <2>3. F[1..k] = Step(F[(1..k) \ {Max(1..k)}], Max(1..k))
    BY <1>8, <2>1, <2>2
  <2> QED BY <2>1, <2>3
<1>11. f[0] = x /\ \A k \in 1..n : f[k] = Step(f[k - 1], k)
  BY <1>1, <1>9, <1>10
<1>12. f[n] = F[1..n]
  BY <1>1
<1>13. DOMAIN f = 0..n
  OBVIOUS
<1>14. f = [k \in 0..n |-> f[k]]
  OBVIOUS
<1> HIDE DEF f
<1>15. \A k \in 0..n : f[k] \in Seq(P)
  <2> DEFINE T == {k \in 0..n : f[k] \in Seq(P)}
  <2>1. 0 \in T
    BY <1>1, <1>11
  <2>2. \A k \in 0..n : k < n /\ k \in T => k + 1 \in T
    BY <1>1, <1>11
  <2>3. \A k \in 0..n : k \in T
    <3> HIDE DEF T
    <3> QED BY <1>1, <2>1, <2>2, UpTo
  <2> QED BY <2>3
<1>16. f \in [0..n -> Seq(P)]
  BY <1>14, <1>15
<1>17. f[0] = x /\ (\A k \in 1..n : f[k] = Step(f[k - 1], k)) /\ RenLayer(layer, x) = f[n]
  BY <1>2, <1>11, <1>12
<1> DEFINE Goal(h) == h \in [0..n -> Seq(P)] /\ h[0] = x
                      /\ (\A k \in 1..n : h[k] = Step(h[k - 1], k)) /\ RenLayer(layer, x) = h[n]
<1>18. Goal(f)
  BY <1>16, <1>17
<1>19. RenLayerRun(f, layer, x, P)
  BY <1>18 DEF RenLayerRun, Step, n, Joined
<1> QED BY <1>19

LEMMA RenWrapAgain ==
    ASSUME NEW P, NEW A \in Seq(P), NEW B \in Seq(P), NEW a \in Seq(P), NEW b \in Seq(P),
           NEW x \in Seq(P)
    PROVE  Joined(Joined(a, Joined(Joined(A, x), B)), b)
               = Joined(Joined(Joined(a, A), x), Joined(B, b))
  BY JoinedSeq, JoinedAssoc

\* What encloses a frame is the same whatever the frame is.
LEMMA RenLayerWraps ==
    ASSUME NEW P, NEW layer, RenLayerOf(layer, P)
    PROVE  \E A, B \in Seq(P) : \A x \in Seq(P) : RenLayer(layer, x) = Joined(Joined(A, x), B)
<1> DEFINE ops == layer.operations
           n == Len(ops)
           Wraps(k, A, B) == \A x \in Seq(P) : \A f : RenLayerRun(f, layer, x, P) =>
                                f[k] = Joined(Joined(A, x), B)
           T == {k \in 0..n : \E A, B \in Seq(P) : Wraps(k, A, B)}
<1>1. n \in Nat /\ \A i \in 1..n : ops[i].before \in Seq(P) /\ ops[i].after \in Seq(P)
  BY DEF RenLayerOf
<1>2. \A x, f : RenLayerRun(f, layer, x, P) =>
          /\ f \in [0..n -> Seq(P)] /\ f[0] = x /\ RenLayer(layer, x) = f[n]
          /\ \A k \in 1..n : f[k] = Joined(Joined(ops[k].before, f[k - 1]), ops[k].after)
  BY DEF RenLayerRun
<1> HIDE DEF n, ops
<1>3. 0 \in T
  <2>1. <<>> \in Seq(P) /\ 0 \in 0..n
    BY <1>1
  <2>2. \A x \in Seq(P) : x = Joined(Joined(<<>>, x), <<>>)
    BY JoinedEmpty
  <2>3. Wraps(0, <<>>, <<>>)
    BY <1>2, <2>2
  <2> HIDE DEF Wraps
  <2> QED BY <2>1, <2>3
<1>4. \A k \in 0..n : k < n /\ k \in T => k + 1 \in T
  <2> SUFFICES ASSUME NEW k \in 0..n, k < n, k \in T PROVE k + 1 \in T
    OBVIOUS
  <2>1. PICK A, B \in Seq(P) : Wraps(k, A, B)
    <3> HIDE DEF Wraps
    <3> QED OBVIOUS
  <2>2. k + 1 \in 1..n /\ k + 1 \in 0..n /\ (k + 1) - 1 = k
    BY <1>1
  <2> DEFINE a == ops[k + 1].before
             b == ops[k + 1].after
  <2>3. a \in Seq(P) /\ b \in Seq(P)
    BY <1>1, <2>2
  <2>4. \A f, x : RenLayerRun(f, layer, x, P) => f[k + 1] = Joined(Joined(a, f[k]), b)
    BY <1>2, <2>2
  <2> HIDE DEF a, b
  <2>5. Joined(a, A) \in Seq(P) /\ Joined(B, b) \in Seq(P)
    BY <2>3, JoinedSeq
  <2>6. Wraps(k + 1, Joined(a, A), Joined(B, b))
    <3> SUFFICES ASSUME NEW x \in Seq(P), NEW f, RenLayerRun(f, layer, x, P)
                 PROVE  f[k + 1] = Joined(Joined(Joined(a, A), x), Joined(B, b))
      OBVIOUS
    <3>1. f[k] = Joined(Joined(A, x), B)
      BY <2>1
    <3>2. Joined(Joined(a, Joined(Joined(A, x), B)), b)
              = Joined(Joined(Joined(a, A), x), Joined(B, b))
      BY <2>3, RenWrapAgain
    <3> QED BY <2>4, <3>1, <3>2
  <2> HIDE DEF Wraps
  <2> QED BY <2>2, <2>5, <2>6
<1>5. n \in T
  <2> HIDE DEF T
  <2>1. \A k \in 0..n : k \in T
    BY <1>1, <1>3, <1>4, UpTo
  <2> QED BY <1>1, <2>1
<1>6. PICK A, B \in Seq(P) : Wraps(n, A, B)
  <2> HIDE DEF Wraps
  <2> QED BY <1>5
<1>7. ASSUME NEW x \in Seq(P) PROVE RenLayer(layer, x) = Joined(Joined(A, x), B)
  BY RenLayerRuns, <1>2, <1>6
<1> QED BY <1>7

LEMMA RenOrder ==
    ASSUME NEW P, NEW doc, RenDocumentOf(doc, P)
    PROVE  LET order == Reverse(doc.layouts)
           IN  /\ Len(order) \in Nat /\ DOMAIN order = 1..Len(order)
               /\ \A i \in 1..Len(order) : RenLayerOf(doc.layers[order[i]], P)
<1> DEFINE s == doc.layouts
           Q == ToSet(s)
           order == Reverse(s)
<1>1. s \in Seq(Q)
  BY DEF RenDocumentOf
<1>2. \A id \in Q : RenLayerOf(doc.layers[id], P)
  BY DEF RenDocumentOf
<1> HIDE DEF s, Q
<1>3. Len(s) \in Nat /\ \A i \in 1..Len(s) : s[i] \in Q
  BY <1>1
<1>4. Len(order) = Len(s) /\ DOMAIN order = 1..Len(s)
  BY <1>3 DEF Reverse
<1>5. \A i \in 1..Len(s) : order[i] = s[(Len(s) - i) + 1] /\ (Len(s) - i) + 1 \in 1..Len(s)
  BY <1>3 DEF Reverse
<1>6. \A i \in 1..Len(s) : order[i] \in Q
  <2> HIDE DEF order
  <2> QED BY <1>3, <1>5
<1> HIDE DEF order
<1>7. \A i \in 1..Len(order) : RenLayerOf(doc.layers[order[i]], P)
  BY <1>2, <1>4, <1>6
<1> QED BY <1>3, <1>4, <1>7 DEF order, s

\* compose_layout_body: the frame after each layout.
LEMMA RenBodyRuns ==
    ASSUME NEW P, NEW doc, RenDocumentOf(doc, P), NEW x \in Seq(P)
    PROVE  \E f : RenBodyRun(f, doc, x, P)
<1> DEFINE n == Len(Reverse(doc.layouts))
           Step(v, i) == RenLayer(doc.layers[Reverse(doc.layouts)[i]], v)
           Eq(F) == F = [S \in SUBSET (1..n) |->
                            IF S = {} THEN x ELSE Step(F[S \ {Max(S)}], Max(S))]
           G == [y \in (1..n) \X Seq(P) |-> Step(y[2], y[1])]
           F == CHOOSE h : Eq(h)
           f == [k \in 0..n |-> F[1..k]]
<1>1. /\ n \in Nat /\ DOMAIN Reverse(doc.layouts) = 1..n /\ x \in Seq(P)
      /\ \A i \in 1..n, v \in Seq(P) : Step(v, i) \in Seq(P)
  BY RenOrder, RenLayerWraps, JoinedSeq
<1>2. RenBody(doc, x) = F[1..n]
  BY <1>1 DEF RenBody, FoldLeft, MapThenFoldSet
<1> HIDE DEF Step, n
<1>3. G \in [(1..n) \X Seq(P) -> Seq(P)]
  BY <1>1
<1>4. PICK g : FoldsTo(g, n, Seq(P), x, G)
  BY <1>1, <1>3, FoldDefined
<1>5. g \in [SUBSET (1..n) -> Seq(P)] /\ g[{}] = x
  BY <1>4 DEF FoldsTo
<1>6. \A S \in SUBSET (1..n) : S # {} => g[S] = Step(g[S \ {Max(S)}], Max(S))
  <2> SUFFICES ASSUME NEW S \in SUBSET (1..n), S # {}
               PROVE  g[S] = Step(g[S \ {Max(S)}], Max(S))
    OBVIOUS
  <2>1. Max(S) \in 1..n
    BY <1>1, MaxExists
  <2> DEFINE m == Max(S)
             v == g[S \ {m}]
  <2>2. v \in Seq(P)
    BY <1>5
  <2>3. g[S] = G[<<m, v>>]
    <3> HIDE DEF G
    <3> QED BY <1>4 DEF FoldsTo
  <2>4. m \in 1..n
    BY <2>1
  <2> HIDE DEF m, v
  <2>5. G[<<m, v>>] = Step(v, m)
    BY <2>2, <2>4
  <2> QED BY <2>3, <2>5 DEF m, v
<1>7. Eq(g)
  BY <1>5, <1>6
<1>8. Eq(F)
  <2> HIDE DEF Eq
  <2> QED BY <1>7
<1> HIDE DEF F, G
<1>9. F[{}] = x
  BY <1>8
<1>10. \A k \in 1..n : F[1..k] = Step(F[1..(k - 1)], k)
  <2> SUFFICES ASSUME NEW k \in 1..n PROVE F[1..k] = Step(F[1..(k - 1)], k)
    OBVIOUS
  <2>0. k \in Nat /\ k > 0
    BY <1>1
  <2>1. Max(1..k) = k /\ (1..k) \ {k} = 1..(k - 1) /\ 1..k # {}
    BY ONLY <2>0, MaxUpTo
  <2>2. 1..k \in SUBSET (1..n)
    BY <1>1
  <2>3. F[1..k] = Step(F[(1..k) \ {Max(1..k)}], Max(1..k))
    BY <1>8, <2>1, <2>2
  <2> QED BY <2>1, <2>3
<1>11. f[0] = x /\ \A k \in 1..n : f[k] = Step(f[k - 1], k)
  BY <1>1, <1>9, <1>10
<1>12. f[n] = F[1..n]
  BY <1>1
<1>13. DOMAIN f = 0..n
  OBVIOUS
<1>14. f = [k \in 0..n |-> f[k]]
  OBVIOUS
<1> HIDE DEF f
<1>15. \A k \in 0..n : f[k] \in Seq(P)
  <2> DEFINE T == {k \in 0..n : f[k] \in Seq(P)}
  <2>1. 0 \in T
    BY <1>1, <1>11
  <2>2. \A k \in 0..n : k < n /\ k \in T => k + 1 \in T
    BY <1>1, <1>11
  <2>3. \A k \in 0..n : k \in T
    <3> HIDE DEF T
    <3> QED BY <1>1, <2>1, <2>2, UpTo
  <2> QED BY <2>3
<1>16. f \in [0..n -> Seq(P)]
  BY <1>14, <1>15
<1>17. f[0] = x /\ (\A k \in 1..n : f[k] = Step(f[k - 1], k)) /\ RenBody(doc, x) = f[n]
  BY <1>2, <1>11, <1>12
<1> DEFINE Goal(h) == h \in [0..n -> Seq(P)] /\ h[0] = x
                      /\ (\A k \in 1..n : h[k] = Step(h[k - 1], k)) /\ RenBody(doc, x) = h[n]
<1>18. Goal(f)
  BY <1>16, <1>17
<1>19. RenBodyRun(f, doc, x, P)
  BY <1>18 DEF RenBodyRun, Step, n
<1> QED BY <1>19

\* Layouts, too, enclose every body in the same markup.
LEMMA RenBodyWraps ==
    ASSUME NEW P, NEW doc, RenDocumentOf(doc, P)
    PROVE  \E A, B \in Seq(P) : \A x \in Seq(P) : RenBody(doc, x) = Joined(Joined(A, x), B)
<1> DEFINE order == Reverse(doc.layouts)
           n == Len(order)
           Wraps(k, A, B) == \A x \in Seq(P) : \A f : RenBodyRun(f, doc, x, P) =>
                                f[k] = Joined(Joined(A, x), B)
           T == {k \in 0..n : \E A, B \in Seq(P) : Wraps(k, A, B)}
<1>1. n \in Nat /\ \A i \in 1..n : RenLayerOf(doc.layers[order[i]], P)
  BY RenOrder
<1>2. \A x, f : RenBodyRun(f, doc, x, P) =>
          /\ f \in [0..n -> Seq(P)] /\ f[0] = x /\ RenBody(doc, x) = f[n]
          /\ \A k \in 1..n : f[k] = RenLayer(doc.layers[order[k]], f[k - 1])
  BY DEF RenBodyRun
<1> HIDE DEF n, order
<1>3. 0 \in T
  <2>1. <<>> \in Seq(P) /\ 0 \in 0..n
    BY <1>1
  <2>2. \A x \in Seq(P) : x = Joined(Joined(<<>>, x), <<>>)
    BY JoinedEmpty
  <2>3. Wraps(0, <<>>, <<>>)
    BY <1>2, <2>2
  <2> HIDE DEF Wraps
  <2> QED BY <2>1, <2>3
<1>4. \A k \in 0..n : k < n /\ k \in T => k + 1 \in T
  <2> SUFFICES ASSUME NEW k \in 0..n, k < n, k \in T PROVE k + 1 \in T
    OBVIOUS
  <2>1. PICK A, B \in Seq(P) : Wraps(k, A, B)
    <3> HIDE DEF Wraps
    <3> QED OBVIOUS
  <2>2. k + 1 \in 1..n /\ k + 1 \in 0..n /\ (k + 1) - 1 = k
    BY <1>1
  <2> DEFINE layer == doc.layers[order[k + 1]]
  <2>3. RenLayerOf(layer, P)
    BY <1>1, <2>2
  <2>4. \A f, x : RenBodyRun(f, doc, x, P) => f[k + 1] = RenLayer(layer, f[k]) /\ f[k] \in Seq(P)
    <3> TAKE f, x
    <3> HAVE RenBodyRun(f, doc, x, P)
    <3>1. f \in [0..n -> Seq(P)]
      BY <1>2
    <3>2. \A j \in 1..n : f[j] = RenLayer(doc.layers[order[j]], f[j - 1])
      BY <1>2
    <3>3. f[k + 1] = RenLayer(layer, f[(k + 1) - 1])
      BY <2>2, <3>2
    <3> QED BY <2>2, <3>1, <3>3
  <2> HIDE DEF layer
  <2>5. PICK a, b \in Seq(P) : \A x \in Seq(P) : RenLayer(layer, x) = Joined(Joined(a, x), b)
    BY <2>3, RenLayerWraps
  <2>6. Joined(a, A) \in Seq(P) /\ Joined(B, b) \in Seq(P)
    BY JoinedSeq
  <2>7. Wraps(k + 1, Joined(a, A), Joined(B, b))
    <3> SUFFICES ASSUME NEW x \in Seq(P), NEW f, RenBodyRun(f, doc, x, P)
                 PROVE  f[k + 1] = Joined(Joined(Joined(a, A), x), Joined(B, b))
      OBVIOUS
    <3>1. f[k] = Joined(Joined(A, x), B)
      BY <2>1
    <3>2. f[k + 1] = Joined(Joined(a, f[k]), b)
      BY <2>4, <2>5
    <3>3. Joined(Joined(a, Joined(Joined(A, x), B)), b)
              = Joined(Joined(Joined(a, A), x), Joined(B, b))
      BY RenWrapAgain
    <3> QED BY <3>1, <3>2, <3>3
  <2> HIDE DEF Wraps
  <2> QED BY <2>2, <2>6, <2>7
<1>5. n \in T
  <2> HIDE DEF T
  <2>1. \A k \in 0..n : k \in T
    BY <1>1, <1>3, <1>4, UpTo
  <2> QED BY <1>1, <2>1
<1>6. PICK A, B \in Seq(P) : Wraps(n, A, B)
  <2> HIDE DEF Wraps
  <2> QED BY <1>5
<1>7. ASSUME NEW x \in Seq(P) PROVE RenBody(doc, x) = Joined(Joined(A, x), B)
  BY RenBodyRuns, <1>2, <1>6
<1> QED BY <1>7

\* The bytes up to each piece.
LEMMA RenBytesRuns ==
    ASSUME NEW P, RenSized(P), NEW s \in Seq(P)
    PROVE  \E f : /\ f \in [0..Len(s) -> Nat] /\ f[0] = 0
                  /\ \A k \in 1..Len(s) : f[k] = f[k - 1] + s[k][2]
                  /\ RenBytes(s) = f[Len(s)]
<1> DEFINE n == Len(s)
           Eq(F) == F = [S \in SUBSET (1..n) |->
                            IF S = {} THEN 0 ELSE F[S \ {Max(S)}] + s[Max(S)][2]]
           G == [x \in (1..n) \X Nat |-> x[2] + s[x[1]][2]]
           F == CHOOSE h : Eq(h)
<1>1. n \in Nat /\ DOMAIN s = 1..n /\ \A k \in 1..n : s[k][2] \in Nat
  BY DEF RenSized
<1>2. RenBytes(s) = F[1..n]
  BY <1>1 DEF RenBytes, FoldLeft, MapThenFoldSet
<1>3. G \in [(1..n) \X Nat -> Nat]
  BY <1>1
<1>4. PICK g \in [SUBSET (1..n) -> Nat] :
         /\ g[{}] = 0
         /\ \A S \in SUBSET (1..n) : S # {} => g[S] = G[<<Max(S), g[S \ {Max(S)}]>>]
  <2> DEFINE V == Nat
             b == 0
  <2> HIDE DEF G, n
  <2>1. n \in Nat /\ b \in V /\ G \in [(1..n) \X V -> V]
    BY <1>1, <1>3
  <2> HIDE DEF V, b
  <2>2. \E g : FoldsTo(g, n, V, b, G)
    BY ONLY <2>1, FoldDefined
  <2> QED BY <2>2 DEF V, b, FoldsTo
<1>5. \A S \in SUBSET (1..n) : S # {} =>
         G[<<Max(S), g[S \ {Max(S)}]>>] = g[S \ {Max(S)}] + s[Max(S)][2]
  BY <1>1, MaxExists
<1>6. Eq(g)
  <2>1. \A S \in SUBSET (1..n) : g[S] = IF S = {} THEN 0 ELSE g[S \ {Max(S)}] + s[Max(S)][2]
    <3> HIDE DEF G, n
    <3> QED BY <1>4, <1>5
  <2>2. g = [S \in SUBSET (1..n) |-> g[S]]
    OBVIOUS
  <2> HIDE DEF G, n
  <2> QED BY <2>1, <2>2
<1>7. Eq(F)
  <2> HIDE DEF Eq
  <2> QED BY <1>6
<1> HIDE DEF F, G
<1> DEFINE f == [k \in 0..n |-> F[1..k]]
<1>8. F[{}] = 0
  BY <1>7
<1>9. \A k \in 1..n : F[1..k] = F[1..(k - 1)] + s[k][2]
  <2> SUFFICES ASSUME NEW k \in 1..n PROVE F[1..k] = F[1..(k - 1)] + s[k][2]
    OBVIOUS
  <2>1. Max(1..k) = k /\ (1..k) \ {k} = 1..(k - 1) /\ 1..k # {}
    BY SMTT(60), MaxUpTo
  <2>2. 1..k \in SUBSET (1..n)
    BY <1>1
  <2> QED BY <1>7, <2>1, <2>2
<1>10. f[0] = 0 /\ \A k \in 1..n : f[k] = f[k - 1] + s[k][2]
  BY <1>1, <1>8, <1>9
<1>11. f[n] = F[1..n]
  BY <1>1
<1> HIDE DEF f
<1>12. \A k \in 0..n : f[k] \in Nat
  <2> DEFINE T == {k \in 0..n : f[k] \in Nat}
  <2>1. 0 \in T
    BY <1>1, <1>10
  <2>2. \A k \in 0..n : k < n /\ k \in T => k + 1 \in T
    <3> SUFFICES ASSUME NEW k \in 0..n, k < n, k \in T PROVE k + 1 \in T
      OBVIOUS
    <3>1. k + 1 \in 1..n /\ k + 1 \in 0..n /\ (k + 1) - 1 = k
      BY <1>1
    <3> QED BY SMTT(60), <1>1, <1>10, <3>1
  <2>3. \A k \in 0..n : k \in T
    <3> HIDE DEF T, n
    <3> QED BY <1>1, <2>1, <2>2, UpTo
  <2> QED BY <2>3
<1>13. f \in [0..n -> Nat]
  BY <1>12 DEF f
<1> QED BY <1>2, <1>10, <1>11, <1>13

LEMMA RenBytesNone == RenBytes(<<>>) = 0
<1>1. RenSized({}) /\ <<>> \in Seq({}) /\ Len(<<>>) = 0
  BY DEF RenSized
<1>2. PICK f : f[0] = 0 /\ RenBytes(<<>>) = f[Len(<<>>)]
  BY <1>1, RenBytesRuns
<1> QED BY <1>1, <1>2

LEMMA RenBytesNat ==
    ASSUME NEW P, RenSized(P), NEW s \in Seq(P)
    PROVE  RenBytes(s) \in Nat
  BY RenBytesRuns

\* The bytes of a concatenation.
LEMMA RenBytesJoin ==
    ASSUME NEW P, RenSized(P), NEW s \in Seq(P), NEW t \in Seq(P)
    PROVE  RenBytes(Joined(s, t)) = RenBytes(s) + RenBytes(t)
<1> DEFINE u == Joined(s, t)
           m == Len(s)
           n == Len(t)
<1>1. /\ u \in Seq(P) /\ Len(u) = m + n /\ m \in Nat /\ n \in Nat
      /\ \A k \in 1..m : u[k] = s[k]
      /\ \A k \in 1..n : u[m + k] = t[k]
  BY DEF Joined
<1> HIDE DEF u, m, n
<1>2. PICK f : /\ f \in [0..m -> Nat] /\ f[0] = 0
               /\ \A k \in 1..m : f[k] = f[k - 1] + s[k][2]
               /\ RenBytes(s) = f[m]
  BY ONLY RenSized(P), s \in Seq(P), RenBytesRuns DEF m
<1>3. PICK g : /\ g \in [0..n -> Nat] /\ g[0] = 0
               /\ \A k \in 1..n : g[k] = g[k - 1] + t[k][2]
               /\ RenBytes(t) = g[n]
  BY ONLY RenSized(P), t \in Seq(P), RenBytesRuns DEF n
<1>4. PICK h : /\ h \in [0..(m + n) -> Nat] /\ h[0] = 0
               /\ \A k \in 1..(m + n) : h[k] = h[k - 1] + u[k][2]
               /\ RenBytes(u) = h[m + n]
  <2>1. \E h : /\ h \in [0..Len(u) -> Nat] /\ h[0] = 0
               /\ \A k \in 1..Len(u) : h[k] = h[k - 1] + u[k][2]
               /\ RenBytes(u) = h[Len(u)]
    BY ONLY RenSized(P), <1>1, RenBytesRuns
  <2> QED BY <1>1, <2>1
<1>5. \A k \in 0..m : h[k] = f[k]
  <2> DEFINE T == {k \in 0..m : h[k] = f[k]}
  <2>1. 0 \in T
    BY <1>1, <1>2, <1>4
  <2>2. \A k \in 0..m : k < m /\ k \in T => k + 1 \in T
    <3> SUFFICES ASSUME NEW k \in 0..m, k < m, k \in T PROVE k + 1 \in T
      OBVIOUS
    <3>1. k + 1 \in 1..m /\ k + 1 \in 0..m /\ (k + 1) - 1 = k /\ k + 1 \in 1..(m + n)
      BY <1>1
    <3>2. h[k + 1] = h[k] + u[k + 1][2]
      BY <1>4, <3>1
    <3>3. f[k + 1] = f[k] + s[k + 1][2]
      BY <1>2, <3>1
    <3> QED BY <1>1, <3>1, <3>2, <3>3
  <2>3. \A k \in 0..m : k \in T
    <3> HIDE DEF T
    <3> QED BY <1>1, <2>1, <2>2, UpTo
  <2> QED BY <2>3
<1>6. \A k \in 0..n : h[m + k] = f[m] + g[k]
  <2> DEFINE T == {k \in 0..n : h[m + k] = f[m] + g[k]}
  <2>0. f[m] \in Nat /\ m \in 0..m
    BY <1>1, <1>2
  <2>1. 0 \in T
    BY <1>1, <1>3, <1>5, <2>0
  <2>2. \A k \in 0..n : k < n /\ k \in T => k + 1 \in T
    <3> SUFFICES ASSUME NEW k \in 0..n, k < n, k \in T PROVE k + 1 \in T
      OBVIOUS
    <3>1. /\ k + 1 \in 1..n /\ k + 1 \in 0..n /\ (k + 1) - 1 = k /\ m + (k + 1) \in 1..(m + n)
          /\ (m + (k + 1)) - 1 = m + k
      BY <1>1
    <3>2. h[m + (k + 1)] = h[m + k] + u[m + (k + 1)][2]
      BY <1>4, <3>1
    <3>3. g[k + 1] = g[k] + t[k + 1][2] /\ u[m + (k + 1)] = t[k + 1]
      BY <1>1, <1>3, <3>1
    <3>4. t[k + 1][2] \in Nat /\ g[k] \in Nat
      <4>1. t[k + 1] \in P
        BY <3>1 DEF n
      <4> QED BY <4>1, <1>3 DEF RenSized
    <3>5. h[m + (k + 1)] = f[m] + g[k + 1]
      BY SMTT(60), <3>2, <3>3, <3>4, <2>0
    <3> QED BY <3>1, <3>5
  <2>3. \A k \in 0..n : k \in T
    <3> HIDE DEF T
    <3> QED BY <1>1, <2>1, <2>2, UpTo
  <2> QED BY <2>3
<1>7. h[m + n] = f[m] + g[n]
  BY <1>1, <1>6
<1> QED BY <1>2, <1>3, <1>4, <1>7 DEF u

\* Pieces of one byte each.
LEMMA RenBytesOnes ==
    ASSUME NEW P, RenSized(P), NEW s \in Seq(P), \A i \in 1..Len(s) : s[i][2] = 1
    PROVE  RenBytes(s) = Len(s)
<1> DEFINE n == Len(s)
<1>1. n \in Nat
  OBVIOUS
<1>2. PICK f : /\ f \in [0..n -> Nat] /\ f[0] = 0 /\ RenBytes(s) = f[n]
               /\ \A k \in 1..n : f[k] = f[k - 1] + s[k][2]
  BY RenBytesRuns
<1> DEFINE T == {k \in 0..n : f[k] = k}
<1> HIDE DEF n
<1>3. 0 \in T
  BY <1>1, <1>2
<1>4. \A k \in 0..n : k < n /\ k \in T => k + 1 \in T
  BY <1>1, <1>2 DEF n
<1>5. n \in T
  <2> HIDE DEF T
  <2>1. \A k \in 0..n : k \in T
    BY <1>1, <1>3, <1>4, UpTo
  <2> QED BY <1>1, <2>1
<1> QED BY <1>2, <1>5 DEF n

-----------------------------------------------------------------------------

\* The markup of a document's layers, and of a body.
RenMarkupOf(doc) ==
    UNION {UNION {ToSet(op.before) \cup ToSet(op.after) : op \in ToSet(doc.layers[id].operations)} :
              id \in DOMAIN doc.layers}
RenMarkupIn(input) ==
    {RenPlaceholder(b) : b \in ToSet(input)} \cup UNION {ToSet(b.pieces) : b \in ToSet(input)}

\* Every piece a response may hold.
RenShellPieces == {RenSlot, RenSuffix} \cup {RenPrefix(doc) : doc \in RenDocuments}
RenLayerPieces == UNION {RenMarkupOf(doc) : doc \in RenDocuments}
RenInputPieces == UNION {RenMarkupIn(input) : input \in RenInputs}
RenPieces == RenShellPieces \cup RenLayerPieces \cup RenInputPieces

LEMMA RenPiecesSized == RenSized(RenPieces)
<1> SUFFICES ASSUME NEW p \in RenPieces PROVE p[2] \in Nat
  BY DEF RenSized
<1>1. CASE p \in {RenSlot, RenSuffix}
  BY <1>1 DEF RenSlot, RenSuffix
<1>2. CASE p \in {RenPrefix(doc) : doc \in RenDocuments}
  BY <1>2 DEF RenPrefix
<1>3. CASE p \in RenLayerPieces
  BY <1>3, RenDocumentsAssumption DEF RenLayerPieces, RenMarkupOf, RenMarkup
<1>4. CASE p \in RenInputPieces
  BY <1>4, RenInputsAssumption DEF RenInputPieces, RenPlaceholder, RenMarkup, RenMarkupIn
<1>5. p \in RenShellPieces \/ p \in RenLayerPieces \/ p \in RenInputPieces
  BY DEF RenPieces
<1>6. CASE p \in RenShellPieces
  BY <1>1, <1>2, <1>6 DEF RenShellPieces
<1> QED BY <1>3, <1>4, <1>5, <1>6

LEMMA RenMarkupSeq ==
    ASSUME NEW s, RenMarkup(s), NEW P, ToSet(s) \subseteq P
    PROVE  s \in Seq(P)
  BY SeqMonotonic DEF RenMarkup

LEMMA RenDocumentsMarkup ==
    ASSUME NEW doc \in RenDocuments, RenLayoutsMatch(doc)
    PROVE  RenDocumentOf(doc, RenPieces)
<1>1. doc.layouts \in Seq(ToSet(doc.layouts))
  BY RenDocumentsAssumption
<1>2. ASSUME NEW id \in ToSet(doc.layouts) PROVE RenLayerOf(doc.layers[id], RenPieces)
  <2>1. id \in DOMAIN doc.layers
    BY DEF RenLayoutsMatch
  <2> DEFINE ops == doc.layers[id].operations
  <2>2. ops \in Seq(ToSet(ops)) /\ \A op \in ToSet(ops) : RenMarkup(op.before) /\ RenMarkup(op.after)
    BY <2>1, RenDocumentsAssumption
  <2>3. ASSUME NEW op \in ToSet(ops)
        PROVE  op.before \in Seq(RenPieces) /\ op.after \in Seq(RenPieces)
    BY <2>1, <2>2, RenMarkupSeq DEF RenMarkupOf, RenLayerPieces, RenPieces
  <2> QED BY <2>2, <2>3 DEF RenLayerOf
<1> QED BY <1>1, <1>2 DEF RenDocumentOf

LEMMA RenInputsMarkup ==
    ASSUME NEW input \in RenInputs
    PROVE  /\ Len(input) \in Nat /\ DOMAIN input = 1..Len(input)
           /\ input \in Seq(ToSet(input))
           /\ \A i \in 1..Len(input) :
                 input[i].pieces \in Seq(RenPieces) /\ RenPlaceholder(input[i]) \in RenPieces
<1> DEFINE Q == ToSet(input)
<1>1. input \in Seq(Q) /\ \A b \in Q : RenMarkup(b.pieces)
  BY RenInputsAssumption
<1>2. ASSUME NEW b \in Q
      PROVE  b.pieces \in Seq(RenPieces) /\ RenPlaceholder(b) \in RenPieces
  BY <1>1, RenMarkupSeq DEF RenMarkupIn, RenInputPieces, RenPieces
<1> HIDE DEF Q
<1>3. Len(input) \in Nat /\ DOMAIN input = 1..Len(input) /\ \A i \in 1..Len(input) : input[i] \in Q
  BY <1>1
<1> QED BY <1>1, <1>2, <1>3 DEF Q

-----------------------------------------------------------------------------
(* The shell.                                                              *)

\* LayoutStreamDocument::shell: when the slot occurs once, splitting the frame
\* at it gives what encloses every body.
LEMMA RenShellEncloses ==
    ASSUME NEW doc \in RenDocuments, RenLayoutsMatch(doc), Cardinality(RenSlots(doc)) = 1
    PROVE  /\ RenShellBefore(doc) \in Seq(RenPieces) /\ RenShellAfter(doc) \in Seq(RenPieces)
           /\ \A x \in Seq(RenPieces) :
                 <<RenPrefix(doc)>> \o RenBody(doc, x) \o <<RenSuffix>>
                    = Joined(Joined(RenShellBefore(doc), x), RenShellAfter(doc))
<1> DEFINE P == RenPieces
           slot == <<RenSlot>>
           pre == <<RenPrefix(doc)>>
           suf == <<RenSuffix>>
           frame == RenBody(doc, slot)
<1>1. PICK A, B \in Seq(P) : \A x \in Seq(P) : RenBody(doc, x) = Joined(Joined(A, x), B)
  <2>1. RenDocumentOf(doc, RenPieces)
    BY RenDocumentsMarkup
  <2> QED BY <2>1, RenBodyWraps
<1>2. RenSlot \in P /\ RenPrefix(doc) \in P /\ RenSuffix \in P
  BY DEF RenPieces, RenShellPieces
<1> HIDE DEF P
<1>3. slot \in Seq(P) /\ pre \in Seq(P) /\ suf \in Seq(P) /\ Len(slot) = 1 /\ slot[1] = RenSlot
  BY <1>2
<1>4. frame = Joined(Joined(A, slot), B)
  BY <1>1, <1>3
<1> DEFINE a == Len(A)
           b == Len(B)
<1>5. a \in Nat /\ b \in Nat
  OBVIOUS
<1>6. /\ frame \in Seq(P) /\ Len(frame) = a + 1 + b
      /\ \A i \in 1..a : frame[i] = A[i]
      /\ frame[a + 1] = RenSlot
      /\ \A i \in 1..b : frame[a + 1 + i] = B[i]
  <2> DEFINE Aslot == Joined(A, slot)
  <2>1. /\ Aslot \in Seq(P) /\ Len(Aslot) = a + 1 /\ Aslot[a + 1] = RenSlot
        /\ \A i \in 1..a : Aslot[i] = A[i]
    <3> HIDE DEF slot
    <3>1. Aslot \in Seq(P) /\ Len(Aslot) = a + Len(slot)
      BY <1>3, JoinedSeq, JoinedLen
    <3>2. (\A i \in 1..a : Aslot[i] = A[i]) /\ \A i \in 1..Len(slot) : Aslot[a + i] = slot[i]
      BY SMTT(60), <1>3, JoinedAt
    <3> HIDE DEF Aslot, a
    <3>3. Len(slot) = 1 /\ slot[1] = RenSlot /\ 1 \in 1..Len(slot)
      BY <1>3
    <3>4. Len(Aslot) = a + 1
      BY ONLY <3>1, <3>3
    <3>5. Aslot[a + 1] = slot[1]
      BY ONLY <3>2, <3>3
    <3> QED BY ONLY <3>1, <3>2, <3>3, <3>4, <3>5
  <2> HIDE DEF Aslot, frame
  <2>2. /\ frame \in Seq(P) /\ Len(frame) = a + 1 + b
        /\ \A i \in 1..(a + 1) : frame[i] = Aslot[i]
        /\ \A i \in 1..b : frame[a + 1 + i] = B[i]
    BY <1>4, <1>5, <2>1 DEF Joined, Aslot
  <2> QED BY <1>5, <2>1, <2>2
<1>7. RenSlots(doc) = {a + 1}
  <2>1. RenSlots(doc) = {i \in DOMAIN frame : frame[i] = RenSlot}
    BY DEF RenSlots
  <2> HIDE DEF frame, a, b
  <2>2. DOMAIN frame = 1..(a + 1 + b) /\ a + 1 \in 1..(a + 1 + b)
    BY <1>5, <1>6
  <2>3. a + 1 \in RenSlots(doc) /\ RenSlots(doc) \subseteq 1..(a + 1 + b)
    BY <1>6, <2>1, <2>2
  <2>4. IsFiniteSet(RenSlots(doc))
    <3>1. IsFiniteSet(1..(a + 1 + b))
      BY <1>5, FS_Interval
    <3> QED BY <2>3, <3>1, FS_Subset
  <2>5. \E x : RenSlots(doc) = {x}
    BY <2>4, FS_Singleton
  <2> QED BY <2>3, <2>5
<1> DEFINE at == CHOOSE i \in RenSlots(doc) : TRUE
<1>8. at = a + 1
  BY <1>7
<1>9. SubSeq(frame, 1, at - 1) = A
  <2> HIDE DEF frame, at
  <2>1. at - 1 = a
    BY <1>5, <1>8
  <2>2. \A i \in 1..a : frame[i] \in P
    BY <1>6
  <2>3. SubSeq(frame, 1, a) \in Seq(P) /\ Len(SubSeq(frame, 1, a)) = a
        /\ \A i \in 1..a : SubSeq(frame, 1, a)[i] = frame[i]
    <3> HIDE DEF a
    <3> QED BY <1>5, <2>2, SubSeqProperties
  <2>4. SubSeq(frame, 1, a) = A
    BY <1>5, <1>6, <2>3, SeqEqual
  <2> QED BY <2>1, <2>4
<1>10. SubSeq(frame, at + 1, Len(frame)) = B
  <2> DEFINE m == a + 2
             n == a + 1 + b
             s == SubSeq(frame, m, n)
  <2> HIDE DEF frame, at, a, b
  <2>1. /\ at + 1 = m /\ Len(frame) = n /\ m \in Int /\ n \in Int /\ n - m + 1 = b
        /\ \A i \in 1..b : m + i - 1 = a + 1 + i
    BY <1>5, <1>6, <1>8
  <2>2. \A i \in m..n : frame[i] \in P
    BY <1>5, <1>6 DEF b
  <2>3. /\ s \in Seq(P) /\ Len(s) = b
        /\ \A i \in 1..b : s[i] = frame[m + i - 1]
    <3>1. /\ s \in Seq(P) /\ Len(s) = IF m <= n THEN n - m + 1 ELSE 0
          /\ \A i \in 1..(n - m + 1) : s[i] = frame[m + i - 1]
      <4> HIDE DEF m, n
      <4> QED BY <2>1, <2>2, SubSeqProperties
    <3>2. (IF m <= n THEN n - m + 1 ELSE 0) = b
      BY <1>5
    <3> HIDE DEF s, m, n, a, b
    <3> QED BY <2>1, <3>1, <3>2
  <2>4. s \in Seq(P) /\ Len(s) = Len(B) /\ \A i \in 1..Len(s) : s[i] = B[i]
    BY <1>6, <2>1, <2>3 DEF b
  <2> HIDE DEF s
  <2>5. s = B
    BY ONLY <2>4, B \in Seq(P), SeqEqual
  <2> HIDE DEF m, n
  <2> QED BY <2>1, <2>5 DEF s
<1>11. RenShellBefore(doc) = Joined(pre, A)
  BY <1>9 DEF RenShellBefore, Joined
<1>12. RenShellAfter(doc) = Joined(B, suf)
  <2>1. RenShellAfter(doc) = Append(B, RenSuffix)
    BY <1>10 DEF RenShellAfter
  <2>2. Append(B, RenSuffix) = B \o suf
    BY <1>2
  <2> QED BY <2>1, <2>2 DEF Joined
<1> HIDE DEF slot, pre, suf, frame, a, b, at
<1>13. RenShellBefore(doc) \in Seq(P) /\ RenShellAfter(doc) \in Seq(P)
  BY <1>3, <1>11, <1>12, JoinedSeq
<1>14. ASSUME NEW x \in Seq(P)
       PROVE  pre \o RenBody(doc, x) \o suf = Joined(Joined(RenShellBefore(doc), x), RenShellAfter(doc))
  <2>1. RenBody(doc, x) = Joined(Joined(A, x), B)
    BY <1>1
  <2>2. pre \o RenBody(doc, x) \o suf = Joined(Joined(pre, Joined(Joined(A, x), B)), suf)
    BY <2>1 DEF Joined
  <2>3. Joined(Joined(pre, Joined(Joined(A, x), B)), suf)
            = Joined(Joined(Joined(pre, A), x), Joined(B, suf))
    BY <1>3, RenWrapAgain
  <2> QED BY <1>11, <1>12, <2>2, <2>3
<1> QED BY <1>13, <1>14 DEF P, pre, suf

-----------------------------------------------------------------------------
(* What has been sent after k parts.                                       *)

RenSent(before, kind, input, k) ==
    Joined(before, FlattenSeq(SubSeq(RenParts(kind, input), 1, k)))

RenWhole(before, kind, input, after) ==
    Joined(Joined(before, FlattenSeq(RenParts(kind, input))), after)

LEMMA RenPartsSeq ==
    ASSUME NEW kind, NEW input \in RenInputs
    PROVE  /\ RenParts(kind, input) \in Seq(Seq(RenPieces))
           /\ Len(RenParts(kind, input)) = Len(input)
           /\ \A i \in 1..Len(input) :
                 /\ <<RenPlaceholder(input[i])>> \in Seq(RenPieces)
                 /\ RenParts(kind, input)[i] =
                       IF kind = "boundary"
                       THEN Joined(<<RenPlaceholder(input[i])>>, input[i].pieces)
                       ELSE input[i].pieces
<1> DEFINE P == RenPieces
           n == Len(input)
           part(i) == IF kind = "boundary"
                      THEN Joined(<<RenPlaceholder(input[i])>>, input[i].pieces)
                      ELSE input[i].pieces
           parts == RenParts(kind, input)
<1>1. /\ n \in Nat /\ DOMAIN input = 1..n
      /\ \A i \in 1..n : input[i].pieces \in Seq(P) /\ RenPlaceholder(input[i]) \in P
  BY RenInputsMarkup
<1> HIDE DEF P, n
<1>2. \A i \in 1..n : <<RenPlaceholder(input[i])>> \in Seq(P)
  BY <1>1
<1>3. \A i \in 1..n : part(i) \in Seq(P)
  BY <1>1, <1>2, JoinedSeq
<1>4. \A i \in 1..n : (IF kind = "boundary" THEN <<RenPlaceholder(input[i])>> ELSE <<>>)
                          \o input[i].pieces = part(i)
  <2> TAKE i \in 1..n
  <2>1. CASE kind = "boundary"
    BY <2>1 DEF Joined
  <2>2. CASE kind # "boundary"
    BY <1>1, <2>2
  <2> QED BY <2>1, <2>2
<1>5. parts = [i \in 1..n |-> part(i)]
  <2> HIDE DEF part
  <2> QED BY <1>1, <1>4 DEF RenParts
<1> HIDE DEF part, parts
<1>6. parts \in Seq(Seq(P)) /\ Len(parts) = n /\ \A i \in 1..n : parts[i] = part(i)
  BY <1>3, <1>5, <1>1
<1> QED BY <1>2, <1>6 DEF part, parts, P, n

\* One more part.
RenStepped(s, kind, b) ==
    IF kind = "boundary" THEN Joined(Joined(s, <<RenPlaceholder(b)>>), b.pieces)
    ELSE Joined(s, b.pieces)

LEMMA RenSentSteps ==
    ASSUME NEW kind, NEW input \in RenInputs, NEW before \in Seq(RenPieces)
    PROVE  /\ RenSent(before, kind, input, 0) = before
           /\ \A k \in 0..Len(input) : RenSent(before, kind, input, k) \in Seq(RenPieces)
           /\ \A k \in 1..Len(input) :
                 RenSent(before, kind, input, k)
                    = RenStepped(RenSent(before, kind, input, k - 1), kind, input[k])
<1> DEFINE P == RenPieces
           n == Len(input)
           parts == RenParts(kind, input)
           F(k) == FlattenSeq(SubSeq(parts, 1, k))
<1>1. /\ n \in Nat /\ parts \in Seq(Seq(P)) /\ Len(parts) = n
      /\ \A i \in 1..n :
            /\ <<RenPlaceholder(input[i])>> \in Seq(P)
            /\ input[i].pieces \in Seq(P)
            /\ parts[i] = IF kind = "boundary"
                          THEN Joined(<<RenPlaceholder(input[i])>>, input[i].pieces)
                          ELSE input[i].pieces
  BY RenPartsSeq, RenInputsMarkup
<1> HIDE DEF P, parts, n
<1>2. F(0) = <<>>
  <2>1. SubSeq(parts, 1, 0) = <<>>
    BY SubSeqEmpty
  <2> QED BY <2>1, FlattenNone
<1>3. \A k \in 0..n : F(k) \in Seq(P)
  <2> TAKE k \in 0..n
  <2> DEFINE s == SubSeq(parts, 1, k)
  <2>1. s \in Seq(Seq(P))
    BY <1>1
  <2> HIDE DEF s
  <2>2. FlattenSeq(s) \in Seq(P)
    BY <2>1, FlattenInSeq
  <2> QED BY <2>2 DEF s
<1>4. \A k \in 1..n : F(k) = Joined(F(k - 1), parts[k])
  BY <1>1, FlattenSteps
<1> HIDE DEF F
<1>5. \A k : RenSent(before, kind, input, k) = Joined(before, F(k))
  BY DEF RenSent, F, parts
<1>6. RenSent(before, kind, input, 0) = before
  <2>1. before \in Seq(P)
    BY DEF P
  <2> QED BY <1>2, <1>5, <2>1, JoinedEmpty
<1>7. \A k \in 0..n : RenSent(before, kind, input, k) \in Seq(P)
  <2>1. before \in Seq(P)
    BY DEF P
  <2> QED BY <1>3, <1>5, <2>1, JoinedSeq
<1>8. ASSUME NEW k \in 1..n
      PROVE  RenSent(before, kind, input, k)
                = RenStepped(RenSent(before, kind, input, k - 1), kind, input[k])
  <2> DEFINE s == RenSent(before, kind, input, k - 1)
             ph == <<RenPlaceholder(input[k])>>
             x == input[k].pieces
             pt == parts[k]
  <2>1. k - 1 \in 0..n
    BY <1>1
  <2>2. ph \in Seq(P) /\ x \in Seq(P) /\ pt = (IF kind = "boundary" THEN Joined(ph, x) ELSE x)
    BY <1>1
  <2>3. before \in Seq(P) /\ F(k - 1) \in Seq(P) /\ s = Joined(before, F(k - 1)) /\ s \in Seq(P)
    BY <1>3, <1>5, <1>7, <2>1 DEF P
  <2>4. RenSent(before, kind, input, k) = Joined(before, Joined(F(k - 1), pt))
    BY <1>4, <1>5
  <2> HIDE DEF s, ph, x, pt
  <2>5. pt \in Seq(P)
    BY <2>2, JoinedSeq
  <2>6. Joined(before, Joined(F(k - 1), pt)) = Joined(s, pt)
    BY <2>3, <2>5, JoinedAssoc
  <2>7. Joined(s, Joined(ph, x)) = Joined(Joined(s, ph), x)
    BY <2>2, <2>3, JoinedAssoc
  <2>8. RenSent(before, kind, input, k) =
           IF kind = "boundary" THEN Joined(Joined(s, ph), x) ELSE Joined(s, x)
    BY <2>2, <2>4, <2>6, <2>7
  <2> QED BY <2>8 DEF s, ph, x, RenStepped
<1> QED BY <1>6, <1>7, <1>8 DEF P, n

LEMMA RenSentAll ==
    ASSUME NEW kind, NEW input \in RenInputs, NEW before, NEW after
    PROVE  Joined(RenSent(before, kind, input, Len(input)), after)
              = RenWhole(before, kind, input, after)
<1> DEFINE parts == RenParts(kind, input)
<1>1. parts \in Seq(Seq(RenPieces)) /\ Len(parts) = Len(input)
  BY RenPartsSeq
<1> HIDE DEF parts
<1>2. SubSeq(parts, 1, Len(input)) = parts
  BY <1>1
<1> QED BY <1>2 DEF RenSent, RenWhole, parts

\* After every part, what has been sent is a prefix of the document.
LEMMA RenSentRest ==
    ASSUME NEW kind, NEW input \in RenInputs,
           NEW before \in Seq(RenPieces), NEW after \in Seq(RenPieces)
    PROVE  \A k \in 0..Len(input) : \E t \in Seq(RenPieces) :
              Joined(RenSent(before, kind, input, k), t) = RenWhole(before, kind, input, after)
<1> DEFINE P == RenPieces
           n == Len(input)
           S(k) == RenSent(before, kind, input, k)
           W == RenWhole(before, kind, input, after)
           part(k) == IF kind = "boundary"
                      THEN Joined(<<RenPlaceholder(input[k])>>, input[k].pieces)
                      ELSE input[k].pieces
           T == {j \in 0..n : \E t \in Seq(P) : Joined(S(n - j), t) = W}
<1>1. /\ n \in Nat
      /\ \A i \in 1..n : <<RenPlaceholder(input[i])>> \in Seq(P) /\ input[i].pieces \in Seq(P)
  BY RenPartsSeq, RenInputsMarkup
<1>2. \A k \in 0..n : S(k) \in Seq(P)
  BY RenSentSteps
<1>0. \A k \in 1..n : S(k) = RenStepped(S(k - 1), kind, input[k])
  BY RenSentSteps
<1>3. Joined(S(n), after) = W /\ after \in Seq(P)
  BY RenSentAll
<1> HIDE DEF P, n, S, W
<1>4. \A k \in 1..n : part(k) \in Seq(P) /\ S(k) = Joined(S(k - 1), part(k))
  <2> TAKE k \in 1..n
  <2> DEFINE s == S(k - 1)
             ph == <<RenPlaceholder(input[k])>>
             x == input[k].pieces
  <2>1. s \in Seq(P) /\ ph \in Seq(P) /\ x \in Seq(P)
    BY <1>1, <1>2
  <2>2. S(k) = IF kind = "boundary" THEN Joined(Joined(s, ph), x) ELSE Joined(s, x)
    BY <1>0 DEF RenStepped
  <2> HIDE DEF s, ph, x
  <2>3. Joined(Joined(s, ph), x) = Joined(s, Joined(ph, x)) /\ Joined(ph, x) \in Seq(P)
    BY <2>1, JoinedAssoc, JoinedSeq
  <2>4. part(k) = IF kind = "boundary" THEN Joined(ph, x) ELSE x
    BY DEF ph, x
  <2> HIDE DEF part
  <2> QED BY <2>1, <2>2, <2>3, <2>4 DEF s
<1> HIDE DEF part
<1>5. 0 \in T
  <2>1. n - 0 = n /\ 0 \in 0..n
    BY <1>1
  <2> QED BY <1>3, <2>1
<1>6. \A j \in 0..n : j < n /\ j \in T => j + 1 \in T
  BY <1>1, <1>2, <1>4, JoinedAssoc, JoinedSeq
<1>7. \A j \in 0..n : j \in T
  <2> HIDE DEF T
  <2> QED BY <1>1, <1>5, <1>6, UpTo
<1>8. ASSUME NEW k \in 0..n PROVE \E t \in Seq(P) : Joined(S(k), t) = W
  <2>1. n - k \in 0..n /\ n - (n - k) = k
    BY <1>1
  <2>2. n - k \in T
    BY <1>7, <2>1
  <2> QED BY <2>1, <2>2
<1> QED BY <1>8 DEF P, n, S, W

-----------------------------------------------------------------------------
(* The invariant, of a record.                                             *)

RenGood(r) ==
    /\ RenShape(r)
    /\ \/ r = RenIdle
       \/ r.doc = {} /\ r.phase = "refused"
       \/ \E doc, input : RenOpened(r, doc, input) /\ RenPolling(r)
       \/ \E doc : RenEnded(r, doc)

LEMMA RenOpenedFacts ==
    ASSUME NEW r, NEW doc, NEW input, RenOpened(r, doc, input)
    PROVE  /\ r.before \in Seq(RenPieces) /\ r.after \in Seq(RenPieces)
           /\ Len(input) \in Nat /\ RenOptions.inFlight \in Nat /\ RenOptions.inFlight > 0
           /\ RenOptions.maxBytes \in Nat
<1>1. RenLayoutsMatch(doc)
  BY DEF RenOpened, RenDocumentValid
<1>2. r.before \in Seq(RenPieces) /\ r.after \in Seq(RenPieces)
  BY <1>1, RenShellEncloses DEF RenOpened
<1>3. Len(input) \in Nat
  BY RenInputsMarkup DEF RenOpened
<1>4. RenOptions.inFlight \in Nat /\ RenOptions.inFlight > 0 /\ RenOptions.maxBytes \in Nat
  BY RenOptionsAssumption DEF RenOpened, RenOptionsValid
<1> QED BY <1>2, <1>3, <1>4

LEMMA RenOpenedExpects ==
    ASSUME NEW r, NEW doc, NEW input, RenOpened(r, doc, input), NEW kind
    PROVE  RenExpectedOf(doc, kind, input) = RenWhole(r.before, kind, input, r.after)
<1> DEFINE x == FlattenSeq(RenParts(kind, input))
<1>1. RenLayoutsMatch(doc)
  BY DEF RenOpened, RenDocumentValid
<1>2. x \in Seq(RenPieces)
  BY RenPartsSeq, FlattenInSeq DEF RenOpened
<1> HIDE DEF x
<1>3. <<RenPrefix(doc)>> \o RenBody(doc, x) \o <<RenSuffix>>
         = Joined(Joined(RenShellBefore(doc), x), RenShellAfter(doc))
  BY <1>1, <1>2, RenShellEncloses DEF RenOpened
<1>4. RenExpectedOf(doc, kind, input)
         = Joined(Joined(RenShellBefore(doc), x), RenShellAfter(doc))
  BY <1>3 DEF RenExpectedOf, x
<1> QED BY <1>4 DEF RenWhole, RenOpened, x

LEMMA RenUpToSent ==
    ASSUME NEW r, NEW doc, NEW input, RenOpened(r, doc, input), NEW k
    PROVE  RenUpTo(r, k) = RenSent(r.before, r.kind, input, k)
  BY DEF RenUpTo, RenSent, RenOpened, Joined

\* What a response being polled has sent is safe to stop at.
LEMMA RenPollingSafe ==
    ASSUME NEW r, NEW doc, NEW input, RenOpened(r, doc, input), RenPolling(r)
    PROVE  RenSafe(r, doc) /\ r.out \in Seq(RenPieces)
<1> DEFINE P == RenPieces
           n == Len(input)
           S(k) == RenSent(r.before, r.kind, input, k)
           W == RenWhole(r.before, r.kind, input, r.after)
           h == RenOldest(r)
           ph == <<RenPlaceholder(input[h])>>
<1>1. /\ r.before \in Seq(P) /\ r.after \in Seq(P) /\ n \in Nat /\ RenOptions.inFlight \in Nat
      /\ RenOptions.maxBytes \in Nat /\ input \in RenInputs /\ r.input = input
  BY RenOpenedFacts DEF RenOpened
<1>2. RenExpectedOf(doc, r.kind, input) = W
  BY RenOpenedExpects
<1>3. \A k : RenUpTo(r, k) = S(k)
  BY RenUpToSent
<1>4. \A k \in 0..n : S(k) \in Seq(P)
  BY <1>1, RenSentSteps
<1>5. \A k \in 0..n : \E t \in Seq(P) : Joined(S(k), t) = W
  BY <1>1, RenSentRest
<1>6. \A k \in 1..n : S(k) = RenStepped(S(k - 1), r.kind, input[k])
  BY <1>1, RenSentSteps
<1>7. S(0) = r.before
  BY <1>1, RenSentSteps
<1>8. RenWindow(r) /\ r.kind \in {"ordered", "boundary"}
  BY DEF RenPolling
<1>9. r.next \in 1..(n + 1) /\ Len(r.active) \in Nat /\ Len(r.active) < r.next
  BY <1>1, <1>8 DEF RenWindow
<1>10. h \in 1..(n + 1) /\ (r.active # <<>> => h \in 1..n) /\ h - 1 \in 0..n
  <2>1. r.active # <<>> => Len(r.active) > 0
    BY <1>8 DEF RenWindow
  <2> QED BY <1>1, <1>9, <2>1 DEF RenOldest
<1>11. Len(r.active) <= RenOptions.inFlight
  <2>1. CASE r.kind = "boundary"
    BY <1>8, <2>1 DEF RenWindow
  <2>2. CASE r.kind # "boundary"
    <3>1. Len(r.active) = 0
      BY <1>8, <2>2 DEF RenWindow
    <3> QED BY <1>1, <3>1
  <2> QED BY <2>1, <2>2
<1> HIDE DEF S, W, P, n, h
<1>12. r.out \in Seq(P) /\ \E t \in Seq(P) : Joined(r.out, t) = W
  <2>0. W = Joined(<<>>, W) /\ W \in Seq(P) /\ <<>> \in Seq(P)
    BY <1>1, <1>5, <1>4, JoinedSeq, JoinedEmpty
  <2>1. CASE r.phase = "Prefix"
    <3>1. r.out = <<>>
      BY <2>1 DEF RenPolling
    <3> QED BY <2>0, <3>1
  <2>2. CASE r.phase \in {"Chunks", "Placeholder"}
    <3>1. r.out = S(h - 1)
      BY <1>3, <2>2 DEF RenPolling, h
    <3> QED BY <1>4, <1>5, <1>10, <3>1
  <2>3. CASE r.phase = "Resolution"
    <3>1. r.out = Joined(S(h - 1), ph) /\ r.active # <<>> /\ r.kind = "boundary"
      BY <1>1, <1>3, <2>3 DEF RenPolling, h, Joined
    <3>2. h \in 1..n /\ h - 1 \in 0..n /\ h \in 0..n
      BY <1>1, <1>10, <3>1
    <3> DEFINE x == input[h].pieces
               s == S(h - 1)
    <3>3. ph \in Seq(P) /\ x \in Seq(P)
      BY <1>1, <3>2, RenPartsSeq, RenInputsMarkup DEF P, n
    <3>4. S(h) = Joined(Joined(s, ph), x)
      BY <1>6, <3>1, <3>2 DEF RenStepped
    <3>5. s \in Seq(P)
      BY <1>4, <3>2
    <3>6. PICK t \in Seq(P) : Joined(S(h), t) = W
      BY <1>5, <3>2
    <3> HIDE DEF s, ph, x
    <3>7. Joined(s, ph) \in Seq(P)
      BY <3>3, <3>5, JoinedSeq
    <3>8. Joined(Joined(s, ph), Joined(x, t)) = W /\ Joined(x, t) \in Seq(P)
      BY <3>3, <3>4, <3>6, <3>7, JoinedAssoc, JoinedSeq
    <3> QED BY <3>1, <3>7, <3>8 DEF s
  <2>4. CASE r.phase = "Suffix"
    <3>1. r.out = S(n) /\ n \in 0..n
      BY <1>1, <1>3, <2>4 DEF RenPolling, n
    <3> QED BY <1>4, <1>5, <3>1
  <2>5. r.phase \in {"Prefix", "Chunks", "Placeholder", "Resolution", "Suffix"}
    BY DEF RenPolling
  <2> QED BY <2>1, <2>2, <2>3, <2>4, <2>5
<1>13. IsPrefix(r.out, W)
  BY <1>12, JoinedPrefix
<1>14. RenBytes(r.out) <= RenOptions.maxBytes
  <2>1. RenBytes(r.out) \in Nat /\ RenBytes(r.after) \in Nat /\ RenBytes(r.before) \in Nat
    BY <1>1, <1>12, RenBytesNat, RenPiecesSized DEF P
  <2>2. CASE r.phase = "Prefix"
    BY <2>2, RenBytesNone, <1>1 DEF RenPolling
  <2>3. CASE r.phase # "Prefix"
    <3>1. \E m \in Nat : RenBudget(r, r.out, m)
      BY <1>1, <1>10, <2>3 DEF RenPolling, n, h
    <3>2. PICK m \in Nat : RenBudget(r, r.out, m)
      BY <3>1
    <3> DEFINE z == IF r.kind = "boundary" THEN m ELSE 0
    <3>3. z \in Nat /\ r.remaining \in Nat
          /\ RenBytes(r.out) + RenBytes(r.after) + r.remaining + z = RenOptions.maxBytes
      BY <3>2 DEF RenBudget
    <3> HIDE DEF z
    <3> QED BY <1>1, <2>1, <3>3
  <2> QED BY <2>2, <2>3
<1> QED BY <1>1, <1>2, <1>11, <1>12, <1>13, <1>14 DEF RenSafe, P

-----------------------------------------------------------------------------
(* The steps of a body.                                                    *)

\* What no poll changes.
RenSameResponse(q, r) ==
    /\ q.kind = r.kind /\ q.before = r.before /\ q.after = r.after
    /\ q.input = r.input /\ q.doc = r.doc

LEMMA RenSameOpened ==
    ASSUME NEW r, NEW q, RenSameResponse(q, r), NEW doc, NEW input, RenOpened(r, doc, input)
    PROVE  RenOpened(q, doc, input)
  BY DEF RenSameResponse, RenOpened

LEMMA RenSameSafe ==
    ASSUME NEW r, NEW q, RenSameResponse(q, r), NEW doc, RenSafe(r, doc), q.out = r.out,
           Len(q.active) <= RenOptions.inFlight
    PROVE  RenSafe(q, doc)
  BY DEF RenSameResponse, RenSafe

\* A body that fails, or is dropped, where it may be stopped.
LEMMA RenStopsGood ==
    ASSUME NEW r, NEW q, RenShape(q), RenSameResponse(q, r), NEW doc, NEW input,
           RenOpened(r, doc, input), RenPolling(r), q.out = r.out,
           Len(q.active) <= RenOptions.inFlight,
           q.phase = "dropped" \/ (q.phase = "Done" /\ q.error # "none")
    PROVE  RenGood(q)
  BY RenPollingSafe, RenSameSafe DEF RenEnded, RenOpened, RenSameResponse, RenGood

LEMMA RenMinOfTwo ==
    ASSUME NEW a \in Nat, NEW b \in Nat
    PROVE  Min({a, b}) \in {a, b} /\ Min({a, b}) <= a /\ Min({a, b}) <= b
  BY DEF Min

\* fill_in_flight keeps the window consecutive and fills it.
LEMMA RenFillWindow ==
    ASSUME NEW r, RenShape(r), r.kind = "boundary", Len(r.input) \in Nat,
           RenOptions.inFlight \in Nat,
           r.next \in 1..(Len(r.input) + 1), r.active \in Seq(Nat), Len(r.active) < r.next,
           Len(r.active) <= RenOptions.inFlight,
           \A i \in 1..Len(r.active) : r.active[i] = RenOldest(r) + i - 1
    PROVE  /\ RenShape(RenFill(r)) /\ RenWindow(RenFill(r))
           /\ RenOldest(RenFill(r)) = RenOldest(r)
           /\ RenSameResponse(RenFill(r), r)
           /\ RenFill(r).out = r.out /\ RenFill(r).phase = r.phase /\ RenFill(r).error = r.error
           /\ RenFill(r).remaining = r.remaining /\ RenFill(r).ended = r.ended
<1> DEFINE a == RenOptions.inFlight - Len(r.active)
           b == Len(r.input) - r.next + 1
           n == Min({a, b})
           more == [i \in 1..n |-> r.next + i - 1]
           q == RenFill(r)
           l == Len(r.active)
<1>1. l \in Nat /\ r.next \in Nat /\ a \in Nat /\ b \in Nat
  OBVIOUS
<1>2. n \in {a, b} /\ n <= a /\ n <= b
  <2> HIDE DEF a, b
  <2> QED BY <1>1, RenMinOfTwo
<1>3. n \in Nat
  <2> HIDE DEF a, b, n
  <2> QED BY <1>1, <1>2
<1>4. q = [r EXCEPT !.active = r.active \o more, !.next = r.next + n]
  BY DEF RenFill
<1> HIDE DEF n, more, q
<1>5. more \in Seq(Nat) /\ Len(more) = n /\ \A i \in 1..n : more[i] = r.next + i - 1
  BY <1>1, <1>3 DEF more
<1>6. q.active = Joined(r.active, more) /\ q.next = r.next + n
  BY <1>4 DEF RenShape, Joined
<1>7. RenShape(q) /\ RenSameResponse(q, r) /\ q.out = r.out /\ q.phase = r.phase
      /\ q.error = r.error /\ q.remaining = r.remaining /\ q.ended = r.ended
  BY <1>4 DEF RenShape, RenSameResponse
<1>8. q.active \in Seq(Nat) /\ Len(q.active) = l + n
  BY <1>5, <1>6, JoinedSeq, JoinedLen
<1>9. RenOldest(q) = RenOldest(r) /\ RenOldest(r) = r.next - l
  BY <1>6, <1>8, <1>1, <1>3 DEF RenOldest
<1>0. (\A i \in 1..l : q.active[i] = r.active[i]) /\ \A j \in 1..n : q.active[l + j] = more[j]
  <2> DEFINE s == r.active
  <2>1. s \in Seq(Nat) /\ more \in Seq(Nat) /\ q.active = Joined(s, more) /\ Len(more) = n
    BY <1>5, <1>6
  <2> HIDE DEF s
  <2>2. (\A i \in 1..Len(s) : Joined(s, more)[i] = s[i])
        /\ \A i \in 1..Len(more) : Joined(s, more)[Len(s) + i] = more[i]
    BY ONLY <2>1, JoinedAt
  <2> QED BY <2>1, <2>2 DEF s
<1>10. \A i \in 1..Len(q.active) : q.active[i] = RenOldest(q) + i - 1
  <2> TAKE i \in 1..Len(q.active)
  <2>1. CASE i <= l
    BY <1>1, <1>3, <1>8, <2>1, <1>0, <1>9
  <2>2. CASE ~(i <= l)
    <3>1. i - l \in 1..n /\ l + (i - l) = i
      BY <1>1, <1>3, <1>8, <2>2
    <3>3. q.active[l + (i - l)] = r.next + (i - l) - 1
      BY <1>0, <1>5, <3>1
    <3> DEFINE x == r.next
    <3>4. q.active[i] = x + (i - l) - 1 /\ RenOldest(q) = x - l
      BY ONLY <1>9, <3>1, <3>3
    <3>5. x \in Nat /\ l \in Nat /\ i \in Nat
      BY <1>1, <1>3, <1>8
    <3> HIDE DEF x, l
    <3>6. x + (i - l) - 1 = (x - l) + i - 1
      BY ONLY <3>5
    <3> QED BY ONLY <3>4, <3>6
  <2> QED BY <2>1, <2>2
<1>11. q.input = r.input /\ q.kind = "boundary"
  BY <1>7 DEF RenSameResponse
<1>12. q.next \in 1..(Len(q.input) + 1) /\ Len(q.active) < q.next
  <2>0. Len(r.input) \in Nat /\ l < r.next /\ r.next >= 1
    OBVIOUS
  <2>1. r.next + n \in 1..(Len(r.input) + 1) /\ l + n < r.next + n
    <3> DEFINE k == Len(r.input)
               x == r.next
    <3>1. n <= k - x + 1
      BY <1>2
    <3>2. k \in Nat /\ l < x /\ x \in Nat /\ x >= 1 /\ n \in Nat /\ l \in Nat
      BY <1>1, <1>3, <2>0
    <3> HIDE DEF k, l, x, n
    <3>3. x + n \in 1..(k + 1) /\ l + n < x + n
      BY ONLY <3>1, <3>2
    <3> QED BY ONLY <3>3 DEF k, x
  <2> QED BY <1>6, <1>8, <1>11, <2>1
<1>13. Len(q.active) <= RenOptions.inFlight
       /\ (Len(q.active) = RenOptions.inFlight \/ q.next = Len(q.input) + 1)
  <2>1. n = a => l + n = RenOptions.inFlight
    BY <1>1
  <2>2. n = b => r.next + n = Len(r.input) + 1
    BY <1>1
  <2>3. l + n <= RenOptions.inFlight
    BY <1>1, <1>2, <1>3
  <2> HIDE DEF a, b
  <2> QED BY <1>2, <1>6, <1>8, <1>11, <2>1, <2>2, <2>3
<1>14. RenWindow(q)
  BY <1>8, <1>10, <1>11, <1>12, <1>13 DEF RenWindow
<1> QED BY <1>7, <1>9, <1>14 DEF q

\* Rendering one more part: it fails and sends nothing, or fits the budget.
LEMMA RenChunkCases ==
    ASSUME NEW r, RenShape(r), NEW chunk, NEW P, RenSized(P), chunk.pieces \in Seq(P),
           r.remaining \in Nat
    PROVE  LET q == RenChunk(r, chunk)
           IN  /\ RenShape(q) /\ RenSameResponse(q, r)
               /\ q.active = r.active /\ q.next = r.next /\ q.ended = r.ended
               /\ \/ q.phase = "Done" /\ q.error # "none" /\ q.out = r.out
                  \/ /\ q.phase = r.phase /\ q.error = r.error
                     /\ q.out = Joined(r.out, chunk.pieces)
                     /\ q.remaining \in Nat
                     /\ q.remaining + RenBytes(chunk.pieces) = r.remaining
<1> DEFINE q == RenChunk(r, chunk)
           m == RenBytes(chunk.pieces)
<1>1. m \in Nat
  BY RenBytesNat
<1>2. ASSUME NEW why, why # "none", q = RenFail(r, why)
      PROVE  /\ RenShape(q) /\ RenSameResponse(q, r)
             /\ q.active = r.active /\ q.next = r.next /\ q.ended = r.ended
             /\ q.phase = "Done" /\ q.error # "none" /\ q.out = r.out
  <2> HIDE DEF q
  <2> QED BY <1>2 DEF RenFail, RenShape, RenSameResponse
<1>3. CASE q = [RenEmit(r, chunk.pieces) EXCEPT !.remaining = @ - m] /\ m <= r.remaining
  <2> HIDE DEF q, m
  <2>1. q = [r EXCEPT !.out = r.out \o chunk.pieces, !.remaining = r.remaining - m]
    BY <1>3 DEF RenEmit, RenShape
  <2>2. /\ RenShape(q) /\ RenSameResponse(q, r)
        /\ q.active = r.active /\ q.next = r.next /\ q.ended = r.ended
        /\ q.phase = r.phase /\ q.error = r.error /\ q.remaining = r.remaining - m
    BY <2>1 DEF RenShape, RenSameResponse
  <2>3. q.out = Joined(r.out, chunk.pieces)
    BY <2>1 DEF RenShape, Joined
  <2>4. q.remaining \in Nat /\ q.remaining + m = r.remaining
    BY <1>1, <1>3, <2>2
  <2> QED BY <2>2, <2>3, <2>4 DEF q, m
<1>4. \/ q = RenFail(r, "InvalidLimits") \/ q = RenFail(r, "panic") \/ q = RenFail(r, "render")
      \/ q = [RenEmit(r, chunk.pieces) EXCEPT !.remaining = @ - m] /\ ~(m > r.remaining)
  BY DEF RenChunk
<1>5. ~(m > r.remaining) => m <= r.remaining
  BY <1>1
<1> HIDE DEF q
<1> QED BY <1>2, <1>3, <1>4, <1>5 DEF q

LEMMA RenPolled ==
    ASSUME NEW r, RenGood(r), r.phase \notin {"none", "Done", "refused", "dropped"}
    PROVE  \E doc, input : RenOpened(r, doc, input) /\ RenPolling(r)
  BY DEF RenIdle, RenEnded, RenGood

LEMMA RenWindowFacts ==
    ASSUME NEW r, NEW doc, NEW input, RenOpened(r, doc, input), RenPolling(r)
    PROVE  LET h == RenOldest(r)
               n == Len(input)
           IN  /\ h \in 1..(n + 1) /\ h = r.next - Len(r.active) /\ r.next \in 1..(n + 1)
               /\ r.active \in Seq(Nat) /\ Len(r.active) \in Nat
               /\ Len(r.active) <= RenOptions.inFlight
               /\ r.active # <<>> => h \in 1..n /\ Head(r.active) = h
               /\ r.active = <<>> => h = r.next
               /\ r.active = <<>> /\ r.kind = "boundary" => h = n + 1
<1> DEFINE h == RenOldest(r)
           n == Len(input)
           l == Len(r.active)
<1>1. n \in Nat /\ RenOptions.inFlight \in Nat /\ RenOptions.inFlight > 0 /\ r.input = input
  BY RenOpenedFacts DEF RenOpened
<1>2. RenWindow(r)
  BY DEF RenPolling
<1>3. r.next \in 1..(n + 1) /\ r.active \in Seq(Nat) /\ l \in Nat /\ l < r.next /\ h = r.next - l
  BY <1>1, <1>2 DEF RenWindow, RenOldest
<1>4. l <= RenOptions.inFlight
  BY RenPollingSafe DEF RenSafe
<1>5. r.active # <<>> => h \in 1..n /\ Head(r.active) = h
  <2> HAVE r.active # <<>>
  <2>1. l > 0 /\ Head(r.active) = r.active[1]
    BY <1>3
  <2>2. r.active[1] = h + 1 - 1
    BY <1>2, <1>3, <2>1 DEF RenWindow
  <2> HIDE DEF l, n, h
  <2> QED BY <1>1, <1>3, <2>1, <2>2
<1>6. r.active = <<>> => l = 0
  OBVIOUS
<1>7. l = 0 /\ r.kind = "boundary" => r.next = n + 1
  BY <1>1, <1>2 DEF RenWindow
<1> HIDE DEF l, n, h
<1>8. h \in 1..(n + 1) /\ (l = 0 => h = r.next)
  BY <1>1, <1>3
<1> QED BY <1>3, <1>4, <1>5, <1>6, <1>7, <1>8 DEF l, n, h

-----------------------------------------------------------------------------

LEMMA RenRefuseGood ==
    ASSUME NEW kind, NEW why, RenRefuse(kind, why)
    PROVE  RenGood(ren')
  BY DEF RenRefuse, RenIdle, RenShape, RenGood

LEMMA RenCompleteGood ==
    ASSUME NEW doc \in RenDocuments, NEW input \in RenInputs, input # <<>>,
           RenComplete(doc, input)
    PROVE  RenGood(ren')
<1> DEFINE P == RenPieces
           b == input[1]
           x == b.pieces
           body == RenBody(doc, x)
           pieces == <<RenPrefix(doc)>> \o body \o <<RenSuffix>>
           done == [RenIdle EXCEPT !.kind = "complete", !.phase = "Done", !.out = pieces,
                                   !.doc = {doc}, !.input = <<b>>]
<1>1. CASE \E why : RenRefuse("complete", why)
  BY <1>1, RenRefuseGood
<1>2. CASE RenDocumentValid(doc) /\ ~(RenBytes(pieces) > RenOptions.maxBytes) /\ ren' = done
  <2>1. 1 \in 1..Len(input)
    BY RenInputsAssumption
  <2>2. x \in Seq(P)
    BY <2>1, RenInputsMarkup
  <2>3. RenDocumentOf(doc, P)
    BY <1>2, RenDocumentsMarkup DEF RenDocumentValid
  <2>4. PICK A, B \in Seq(P) : \A y \in Seq(P) : RenBody(doc, y) = Joined(Joined(A, y), B)
    BY <2>3, RenBodyWraps
  <2>5. RenPrefix(doc) \in P /\ RenSuffix \in P
    BY DEF RenPieces, RenShellPieces
  <2> HIDE DEF P, x
  <2>6. body \in Seq(P)
    BY <2>2, <2>4, JoinedSeq
  <2> HIDE DEF body
  <2>7. pieces \in Seq(P)
    BY <2>5, <2>6
  <2>8. FlattenSeq(RenParts("complete", <<b>>)) = x
    <3> DEFINE s == RenParts("complete", <<b>>)
    <3>1. s = <<x>>
      <4>1. <<>> \o x = x
        BY <2>2
      <4> QED BY <4>1 DEF RenParts, x
    <3> HIDE DEF s
    <3>2. s \in Seq(Seq(P)) /\ Len(s) = 1 /\ s[1] = x /\ 1 \in 1..Len(s)
      BY <2>2, <3>1
    <3>3. FlattenSeq(SubSeq(s, 1, 1)) = Joined(FlattenSeq(SubSeq(s, 1, 1 - 1)), s[1])
      BY ONLY <3>2, FlattenSteps
    <3>4. SubSeq(s, 1, 1) = s /\ SubSeq(s, 1, 1 - 1) = <<>>
      BY <3>2
    <3>5. FlattenSeq(s) = Joined(<<>>, x)
      BY <3>2, <3>3, <3>4, FlattenNone
    <3> QED BY <2>2, <3>5, JoinedEmpty DEF s
  <2>9. RenExpectedOf(doc, "complete", <<b>>) = pieces
    BY <2>8 DEF RenExpectedOf, body
  <2> HIDE DEF pieces
  <2>10. /\ RenShape(ren') /\ ren'.out = pieces /\ ren'.kind = "complete" /\ ren'.doc = {doc}
         /\ ren'.input = <<b>> /\ ren'.phase = "Done" /\ ren'.active = <<>>
    <3> HIDE DEF b
    <3> QED BY <1>2 DEF RenIdle, RenShape
  <2>11. IsPrefix(pieces, pieces)
    <3>1. IsPrefix(pieces, Joined(pieces, <<>>)) /\ Joined(pieces, <<>>) = pieces
      <4>1. <<>> \in Seq(P)
        OBVIOUS
      <4> QED BY <2>7, <4>1, JoinedPrefix, JoinedEmpty
    <3> QED BY <3>1
  <2>12. RenBytes(pieces) <= RenOptions.maxBytes
    <3>1. RenBytes(pieces) \in Nat
      BY <2>7, RenBytesNat, RenPiecesSized DEF P
    <3> QED BY <1>2, <3>1, RenOptionsAssumption
  <2>13. Len(ren'.active) <= RenOptions.inFlight
    BY <2>10, RenOptionsAssumption
  <2>14. RenEnded(ren', doc)
    BY <2>9, <2>10, <2>11, <2>12, <2>13 DEF RenEnded, RenSafe
  <2> QED BY <2>10, <2>14 DEF RenGood
<1>3. \/ \E why : RenRefuse("complete", why)
      \/ RenDocumentValid(doc) /\ ~(RenBytes(pieces) > RenOptions.maxBytes) /\ ren' = done
  BY DEF RenComplete
<1> QED BY <1>1, <1>2, <1>3

LEMMA RenPlaceholderBytes ==
    ASSUME NEW input \in RenInputs
    PROVE  RenBytes([i \in DOMAIN input |-> RenPlaceholder(input[i])]) = Len(input)
  BY RenInputsMarkup, RenBytesOnes, RenPiecesSized DEF RenPlaceholder

LEMMA RenStreamGood ==
    ASSUME NEW doc \in RenDocuments, NEW input \in RenInputs, NEW kind \in {"ordered", "boundary"},
           RenOptionsValid(RenOptions), RenStream(kind, doc, input)
    PROVE  RenGood(ren')
<1> DEFINE over == RenOverhead(kind, doc, input)
           B == RenShellBefore(doc)
           A == RenShellAfter(doc)
           m == RenOptions.maxBytes - over
           o == [RenIdle EXCEPT !.kind = kind, !.phase = "Prefix", !.input = input,
                            !.before = B, !.after = A,
                            !.remaining = m, !.doc = {doc}]
           n == Len(input)
<1>1. CASE \E why : RenRefuse(kind, why)
  BY <1>1, RenRefuseGood
<1>2. CASE /\ RenDocumentValid(doc) /\ Cardinality(RenSlots(doc)) = 1
           /\ ~(over > RenOptions.maxBytes)
           /\ ren' = IF kind = "boundary" THEN RenFill(o) ELSE o
  <2>1. B \in Seq(RenPieces) /\ A \in Seq(RenPieces)
    BY <1>2, RenShellEncloses DEF RenDocumentValid
  <2>2. n \in Nat
    BY RenInputsMarkup
  <2>3. RenBytes(B) \in Nat /\ RenBytes(A) \in Nat
    BY <2>1, RenBytesNat, RenPiecesSized
  <2>4. over = RenBytes(B) + RenBytes(A) + (IF kind = "boundary" THEN n ELSE 0)
    BY <2>1, RenBytesJoin, RenPiecesSized, RenPlaceholderBytes, <2>3 DEF Joined, RenOverhead,
       B, A
  <2> DEFINE z == IF kind = "boundary" THEN n ELSE 0
  <2>5. z \in Nat
    BY <2>2
  <2> HIDE DEF over, z, n
  <2>6. m \in Nat /\ RenBytes(B) + RenBytes(A) + m + z = RenOptions.maxBytes
    BY <1>2, <2>3, <2>4, <2>5, RenOptionsAssumption DEF z
  <2>7. /\ RenShape(o) /\ o.kind = kind /\ o.phase = "Prefix" /\ o.input = input
        /\ o.before = B /\ o.after = A /\ o.remaining = m /\ o.doc = {doc} /\ o.next = 1
        /\ o.active = <<>> /\ o.ended = {} /\ o.out = <<>> /\ o.error = "none"
    <3>1. o = [RenIdle EXCEPT !.kind = kind, !.phase = "Prefix", !.input = input,
                              !.before = B, !.after = A, !.remaining = m, !.doc = {doc}]
      OBVIOUS
    <3> HIDE DEF B, A, m, o
    <3> QED BY <3>1 DEF RenIdle, RenShape
  <2> HIDE DEF o, B, A, m
  <2>8. RenOpened(o, doc, input)
    BY <1>2, <2>7 DEF RenOpened, B, A
  <2>9. Len(o.active) = 0 /\ RenOldest(o) = 1
    BY <2>7 DEF RenOldest
  <2>10. RenBudget(o, o.before, n)
    BY <2>6, <2>7 DEF RenBudget, z
  <2>11. RenOptions.inFlight \in Nat
    BY RenOptionsAssumption
  <2>12. CASE kind = "ordered"
    <3>1. ren' = o
      BY <1>2, <2>12
    <3>2. 1 \in 1..(n + 1)
      BY <2>2
    <3>3. RenWindow(o)
      BY <2>2, <2>7, <2>9, <2>12, <3>2 DEF RenWindow, n
    <3>4. RenPolling(o)
      BY <2>7, <2>9, <2>10, <2>12, <3>3 DEF RenPolling, n
    <3> QED BY <2>7, <2>8, <3>1, <3>4 DEF RenGood
  <2>13. CASE kind = "boundary"
    <3> DEFINE q == RenFill(o)
    <3>1. ren' = q
      BY <1>2, <2>13
    <3>2. /\ RenShape(o) /\ o.kind = "boundary" /\ Len(o.input) \in Nat
          /\ RenOptions.inFlight \in Nat
          /\ o.next \in 1..(Len(o.input) + 1) /\ o.active \in Seq(Nat) /\ Len(o.active) < o.next
          /\ Len(o.active) <= RenOptions.inFlight
          /\ \A i \in 1..Len(o.active) : o.active[i] = RenOldest(o) + i - 1
      BY <2>2, <2>7, <2>9, <2>11, <2>13 DEF n
    <3>3. /\ RenShape(q) /\ RenWindow(q) /\ RenOldest(q) = RenOldest(o)
          /\ RenSameResponse(q, o) /\ q.out = o.out /\ q.phase = o.phase /\ q.error = o.error
          /\ q.remaining = o.remaining /\ q.ended = o.ended
      BY ONLY <3>2, RenFillWindow
    <3> HIDE DEF q
    <3>4. RenOpened(q, doc, input)
      BY <2>8, <3>3, RenSameOpened
    <3>5. q.before = o.before /\ q.after = o.after /\ q.kind = o.kind /\ q.input = o.input
      BY <3>3 DEF RenSameResponse
    <3>6. RenBudget(q, q.before, n)
      BY <2>10, <3>3, <3>5 DEF RenBudget
    <3>7. RenPolling(q)
      BY <2>7, <2>9, <2>13, <3>3, <3>5, <3>6 DEF RenPolling, n
    <3> QED BY <3>1, <3>3, <3>4, <3>7 DEF RenGood
  <2> QED BY <2>12, <2>13
<1>3. \/ \E why : RenRefuse(kind, why)
      \/ /\ RenDocumentValid(doc) /\ Cardinality(RenSlots(doc)) = 1
         /\ ~(over > RenOptions.maxBytes)
         /\ ren' = IF kind = "boundary" THEN RenFill(o) ELSE o
  BY DEF RenStream
<1> QED BY <1>1, <1>2, <1>3

LEMMA RenOpenGood == ASSUME RenOpen PROVE RenGood(ren')
  BY RenCompleteGood, RenStreamGood DEF RenOpen

-----------------------------------------------------------------------------

LEMMA RenPollPrefixGood == ASSUME RenGood(ren), RenPollPrefix PROVE RenGood(ren')
<1>1. PICK doc, input : RenOpened(ren, doc, input) /\ RenPolling(ren)
  BY RenPolled DEF RenPollPrefix
<1> DEFINE r == ren
           q == ren'
           next == IF r.kind = "ordered" THEN "Chunks" ELSE "Placeholder"
<1>2. RenShape(r) /\ r.phase = "Prefix"
  BY DEF RenGood, RenPollPrefix
<1>3. r.out = <<>> /\ RenOldest(r) = 1 /\ RenBudget(r, r.before, Len(r.input)) /\ RenWindow(r)
      /\ r.kind \in {"ordered", "boundary"} /\ r.error = "none"
      /\ \A e \in r.ended : e[2] \in RenEndings
  BY <1>1, <1>2 DEF RenPolling
<1>4. r.before \in Seq(RenPieces) /\ r.input = input /\ Len(input) \in Nat /\ input \in RenInputs
  BY <1>1, RenOpenedFacts DEF RenOpened
<1>5. q = [r EXCEPT !.out = <<>> \o r.before, !.phase = next]
  BY <1>2, <1>3 DEF RenPollPrefix, RenEmit, RenShape
<1>6. <<>> \o r.before = r.before
  BY <1>4
<1>7. /\ RenShape(q) /\ RenSameResponse(q, r) /\ q.out = r.before /\ q.phase = next
      /\ q.next = r.next /\ q.active = r.active /\ q.ended = r.ended /\ q.error = r.error
      /\ q.remaining = r.remaining
  <2> HIDE DEF next, q
  <2> QED BY <1>2, <1>5, <1>6 DEF RenShape, RenSameResponse
<1> HIDE DEF q, r
<1>8. q.kind = r.kind /\ q.before = r.before /\ q.input = r.input /\ q.after = r.after
  BY <1>7 DEF RenSameResponse
<1>9. RenOpened(q, doc, input)
  BY <1>1, <1>7, RenSameOpened DEF r
<1>10. RenUpTo(q, 0) = q.before
  BY <1>9, RenUpToSent, <1>4, <1>8, RenSentSteps
<1>11. RenWindow(q) /\ RenOldest(q) = 1 /\ RenOldest(q) - 1 = 0
  BY SMTT(60), <1>3, <1>7, <1>8 DEF RenWindow, RenOldest
<1>12. RenBudget(q, q.out, Len(q.input))
  BY <1>3, <1>7, <1>8 DEF RenBudget
<1>13. CASE q.kind = "ordered"
  <2>1. RenBudget(q, q.out, 0)
    BY <1>12, <1>13 DEF RenBudget
  <2>2. q.phase = "Chunks"
    BY <1>7, <1>8, <1>13
  <2>3. RenPolling(q)
    BY <1>3, <1>7, <1>8, <1>10, <1>11, <1>13, <2>1, <2>2 DEF RenPolling
  <2> QED BY <1>7, <1>9, <2>3 DEF RenGood, q
<1>14. CASE q.kind = "boundary"
  <2>1. RenBudget(q, q.out, Len(q.input) - (RenOldest(q) - 1))
    BY <1>4, <1>8, <1>11, <1>12
  <2>2. q.phase = "Placeholder"
    BY <1>7, <1>8, <1>14
  <2>3. RenPolling(q)
    BY <1>3, <1>7, <1>8, <1>10, <1>11, <1>14, <2>1, <2>2 DEF RenPolling
  <2> QED BY <1>7, <1>9, <2>3 DEF RenGood, q
<1> QED BY <1>3, <1>8, <1>13, <1>14

LEMMA RenInputEndsGood == ASSUME RenGood(ren), RenInputEnds PROVE RenGood(ren')
<1>1. PICK doc, input : RenOpened(ren, doc, input) /\ RenPolling(ren)
  BY RenPolled DEF RenInputEnds
<1> DEFINE r == ren
           q == ren'
           n == Len(input)
           h == RenOldest(r)
<1>2. RenShape(r) /\ r.phase = "Chunks" /\ q = [r EXCEPT !.phase = "Suffix"] /\ r.next > Len(r.input)
  BY DEF RenGood, RenInputEnds
<1>3. /\ r.kind = "ordered" /\ r.out = RenUpTo(r, h - 1) /\ RenBudget(r, r.out, 0)
      /\ RenWindow(r) /\ r.error = "none" /\ \A e \in r.ended : e[2] \in RenEndings
  BY <1>1, <1>2 DEF RenPolling
<1>4. r.input = input /\ n \in Nat
  BY <1>1, RenOpenedFacts DEF RenOpened
<1>5. r.active = <<>>
  BY <1>3 DEF RenWindow
<1>6. h = r.next /\ r.next \in 1..(n + 1)
  BY <1>1, <1>5, RenWindowFacts
<1>7. h - 1 = n
  BY <1>2, <1>4, <1>6
<1>8. /\ RenShape(q) /\ RenSameResponse(q, r) /\ q.out = r.out /\ q.phase = "Suffix"
      /\ q.next = r.next /\ q.active = r.active /\ q.ended = r.ended /\ q.error = r.error
      /\ q.remaining = r.remaining
  <2> HIDE DEF q
  <2> QED BY <1>2 DEF RenShape, RenSameResponse
<1> HIDE DEF q, r, h, n
<1>9. q.kind = r.kind /\ q.before = r.before /\ q.input = r.input /\ q.after = r.after
  BY <1>8 DEF RenSameResponse
<1>10. RenOpened(q, doc, input)
  BY <1>1, <1>8, RenSameOpened DEF r
<1>11. RenUpTo(q, n) = RenUpTo(r, n)
  BY <1>9 DEF RenUpTo
<1>12. RenWindow(q) /\ RenBudget(q, q.out, 0)
  BY <1>3, <1>8, <1>9 DEF RenWindow, RenOldest, RenBudget
<1>13. RenPolling(q)
  BY <1>3, <1>4, <1>7, <1>8, <1>9, <1>11, <1>12 DEF RenPolling, n
<1> QED BY <1>8, <1>10, <1>13 DEF RenGood, q

LEMMA RenInputPanicsGood == ASSUME RenGood(ren), RenInputPanics PROVE RenGood(ren')
<1>1. PICK doc, input : RenOpened(ren, doc, input) /\ RenPolling(ren)
  BY RenPolled DEF RenInputPanics
<1>2. Len(ren.active) <= RenOptions.inFlight
  BY <1>1, RenPollingSafe DEF RenSafe
<1>3. /\ RenShape(ren') /\ RenSameResponse(ren', ren) /\ ren'.out = ren.out
      /\ ren'.active = ren.active /\ ren'.phase = "Done" /\ ren'.error # "none"
  BY DEF RenGood, RenInputPanics, RenFail, RenShape, RenSameResponse
<1> QED BY <1>1, <1>2, <1>3, RenStopsGood

LEMMA RenDroppedGood == ASSUME RenGood(ren), RenDropped PROVE RenGood(ren')
<1>1. PICK doc, input : RenOpened(ren, doc, input) /\ RenPolling(ren)
  BY RenPolled DEF RenDropped
<1>2. /\ RenShape(ren') /\ RenSameResponse(ren', ren) /\ ren'.out = ren.out
      /\ ren'.active = <<>> /\ ren'.phase = "dropped"
  BY DEF RenGood, RenDropped, RenShape, RenSameResponse
<1>3. Len(ren'.active) <= RenOptions.inFlight
  BY <1>2, RenOptionsAssumption
<1> QED BY <1>1, <1>2, <1>3, RenStopsGood

LEMMA RenTaskEndsGood == ASSUME RenGood(ren), RenTaskEnds PROVE RenGood(ren')
<1>1. PICK doc, input : RenOpened(ren, doc, input) /\ RenPolling(ren)
  BY RenPolled DEF RenTaskEnds
<1> DEFINE r == ren
           q == ren'
<1>2. PICK i \in ToSet(r.active), how \in RenEndings : q = [r EXCEPT !.ended = r.ended \cup {<<i, how>>}]
  BY DEF RenTaskEnds
<1>3. RenShape(r) /\ r.phase = "Resolution"
  BY DEF RenGood, RenTaskEnds
<1>4. /\ RenShape(q) /\ RenSameResponse(q, r) /\ q.out = r.out /\ q.phase = r.phase
      /\ q.next = r.next /\ q.active = r.active /\ q.error = r.error
      /\ q.remaining = r.remaining /\ q.ended = r.ended \cup {<<i, how>>}
  <2> HIDE DEF q
  <2> QED BY <1>2, <1>3 DEF RenShape, RenSameResponse
<1>5. RenPolling(r)
  BY <1>1
<1> HIDE DEF q, r
<1>6. q.kind = r.kind /\ q.before = r.before /\ q.input = r.input /\ q.after = r.after
  BY <1>4 DEF RenSameResponse
<1>7. RenOpened(q, doc, input)
  BY <1>1, <1>4, RenSameOpened DEF r
<1>8. RenOldest(q) = RenOldest(r) /\ RenWindow(q)
  BY <1>4, <1>5, <1>6 DEF RenWindow, RenOldest, RenPolling
<1>9. \A k : RenUpTo(q, k) = RenUpTo(r, k)
  BY <1>6 DEF RenUpTo
<1>10. \A k : RenBudget(r, r.out, k) => RenBudget(q, q.out, k)
  BY <1>4, <1>6 DEF RenBudget
<1>11. \A e \in q.ended : e[2] \in RenEndings
  BY <1>4, <1>5 DEF RenPolling
<1> DEFINE h == RenOldest(r)
<1>12. /\ r.kind = "boundary" /\ r.active /= <<>> /\ r.error = "none"
       /\ r.out = RenUpTo(r, h - 1) \o <<RenPlaceholder(r.input[h])>>
       /\ RenBudget(r, r.out, Len(r.input) - h)
  BY <1>3, <1>5 DEF RenPolling, r
<1>13. q.phase = "Resolution"
  BY <1>3, <1>4
<1>14. q.out = RenUpTo(q, h - 1) \o <<RenPlaceholder(q.input[h])>>
  BY <1>4, <1>6, <1>9, <1>12
<1>15. RenBudget(q, q.out, Len(q.input) - h)
  BY <1>6, <1>10, <1>12
<1>16. RenPolling(q)
  BY <1>4, <1>6, <1>8, <1>11, <1>12, <1>13, <1>14, <1>15 DEF RenPolling
<1> QED BY <1>4, <1>7, <1>16 DEF RenGood, q

LEMMA RenPollChunkGood == ASSUME RenGood(ren), RenPollChunk PROVE RenGood(ren')
<1>1. PICK doc, input : RenOpened(ren, doc, input) /\ RenPolling(ren)
  BY RenPolled DEF RenPollChunk
<1> DEFINE r == ren
           q == ren'
           n == Len(input)
           k == r.next
           b == input[k]
           t == [r EXCEPT !.next = r.next + 1, !.chunks = r.chunks + 1]
           u == RenChunk(t, b)
           S(j) == RenSent(r.before, r.kind, input, j)
<1>2. /\ RenShape(r) /\ r.phase = "Chunks" /\ r.next <= Len(r.input)
  BY DEF RenGood, RenPollChunk
<1>3. /\ r.kind = "ordered" /\ r.out = RenUpTo(r, RenOldest(r) - 1) /\ RenBudget(r, r.out, 0)
      /\ RenWindow(r) /\ r.error = "none" /\ \A e \in r.ended : e[2] \in RenEndings
  BY <1>1, <1>2 DEF RenPolling
<1>4. r.input = input /\ n \in Nat /\ input \in RenInputs
      /\ r.before \in Seq(RenPieces) /\ r.after \in Seq(RenPieces)
  BY <1>1, RenOpenedFacts DEF RenOpened
<1>5. r.active = <<>>
  BY <1>3 DEF RenWindow
<1>6. RenOldest(r) = k /\ k \in 1..n
  BY <1>1, <1>5, RenWindowFacts, <1>2, <1>4
<1>7. q = RenFail(t, "TooManyChunks") \/ q = u
  BY <1>4 DEF RenPollChunk
<1>8. /\ RenShape(t) /\ RenSameResponse(t, r) /\ t.out = r.out /\ t.phase = r.phase
      /\ t.next = k + 1 /\ t.active = r.active /\ t.ended = r.ended /\ t.error = r.error
      /\ t.remaining = r.remaining
  <2>1. t = [r EXCEPT !.next = k + 1, !.chunks = r.chunks + 1]
    OBVIOUS
  <2> HIDE DEF t, k
  <2> QED BY <1>2, <2>1 DEF RenShape, RenSameResponse
<1>9. b.pieces \in Seq(RenPieces) /\ r.remaining \in Nat
  BY <1>3, <1>4, <1>6, RenInputsMarkup DEF RenBudget
<1>10. Len(r.active) <= RenOptions.inFlight /\ r.out \in Seq(RenPieces)
  BY <1>1, RenPollingSafe DEF RenSafe
<1> HIDE DEF q, t, n, k, b, u
<1>11. CASE q = RenFail(t, "TooManyChunks")
  <2>1. /\ RenShape(q) /\ RenSameResponse(q, r) /\ q.out = r.out /\ q.active = r.active
        /\ q.phase = "Done" /\ q.error # "none"
    BY <1>8, <1>11 DEF RenFail, RenShape, RenSameResponse
  <2>2. Len(q.active) <= RenOptions.inFlight
    BY <1>10, <2>1
  <2> QED BY <1>1, <2>1, <2>2, RenStopsGood DEF q
<1>12. CASE q = u
  <2>1. /\ RenShape(u) /\ RenSameResponse(u, t)
        /\ u.active = t.active /\ u.next = t.next /\ u.ended = t.ended
        /\ \/ u.phase = "Done" /\ u.error # "none" /\ u.out = t.out
           \/ /\ u.phase = t.phase /\ u.error = t.error
              /\ u.out = Joined(t.out, b.pieces)
              /\ u.remaining \in Nat /\ u.remaining + RenBytes(b.pieces) = t.remaining
    BY <1>8, <1>9, RenPiecesSized, RenChunkCases DEF u
  <2>2. RenSameResponse(q, r) /\ q.active = r.active
    BY <1>8, <1>12, <2>1 DEF RenSameResponse
  <2>3. CASE u.phase = "Done" /\ u.error # "none" /\ u.out = t.out
    <3>1. RenShape(q) /\ q.out = r.out /\ q.phase = "Done" /\ q.error # "none"
          /\ Len(q.active) <= RenOptions.inFlight
      BY <1>8, <1>10, <1>12, <2>1, <2>2, <2>3
    <3> QED BY <1>1, <2>2, <3>1, RenStopsGood DEF q
  <2>4. CASE /\ u.phase = t.phase /\ u.error = t.error
             /\ u.out = Joined(t.out, b.pieces)
             /\ u.remaining \in Nat /\ u.remaining + RenBytes(b.pieces) = t.remaining
    <3>1. /\ RenShape(q) /\ q.phase = "Chunks" /\ q.error = "none" /\ q.next = k + 1
          /\ q.out = Joined(r.out, b.pieces) /\ q.ended = r.ended
          /\ q.remaining \in Nat /\ q.remaining + RenBytes(b.pieces) = r.remaining
      BY <1>2, <1>3, <1>8, <1>12, <2>1, <2>4
    <3>2. /\ q.kind = "ordered" /\ q.before = r.before /\ q.input = input /\ q.after = r.after
      BY <1>3, <1>4, <2>2 DEF RenSameResponse
    <3>3. RenOpened(q, doc, input)
      BY <1>1, <2>2, RenSameOpened
    <3>4. r.out = S(k - 1)
      BY <1>1, <1>3, <1>6, RenUpToSent
    <3>5. S(k) = Joined(S(k - 1), b.pieces)
      <4>1. S(k) = RenStepped(S(k - 1), r.kind, b)
        <5>1. \A j \in 1..Len(input) :
                 RenSent(r.before, r.kind, input, j)
                    = RenStepped(RenSent(r.before, r.kind, input, j - 1), r.kind, input[j])
          BY <1>4, RenSentSteps
        <5>2. k \in 1..Len(input) /\ b = input[k]
          BY <1>4, <1>6 DEF n, b
        <5> QED BY <5>1, <5>2
      <4> QED BY <1>3, <4>1 DEF RenStepped
    <3>6. RenUpTo(q, k) = S(k)
      BY <3>3, RenUpToSent, <1>3, <3>2
    <3> HIDE DEF S
    <3>7. q.out = RenUpTo(q, k)
      BY <3>1, <3>4, <3>5, <3>6
    <3>8. q.active = <<>> /\ Len(q.active) = 0 /\ k + 1 \in 1..(n + 1) /\ k \in Nat
      BY <1>4, <1>5, <1>6, <2>2
    <3>9. RenOldest(q) - 1 = k
      BY <3>1, <3>8 DEF RenOldest
    <3>10. RenWindow(q)
      BY <3>1, <3>2, <3>8 DEF RenWindow, n
    <3>11. RenBudget(q, q.out, 0)
      <4>1. RenBytes(q.out) = RenBytes(r.out) + RenBytes(b.pieces)
        BY <1>9, <1>10, <3>1, RenBytesJoin, RenPiecesSized
      <4>2. RenBytes(r.out) \in Nat /\ RenBytes(b.pieces) \in Nat /\ RenBytes(r.after) \in Nat
        BY <1>4, <1>9, <1>10, RenBytesNat, RenPiecesSized
      <4>3. RenBytes(r.out) + RenBytes(r.after) + r.remaining + 0 = RenOptions.maxBytes
        BY <1>3 DEF RenBudget
      <4>4. RenBytes(q.out) + RenBytes(r.after) + q.remaining + 0 = RenOptions.maxBytes
        BY <1>9, <3>1, <4>1, <4>2, <4>3
      <4> QED BY <3>1, <3>2, <4>4 DEF RenBudget
    <3>12. RenPolling(q)
      BY <1>3, <3>1, <3>2, <3>7, <3>9, <3>10, <3>11 DEF RenPolling
    <3> QED BY <3>1, <3>3, <3>12 DEF RenGood, q
  <2> QED BY <2>1, <2>3, <2>4
<1> QED BY <1>7, <1>11, <1>12

LEMMA RenPollPlaceholderGood == ASSUME RenGood(ren), RenPollPlaceholder PROVE RenGood(ren')
<1>1. PICK doc, input : RenOpened(ren, doc, input) /\ RenPolling(ren)
  BY RenPolled DEF RenPollPlaceholder
<1> DEFINE r == ren
           q == ren'
           n == Len(input)
           h == RenOldest(r)
           ph == <<RenPlaceholder(input[h])>>
<1>2. RenShape(r) /\ r.phase = "Placeholder"
  BY DEF RenGood, RenPollPlaceholder
<1>3. /\ r.kind = "boundary" /\ r.out = RenUpTo(r, h - 1)
      /\ RenBudget(r, r.out, Len(r.input) - (h - 1))
      /\ RenWindow(r) /\ r.error = "none" /\ \A e \in r.ended : e[2] \in RenEndings
  BY <1>1, <1>2 DEF RenPolling
<1>4. r.input = input /\ n \in Nat /\ input \in RenInputs /\ r.after \in Seq(RenPieces)
  BY <1>1, RenOpenedFacts DEF RenOpened
<1>5. h \in 1..(n + 1) /\ (r.active # <<>> => h \in 1..n /\ Head(r.active) = h)
      /\ (r.active = <<>> => h = n + 1)
  BY <1>1, <1>3, RenWindowFacts
<1>6. r.out \in Seq(RenPieces)
  BY <1>1, RenPollingSafe
<1>7. CASE r.active = <<>>
  <2>1. q = [r EXCEPT !.phase = "Suffix"]
    BY <1>7 DEF RenPollPlaceholder
  <2>2. /\ RenShape(q) /\ RenSameResponse(q, r) /\ q.out = r.out /\ q.phase = "Suffix"
        /\ q.next = r.next /\ q.active = r.active /\ q.ended = r.ended /\ q.error = r.error
        /\ q.remaining = r.remaining
    <3> HIDE DEF q
    <3> QED BY <1>2, <2>1 DEF RenShape, RenSameResponse
  <2> HIDE DEF q, r, h, n
  <2>3. q.kind = r.kind /\ q.before = r.before /\ q.input = r.input /\ q.after = r.after
    BY <2>2 DEF RenSameResponse
  <2>4. RenOpened(q, doc, input)
    BY <1>1, <2>2, RenSameOpened DEF r
  <2>5. h - 1 = n /\ n - (h - 1) = 0
    BY <1>4, <1>5, <1>7
  <2>6. RenUpTo(q, n) = RenUpTo(r, n)
    BY <2>3 DEF RenUpTo
  <2>7. RenBudget(r, r.out, 0)
    BY <1>3, <1>4, <2>5 DEF n
  <2>8. RenWindow(q) /\ RenBudget(q, q.out, 0)
    BY <1>3, <2>2, <2>3, <2>7 DEF RenWindow, RenOldest, RenBudget
  <2>9. q.out = RenUpTo(q, Len(q.input))
    BY <1>3, <1>4, <2>2, <2>3, <2>5, <2>6 DEF n
  <2>10. RenPolling(q)
    BY <1>3, <2>2, <2>3, <2>8, <2>9 DEF RenPolling
  <2> QED BY <2>2, <2>4, <2>10 DEF RenGood, q
<1>8. CASE r.active # <<>>
  <2>1. h \in 1..n /\ Head(r.active) = h
    BY <1>5, <1>8
  <2>2. q = [r EXCEPT !.out = r.out \o ph, !.phase = "Resolution"]
    BY <1>8, <1>4, <2>1, <1>2 DEF RenPollPlaceholder, RenEmit, RenShape
  <2>3. /\ RenShape(q) /\ RenSameResponse(q, r) /\ q.out = Joined(r.out, ph)
        /\ q.phase = "Resolution"
        /\ q.next = r.next /\ q.active = r.active /\ q.ended = r.ended /\ q.error = r.error
        /\ q.remaining = r.remaining
    <3> HIDE DEF q, ph
    <3> QED BY <1>2, <2>2 DEF RenShape, RenSameResponse, Joined
  <2> HIDE DEF q, r, h, n
  <2>4. q.kind = r.kind /\ q.before = r.before /\ q.input = r.input /\ q.after = r.after
    BY <2>3 DEF RenSameResponse
  <2>5. RenOpened(q, doc, input)
    BY <1>1, <2>3, RenSameOpened DEF r
  <2>6. RenUpTo(q, h - 1) = RenUpTo(r, h - 1)
    BY <2>4 DEF RenUpTo
  <2>7. ph \in Seq(RenPieces) /\ RenBytes(ph) = 1
    <3>1. ph \in Seq(RenPieces)
      BY <1>4, <2>1, RenPartsSeq DEF n
    <3>2. Len(ph) = 1 /\ \A i \in 1..Len(ph) : ph[i][2] = 1
      BY DEF RenPlaceholder
    <3> HIDE DEF ph
    <3> QED BY <3>1, <3>2, RenBytesOnes, RenPiecesSized
  <2> HIDE DEF ph
  <2>8. RenBudget(q, q.out, n - h)
    <3>1. RenBytes(q.out) = RenBytes(r.out) + 1
      BY <1>6, <2>3, <2>7, RenBytesJoin, RenPiecesSized
    <3>2. RenBytes(r.out) \in Nat /\ RenBytes(r.after) \in Nat
      BY <1>4, <1>6, RenBytesNat, RenPiecesSized
    <3>3. r.remaining \in Nat /\ RenBytes(r.out) + RenBytes(r.after) + r.remaining + (n - (h - 1))
             = RenOptions.maxBytes
      BY <1>3, <1>4 DEF RenBudget, n
    <3>4. RenBytes(q.out) + RenBytes(r.after) + r.remaining + (n - h) = RenOptions.maxBytes
      <4> DEFINE a == RenBytes(r.out)
                 b == RenBytes(r.after)
                 c == r.remaining
                 m == RenOptions.maxBytes
      <4>1. a \in Nat /\ b \in Nat /\ c \in Nat /\ h \in Nat /\ n \in Nat
            /\ a + b + c + (n - (h - 1)) = m /\ RenBytes(q.out) = a + 1
        BY <1>4, <2>1, <3>1, <3>2, <3>3
      <4> HIDE DEF a, b, c, m
      <4>2. (a + 1) + b + c + (n - h) = m
        BY <4>1
      <4> QED BY <4>1, <4>2 DEF a, b, c, m
    <3> QED BY <1>3, <2>3, <2>4, <3>3, <3>4 DEF RenBudget
  <2>9. RenOldest(q) = h /\ RenWindow(q)
    BY <1>3, <2>3, <2>4 DEF RenWindow, RenOldest, h
  <2>10. q.out = RenUpTo(q, h - 1) \o <<RenPlaceholder(q.input[h])>>
    BY <1>3, <1>4, <2>3, <2>4, <2>6 DEF Joined, ph
  <2>11. RenPolling(q)
    <3>1. q.active # <<>> /\ q.error = "none" /\ q.kind = "boundary" /\ q.phase = "Resolution"
          /\ \A e \in q.ended : e[2] \in RenEndings
      BY <1>3, <1>8, <2>3, <2>4
    <3>2. RenBudget(q, q.out, Len(q.input) - h)
      BY <1>4, <2>4, <2>8 DEF n
    <3> QED BY <2>9, <2>10, <3>1, <3>2 DEF RenPolling
  <2> QED BY <2>3, <2>5, <2>11 DEF RenGood, q
<1> QED BY <1>7, <1>8

LEMMA RenPollSuffixGood == ASSUME RenGood(ren), RenPollSuffix PROVE RenGood(ren')
<1>1. PICK doc, input : RenOpened(ren, doc, input) /\ RenPolling(ren)
  BY RenPolled DEF RenPollSuffix
<1> DEFINE r == ren
           q == ren'
           n == Len(input)
           W == RenWhole(r.before, r.kind, input, r.after)
<1>2. RenShape(r) /\ r.phase = "Suffix"
  BY DEF RenGood, RenPollSuffix
<1>3. r.out = RenUpTo(r, Len(r.input)) /\ RenBudget(r, r.out, 0) /\ r.error = "none"
  BY <1>1, <1>2 DEF RenPolling
<1>4. r.input = input /\ n \in Nat /\ input \in RenInputs /\ r.after \in Seq(RenPieces)
      /\ doc \in RenDocuments /\ r.doc = {doc}
  BY <1>1, RenOpenedFacts DEF RenOpened
<1>5. r.out \in Seq(RenPieces) /\ Len(r.active) <= RenOptions.inFlight
  BY <1>1, RenPollingSafe DEF RenSafe
<1>6. q = [r EXCEPT !.out = r.out \o r.after, !.phase = "Done"]
  BY <1>2 DEF RenPollSuffix, RenEmit, RenShape
<1>7. /\ RenShape(q) /\ RenSameResponse(q, r) /\ q.out = Joined(r.out, r.after)
      /\ q.phase = "Done" /\ q.active = r.active
  <2> HIDE DEF q
  <2> QED BY <1>2, <1>6 DEF RenShape, RenSameResponse, Joined
<1>8. r.out = RenSent(r.before, r.kind, input, n)
  BY <1>1, <1>3, <1>4, RenUpToSent
<1>9. q.out = W
  BY <1>4, RenSentAll, <1>7, <1>8
<1>10. RenExpectedOf(doc, r.kind, input) = W
  BY <1>1, RenOpenedExpects
<1> HIDE DEF q, r, W
<1>11. q.kind = r.kind /\ q.input = input /\ q.doc = {doc}
  BY <1>4, <1>7 DEF RenSameResponse
<1>12. q.out \in Seq(RenPieces)
  BY <1>4, <1>5, <1>7, JoinedSeq
<1>13. IsPrefix(q.out, q.out)
  <2> DEFINE s == q.out
  <2>1. s \in Seq(RenPieces) /\ <<>> \in Seq(RenPieces)
    BY <1>12
  <2> HIDE DEF s
  <2>2. IsPrefix(s, Joined(s, <<>>)) /\ Joined(s, <<>>) = s
    BY <2>1, JoinedPrefix, JoinedEmpty
  <2> QED BY <2>2 DEF s
<1>14. RenBytes(q.out) <= RenOptions.maxBytes
  <2>1. RenBytes(q.out) = RenBytes(r.out) + RenBytes(r.after)
    BY <1>4, <1>5, <1>7, RenBytesJoin, RenPiecesSized
  <2>2. RenBytes(r.out) \in Nat /\ RenBytes(r.after) \in Nat
    BY <1>4, <1>5, RenBytesNat, RenPiecesSized
  <2>3. r.remaining \in Nat /\ RenBytes(r.out) + RenBytes(r.after) + r.remaining = RenOptions.maxBytes
    BY <1>3, <2>2 DEF RenBudget
  <2> QED BY <2>1, <2>2, <2>3
<1>15. RenEnded(q, doc)
  BY <1>4, <1>5, <1>7, <1>9, <1>10, <1>11, <1>13, <1>14 DEF RenEnded, RenSafe
<1> QED BY <1>7, <1>15 DEF RenGood, q

LEMMA RenPollResolutionGood == ASSUME RenGood(ren), RenPollResolution PROVE RenGood(ren')
<1>1. PICK doc, input : RenOpened(ren, doc, input) /\ RenPolling(ren)
  BY RenPolled DEF RenPollResolution
<1> DEFINE r == ren
           q == ren'
           n == Len(input)
           h == RenOldest(r)
           b == input[h]
           ph == <<RenPlaceholder(b)>>
           S(j) == RenSent(r.before, r.kind, input, j)
<1>2. RenShape(r) /\ r.phase = "Resolution"
  BY DEF RenGood, RenPollResolution
<1>3. /\ r.kind = "boundary" /\ r.active # <<>>
      /\ r.out = RenUpTo(r, h - 1) \o <<RenPlaceholder(r.input[h])>>
      /\ RenBudget(r, r.out, Len(r.input) - h)
      /\ RenWindow(r) /\ r.error = "none" /\ \A e \in r.ended : e[2] \in RenEndings
  BY <1>1, <1>2 DEF RenPolling
<1>4. r.input = input /\ n \in Nat /\ input \in RenInputs /\ RenOptions.inFlight \in Nat
      /\ r.before \in Seq(RenPieces) /\ r.after \in Seq(RenPieces)
  BY <1>1, RenOpenedFacts DEF RenOpened
<1>5. /\ h \in 1..n /\ Head(r.active) = h /\ h = r.next - Len(r.active)
      /\ r.next \in 1..(n + 1) /\ r.active \in Seq(Nat) /\ Len(r.active) \in Nat
      /\ Len(r.active) <= RenOptions.inFlight
  BY <1>1, <1>3, RenWindowFacts
<1>6. r.out \in Seq(RenPieces)
  BY <1>1, RenPollingSafe
<1>7. PICK e \in r.ended : /\ e[1] = Head(r.active)
         /\ LET w == RenFill([r EXCEPT !.active = Tail(r.active), !.ended = r.ended \ {e}])
            IN  q = IF e[2] /= "ok" THEN RenFail(w, e[2])
                    ELSE RenChunk([w EXCEPT !.phase = "Placeholder"], r.input[e[1]])
  BY DEF RenPollResolution, RenYielded
<1> DEFINE t == [r EXCEPT !.active = Tail(r.active), !.ended = r.ended \ {e}]
           w == RenFill(t)
           v == [w EXCEPT !.phase = "Placeholder"]
           u == RenChunk(v, b)
<1>8. (q = RenFail(w, e[2]) /\ e[2] # "ok") \/ q = u
  BY <1>4, <1>5, <1>7
<1>9. e[2] \in RenEndings
  BY <1>3, <1>7
<1>10. /\ RenShape(t) /\ RenSameResponse(t, r) /\ t.active = Tail(r.active) /\ t.next = r.next
       /\ t.ended = r.ended \ {e} /\ t.out = r.out /\ t.phase = r.phase /\ t.error = r.error
       /\ t.remaining = r.remaining
  <2>1. t = [r EXCEPT !.active = Tail(r.active), !.ended = r.ended \ {e}]
    OBVIOUS
  <2> HIDE DEF t
  <2> QED BY <1>2, <2>1 DEF RenShape, RenSameResponse
<1>11. r.kind = "boundary" => t.kind = "boundary" /\ t.input = input
  BY <1>4, <1>10 DEF RenSameResponse
<1>12. b.pieces \in Seq(RenPieces) /\ r.remaining \in Nat /\ ph \in Seq(RenPieces)
  BY <1>3, <1>4, <1>5, RenInputsMarkup, RenPartsSeq DEF RenBudget
<1> HIDE DEF t
<1>13. /\ t.active \in Seq(Nat) /\ Len(t.active) = Len(r.active) - 1
       /\ RenOldest(t) = h + 1
       /\ \A i \in 1..Len(t.active) : t.active[i] = RenOldest(t) + i - 1
  <2> DEFINE s == r.active
             l == Len(s)
  <2>1. s \in Seq(Nat) /\ s # <<>> /\ l \in Nat /\ l > 0
    BY <1>3, <1>5
  <2>2. Tail(s) \in Seq(Nat) /\ Len(Tail(s)) = l - 1 /\ \A i \in 1..(l - 1) : Tail(s)[i] = s[i + 1]
    <3> HIDE DEF s
    <3> QED BY <2>1
  <2>3. \A i \in 1..l : s[i] = h + i - 1
    BY <1>3 DEF RenWindow
  <2>4. RenOldest(t) = h + 1
    <3>1. RenOldest(t) = r.next - (l - 1)
      BY <1>10, <2>2 DEF RenOldest
    <3> HIDE DEF l, h
    <3> QED BY <1>4, <1>5, <2>1, <3>1 DEF l
  <2>5. \A i \in 1..(l - 1) : Tail(s)[i] = (h + 1) + i - 1
    <3> HIDE DEF s, l, h
    <3> TAKE i \in 1..(l - 1)
    <3>1. i + 1 \in 1..l
      BY <2>1
    <3>2. Tail(s)[i] = h + (i + 1) - 1
      BY <2>2, <2>3, <3>1
    <3>3. h \in Nat /\ i \in Nat
      BY <1>4, <1>5, <2>1
    <3>4. h + (i + 1) - 1 = (h + 1) + i - 1
      BY ONLY <3>3
    <3> QED BY ONLY <3>2, <3>4
  <2> HIDE DEF h
  <2> QED BY <1>10, <2>2, <2>4, <2>5
<1>14. /\ RenShape(w) /\ RenWindow(w) /\ RenOldest(w) = h + 1
       /\ RenSameResponse(w, t) /\ w.out = r.out /\ w.phase = r.phase /\ w.error = r.error
       /\ w.remaining = r.remaining /\ w.ended = t.ended
  <2>1. /\ RenShape(t) /\ t.kind = "boundary" /\ Len(t.input) \in Nat
        /\ RenOptions.inFlight \in Nat
        /\ t.next \in 1..(Len(t.input) + 1) /\ t.active \in Seq(Nat) /\ Len(t.active) < t.next
        /\ Len(t.active) <= RenOptions.inFlight
        /\ \A i \in 1..Len(t.active) : t.active[i] = RenOldest(t) + i - 1
    <3>1. Len(r.active) - 1 < r.next /\ Len(r.active) - 1 <= RenOptions.inFlight
      <4> HIDE DEF h
      <4> QED BY <1>4, <1>5
    <3> HIDE DEF h
    <3> QED BY <1>3, <1>4, <1>5, <1>10, <1>11, <1>13, <3>1
  <2>2. /\ RenShape(w) /\ RenWindow(w) /\ RenOldest(w) = RenOldest(t)
        /\ RenSameResponse(w, t) /\ w.out = t.out /\ w.phase = t.phase /\ w.error = t.error
        /\ w.remaining = t.remaining /\ w.ended = t.ended
    BY ONLY <2>1, RenFillWindow
  <2> HIDE DEF w, h
  <2> QED BY <1>10, <1>13, <2>2
<1> HIDE DEF w
<1>15. RenSameResponse(w, r) /\ w.kind = "boundary" /\ w.input = input
  BY <1>3, <1>4, <1>10, <1>14 DEF RenSameResponse
<1>16. Len(w.active) <= RenOptions.inFlight
  BY <1>14, <1>15 DEF RenWindow
<1>17. CASE q = RenFail(w, e[2]) /\ e[2] # "ok"
  <2>1. e[2] # "none"
    BY <1>9 DEF RenEndings
  <2> HIDE DEF q
  <2>2. /\ RenShape(q) /\ RenSameResponse(q, r) /\ q.out = r.out /\ q.active = w.active
        /\ q.phase = "Done" /\ q.error # "none"
    BY <1>14, <1>15, <1>17, <2>1 DEF RenFail, RenShape, RenSameResponse
  <2> QED BY <1>1, <1>16, <2>2, RenStopsGood DEF q
<1>18. /\ RenShape(v) /\ RenSameResponse(v, r) /\ v.active = w.active /\ v.next = w.next
       /\ v.ended = w.ended /\ v.out = r.out /\ v.phase = "Placeholder" /\ v.error = r.error
       /\ v.remaining = r.remaining
  BY <1>14, <1>15 DEF RenShape, RenSameResponse
<1> HIDE DEF q, v, b, u
<1>19. CASE q = u
  <2>1. /\ RenShape(u) /\ RenSameResponse(u, v)
        /\ u.active = v.active /\ u.next = v.next /\ u.ended = v.ended
        /\ \/ u.phase = "Done" /\ u.error # "none" /\ u.out = v.out
           \/ /\ u.phase = v.phase /\ u.error = v.error
              /\ u.out = Joined(v.out, b.pieces)
              /\ u.remaining \in Nat /\ u.remaining + RenBytes(b.pieces) = v.remaining
    BY <1>12, <1>18, RenPiecesSized, RenChunkCases DEF u
  <2>2. RenSameResponse(q, r) /\ q.active = w.active
    BY <1>18, <1>19, <2>1 DEF RenSameResponse
  <2>3. CASE u.phase = "Done" /\ u.error # "none" /\ u.out = v.out
    <3>1. RenShape(q) /\ q.out = r.out /\ q.phase = "Done" /\ q.error # "none"
          /\ Len(q.active) <= RenOptions.inFlight
      BY <1>16, <1>18, <1>19, <2>1, <2>2, <2>3
    <3> QED BY <1>1, <2>2, <3>1, RenStopsGood DEF q
  <2>4. CASE /\ u.phase = v.phase /\ u.error = v.error
             /\ u.out = Joined(v.out, b.pieces)
             /\ u.remaining \in Nat /\ u.remaining + RenBytes(b.pieces) = v.remaining
    <3>1. /\ RenShape(q) /\ q.phase = "Placeholder" /\ q.error = "none" /\ q.next = w.next
          /\ q.out = Joined(r.out, b.pieces) /\ q.ended = t.ended
          /\ q.remaining \in Nat /\ q.remaining + RenBytes(b.pieces) = r.remaining
      BY <1>3, <1>14, <1>18, <1>19, <2>1, <2>4
    <3>2. /\ q.kind = "boundary" /\ q.before = r.before /\ q.input = input /\ q.after = r.after
      BY <1>3, <1>4, <2>2 DEF RenSameResponse
    <3>3. RenOpened(q, doc, input)
      BY <1>1, <2>2, RenSameOpened
    <3>4. r.out = Joined(S(h - 1), ph)
      BY <1>1, RenUpToSent, <1>3, <1>4 DEF Joined, b
    <3>5. S(h) = Joined(Joined(S(h - 1), ph), b.pieces)
      <4>1. S(h) = RenStepped(S(h - 1), r.kind, b)
        <5> HIDE DEF h
        <5> QED BY <1>4, <1>5, RenSentSteps DEF b
      <4> QED BY <1>3, <4>1 DEF RenStepped
    <3>6. RenUpTo(q, h) = S(h)
      BY <3>3, RenUpToSent, <1>3, <3>2
    <3> HIDE DEF S, h, n, ph
    <3>7. q.out = RenUpTo(q, h)
      BY <3>1, <3>4, <3>5, <3>6
    <3>8. RenOldest(q) = RenOldest(w) /\ RenWindow(q)
      BY <1>14, <1>15, <2>2, <3>1, <3>2 DEF RenWindow, RenOldest
    <3>9. RenOldest(q) - 1 = h
      BY <1>5, <1>14, <3>8
    <3>10. RenBudget(q, q.out, n - h)
      <4>1. RenBytes(q.out) = RenBytes(r.out) + RenBytes(b.pieces)
        BY <1>6, <1>12, <3>1, RenBytesJoin, RenPiecesSized
      <4>2. RenBytes(r.out) \in Nat /\ RenBytes(b.pieces) \in Nat /\ RenBytes(r.after) \in Nat
        BY <1>4, <1>6, <1>12, RenBytesNat, RenPiecesSized
      <4>3. RenBytes(r.out) + RenBytes(r.after) + r.remaining + (n - h) = RenOptions.maxBytes
        BY <1>3, <1>4 DEF RenBudget, n, h
      <4>4. n - h \in Nat
        BY <1>4, <1>5
      <4>5. RenBytes(q.out) + RenBytes(r.after) + q.remaining + (n - h) = RenOptions.maxBytes
        BY <3>1, <4>1, <4>2, <4>3, <4>4
      <4> QED BY <3>1, <3>2, <4>5 DEF RenBudget
    <3>11. \A x \in q.ended : x[2] \in RenEndings
      BY <1>3, <1>10, <3>1
    <3>12. RenPolling(q)
      BY <3>1, <3>2, <3>7, <3>8, <3>9, <3>10, <3>11 DEF RenPolling, n
    <3> QED BY <3>1, <3>3, <3>12 DEF RenGood, q
  <2> QED BY <2>1, <2>3, <2>4
<1> QED BY <1>8, <1>17, <1>19

-----------------------------------------------------------------------------

LEMMA RenGoodNow == RenInvariant <=> RenGood(ren)
  BY DEF RenOpened, RenEnded, RenInvariant, RenGood

LEMMA RenGoodNext == RenInvariant' <=> RenGood(ren')
  BY DEF RenOpened, RenEnded, RenInvariant, RenGood

LEMMA RenInitHolds == RenInit => RenInvariant
<1>1. RenShape(RenIdle)
  BY DEF RenShape, RenIdle
<1> QED BY <1>1 DEF RenInit, RenInvariant

LEMMA RenNextKeeps == RenInvariant /\ [RenNext]_renVars => RenInvariant'
<1> SUFFICES ASSUME RenGood(ren), [RenNext]_renVars PROVE RenGood(ren')
  BY RenGoodNow, RenGoodNext
<1>1. CASE RenReset
  <2>1. RenShape(RenIdle)
    BY DEF RenShape, RenIdle
  <2> QED BY <1>1, <2>1 DEF RenReset, RenGood
<1>2. CASE UNCHANGED renVars
  <2>1. ren' = ren
    BY <1>2 DEF renVars
  <2> QED BY <2>1
<1> QED BY <1>1, <1>2, RenOpenGood, RenPollPrefixGood, RenPollChunkGood, RenInputEndsGood,
           RenInputPanicsGood, RenTaskEndsGood, RenPollPlaceholderGood, RenPollResolutionGood,
           RenPollSuffixGood, RenDroppedGood DEF RenNext

LEMMA RenInvariantSuffices == RenInvariant => RenDocumentsAreWhole
<1> SUFFICES ASSUME RenInvariant, NEW d \in ren.doc
             PROVE  /\ IsPrefix(ren.out, RenExpected(d))
                    /\ RenBytes(ren.out) <= RenOptions.maxBytes
                    /\ Len(ren.active) <= RenOptions.inFlight
                    /\ ren.phase = "Done" /\ ren.error = "none" => ren.out = RenExpected(d)
  BY DEF RenDocumentsAreWhole
<1>1. RenExpected(d) = RenExpectedOf(d, ren.kind, ren.input)
  BY DEF RenExpected
<1>2. ren # RenIdle
  BY DEF RenIdle
<1>3. CASE \E doc, input : RenOpened(ren, doc, input) /\ RenPolling(ren)
  <2>1. PICK doc, input : RenOpened(ren, doc, input) /\ RenPolling(ren)
    BY <1>3
  <2>2. d = doc
    BY <2>1 DEF RenOpened
  <2>3. RenSafe(ren, d)
    BY <2>1, <2>2, RenPollingSafe
  <2>4. ren.phase # "Done"
    BY <2>1 DEF RenPolling
  <2> QED BY <1>1, <2>3, <2>4 DEF RenSafe
<1>4. CASE \E doc : RenEnded(ren, doc)
  BY <1>1, <1>4 DEF RenEnded, RenSafe
<1> QED BY <1>2, <1>3, <1>4, RenGoodNow DEF RenGood

\* poll_next of both bodies, boundary_response, ordered_response: whatever order
\* the boundaries of a response end in, and wherever it fails or is dropped, the
\* client has a prefix of the one document that composing the layouts around
\* the parts in declared order defines, within max_output_bytes, and all of it
\* when the body ended without an error; for every set of documents, layouts,
\* bodies and limits.
THEOREM DocumentsAreWhole == RenSpec => []RenDocumentsAreWhole
  BY RenInitHolds, RenNextKeeps, RenInvariantSuffices, PTL DEF RenSpec

-----------------------------------------------------------------------------
(* The router.                                                             *)

\* path_segments: the segments left are segments of the pattern, no groups, and
\* only the last of them can be the pattern's last.
LEMMA RouSegmentsKept ==
    ASSUME NEW V, NEW p \in Seq(V)
    PROVE  /\ RouSegments(p) \in Seq(V)
           /\ \A i \in 1..Len(RouSegments(p)) : \E j \in 1..Len(p) :
                 /\ RouSegments(p)[i] = p[j] /\ p[j].kind # "group"
                 /\ i < Len(RouSegments(p)) => j < Len(p)
<1> DEFINE n == Len(p)
           Step(v, i) == IF p[i].kind = "group" THEN v ELSE Append(v, p[i])
           Eq(F) == F = [S \in SUBSET (1..n) |->
                            IF S = {} THEN <<>> ELSE Step(F[S \ {Max(S)}], Max(S))]
           G == [y \in (1..n) \X Seq(V) |-> Step(y[2], y[1])]
           F == CHOOSE h : Eq(h)
           f == [k \in 0..n |-> F[1..k]]
<1>1. /\ n \in Nat /\ DOMAIN p = 1..n /\ <<>> \in Seq(V)
      /\ \A i \in 1..n, v \in Seq(V) : Step(v, i) \in Seq(V)
  OBVIOUS
<1>2. RouSegments(p) = F[1..n]
  BY <1>1 DEF RouSegments, FoldLeft, MapThenFoldSet
<1>a. \A i \in 1..n : \A v : p[i].kind = "group" => Step(v, i) = v
  OBVIOUS
<1>b. \A i \in 1..n : \A v : p[i].kind # "group" => Step(v, i) = Append(v, p[i])
  OBVIOUS
<1>c. \A i \in 1..n : p[i] \in V
  OBVIOUS
<1> HIDE DEF Step, n
<1>3. G \in [(1..n) \X Seq(V) -> Seq(V)]
  BY <1>1
<1>4. PICK g : FoldsTo(g, n, Seq(V), <<>>, G)
  BY <1>1, <1>3, FoldDefined
<1>5. g \in [SUBSET (1..n) -> Seq(V)] /\ g[{}] = <<>>
  BY <1>4 DEF FoldsTo
<1>6. \A S \in SUBSET (1..n) : S # {} => g[S] = Step(g[S \ {Max(S)}], Max(S))
  <2> SUFFICES ASSUME NEW S \in SUBSET (1..n), S # {}
               PROVE  g[S] = Step(g[S \ {Max(S)}], Max(S))
    OBVIOUS
  <2>1. Max(S) \in 1..n
    BY <1>1, MaxExists
  <2> DEFINE m == Max(S)
             v == g[S \ {m}]
  <2>2. v \in Seq(V)
    BY <1>5
  <2>3. g[S] = G[<<m, v>>]
    <3> HIDE DEF G
    <3> QED BY <1>4 DEF FoldsTo
  <2>4. m \in 1..n
    BY <2>1
  <2> HIDE DEF m, v
  <2>5. G[<<m, v>>] = Step(v, m)
    BY <2>2, <2>4
  <2> QED BY <2>3, <2>5 DEF m, v
<1>7. Eq(g)
  BY <1>5, <1>6
<1>8. Eq(F)
  <2> HIDE DEF Eq
  <2> QED BY <1>7
<1> HIDE DEF F, G
<1>9. F[{}] = <<>>
  BY <1>8
<1>10. \A k \in 1..n : F[1..k] = Step(F[1..(k - 1)], k)
  <2> SUFFICES ASSUME NEW k \in 1..n PROVE F[1..k] = Step(F[1..(k - 1)], k)
    OBVIOUS
  <2>0. k \in Nat /\ k > 0
    BY <1>1
  <2>1. Max(1..k) = k /\ (1..k) \ {k} = 1..(k - 1) /\ 1..k # {}
    BY ONLY <2>0, MaxUpTo
  <2>2. 1..k \in SUBSET (1..n)
    BY <1>1
  <2>3. F[1..k] = Step(F[(1..k) \ {Max(1..k)}], Max(1..k))
    BY <1>8, <2>1, <2>2
  <2> QED BY <2>1, <2>3
<1>11. f[0] = <<>> /\ \A k \in 1..n : f[k] = Step(f[k - 1], k)
  BY <1>1, <1>9, <1>10
<1>12. f[n] = F[1..n]
  BY <1>1
<1> HIDE DEF f
<1> DEFINE From(s, k) == /\ s \in Seq(V)
                         /\ \A i \in 1..Len(s) : \E j \in 1..k :
                               s[i] = p[j] /\ p[j].kind # "group" /\ (i < Len(s) => j < k)
           T == {k \in 0..n : From(f[k], k)}
<1>13. 0 \in T
  <2>1. f[0] = <<>> /\ <<>> \in Seq(V) /\ Len(<<>>) = 0 /\ 0 \in 0..n
    BY <1>1, <1>11
  <2>2. From(<<>>, 0)
    BY <2>1
  <2>3. From(f[0], 0)
    BY <2>1, <2>2
  <2> QED BY <2>1, <2>3
<1>14. \A k \in 0..n : k < n /\ k \in T => k + 1 \in T
  <2> SUFFICES ASSUME NEW k \in 0..n, k < n, From(f[k], k) PROVE From(f[k + 1], k + 1) /\ k + 1 \in 0..n
    OBVIOUS
  <2> DEFINE s == f[k]
             m == k + 1
             x == p[m]
  <2>1. m \in 1..n /\ m \in 0..n /\ m - 1 = k /\ k \in Nat
    BY <1>1
  <2>2. f[m] = Step(s, m)
    BY <1>11, <2>1
  <2>3. From(s, k) /\ x \in V
    BY <1>c, <2>1
  <2> HIDE DEF s
  <2>4. CASE x.kind = "group"
    BY <1>a, <2>1, <2>2, <2>4, <2>3
  <2>5. CASE x.kind # "group"
    <3>1. f[m] = Append(s, x)
      BY <1>b, <2>1, <2>2, <2>5
    <3> DEFINE t == Append(s, x)
    <3>2. /\ t \in Seq(V) /\ Len(t) = Len(s) + 1 /\ t[Len(s) + 1] = x /\ Len(s) \in Nat
          /\ \A i \in 1..Len(s) : t[i] = s[i]
      BY <2>3
    <3> HIDE DEF t
    <3>3. ASSUME NEW i \in 1..Len(t)
          PROVE  \E j \in 1..m : t[i] = p[j] /\ p[j].kind # "group" /\ (i < Len(t) => j < m)
      <4>1. CASE i = Len(s) + 1
        BY <2>1, <3>2, <4>1, <2>5
      <4>2. CASE i # Len(s) + 1
        <5>1. i \in 1..Len(s) /\ t[i] = s[i]
          BY <3>2, <4>2
        <5>2. PICK j \in 1..k : s[i] = p[j] /\ p[j].kind # "group"
          BY <2>3, <5>1
        <5>3. j \in 1..m /\ j < m
          BY <2>1
        <5> QED BY <5>1, <5>2, <5>3
      <4> QED BY <4>1, <4>2
    <3>4. From(t, m)
      BY <3>2, <3>3
    <3> QED BY <2>1, <3>1, <3>4 DEF t
  <2> QED BY <2>4, <2>5
<1>15. n \in T
  <2> HIDE DEF T
  <2>1. \A k \in 0..n : k \in T
    BY ONLY <1>1, <1>13, <1>14, UpTo
  <2> QED BY <1>1, <2>1
<1>16. From(f[n], n)
  BY <1>15
<1> QED BY <1>2, <1>12, <1>16 DEF n

RouSegs == [kind : RouKinds, name : STRING]

\* What parse leaves of a pattern's segments once the groups are gone.
RouSegmentsOk(s) ==
    /\ s \in Seq(RouSegs)
    /\ \A i \in 1..Len(s) : /\ s[i].kind # "group"
                            /\ s[i].kind = "literal" => s[i].name \in DOMAIN RouFold
                            /\ s[i].kind \in {"optional", "catchall"} => i = Len(s)

LEMMA RouSegmentsValid ==
    ASSUME NEW p \in Seq(RouSegs), RouPatternValid(p)
    PROVE  /\ RouSegmentsOk(RouSegments(p))
           /\ \A i \in 1..Len(RouSegments(p)) : RouSegments(p)[i] \in ToSet(p)
<1> DEFINE s == RouSegments(p)
<1>1. /\ s \in Seq(RouSegs)
      /\ \A i \in 1..Len(s) : \E j \in 1..Len(p) :
            s[i] = p[j] /\ p[j].kind # "group" /\ (i < Len(s) => j < Len(p))
  BY RouSegmentsKept
<1>2. DOMAIN p = 1..Len(p) /\ Len(p) \in Nat
  OBVIOUS
<1> HIDE DEF s
<1>3. Len(s) \in Nat
  BY <1>1
<1>4. ASSUME NEW i \in 1..Len(s)
      PROVE  /\ s[i] \in ToSet(p) /\ s[i].kind # "group"
             /\ s[i].kind = "literal" => s[i].name \in DOMAIN RouFold
             /\ s[i].kind \in {"optional", "catchall"} => i = Len(s)
  <2>1. PICK j \in 1..Len(p) : s[i] = p[j] /\ p[j].kind # "group" /\ (i < Len(s) => j < Len(p))
    BY <1>1
  <2>2. s[i] \in ToSet(p)
    BY <1>2, <2>1 DEF ToSet
  <2>3. p[j].kind = "literal" => p[j].name \in DOMAIN RouFold
    BY SMTT(60), <1>2 DEF RouPatternValid
  <2>4. p[j].kind \in {"optional", "catchall"} => j = Len(p)
    BY <1>2 DEF RouPatternValid
  <2>5. ~(j < Len(p)) => i = Len(s)
    BY <1>3, <2>1
  <2>6. j = Len(p) => ~(j < Len(p))
    BY <1>2
  <2> QED BY <2>1, <2>2, <2>3, <2>4, <2>5, <2>6
<1> QED BY <1>1, <1>4 DEF s, RouSegmentsOk

\* What match_admitted asks of a path, segment by segment.
RouMatched(s, path) ==
    /\ \A i \in 1..Len(s) :
          /\ s[i].kind = "literal" => i <= Len(path) /\ RouFold[s[i].name].nfc = path[i]
          /\ s[i].kind = "parameter" => i <= Len(path)
          /\ s[i].kind = "catchall" => i <= Len(path)
          /\ s[i].kind = "optional" => Len(path) \in {i - 1, i}
    /\ Len(s) = 0 => Len(path) = 0
    /\ Len(s) > 0 /\ s[Len(s)].kind \in {"literal", "parameter"} => Len(path) = Len(s)

LEMMA RouMatchesSegments ==
    ASSUME NEW p, RouSegmentsOk(RouSegments(p)), NEW path, Len(path) \in Nat, RouMatches(p, path)
    PROVE  RouMatched(RouSegments(p), path)
<1> DEFINE s == RouSegments(p)
           m == Len(s)
           l == Len(path)
           open == s /= <<>> /\ s[m].kind \in {"optional", "catchall"}
           fixed == IF open THEN m - 1 ELSE m
<1>1. /\ fixed <= l
      /\ \A i \in 1..fixed : s[i].kind = "literal" => RouFold[s[i].name].nfc = path[i]
      /\ ~open => l = fixed
      /\ open /\ s[m].kind = "optional" => l \in {fixed, fixed + 1}
      /\ open /\ s[m].kind # "optional" => l > fixed
  BY DEF RouMatches
<1>2. /\ s \in Seq(RouSegs) /\ m \in Nat /\ l \in Nat /\ (s = <<>> <=> m = 0)
      /\ \A i \in 1..m : /\ s[i].kind # "group" /\ s[i].kind \in RouKinds
                         /\ s[i].kind \in {"optional", "catchall"} => i = m
  <2>1. RouSegmentsOk(s) /\ l \in Nat
    OBVIOUS
  <2> HIDE DEF s, l
  <2>2. s \in Seq(RouSegs) /\ m \in Nat
    BY <2>1 DEF RouSegmentsOk
  <2>3. s = <<>> <=> m = 0
    BY <2>2
  <2>4. \A i \in 1..m : s[i] \in RouSegs
    BY <2>2
  <2>5. \A i \in 1..m : s[i].kind \in RouKinds
    BY <2>4 DEF RouSegs
  <2> QED BY <2>1, <2>2, <2>3, <2>5 DEF RouSegmentsOk
<1> HIDE DEF s, m, l
<1>3. CASE open
  <2>1. m > 0 /\ fixed = m - 1 /\ m \in 1..m /\ s[m].kind \in {"optional", "catchall"}
    BY <1>2, <1>3
  <2>2. /\ m - 1 <= l
        /\ \A i \in 1..(m - 1) : s[i].kind = "literal" => RouFold[s[i].name].nfc = path[i]
        /\ s[m].kind = "optional" => l \in {m - 1, m}
        /\ s[m].kind = "catchall" => l > m - 1
    BY <1>1, <1>2, <1>3, <2>1
  <2>3. ASSUME NEW i \in 1..m
        PROVE  /\ s[i].kind = "literal" => i <= l /\ RouFold[s[i].name].nfc = path[i]
               /\ s[i].kind = "parameter" => i <= l
               /\ s[i].kind = "catchall" => i <= l
               /\ s[i].kind = "optional" => l \in {i - 1, i}
    BY <1>2, <2>1, <2>2
  <2> QED BY <1>2, <2>1, <2>3 DEF RouMatched, s, m, l
<1>4. CASE ~open
  BY <1>1, <1>4, <1>2 DEF RouMatched, s, m, l
<1> QED BY <1>3, <1>4

\* The order of two weights, place by place.
LEMMA RouLessAt ==
    ASSUME NEW u \in Seq(Nat), NEW v \in Seq(Nat), NEW n \in Nat, n <= Len(u), n < Len(v),
           \A i \in 1..n : u[i] = v[i], n = Len(u) \/ u[n + 1] < v[n + 1]
    PROVE  RouLess(u, v)
  BY DEF RouLess

LEMMA RouLessPlaces ==
    ASSUME NEW u \in Seq(Nat), NEW v \in Seq(Nat), RouLess(u, v)
    PROVE  \E n \in Nat : /\ n <= Len(u) /\ n < Len(v) /\ (n = Len(u) \/ u[n + 1] < v[n + 1])
                          /\ \A i \in 1..n : u[i] = v[i]
  BY DEF RouLess

LEMMA RouLessAsymmetric ==
    ASSUME NEW u \in Seq(Nat), NEW v \in Seq(Nat), RouLess(u, v), RouLess(v, u)
    PROVE  FALSE
<1>1. PICK n \in Nat : /\ n <= Len(u) /\ n < Len(v) /\ (n = Len(u) \/ u[n + 1] < v[n + 1])
                       /\ \A i \in 1..n : u[i] = v[i]
  BY RouLessPlaces
<1>2. PICK m \in Nat : /\ m <= Len(v) /\ m < Len(u) /\ (m = Len(v) \/ v[m + 1] < u[m + 1])
                       /\ \A i \in 1..m : v[i] = u[i]
  BY RouLessPlaces
<1>3. Len(u) \in Nat /\ Len(v) \in Nat
  OBVIOUS
<1>4. CASE n < m
  BY <1>1, <1>2, <1>3, <1>4
<1>5. CASE m < n
  <2>1. m + 1 \in 1..n /\ m # Len(v) /\ m + 1 \in 1..Len(u) /\ m + 1 \in 1..Len(v)
    BY <1>1, <1>2, <1>3, <1>5
  <2>2. v[m + 1] < u[m + 1] /\ v[m + 1] = u[m + 1] /\ u[m + 1] \in Nat
    BY <1>1, <1>2, <2>1
  <2> QED BY <2>2
<1>6. CASE m = n
  BY <1>1, <1>2, <1>3, <1>6
<1> QED BY <1>1, <1>2, <1>4, <1>5, <1>6

-----------------------------------------------------------------------------
(* Two routes that match one request.                                      *)

RouFull(s) == [i \in 1..Len(s) |-> RouShape(s[i])]
RouWeights(s) == [i \in 1..Len(s) |-> RouWeight[s[i].kind]]

\* The shapes of two patterns collide.
RouSameShape(u, v) ==
    \/ RouFull(u) = RouFull(v)
    \/ /\ Len(u) > 0 /\ u[Len(u)].kind = "optional"
       /\ SubSeq(RouFull(u), 1, Len(u) - 1) = RouFull(v)
    \/ /\ Len(v) > 0 /\ v[Len(v)].kind = "optional"
       /\ RouFull(u) = SubSeq(RouFull(v), 1, Len(v) - 1)

RouTakesOver(u, v) ==
    /\ Len(v) > 0 /\ v[Len(v)].kind = "catchall"
    /\ Len(u) >= Len(v) /\ u[Len(v)].kind \in {"parameter", "optional"}
    /\ \A i \in 1..(Len(v) - 1) : RouShape(u[i]) = RouShape(v[i])

LEMMA RouShapes ==
    ASSUME NEW s, NEW t, s.kind \in RouKinds \ {"group"}, t.kind \in RouKinds \ {"group"},
           RouShape(s) = RouShape(t)
    PROVE  \/ s.kind = t.kind
           \/ s.kind \in {"parameter", "optional"} /\ t.kind \in {"parameter", "optional"}
  BY DEF RouShape, RouKinds

LEMMA RouKindWeights ==
    /\ RouWeight["literal"] = 4 /\ RouWeight["parameter"] = 3 /\ RouWeight["optional"] = 2
    /\ RouWeight["catchall"] = 1
  BY DEF RouWeight, RouKinds

LEMMA RouWeightsSeq ==
    ASSUME NEW s, RouSegmentsOk(s)
    PROVE  /\ RouWeights(s) \in Seq(Nat) /\ Len(RouWeights(s)) = Len(s)
           /\ \A i \in 1..Len(s) : RouWeights(s)[i] = RouWeight[s[i].kind]
           /\ \A i \in 1..Len(s) : s[i].kind \in RouKinds \ {"group"}
           /\ Len(s) \in Nat
<1>1. s \in Seq(RouSegs) /\ Len(s) \in Nat
  BY DEF RouSegmentsOk
<1>2. \A i \in 1..Len(s) : s[i] \in RouSegs
  BY <1>1
<1>3. \A i \in 1..Len(s) : s[i].kind \in RouKinds \ {"group"}
  BY <1>2 DEF RouSegs, RouSegmentsOk
<1>4. \A i \in 1..Len(s) : RouWeight[s[i].kind] \in Nat
  BY <1>3, RouKindWeights DEF RouKinds
<1>5. RouWeights(s) \in Seq(Nat) /\ Len(RouWeights(s)) = Len(s)
  BY <1>1, <1>4 DEF RouWeights
<1> QED BY <1>1, <1>3, <1>5 DEF RouWeights

\* Of two patterns that match a path, of which one only spells what the other
\* spells too, this other is more specific, or they collide, or it ends in a
\* catch-all and is overtaken.
LEMMA RouMatchesAreOrdered ==
    ASSUME NEW u, NEW v, NEW path, RouSegmentsOk(u), RouSegmentsOk(v),
           RouMatched(u, path), RouMatched(v, path), Len(path) \in Nat,
           \A i \in 1..Len(u) : u[i].kind = "literal" =>
               i <= Len(v) /\ v[i].kind = "literal" /\ RouShape(u[i]) = RouShape(v[i])
    PROVE  RouLess(RouWeights(u), RouWeights(v)) \/ RouSameShape(u, v) \/ RouTakesOver(u, v)
<1> DEFINE a == Len(u)
           b == Len(v)
           l == Len(path)
           C == {i \in 1..(a + 1) : i > a \/ i > b \/ RouShape(u[i]) # RouShape(v[i])}
<1>1. a \in Nat /\ b \in Nat /\ l \in Nat
  BY RouWeightsSeq
<1>2. \A i \in 1..a : /\ u[i].kind \in RouKinds \ {"group"}
                      /\ u[i].kind \in {"optional", "catchall"} => i = a
  BY RouWeightsSeq DEF RouSegmentsOk
<1>3. \A i \in 1..b : /\ v[i].kind \in RouKinds \ {"group"}
                      /\ v[i].kind \in {"optional", "catchall"} => i = b
  BY RouWeightsSeq DEF RouSegmentsOk
<1> HIDE DEF a, b, l
<1>4. C \subseteq Nat /\ a + 1 \in C
  BY <1>1
<1>5. PICK d \in C : \A i \in C : ~(i < d)
  <2> HIDE DEF C
  <2> QED BY ONLY <1>4, Least
<1>6. /\ d \in 1..(a + 1) /\ (d > a \/ d > b \/ RouShape(u[d]) # RouShape(v[d]))
      /\ \A i \in 1..(d - 1) : i \in 1..a /\ i \in 1..b /\ RouShape(u[i]) = RouShape(v[i])
  BY <1>1, <1>5
<1> HIDE DEF C
<1>7. CASE d <= a /\ d <= b
  <2>1. d \in 1..a /\ d \in 1..b /\ d \in Nat /\ RouShape(u[d]) # RouShape(v[d])
    BY <1>1, <1>6, <1>7
  <2>2. ASSUME NEW i \in 1..(d - 1) PROVE u[i].kind = v[i].kind
    BY <1>1, <1>6, <2>1, <1>2, <1>3, RouShapes
  <2>3. u[d].kind # "literal"
    BY <2>1 DEF a
  <2>4. CASE v[d].kind = "catchall"
    <3>1. d = b /\ b > 0 /\ a >= b
      BY <1>1, <1>3, <2>1, <2>4
    <3>2. u[d].kind # "catchall"
      BY <2>1, <2>4 DEF RouShape
    <3>3. u[d].kind \in {"parameter", "optional"}
      BY <1>2, <2>1, <2>3, <3>2 DEF RouKinds
    <3>4. RouTakesOver(u, v)
      BY <1>6, <2>4, <3>1, <3>3 DEF RouTakesOver, a, b
    <3> QED BY <3>4
  <2>5. CASE v[d].kind # "catchall"
    <3>1. RouWeight[u[d].kind] < RouWeight[v[d].kind]
      BY <1>2, <2>1, <2>3, RouKindWeights, <1>3, <2>5 DEF RouKinds, RouShape
    <3> DEFINE x == RouWeights(u)
               y == RouWeights(v)
               n == d - 1
    <3>2. /\ x \in Seq(Nat) /\ Len(x) = a /\ \A i \in 1..a : x[i] = RouWeight[u[i].kind]
      BY RouWeightsSeq DEF a
    <3>3. /\ y \in Seq(Nat) /\ Len(y) = b /\ \A i \in 1..b : y[i] = RouWeight[v[i].kind]
      BY RouWeightsSeq DEF b
    <3> HIDE DEF x, y
    <3>4. \A i \in 1..n : x[i] = y[i]
      <4> SUFFICES ASSUME NEW i \in 1..n PROVE x[i] = y[i]
        OBVIOUS
      <4>1. i \in 1..a /\ i \in 1..b
        BY <1>6
      <4>2. u[i].kind = v[i].kind
        BY <2>2
      <4> QED BY <3>2, <3>3, <4>1, <4>2
    <3>5. n \in Nat /\ n + 1 = d /\ n <= a /\ n < b
      BY <1>1, <2>1
    <3>6. x[n + 1] < y[n + 1]
      BY <2>1, <3>1, <3>2, <3>3, <3>5
    <3> HIDE DEF n
    <3>7. RouLess(x, y)
      BY <3>2, <3>3, <3>4, <3>5, <3>6, RouLessAt
    <3> QED BY <3>7 DEF x, y
  <2> QED BY <2>4, <2>5
<1>8. CASE d > a \/ d > b
  <2>1. \A i \in 1..a : i <= b => RouShape(u[i]) = RouShape(v[i])
    BY <1>1, <1>6, <1>8
  <2>2. a > 0 /\ u[a].kind = "catchall" => l >= a
    BY <1>1 DEF RouMatched, a, l
  <2>3. a = 0 \/ u[a].kind # "catchall" => l <= a
    BY <1>1, <1>2 DEF RouKinds, RouMatched, a, l
  <2>4. b = 0 \/ v[b].kind # "catchall" => l <= b
    BY <1>1, <1>3 DEF RouKinds, RouMatched, b, l
  <2>5. b > 0 => l >= b - 1 /\ (v[b].kind # "optional" => l >= b)
    BY <1>1, <1>3 DEF RouKinds, RouMatched, b, l
  <2>6. a > 0 => l >= a - 1 /\ (u[a].kind # "optional" => l >= a)
    BY <1>1, <1>2 DEF RouKinds, RouMatched, a, l
  <2>7. CASE a = b
    <3>1. RouFull(u) = RouFull(v)
      BY <1>1, <2>1, <2>7 DEF RouFull, a, b
    <3> QED BY <3>1 DEF RouSameShape
  <2>8. CASE a < b
    <3>1. a = 0 \/ u[a].kind # "catchall"
      BY <1>1, <2>8, <2>1, <1>2, <1>3, RouShapes
    <3>2. l = a /\ a = b - 1 /\ b > 0 /\ v[b].kind = "optional"
      BY <1>1, <2>3, <2>5, <2>8, <3>1
    <3>3. RouFull(u) = SubSeq(RouFull(v), 1, b - 1)
      BY <1>1, <2>1, <3>2 DEF RouFull, b, a
    <3> QED BY <3>2, <3>3 DEF RouSameShape, b
  <2>9. CASE b < a
    <3>1. b = 0 \/ v[b].kind # "catchall"
      BY <1>1, <2>9, <2>1, <1>2, <1>3, RouShapes
    <3>2. l = b /\ b = a - 1 /\ a > 0 /\ u[a].kind = "optional"
      BY <1>1, <2>4, <2>6, <2>9, <3>1
    <3>3. SubSeq(RouFull(u), 1, a - 1) = RouFull(v)
      BY <1>1, <2>1, <3>2 DEF RouFull, a, b
    <3> QED BY <3>2, <3>3 DEF RouSameShape, a
  <2> QED BY <1>1, <2>7, <2>8, <2>9
<1> QED BY <1>1, <1>6, <1>7, <1>8

LEMMA RouSpecificityWeights ==
    ASSUME NEW p, RouSegmentsOk(RouSegments(p))
    PROVE  RouSpecificity(p) = RouWeights(RouSegments(p))
  BY DEF RouSegmentsOk, RouSpecificity, RouWeights

\* Two patterns of one shape have a key in common.
LEMMA RouSameShapeCollides ==
    ASSUME NEW p, NEW o, RouSegmentsOk(RouSegments(p)), RouSegmentsOk(RouSegments(o)),
           RouSameShape(RouSegments(p), RouSegments(o))
    PROVE  RouShapeKeys(p) \cap RouShapeKeys(o) # {}
<1>1. ASSUME NEW z, RouSegmentsOk(RouSegments(z))
      PROVE  /\ RouFull(RouSegments(z)) \in RouShapeKeys(z)
             /\ Len(RouSegments(z)) > 0 /\ RouSegments(z)[Len(RouSegments(z))].kind = "optional" =>
                   SubSeq(RouFull(RouSegments(z)), 1, Len(RouSegments(z)) - 1) \in RouShapeKeys(z)
  <2> DEFINE s == RouSegments(z)
             full == RouFull(s)
  <2>1. s \in Seq(RouSegs)
    BY <1>1 DEF RouSegmentsOk
  <2>2. RouShapeKeys(z) =
            {[i \in DOMAIN s |-> RouShape(s[i])]} \cup
              IF s /= <<>> /\ s[Len(s)].kind = "optional"
              THEN {SubSeq([i \in DOMAIN s |-> RouShape(s[i])], 1,
                           Len([i \in DOMAIN s |-> RouShape(s[i])]) - 1)} ELSE {}
    BY DEF RouShapeKeys
  <2> HIDE DEF s
  <2>3. DOMAIN s = 1..Len(s) /\ Len(s) \in Nat /\ (Len(s) > 0 => s # <<>>)
    BY <2>1
  <2>4. [i \in DOMAIN s |-> RouShape(s[i])] = full /\ Len(full) = Len(s)
    BY SMTT(60), <2>3 DEF RouFull
  <2> HIDE DEF full
  <2>5. full \in RouShapeKeys(z)
    BY ZenonT(60), <2>2, <2>4
  <2>6. Len(s) > 0 /\ s[Len(s)].kind = "optional" => SubSeq(full, 1, Len(s) - 1) \in RouShapeKeys(z)
    BY <2>2, <2>3, <2>4
  <2> QED BY <2>5, <2>6 DEF s, full
<1> DEFINE u == RouSegments(p)
           v == RouSegments(o)
<1>2. /\ RouFull(u) \in RouShapeKeys(p)
      /\ Len(u) > 0 /\ u[Len(u)].kind = "optional" =>
            SubSeq(RouFull(u), 1, Len(u) - 1) \in RouShapeKeys(p)
  BY <1>1
<1>3. /\ RouFull(v) \in RouShapeKeys(o)
      /\ Len(v) > 0 /\ v[Len(v)].kind = "optional" =>
            SubSeq(RouFull(v), 1, Len(v) - 1) \in RouShapeKeys(o)
  BY <1>1
<1>4. RouSameShape(u, v)
  OBVIOUS
<1> HIDE DEF u, v
<1> QED BY <1>2, <1>3, <1>4 DEF RouSameShape

\* The routes of a builder are valid specifications.
RouBuilt(b) ==
    \A r \in b.routes : r \in RouRoutes /\ RouRouteSpecValid(r)

LEMMA RouBuiltSegments ==
    ASSUME NEW b, RouBuilt(b), NEW r \in b.routes
    PROVE  /\ RouSegmentsOk(RouSegments(r.pattern))
           /\ \A i \in 1..Len(RouSegments(r.pattern)) : RouSegments(r.pattern)[i] \in ToSet(r.pattern)
  BY RouAssumption, RouSegmentsValid DEF RouBuilt, RouRouteSpecValid, RouSegs

\* Every other route that matches a request that only fills a route comes after
\* it in match order, unless it overtakes it.
LEMMA RouOthersAreLess ==
    ASSUME NEW b, RouBuilt(b), ~RouCollides(b), NEW r \in b.routes, NEW s \in b.routes, s # r,
           NEW q \in RouRequests, RouFills(b, r, q), s.method = r.method,
           RouMatches(s.pattern, RouPath(q)), ~RouOvertakes(s, r, q)
    PROVE  RouLess(RouSpecificity(s.pattern), RouSpecificity(r.pattern))
<1> DEFINE u == RouSegments(s.pattern)
           v == RouSegments(r.pattern)
           path == RouPath(q)
<1>1. /\ RouSegmentsOk(u) /\ RouSegmentsOk(v)
      /\ \A i \in 1..Len(u) : u[i] \in ToSet(s.pattern)
  BY RouBuiltSegments
<1>2. q.path \in Seq(STRING)
  BY RouAssumption
<1>3. Len(path) \in Nat /\ DOMAIN q.path = 1..Len(path)
  BY <1>2 DEF RouPath
<1>4. RouMatches(r.pattern, path)
  BY DEF RouFills
<1>5. RouMatched(u, path) /\ RouMatched(v, path)
  BY <1>1, <1>3, <1>4, RouMatchesSegments DEF path
<1>6. ASSUME NEW i \in DOMAIN q.path, NEW t \in ToSet(s.pattern), t.kind = "literal",
             RouFold[t.name].nfc = path[i]
      PROVE  i <= Len(v) /\ v[i].kind = "literal"
  BY <1>6 DEF RouFills
<1>7. ~RouTakesOver(u, v)
  BY DEF RouOvertakes, RouTakesOver
<1>8. ~RouSameShape(u, v)
  BY <1>1, RouSameShapeCollides DEF RouCollides
<1>9. RouSpecificity(s.pattern) = RouWeights(u) /\ RouSpecificity(r.pattern) = RouWeights(v)
  BY <1>1, RouSpecificityWeights
<1> HIDE DEF u, v, path
<1>10. ASSUME NEW i \in 1..Len(u), u[i].kind = "literal"
       PROVE  i <= Len(v) /\ v[i].kind = "literal" /\ RouShape(u[i]) = RouShape(v[i])
  <2>1. Len(u) \in Nat /\ Len(v) \in Nat
    BY <1>1, RouWeightsSeq
  <2>2. i <= Len(path) /\ RouFold[u[i].name].nfc = path[i]
    BY <1>5, <1>10 DEF RouMatched
  <2>3. i \in DOMAIN q.path
    BY <1>3, <2>1, <2>2
  <2>4. i <= Len(v) /\ v[i].kind = "literal"
    BY <1>1, <1>6, <1>10, <2>2, <2>3
  <2>5. i \in 1..Len(v)
    BY <2>1, <2>4
  <2>6. RouFold[v[i].name].nfc = path[i]
    BY <1>5, <2>4, <2>5 DEF RouMatched
  <2>7. u[i].name \in DOMAIN RouFold /\ v[i].name \in DOMAIN RouFold
    BY <1>1, <1>10, <2>4, <2>5 DEF RouSegmentsOk
  <2>8. RouFold[u[i].name].key = RouFold[v[i].name].key
    BY <2>2, <2>6, <2>7, RouAssumption
  <2> QED BY <1>10, <2>4, <2>8 DEF RouShape
<1>11. RouLess(RouWeights(u), RouWeights(v)) \/ RouSameShape(u, v) \/ RouTakesOver(u, v)
  BY <1>1, <1>3, <1>5, <1>10, RouMatchesAreOrdered
<1> QED BY <1>7, <1>8, <1>9, <1>11

LEMMA RouFilledAnswers ==
    ASSUME NEW b, RouBuilt(b), ~RouCollides(b), NEW r \in b.routes,
           NEW q \in RouRequests, RouFills(b, r, q),
           \A s \in b.routes : ~RouOvertakes(s, r, q)
    PROVE  RouAnswer(b, q).outcome = "matched" /\ RouAnswer(b, q).route = r.id
<1> DEFINE path == RouPath(q)
           matching == {s \in b.routes : s.method = q.method /\ RouMatches(s.pattern, path)}
           Best(x) == \A s \in matching : ~RouLess(RouSpecificity(x.pattern), RouSpecificity(s.pattern))
<1>1. q.method = r.method /\ RouMatches(r.pattern, path) /\ ToSet(q.path) \subseteq DOMAIN RouFold
  BY DEF RouFills
<1>2. r \in matching
  BY <1>1
<1>3. \A s \in matching : s # r => RouLess(RouSpecificity(s.pattern), RouSpecificity(r.pattern))
  BY <1>1, RouOthersAreLess
<1>4. \A s \in b.routes : RouSpecificity(s.pattern) \in Seq(Nat)
  BY RouBuiltSegments, RouSpecificityWeights, RouWeightsSeq
<1>5. Best(r)
  BY <1>4, <1>3, RouLessAsymmetric
<1>6. \A x \in matching : Best(x) => x = r
  <2> HIDE DEF matching
  <2> QED BY <1>2, <1>3
<1>7. RouBest(b, q.method, path) = CHOOSE x \in matching : Best(x)
  BY DEF RouBest
<1>8. RouBest(b, q.method, path) = r
  <2> HIDE DEF matching, Best
  <2> QED BY <1>2, <1>5, <1>6, <1>7
<1>9. ~\E i \in DOMAIN q.path : q.path[i] \notin DOMAIN RouFold
  BY <1>1 DEF ToSet
<1>10. q.method \in {x.method : x \in {s \in b.routes : RouMatches(s.pattern, path)}}
  BY <1>1
<1> QED BY <1>8, <1>9, <1>10 DEF RouAnswer

LEMMA RouInitOk == RouInit => RouInvariant
  BY DEF RouInit, RouInvariant

LEMMA RouNextOk == RouInvariant /\ [RouNext]_rouVars => RouInvariant'
<1> SUFFICES ASSUME RouInvariant, [RouNext]_rouVars PROVE RouInvariant'
  OBVIOUS
<1>0. /\ rou \in [at : {"open", "sealed", "refused"}, routes : SUBSET RouRoutes,
                  scopes : SUBSET RouScopes, again : BOOLEAN,
                  root : RouRoots]
      /\ \A r \in rou.routes : RouRouteSpecValid(r)
  BY DEF RouInvariant
<1>1. ASSUME NEW r \in RouRoutes, RouAdd(r) PROVE RouInvariant'
  BY <1>1, <1>0 DEF RouAdd, RouInvariant
<1>2. ASSUME NEW s \in RouScopes, RouAddScope(s) PROVE RouInvariant'
  BY <1>2, <1>0 DEF RouAddScope, RouInvariant
<1>3. CASE RouSeal
  BY <1>3, <1>0 DEF RouSeal, RouSealable, RouCollides, RouInvariant
<1>4. ASSUME NEW q \in RouRequests, RouResolve(q) PROVE RouInvariant'
  BY <1>4 DEF RouResolve, RouInvariant
<1>5. CASE UNCHANGED rouVars
  BY <1>5 DEF rouVars, RouInvariant
<1> QED BY <1>1, <1>2, <1>3, <1>4, <1>5 DEF RouNext

LEMMA RouInvariantSuffices == RouInvariant => RouOnlyCatchAllsAreShadowed
  BY RouFilledAnswers DEF RouOnlyCatchAllsAreShadowed, RouInvariant, RouBuilt

\* RouteGraphBuilder::seal and RouteGraph::resolve: for every set of routes and
\* scopes, every way of normalising names and every order of adding them, a
\* route of a sealed graph answers each request that only fills its parameters;
\* the one exception is a catch-all where another route has a parameter.
THEOREM OnlyCatchAllsAreShadowed == RouSpec => []RouOnlyCatchAllsAreShadowed
  BY RouInitOk, RouNextOk, RouInvariantSuffices, PTL DEF RouSpec
=============================================================================
