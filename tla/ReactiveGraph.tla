---------------------------- MODULE ReactiveGraph ----------------------------
(***************************************************************************)
(* The push-pull reactive graph of pliego-reactive: signals, memos and     *)
(* effects of one thread, invalidation (mark_subscribers), lazy settling   *)
(* (update_if_necessary), provisional computation frames, batches, the     *)
(* effect flush with its safety budget, and panics of user code.           *)
(*                                                                         *)
(* Everything runs on one thread, but user code nests inside the runtime   *)
(* and the runtime inside user code, so the state has a call stack.  User  *)
(* code is free within a program shape: a computation may read any of the  *)
(* nodes it may read, in any order, write signals, panic or return at any  *)
(* point.  Values are abstracted to whether they are still the ones a      *)
(* computation read: fresh[n] are the sources of n that have not changed   *)
(* since n read them.                                                      *)
(*                                                                         *)
(* pending is modelled by the set of queued effects, flushed in any order, *)
(* and a source list by its set, pulled in any order.                      *)
(***************************************************************************)
EXTENDS Naturals, Sequences, FiniteSets

CONSTANTS
    Signals, Memos, Effects,
    MayRead,    \* what a computation, or the update callback of a signal, may read
    MayWrite,   \* the signals it may write
    MayPanic,   \* computations and update callbacks that may panic
    Disposable, \* nodes the application may dispose of
    MaxRuns     \* the effect budget of one flush

Nodes == Signals \cup Memos \cup Effects
Computations == Memos \cup Effects

ASSUME ShapeAssumption ==
    /\ MayRead \in [Nodes -> SUBSET (Signals \cup Memos)]
    /\ MayWrite \in [Nodes -> SUBSET Signals]
    /\ MayPanic \subseteq Nodes
    /\ Disposable \subseteq Nodes
    /\ MaxRuns \in Nat \ {0}

VARIABLES
    live,        \* nodes whose handle resolves
    color,       \* Node.color
    ran,         \* memos with a value
    retry,       \* nodes with retry_notify
    queued,      \* effects with queued, which are those in Runtime.pending
    sources,     \* Node.sources
    subscribers, \* Node.subscribers
    stack,       \* running calls, innermost last
    unwinding,   \* a panic is propagating
    fresh,       \* history: sources unchanged since they were read
    gaveup       \* history: effects whose last attempt panicked or was discarded

rxVars == <<live, color, ran, retry, queued, sources, subscribers, stack,
          unwinding, fresh, gaveup>>
graph == <<live, color, ran, retry, queued, sources, subscribers, fresh, gaveup>>

-----------------------------------------------------------------------------
(* The call stack.                                                         *)

Top == stack[Len(stack)]
Below(s) == SubSeq(s, 1, Len(s) - 1)
TopIs(op) == stack # << >> /\ Top.op = op

FlushCall == [op |-> "flush", id |-> "none", runs |-> 0, failed |-> FALSE]
PullCall(n, by) == [op |-> "pull", id |-> n, by |-> by, todo |-> sources[n] \cap Memos]
RunCall(n, by) == [op |-> "run", id |-> n, by |-> by, sources |-> {}, fresh |-> {},
                   asked |-> {}, wrote |-> {}]
UpdateCall(s) == [op |-> "update", id |-> s, asked |-> {}, wrote |-> {}]

Calls(s, op) == {i \in 1..Len(s) : s[i].op = op}

Running(n)  == \E i \in Calls(stack, "run") : stack[i].id = n
Updating(n) == \E i \in Calls(stack, "update") : stack[i].id = n

\* Runtime.batch_depth and Runtime.flushing
batch_depth(s) == Cardinality(Calls(s, "run") \cup Calls(s, "update"))
flushing(s) == Calls(s, "flush") # {}

\* BatchGuard::finish, then flush_effects or flush_while_preserving: the outer
\* batch flushes; a panic is raised again after the flush.
FinishBatch(s, panicked) ==
    IF batch_depth(s) = 0 /\ ~flushing(s)
    THEN /\ stack' = Append(s, [FlushCall EXCEPT !.failed = panicked])
         /\ unwinding' = FALSE
    ELSE /\ stack' = s
         /\ unwinding' = panicked

\* track: the innermost running computation records what it read.
Tracked(s, n) ==
    LET runs == Calls(s, "run")
    IN  IF runs = {} \/ n \notin live THEN s
        ELSE LET i == CHOOSE j \in runs : \A k \in runs : k <= j
             IN  IF s[i].id = n THEN s
                 ELSE [s EXCEPT ![i].sources = @ \cup {n}, ![i].fresh = @ \cup {n}]

\* The value of n changed: whoever read it has read an old one.
Outdated(s, n) ==
    [i \in 1..Len(s) |-> IF s[i].op = "run" THEN [s[i] EXCEPT !.fresh = @ \ {n}]
                         ELSE s[i]]

-----------------------------------------------------------------------------
(* Invalidation: mark_subscribers_with_force.                              *)

\* Only memos have both sources and subscribers: no path has more edges.
Depth == Cardinality(Memos) + 1

Raise(old, new) ==
    IF "Dirty" \in {old, new} THEN "Dirty"
    ELSE IF "Check" \in {old, new} THEN "Check" ELSE "Clean"

\* The visits of the marking loop: the direct subscribers with the color, what
\* lies behind them with Check.  A visit goes on where it raises the color, or
\* where it or an earlier one on its path found retry_notify.
Visits(subs, of, c, force) ==
    LET Visit(n, hue, f) == [node |-> n, color |-> hue, force |-> f \/ n \in retry]
        Open(v) == /\ v.node \notin Effects
                   /\ v.force \/ Raise(color[v.node], v.color) # color[v.node]
        level[k \in 0..Depth] ==
            IF k = 0 THEN {Visit(n, c, force) : n \in subs[of]}
            ELSE level[k - 1] \cup
                 UNION {{Visit(n, "Check", v.force) : n \in subs[v.node]} :
                           v \in {w \in level[k - 1] : Open(w)}}
    IN  level[Depth]

Reached(visits) == {v.node : v \in visits}

\* The colors, retry marks and queue after the visits; base is the coloring
\* before them.
Mark(visits, base) ==
    /\ color' = [n \in Nodes |->
          LET hues == {v.color : v \in {w \in visits : w.node = n}}
          IN  IF "Dirty" \in hues THEN "Dirty"
              ELSE IF "Check" \in hues THEN Raise(base[n], "Check") ELSE base[n]]
    /\ queued' = queued \cup (Reached(visits) \cap Effects)

\* A signal takes a new value: its subscribers are marked.
Publish(s, rest) ==
    LET visits == Visits(subscribers, s, "Dirty", FALSE)
    IN  /\ Mark(visits, color)
        /\ retry' = retry \ Reached(visits)
        /\ fresh' = [n \in Nodes |-> fresh[n] \ {s}]
        /\ FinishBatch(Outdated(rest, s), FALSE)
        /\ UNCHANGED <<live, ran, sources, subscribers, gaveup>>

-----------------------------------------------------------------------------

RxInit ==
    /\ live = Signals \cup Memos
    /\ color = [n \in Nodes |-> IF n \in Signals THEN "Clean" ELSE "Dirty"]
    /\ ran = {}
    /\ retry = {}
    /\ queued = {}
    /\ sources = [n \in Nodes |-> {}]
    /\ subscribers = [n \in Nodes |-> {}]
    /\ stack = << >>
    /\ unwinding = FALSE
    /\ fresh = [n \in Nodes |-> {}]
    /\ gaveup = {}

-----------------------------------------------------------------------------
(* User code: the application at the root, a computation, or the callback  *)
(* of Signal::update.                                                      *)

UserTurn == ~unwinding /\ (stack # << >> => Top.op \in {"run", "update"})

Throw == unwinding' = TRUE /\ UNCHANGED <<graph, stack>>

\* What the code at the top of the stack may still use or write (bound: each
\* node once per run or callback).
Unused(n)      == stack # << >> => n \notin Top.asked
MayReadNow(n)  == stack # << >> => n \in MayRead[Top.id] \ Top.asked
MayWriteNow(s) == stack # << >> => s \in MayWrite[Top.id] \ Top.wrote

Asked(n) == IF stack = << >> THEN stack
            ELSE [stack EXCEPT ![Len(stack)].asked = @ \cup {n}]
Wrote(s) == IF stack = << >> THEN stack
            ELSE [stack EXCEPT ![Len(stack)].wrote = @ \cup {s}]

\* Signal::get
ReadSignal(s) ==
    /\ UserTurn /\ stack # << >>
    /\ MayReadNow(s)
    /\ IF s \in live
       THEN /\ stack' = Tracked(Asked(s), s)
            /\ UNCHANGED <<graph, unwinding>>
       ELSE Throw

\* Memo::get, from the root, a computation or an update callback
ReadMemo(m) ==
    /\ UserTurn
    /\ MayReadNow(m)
    /\ IF m \in live
       THEN /\ stack' = Append(Asked(m), PullCall(m, "read"))
            /\ UNCHANGED <<graph, unwinding>>
       ELSE Throw

Wider(set) == set \cup UNION {sources[n] : n \in set}

\* Everything the nodes of a set were computed from, themselves included.
Deps(set) ==
    LET wide[k \in 0..Depth] ==
            IF k = 0 THEN set ELSE Wider(wide[k - 1])
    IN  wide[Depth]

\* assert_signal_write_allowed
WriteAllowed(s) ==
    \A i \in Calls(stack, "run") :
        s \notin Deps(stack[i].sources \cup sources[stack[i].id])

\* Signal::set
Set(s) ==
    /\ UserTurn
    /\ MayWriteNow(s)
    /\ IF s \in live /\ WriteAllowed(s) /\ ~Updating(s)
       THEN Publish(s, Wrote(s))
       ELSE Throw

\* Signal::update up to its callback
BeginUpdate(s) ==
    /\ UserTurn
    /\ MayWriteNow(s)
    /\ IF s \in live /\ WriteAllowed(s) /\ ~Updating(s)
       THEN /\ stack' = Append(Wrote(s), UpdateCall(s))
            /\ UNCHANGED <<graph, unwinding>>
       ELSE Throw

\* Signal::update after its callback returned
EndUpdate ==
    /\ ~unwinding /\ TopIs("update")
    /\ Publish(Top.id, Below(stack))

\* Effect::new outside any computation
NewEffect(e) ==
    /\ UserTurn
    /\ Calls(stack, "run") = {}
    /\ Unused(e)
    /\ e \notin live
    /\ live' = live \cup {e}
    /\ color' = [color EXCEPT ![e] = "Dirty"]
    /\ stack' = Append(Asked(e), RunCall(e, "new"))
    /\ gaveup' = gaveup \ {e}
    /\ UNCHANGED <<ran, retry, queued, sources, subscribers, unwinding, fresh>>

Panic ==
    /\ UserTurn /\ stack # << >>
    /\ Top.id \in MayPanic
    /\ Throw

\* collect_disposal of one node: edges and queue entry go with it.
Removed(n) ==
    /\ live' = live \ {n}
    /\ ran' = ran \ {n}
    /\ retry' = retry \ {n}
    /\ queued' = queued \ {n}
    /\ sources' = [m \in Nodes |-> IF m = n THEN {} ELSE sources[m] \ {n}]
    /\ subscribers' = [m \in Nodes |-> IF m = n THEN {} ELSE subscribers[m] \ {n}]
    /\ fresh' = [m \in Nodes |-> IF m = n THEN {} ELSE fresh[m] \ {n}]
    /\ gaveup' = gaveup \ {n}
    /\ UNCHANGED color

\* Signal::dispose, Memo::dispose, Effect::dispose
Dispose(n) ==
    /\ UserTurn
    /\ Unused(n)
    /\ n \in Disposable \cap live
    /\ IF Running(n) \/ Updating(n) THEN Throw
       ELSE Removed(n) /\ FinishBatch(Asked(n), FALSE)

-----------------------------------------------------------------------------
(* The runtime.                                                            *)

\* A finished pull: Memo::get then tracks the memo it settled.
Returned(call, s) == IF call.by = "read" THEN Tracked(s, call.id) ELSE s

\* Mutant: a node to be checked is taken for clean without pulling its sources.
SettlesUnchecked(n, todo) == color[n] # "Dirty"

\* update_if_necessary has nothing left to do for the innermost node.
Settles(n, todo) == color[n] = "Clean" \/ (color[n] = "Check" /\ todo = {})

\* One turn of the loop of update_if_necessary.
Pull ==
    /\ ~unwinding /\ TopIs("pull")
    /\ LET n == Top.id
           active == {stack[i].id : i \in {j \in Calls(stack, "pull") :
                         \A k \in j..Len(stack) : stack[k].op = "pull"}}
       IN  \/ /\ n \notin live  \* disposed of meanwhile: Memo::get panics
              /\ stack' = Below(stack)
              /\ unwinding' = (Top.by = "read")
              /\ UNCHANGED graph
           \/ /\ n \in live
              /\ Settles(n, Top.todo)
              /\ color' = [color EXCEPT ![n] = "Clean"]
              /\ stack' = Returned(Top, Below(stack))
              /\ UNCHANGED <<live, ran, retry, queued, sources, subscribers,
                             unwinding, fresh, gaveup>>
           \/ /\ n \in live
              /\ color[n] = "Dirty"
              /\ IF Running(n)
                 THEN unwinding' = TRUE /\ stack' = Below(stack)
                 ELSE /\ stack' = Append(Below(stack), RunCall(n, Top.by))
                      /\ UNCHANGED unwinding
              /\ UNCHANGED graph
           \/ /\ n \in live
              /\ color[n] = "Check"
              /\ \E m \in Top.todo :
                    LET rest == [stack EXCEPT ![Len(stack)].todo = @ \ {m}]
                    IN  CASE m \notin live -> stack' = rest /\ UNCHANGED unwinding
                          [] m \in live \cap active -> unwinding' = TRUE /\ stack' = Below(stack)
                          [] OTHER -> /\ stack' = Append(rest, PullCall(m, "pull"))
                                      /\ UNCHANGED unwinding
              /\ UNCHANGED graph

\* The subscriber lists after id read the sources new.
Relinked(id, new) ==
    [n \in Nodes |-> IF n \in new THEN subscribers[n] \cup {id}
                     ELSE subscribers[n] \ {id}]

\* commit_computation and the end of run_computation.  changed: the value
\* differs from the previous one (always on the first run of a memo).
Commit(changed) ==
    /\ ~unwinding /\ TopIs("run")
    /\ LET id     == Top.id
           memo   == id \in Memos
           new    == Top.sources \cap live
           subs   == Relinked(id, new)
           base   == [color EXCEPT ![id] = "Clean"]
           visits == IF memo /\ (changed \/ id \in retry)
                     THEN Visits(subs, id, IF changed THEN "Dirty" ELSE "Check",
                                 id \in retry)
                     ELSE {}
           rest   == Below(stack)
       IN  /\ id \in Effects => ~changed
           /\ (memo /\ id \notin ran) => changed
           /\ subscribers' = subs
           /\ sources' = [sources EXCEPT ![id] = new]
           /\ Mark(visits, base)
           /\ retry' = (retry \ {id}) \ Reached(visits)
           /\ ran' = IF memo THEN ran \cup {id} ELSE ran
           /\ fresh' = [n \in Nodes |->
                 IF n = id THEN Top.fresh \cap new
                 ELSE IF changed THEN fresh[n] \ {id} ELSE fresh[n]]
           /\ FinishBatch(Returned(Top, IF changed THEN Outdated(rest, id) ELSE rest),
                          FALSE)
           /\ UNCHANGED <<live, gaveup>>

\* A panic passes through the innermost call.
Unwind ==
    /\ unwinding
    /\ \/ /\ stack = << >>  \* the application catches it
          /\ unwinding' = FALSE
          /\ UNCHANGED <<graph, stack>>
       \/ /\ TopIs("pull")
          /\ stack' = Below(stack)
          /\ UNCHANGED <<graph, unwinding>>
       \/ /\ TopIs("update")
          /\ FinishBatch(Below(stack), TRUE)
          /\ UNCHANGED graph
       \/ /\ TopIs("flush")  \* flush_effects goes on with the next effect
          /\ stack' = [stack EXCEPT ![Len(stack)].failed = TRUE]
          /\ unwinding' = FALSE
          /\ gaveup' = gaveup \cup {Top.id}
          /\ UNCHANGED <<live, color, ran, retry, queued, sources, subscribers, fresh>>

\* A panic passes through run_computation: the frame is dropped, a memo will
\* notify on its next attempt, and an effect that never ran is disposed of.
Rollback ==
    /\ unwinding /\ TopIs("run")
    /\ FinishBatch(Below(stack), TRUE)
    /\ IF Top.by = "new" THEN Removed(Top.id)
       ELSE /\ retry' = IF Top.id \in Memos THEN retry \cup {Top.id} ELSE retry
            /\ UNCHANGED <<live, color, ran, queued, sources, subscribers, fresh, gaveup>>

\* flush_effects takes the next queued effect.
FlushOne(e) ==
    /\ ~unwinding /\ TopIs("flush")
    /\ e \in queued
    /\ Top.runs < MaxRuns
    /\ queued' = queued \ {e}
    /\ stack' = Append([stack EXCEPT ![Len(stack)].runs = @ + 1,
                                     ![Len(stack)].id = e], PullCall(e, "flush"))
    /\ gaveup' = gaveup \ {e}
    /\ UNCHANGED <<live, color, ran, retry, sources, subscribers, unwinding, fresh>>

\* Mutant: discarded effects are simply forgotten.
RearmedNothing(discarded) == {}

\* rearm_discarded_effect for every discarded effect
Rearmed(discarded) == {m \in Deps(discarded) \cap Memos : color[m] = "Dirty"}

\* Mutant: the budget is per effect run, not per flush.
AbortNever ==
    /\ ~unwinding /\ TopIs("flush")
    /\ queued # {}
    /\ Top.runs = MaxRuns
    /\ stack' = [stack EXCEPT ![Len(stack)].runs = 0]
    /\ UNCHANGED <<graph, unwinding>>

\* The budget is spent: the rest of the queue is discarded and the flush panics.
Abort ==
    /\ ~unwinding /\ TopIs("flush")
    /\ queued # {}
    /\ Top.runs = MaxRuns
    /\ retry' = retry \cup Rearmed(queued)
    /\ gaveup' = gaveup \cup queued
    /\ queued' = {}
    /\ stack' = Below(stack)
    /\ unwinding' = TRUE
    /\ UNCHANGED <<live, color, ran, sources, subscribers, fresh>>

EndFlush ==
    /\ ~unwinding /\ TopIs("flush")
    /\ queued = {}
    /\ stack' = Below(stack)
    /\ unwinding' = Top.failed
    /\ UNCHANGED graph

-----------------------------------------------------------------------------

Step ==
    \/ EndUpdate \/ Pull \/ Unwind \/ Rollback \/ Abort \/ EndFlush
    \/ \E changed \in BOOLEAN : Commit(changed)
    \/ \E e \in Effects : FlushOne(e)

RxNext ==
    \/ \E s \in Signals : ReadSignal(s) \/ Set(s) \/ BeginUpdate(s)
    \/ \E m \in Memos : ReadMemo(m)
    \/ \E e \in Effects : NewEffect(e)
    \/ \E n \in Nodes : Dispose(n)
    \/ Panic
    \/ Step

RxSpec == RxInit /\ [][RxNext]_rxVars /\ WF_rxVars(Step)

-----------------------------------------------------------------------------
(* Properties.                                                             *)

\* Everything n was computed from is what it was when it was read.
UpToDate(n) == \A d \in Deps({n}) : sources[d] \subseteq fresh[d]

\* A clean node is current: whatever nests, panics or is written while it
\* settles, no memo or effect is Clean on top of a source that has changed
\* since it was read (update_if_necessary, commit_computation).
CleanIsCurrent ==
    \A n \in live \cap Computations : color[n] = "Clean" => UpToDate(n)

\* When the outermost call has returned, nothing is queued and every effect has
\* seen the current values, unless its last attempt panicked or was discarded by
\* the flush budget (flush_effects, BatchGuard).
EffectsSettle ==
    stack = << >> =>
        /\ queued = {}
        /\ \A e \in (live \cap Effects) \ gaveup : UpToDate(e)

\* Subscriber lists and source lists describe the same edges, between live
\* nodes (commit_computation, collect_disposal).
EdgesAgree ==
    \A n, m \in Nodes :
        /\ n \in sources[m] <=> m \in subscribers[n]
        /\ n \in sources[m] => {n, m} \subseteq live

\* The doc comment of Effect::new: it "re-runs whenever tracked dependencies
\* change".  Between calls, a write to any signal an effect depends on queues
\* that effect (mark_subscribers, rearm_discarded_effect).
WritesReachEffects ==
    stack = << >> =>
        \A e \in live \cap Effects : \A s \in Deps({e}) \cap Signals :
            e \in Reached(Visits(subscribers, s, "Dirty", FALSE))

\* Every call returns, although effects may keep invalidating one another
\* (the budget of flush_effects).
CallsReturn == stack # << >> ~> stack = << >>

\* Outside a call the graph has settled: clean values are current, no effect is
\* owed, and both directions of the edges agree (flush_effects, update_if_necessary).
GraphGuarantees ==
    /\ CleanIsCurrent
    /\ EffectsSettle
    /\ EdgesAgree
=============================================================================
