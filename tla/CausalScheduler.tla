---------------------------- MODULE CausalScheduler ----------------------------
(***************************************************************************)
(* The causal transaction kernel of pliego-fold (scheduler.rs) together    *)
(* with the projection it commits into (projection.rs: settle, prepare,    *)
(* commit_prepared) and the reactive publication of the log (Signal::set). *)
(*                                                                         *)
(* The kernel is single threaded.  What interleaves is user code: event    *)
(* serializers, reducers and reactive effects run in the middle of a drain *)
(* and may enqueue more events, panic, or have been running already when   *)
(* they called dispatch.  A phase in which user code runs is a state of    *)
(* this module; everything between two such phases is one step.            *)
(*                                                                         *)
(* A log event is modelled by the typed event and, as history, the ticket  *)
(* its enqueue returned and the transaction that was active at that time.  *)
(* A LogCursor is a position and a chain hash.  The chain hash binds every *)
(* earlier event (EventLog.tla checks that), so it is modelled by the      *)
(* prefix itself.  The reducer state is the free fold: the sequence of     *)
(* events applied.  A StateRoot digests cursor, contracts and state, so    *)
(* it is modelled by the state next to the cursor.                         *)
(***************************************************************************)
EXTENDS Naturals, Sequences, FiniteSets

CONSTANTS
    Events,                  \* typed events an application can dispatch
    Inadmissible,            \* events whose append_typed fails or panics
    Unreducible,             \* events the catalog or the reducer rejects
    Histories,               \* verified histories from_log may start with
    Contexts,                \* where dispatch and drain are called from
    MaxEventsPerTransaction, \* CausalLimits
    MaxTransactionsPerDrain,
    MaxEventsPerDrain,
    MaxTransactionId         \* u64::MAX

\* "root": no reactive batch is open.  "batched": inside a Signal::update
\* callback or untracked inside a computation.  "tracked": inside a running
\* memo or effect, whose frame records what the drain reads.
ASSUME ContextsAssumption == Contexts \subseteq {"root", "batched", "tracked"}

ASSUME EventsAssumption ==
    /\ Inadmissible \subseteq Events
    /\ Unreducible \subseteq Events
    /\ Histories \subseteq Seq(Events \ (Inadmissible \cup Unreducible))

\* CausalLimits::validate; from_log refuses any other limits.
ASSUME LimitsAssumption ==
    /\ MaxEventsPerTransaction \in Nat \ {0}
    /\ MaxTransactionsPerDrain \in Nat \ {0}
    /\ MaxEventsPerDrain \in Nat \ {0}
    /\ MaxEventsPerTransaction <= MaxEventsPerDrain

ASSUME IdAssumption == MaxTransactionId \in Nat \ {0}

VARIABLES
    phase,            \* CausalCore.phase
    active,           \* CausalCore.active, 0 for None
    next_transaction, \* CausalCore.next_transaction
    ready,            \* CausalCore.ready
    deferred,         \* CausalCore.deferred
    draining,         \* CausalCore.draining
    log,              \* the published ReactiveLog
    stable,           \* Projection.stable: state and history
    drain,            \* locals of the running CausalScheduler::drain
    txn,              \* locals of the running execute_transaction
    result,           \* what the last completed drain returned
    ledger,           \* history: every receipt ever emitted
    dropped           \* the CausalScheduler was dropped

core == <<phase, active, next_transaction, ready, deferred, draining>>
vars == <<core, log, stable, drain, txn, result, ledger, dropped>>

None == 0

\* Phases in which user code runs while a transaction is active.
UserPhases == {"Collecting", "Reducing", "RunningEffects"}
Phases == UserPhases \cup {"Idle"}

Failures == {"None", "EventRejected", "EventPanicked", "ProjectionRejected",
             "EffectPanicked", "StateDropPanicked"}

ErrorKinds == {"EventRejected", "EventPanicked", "ProjectionRejected",
               "EffectPanicked", "StateDropPanicked", "TransactionLimit",
               "EventLimit", "TransactionIdExhausted", "Panicked"}

QueuedEvent == [event : Events, transaction : Nat, ordinal : Nat, origin : Nat]

-----------------------------------------------------------------------------
(* Log and projection.                                                     *)

Imported(e) == [event |-> e, transaction |-> 0, ordinal |-> 0, origin |-> 0]

Cursor(l) == [position |-> Len(l), head_hash |-> l]

Fold(l) == [i \in 1..Len(l) |-> l[i].event]

\* Log::tail: a cursor is accepted at its position only with that head hash.
TailAccepts(l, cursor) ==
    /\ cursor.position <= Len(l)
    /\ SubSeq(l, 1, cursor.position) = cursor.head_hash

TailOf(l, cursor) == SubSeq(l, cursor.position + 1, Len(l))

\* Projection::settle.  The memo re-reads the log after every publication, so
\* its recorded history is the cursor of the published log.
Settled == stable.history = Cursor(log)

\* current_point
Point == [history |-> stable.history, state_root |-> stable.state]

\* Mutant: the reducer is run over the whole candidate, not over its tail.
PreparedTwice(candidate) ==
    [history |-> Cursor(candidate), state |-> stable.state \o Fold(candidate)]

\* prepare_projection against a candidate log
Prepared(candidate) ==
    [history |-> Cursor(candidate),
     state   |-> stable.state \o Fold(TailOf(candidate, stable.history))]

-----------------------------------------------------------------------------
(* Receipts and the ends of a drain.                                       *)

NoDrain == [context |-> "root", receipts |-> << >>, transactions |-> 0,
            events |-> 0, post_commit_error |-> "None"]

Genesis == [history |-> Cursor(<< >>), state_root |-> << >>]

NoTxn == [batch |-> << >>, candidate |-> << >>, before |-> Genesis,
          after |-> Genesis]

\* since: history, the number of receipts emitted before this drain
NoResult == [error |-> "None", receipts |-> << >>, since |-> 0]

Receipt(id, outcome, attempted, committed, before, after, failure) ==
    [transaction_id |-> id, outcome |-> outcome, attempted |-> attempted,
     committed |-> committed, before |-> before, after |-> after,
     failure |-> failure]

RejectedReceipt(failure) ==
    Receipt(active, "Rejected", Len(txn.batch), 0, txn.before, txn.before, failure)

Emit(receipt) == ledger' = Append(ledger, receipt)

\* DrainGuard::finish
Finish(error, receipts) ==
    /\ phase' = "Idle"
    /\ active' = None
    /\ draining' = FALSE
    /\ drain' = NoDrain
    /\ txn' = NoTxn
    /\ result' = [result EXCEPT !.error = error, !.receipts = receipts]

\* Mutant: only the ready queue is cleared.
ClearReadyOnly ==
    /\ ready' = << >>
    /\ UNCHANGED deferred

ClearQueues ==
    /\ ready' = << >>
    /\ deferred' = << >>

-----------------------------------------------------------------------------
(* Queueing.                                                               *)

Init ==
    /\ phase = "Idle"
    /\ active = None
    /\ next_transaction = 1
    /\ ready = << >>
    /\ deferred = << >>
    /\ draining = FALSE
    /\ \E h \in Histories : log = [i \in 1..Len(h) |-> Imported(h[i])]
    /\ stable = [history |-> Cursor(log), state |-> Fold(log)]
    /\ drain = NoDrain
    /\ txn = NoTxn
    /\ result = NoResult
    /\ ledger = << >>
    /\ dropped = FALSE

\* Mutant: an effect's event is ticketed for the transaction that ran it.
TicketedForActive(e) ==
    IF active # None
    THEN [event |-> e, transaction |-> active,
          ordinal |-> Len(deferred) + 1, origin |-> active]
    ELSE [event |-> e, transaction |-> next_transaction,
          ordinal |-> Len(ready) + 1, origin |-> None]

\* The queue entry enqueue builds: the ticket names the transaction after the
\* active one, or the next one to be taken, and the place in its queue.
Ticketed(e) ==
    IF active # None
    THEN [event |-> e, transaction |-> active + 1,
          ordinal |-> Len(deferred) + 1, origin |-> active]
    ELSE [event |-> e, transaction |-> next_transaction,
          ordinal |-> Len(ready) + 1, origin |-> None]

\* enqueue; a full queue returns QueueLimit and changes nothing.
PushQueued(e) ==
    \/ /\ active # None
       /\ Len(deferred) < MaxEventsPerTransaction
       /\ deferred' = Append(deferred, Ticketed(e))
       /\ UNCHANGED ready
    \/ /\ active = None
       /\ Len(ready) < MaxEventsPerTransaction
       /\ ready' = Append(ready, Ticketed(e))
       /\ UNCHANGED deferred

\* Effects run inside the publication only when no outer batch is open.
EffectsRunInline == drain.context = "root"

\* CausalHandle::enqueue, and CausalScheduler::dispatch while draining: from
\* outside a drain, or from the user code of the active transaction.
Enqueue(e) ==
    /\ ~dropped
    /\ draining => /\ phase \in UserPhases
                   /\ phase = "RunningEffects" => EffectsRunInline
    /\ PushQueued(e)
    /\ UNCHANGED <<phase, active, next_transaction, draining, log, stable,
                   drain, txn, result, ledger, dropped>>

\* The entry of CausalScheduler::drain.
StartDrain(context) ==
    /\ ~dropped
    /\ ~draining
    /\ draining' = TRUE
    /\ drain' = [NoDrain EXCEPT !.context = context]
    /\ result' = [NoResult EXCEPT !.since = Len(ledger)]
    /\ UNCHANGED <<phase, active, next_transaction, log, stable, txn, ledger,
                   dropped>>

\* CausalScheduler::dispatch while idle: enqueue, then drain.
Dispatch(e, context) ==
    /\ PushQueued(e)
    /\ StartDrain(context)

\* CausalScheduler::drain
Drain(context) ==
    /\ StartDrain(context)
    /\ UNCHANGED <<ready, deferred>>

-----------------------------------------------------------------------------
(* One iteration of the drain loop.                                        *)

\* Mutant: the limits are checked before this batch is counted.
WithinLimitsBefore ==
    /\ drain.transactions <= MaxTransactionsPerDrain
    /\ drain.events <= MaxEventsPerDrain

WithinLimits ==
    /\ drain.transactions + 1 <= MaxTransactionsPerDrain
    /\ drain.events + Len(ready) <= MaxEventsPerDrain

CanTake ==
    /\ draining
    /\ phase = "Idle"
    /\ ready # << >>
    /\ next_transaction # MaxTransactionId

\* take_transaction and the entry of execute_transaction.
TakeTransaction ==
    /\ CanTake
    /\ WithinLimits
    /\ Settled
    /\ next_transaction' = next_transaction + 1
    /\ active' = next_transaction
    /\ phase' = "Collecting"
    /\ ready' = << >>
    /\ txn' = [NoTxn EXCEPT !.batch = ready, !.before = Point]
    /\ drain' = [drain EXCEPT !.transactions = @ + 1,
                              !.events = @ + Len(ready)]
    /\ UNCHANGED <<deferred, draining, log, stable, result, ledger, dropped>>

\* The batch is taken, then a drain limit is found exceeded: the batch and the
\* queues are discarded and the transaction id is spent.
ExceedLimit ==
    /\ CanTake
    /\ ~WithinLimits
    /\ next_transaction' = next_transaction + 1
    /\ ClearQueues
    /\ Finish(IF drain.transactions + 1 > MaxTransactionsPerDrain
              THEN "TransactionLimit" ELSE "EventLimit", drain.receipts)
    /\ UNCHANGED <<log, stable, ledger, dropped>>

\* DrainGuard::drop: the queues are cleared and no receipt reaches the caller.
Recover(error) ==
    /\ ClearQueues
    /\ Finish(error, << >>)
    /\ UNCHANGED <<log, stable, ledger, dropped>>

\* take_transaction at u64::MAX leaves the drain through the `?` operator.
ExhaustIds ==
    /\ draining
    /\ phase = "Idle"
    /\ ready # << >>
    /\ next_transaction = MaxTransactionId
    /\ Recover("TransactionIdExhausted")
    /\ UNCHANGED next_transaction

\* current_point(..).expect(..) on an unsettled projection unwinds the drain.
UnsettledPanic ==
    /\ CanTake
    /\ WithinLimits
    /\ ~Settled
    /\ next_transaction' = next_transaction + 1
    /\ Recover("Panicked")

\* The loop finds no transaction: the report, or the first post-commit error.
EndDrain ==
    /\ draining
    /\ phase = "Idle"
    /\ ready = << >>
    /\ Finish(drain.post_commit_error, drain.receipts)
    /\ UNCHANGED <<next_transaction, ready, deferred, log, stable, ledger,
                   dropped>>

-----------------------------------------------------------------------------
(* execute_transaction.                                                    *)

\* Every event of the batch is appended to a clone of the published log.
AppendBatch ==
    /\ phase = "Collecting"
    /\ \A i \in 1..Len(txn.batch) : txn.batch[i].event \notin Inadmissible
    /\ txn' = [txn EXCEPT !.candidate = log \o txn.batch]
    /\ phase' = "Reducing"
    /\ UNCHANGED <<active, next_transaction, ready, deferred, draining, log,
                   stable, drain, result, ledger, dropped>>

\* Mutant: the candidate was published before the projection accepted it.
RejectAfterPublish(failure) ==
    /\ Emit(RejectedReceipt(failure))
    /\ ClearQueues
    /\ Finish(failure, Append(drain.receipts, RejectedReceipt(failure)))
    /\ log' = IF phase = "Reducing" THEN txn.candidate ELSE log
    /\ UNCHANGED <<next_transaction, stable, dropped>>

\* The Err arm of the drain loop: the receipt of the rejected transaction is
\* the last one of the drain, and the queues are discarded.
Reject(failure) ==
    /\ Emit(RejectedReceipt(failure))
    /\ ClearQueues
    /\ Finish(failure, Append(drain.receipts, RejectedReceipt(failure)))
    /\ UNCHANGED <<next_transaction, log, stable, dropped>>

RejectAppend ==
    /\ phase = "Collecting"
    /\ \E i \in 1..Len(txn.batch) : txn.batch[i].event \in Inadmissible
    /\ \E failure \in {"EventRejected", "EventPanicked"} : Reject(failure)

\* The whole tail is decoded and reduced, or nothing is.
Reducible ==
    LET tail == TailOf(txn.candidate, stable.history)
    IN  \A i \in 1..Len(tail) : tail[i].event \notin Unreducible

RejectProjection ==
    /\ phase = "Reducing"
    /\ ~Reducible
    /\ Reject("ProjectionRejected")

\* S::clone, S::eq and the drop of a candidate state are user code that
\* prepare_projection does not shield: their panic unwinds the drain.
PrepareUnwinds ==
    /\ phase = "Reducing"
    /\ Recover("Panicked")
    /\ UNCHANGED next_transaction

\* prepare, commit_prepared and publish.  Signal::set refuses to write a source
\* of a running computation, and the drain made the log one by reading the
\* projection: in a tracked context the projection has advanced and the log
\* has not.
CommitAndPublish ==
    /\ phase = "Reducing"
    /\ Reducible
    /\ TailAccepts(txn.candidate, stable.history)
    /\ stable' = Prepared(txn.candidate)
    /\ log' = IF drain.context = "tracked" THEN log ELSE txn.candidate
    /\ txn' = [txn EXCEPT !.after = [history    |-> stable'.history,
                                     state_root |-> stable'.state]]
    /\ phase' = "RunningEffects"
    /\ UNCHANGED <<active, next_transaction, ready, deferred, draining, drain,
                   result, ledger, dropped>>

\* What publish and the drop of the previous state can have raised: effects
\* that did not run inline cannot have panicked, the refused write always has.
PostCommitFailures ==
    CASE drain.context = "root"    -> {"None", "EffectPanicked", "StateDropPanicked"}
      [] drain.context = "batched" -> {"None", "StateDropPanicked"}
      [] OTHER                     -> {"EffectPanicked"}

\* Mutant: the receipt repeats the point the transaction started from.
CommittedReceiptUnmoved(failure) ==
    Receipt(active, "Committed", Len(txn.batch), Len(txn.batch), txn.before,
            txn.before, failure)

CommittedReceipt(failure) ==
    Receipt(active, "Committed", Len(txn.batch), Len(txn.batch), txn.before,
            txn.after, failure)

\* The receipt is recorded and advance_generation makes the deferred events
\* the next transaction.
RecordReceipt(failure) ==
    /\ phase = "RunningEffects"
    /\ failure \in PostCommitFailures
    /\ Emit(CommittedReceipt(failure))
    /\ drain' = [drain EXCEPT
                   !.receipts = Append(@, CommittedReceipt(failure)),
                   !.post_commit_error = IF @ = "None" THEN failure ELSE @]
    /\ ready' = deferred
    /\ deferred' = << >>
    /\ active' = None
    /\ phase' = "Idle"
    /\ txn' = NoTxn
    /\ UNCHANGED <<next_transaction, draining, log, stable, result, dropped>>

\* The scheduler is dropped: weak handles report SchedulerDropped from now on.
DropScheduler ==
    /\ ~draining
    /\ ~dropped
    /\ dropped' = TRUE
    /\ UNCHANGED <<core, log, stable, drain, txn, result, ledger>>

-----------------------------------------------------------------------------
(* Specification.  A drain is a function call on one thread: once entered   *)
(* it takes its next step, and the user code it runs inline returns (the    *)
(* reactive flush has an execution budget).                                 *)

DrainStep ==
    \/ TakeTransaction \/ ExceedLimit \/ ExhaustIds \/ UnsettledPanic \/ EndDrain
    \/ AppendBatch \/ RejectAppend \/ RejectProjection \/ PrepareUnwinds
    \/ CommitAndPublish \/ \E failure \in Failures : RecordReceipt(failure)

Next ==
    \/ \E e \in Events : Enqueue(e)
    \/ \E e \in Events, context \in Contexts : Dispatch(e, context)
    \/ \E context \in Contexts : Drain(context)
    \/ DrainStep
    \/ DropScheduler

Spec == Init /\ [][Next]_vars /\ WF_vars(DrainStep)

-----------------------------------------------------------------------------
(* Properties.                                                             *)

Cursors == [position : Nat, head_hash : Seq(QueuedEvent)]

Points == [history : Cursors, state_root : Seq(Events)]

Receipts == [transaction_id : Nat, outcome : {"Committed", "Rejected"},
             attempted : Nat, committed : Nat, before : Points, after : Points,
             failure : Failures]

Drains == [context : Contexts \cup {"root"}, receipts : Seq(Receipts),
           transactions : 0..MaxTransactionsPerDrain,
           events : 0..MaxEventsPerDrain, post_commit_error : Failures]

Transactions == [batch : Seq(QueuedEvent), candidate : Seq(QueuedEvent),
                 before : Points, after : Points]

Results == [error : ErrorKinds \cup {"None"}, receipts : Seq(Receipts),
            since : Nat]

\* The kernel state (CausalCore, Projection.stable, the locals of drain) keeps
\* its types, its queues stay within max_events_per_transaction, a drain within
\* its limits and the ids within u64.
TypeOK ==
    /\ phase \in Phases
    /\ active \in Nat
    /\ next_transaction \in 1..MaxTransactionId
    /\ ready \in Seq(QueuedEvent) /\ Len(ready) <= MaxEventsPerTransaction
    /\ deferred \in Seq(QueuedEvent) /\ Len(deferred) <= MaxEventsPerTransaction
    /\ draining \in BOOLEAN
    /\ log \in Seq(QueuedEvent)
    /\ stable \in [history : Cursors, state : Seq(Events)]
    /\ drain \in Drains
    /\ txn \in Transactions
    /\ result \in Results
    /\ ledger \in Seq(Receipts)
    /\ dropped \in BOOLEAN

Committed(r) == r.outcome = "Committed"

Positions(r) == (r.before.history.position + 1)..r.after.history.position

\* The projection a reader sees is the fold of exactly the published log: the
\* candidate log, commit_prepared and publish never leave the two apart
\* (execute_transaction).
StateIsFoldOfLog ==
    /\ stable.history = Cursor(log)
    /\ stable.state = Fold(log)

\* Each receipt starts at the point the previous one ended at and has a later
\* id, and a rejected one does not move.
Chained(l) ==
    /\ \A i \in 1..(Len(l) - 1) :
          /\ l[i].after = l[i + 1].before
          /\ l[i].transaction_id < l[i + 1].transaction_id
    /\ \A i \in 1..Len(l) : ~Committed(l[i]) => l[i].before = l[i].after

EndsAt(l, point) == l # << >> => l[Len(l)].after = point

\* Receipts chain across all drains of a scheduler and end at the published
\* log; while effects of a committed transaction run its receipt is still
\* missing, and the chain ends where that transaction started (current_point,
\* rejected_receipt, execute_transaction).
ReceiptContinuity ==
    /\ Chained(ledger)
    /\ EndsAt(ledger, IF phase = "RunningEffects" THEN txn.before ELSE Point)

\* The ticket enqueue returned is honoured: the log positions a committed
\* receipt spans hold exactly the events ticketed for that transaction, in
\* the order of their ordinals (enqueue, take_transaction, advance_generation).
TicketsHonoured ==
    \A k \in 1..Len(ledger) : Committed(ledger[k]) =>
        /\ Cardinality(Positions(ledger[k])) = ledger[k].committed
        /\ \A i \in Positions(ledger[k]) :
              /\ i <= Len(log)
              /\ log[i].transaction = ledger[k].transaction_id
              /\ log[i].ordinal = i - ledger[k].before.history.position

\* An event produced while transaction N was active is committed by N+1 and
\* only if N itself was committed (enqueue's deferred generation, ADR-010).
EffectsRunInNextTransaction ==
    \A i \in 1..Len(log) : log[i].origin # None =>
        /\ log[i].transaction = log[i].origin + 1
        /\ \E k \in 1..Len(ledger) :
              Committed(ledger[k]) /\ ledger[k].transaction_id = log[i].origin

\* A rejected transaction leaves nothing in the log, also when only the last
\* event of its batch was rejected (execute_transaction's candidate log).
RejectionIsAtomic ==
    \A k \in 1..Len(ledger) : ~Committed(ledger[k]) =>
        \A i \in 1..Len(log) : log[i].transaction # ledger[k].transaction_id

\* A committed receipt is about published history: its end is a cursor of the
\* log (publish after commit_prepared).
CommittedIsPublished ==
    \A k \in 1..Len(ledger) :
        Committed(ledger[k]) => TailAccepts(log, ledger[k].after.history)

\* Whatever a drain returns, report or error, carries every receipt it emitted
\* (CausalError::with_receipts).  A panic returns nothing, and the exhaustion of
\* transaction ids is the one error that leaves the drain without them.
ResultCarriesReceipts ==
    (~draining /\ result.error \notin {"Panicked", "TransactionIdExhausted"}) =>
        result.receipts = SubSeq(ledger, result.since + 1, Len(ledger))

\* The queue keeps its promises to callers and to effects: tickets, the order of
\* effects, atomic rejection and complete receipts (drain, enqueue).
QueueGuarantees ==
    /\ TicketsHonoured
    /\ EffectsRunInNextTransaction
    /\ RejectionIsAtomic
    /\ ResultCarriesReceipts

\* However a drain ends, nothing is left queued behind the caller's back, and
\* the kernel is Idle (DrainGuard::finish, DrainGuard::drop).
QuietAfterDrain ==
    [][(draining /\ ~draining') =>
         /\ ready' = << >> /\ deferred' = << >>
         /\ phase' = "Idle" /\ active' = None]_vars

(* What makes StateIsFoldOfLog and ReceiptContinuity inductive.            *)

\* No caller dispatches from inside a running reactive computation.
UntrackedCallers == "tracked" \notin Contexts

\* A transaction is active exactly while the kernel is in a user phase.
ActiveInPhase == (active = None) <=> (phase = "Idle")

\* The candidate was cloned from the log that is still published, and the
\* points of the active transaction are the points of the projection.
LocalsCurrent ==
    /\ phase = "Reducing" => txn.candidate = log \o txn.batch
    /\ phase \in {"Collecting", "Reducing"} => txn.before = Point
    /\ phase = "RunningEffects" => txn.after = Point

\* Ids of decided transactions lie below the active one, and that below the
\* next one.
IdsInOrder ==
    /\ active < next_transaction
    /\ \A i \in 1..Len(ledger) :
          /\ ledger[i].transaction_id < next_transaction
          /\ active # None => ledger[i].transaction_id < active

KernelInvariant ==
    /\ TypeOK
    /\ drain.context # "tracked"
    /\ StateIsFoldOfLog
    /\ ReceiptContinuity
    /\ ActiveInPhase
    /\ LocalsCurrent
    /\ IdsInOrder

(* What makes QueueGuarantees inductive.                                   *)

\* Where a queued or logged event may come from: outside, or the transaction
\* before its own, which was committed.
FromCommitted(q) ==
    q.origin # None =>
        /\ q.transaction = q.origin + 1
        /\ \E k \in 1..Len(ledger) :
              Committed(ledger[k]) /\ ledger[k].transaction_id = q.origin

\* The queue that is filled holds tickets for the next transaction, the other
\* one is empty, and the batch that was taken holds those of the active one.
TicketsInOrder ==
    /\ active # None => active + 1 = next_transaction /\ ready = << >>
    /\ active = None => deferred = << >>
    /\ \A i \in 1..Len(ready) :
          /\ ready[i].transaction = next_transaction /\ ready[i].ordinal = i
          /\ FromCommitted(ready[i])
    /\ \A i \in 1..Len(deferred) :
          /\ deferred[i].transaction = next_transaction /\ deferred[i].ordinal = i
          /\ deferred[i].origin = active
    /\ active # None => \A i \in 1..Len(txn.batch) :
          /\ txn.batch[i].transaction = active /\ txn.batch[i].ordinal = i
          /\ FromCommitted(txn.batch[i])

\* The log holds events of transactions that were taken, and of the active one
\* only after it was published.
LoggedIdsSpent ==
    \A i \in 1..Len(log) :
        /\ log[i].transaction < next_transaction
        /\ phase \in {"Collecting", "Reducing"} => log[i].transaction < active

\* While its effects run, the batch is the end of the log.
BatchIsPublished ==
    phase = "RunningEffects" =>
        /\ Len(log) = txn.before.history.position + Len(txn.batch)
        /\ \A i \in 1..Len(txn.batch) : log[txn.before.history.position + i] = txn.batch[i]

\* The running drain holds every receipt emitted since it started.
DrainHoldsReceipts ==
    /\ phase # "Idle" => draining
    /\ draining => /\ result.since <= Len(ledger)
                   /\ drain.receipts = SubSeq(ledger, result.since + 1, Len(ledger))

QueueInvariant ==
    /\ KernelInvariant
    /\ TicketsInOrder
    /\ LoggedIdsSpent
    /\ BatchIsPublished
    /\ DrainHoldsReceipts
    /\ QueueGuarantees

-----------------------------------------------------------------------------
\* The transaction of a receipt as the abstract ledger records it.
LedgerEntry(r) == [transaction |-> r.transaction_id,
                   from |-> r.before.history.position,
                   to   |-> r.after.history.position]

\* A transaction is decided when its log is published, one step before its
\* receipt is recorded.
Decided == IF phase = "RunningEffects"
           THEN Append(ledger, CommittedReceipt("None")) ELSE ledger

Ledger == INSTANCE CausalLedger WITH
    history <- Fold(log),
    chain   <- [k \in 1..Len(Decided) |-> LedgerEntry(Decided[k])]

\* The kernel implements the client's view of it: whatever user code does in
\* the middle of a drain, history and receipts change only by whole
\* transactions, in increasing id order (drain, execute_transaction).
ImplementsLedger == Ledger!LSpec

\* A drain ends even if every effect keeps producing events: the limits of
\* CausalLimits cut the feedback loop (drain).
DrainTerminates == draining ~> ~draining

\* A drain ends, and with every queue empty and no transaction active (drain).
DrainsEndQuiet == DrainTerminates /\ QuietAfterDrain

=============================================================================
