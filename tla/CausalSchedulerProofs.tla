------------------------ MODULE CausalSchedulerProofs ------------------------
(***************************************************************************)
(* Proofs about the causal transaction kernel, for every set of events,    *)
(* every set of histories and every limit.                                 *)
(***************************************************************************)
EXTENDS CausalScheduler, SequenceTheorems, FiniteSetTheorems, TLAPS

-----------------------------------------------------------------------------
(* The log operators.                                                      *)

\* The free fold (synchronize) yields one applied event per log event.
LEMMA FoldType ==
    ASSUME NEW l \in Seq(QueuedEvent)
    PROVE  Fold(l) \in Seq(Events) /\ Len(Fold(l)) = Len(l)
<1>1. Len(l) \in Nat /\ \A i \in 1..Len(l) : l[i] \in QueuedEvent
  BY LenProperties, ElementOfSeq
<1>2. \A i \in 1..Len(l) : l[i].event \in Events
  BY <1>1 DEF QueuedEvent
<1>3. Fold(l) \in [1..Len(l) -> Events]
  BY <1>2 DEF Fold
<1> QED
  BY <1>1, <1>3, SeqDef, LenProperties

\* Folding a log that was extended by a batch (candidate) folds the batch on
\* top of the log.
LEMMA FoldConcat ==
    ASSUME NEW a \in Seq(QueuedEvent), NEW b \in Seq(QueuedEvent)
    PROVE  Fold(a \o b) = Fold(a) \o Fold(b)
<1> DEFINE ab == a \o b
           fab == Fold(a) \o Fold(b)
<1>1. /\ ab \in Seq(QueuedEvent) /\ Len(ab) = Len(a) + Len(b)
      /\ \A i \in 1..(Len(a) + Len(b)) :
            ab[i] = IF i <= Len(a) THEN a[i] ELSE b[i - Len(a)]
  BY ConcatProperties
<1>2. /\ Fold(ab) \in Seq(Events) /\ Len(Fold(ab)) = Len(ab)
      /\ Fold(a) \in Seq(Events) /\ Len(Fold(a)) = Len(a)
      /\ Fold(b) \in Seq(Events) /\ Len(Fold(b)) = Len(b)
  BY <1>1, FoldType
<1>3. /\ fab \in Seq(Events) /\ Len(fab) = Len(a) + Len(b)
      /\ \A i \in 1..(Len(a) + Len(b)) :
            fab[i] = IF i <= Len(a) THEN Fold(a)[i] ELSE Fold(b)[i - Len(a)]
  <2> DEFINE fa == Fold(a)
             fb == Fold(b)
  <2>1. fa \in Seq(Events) /\ fb \in Seq(Events)
    BY <1>2
  <2> HIDE DEF fa, fb
  <2>2. /\ fa \o fb \in Seq(Events) /\ Len(fa \o fb) = Len(fa) + Len(fb)
        /\ \A i \in 1..(Len(fa) + Len(fb)) :
              (fa \o fb)[i] = IF i <= Len(fa) THEN fa[i] ELSE fb[i - Len(fa)]
    BY <2>1, ConcatProperties
  <2> QED
    BY <1>2, <2>2 DEF fa, fb
<1>4. Len(a) \in Nat /\ Len(b) \in Nat
  BY LenProperties
<1>5. ASSUME NEW i \in 1..(Len(a) + Len(b)) PROVE Fold(ab)[i] = fab[i]
  BY <1>1, <1>4, <1>3 DEF Fold
<1> HIDE DEF ab, fab
<1>6. Fold(ab) = fab
  BY <1>1, <1>2, <1>3, <1>5, SeqEqual
<1> QED
  BY <1>6 DEF ab, fab

\* Log::tail at the cursor of a log returns what was appended since.
LEMMA TailOfConcat ==
    ASSUME NEW a \in Seq(QueuedEvent), NEW b \in Seq(QueuedEvent)
    PROVE  TailOf(a \o b, Cursor(a)) = b
BY SubSeqOfConcat2, LenProperties, ConcatProperties DEF TailOf, Cursor

\* The cursor of a log is a cursor (Log::cursor).
LEMMA CursorType ==
    ASSUME NEW l \in Seq(QueuedEvent)
    PROVE  Cursor(l) \in Cursors
BY LenProperties DEF Cursor, Cursors

\* Log::tail returns events of the log.
LEMMA TailOfType ==
    ASSUME NEW l \in Seq(QueuedEvent), NEW c \in Cursors
    PROVE  TailOf(l, c) \in Seq(QueuedEvent)
  BY LenProperties, SubSeqProperties DEF Cursors, TailOf

-----------------------------------------------------------------------------
(* Types.                                                                  *)

\* The records a drain and a transaction start from are well typed.
LEMMA EmptyTypes ==
    /\ NoDrain \in Drains
    /\ NoTxn \in Transactions
    /\ \A n \in Nat : [NoResult EXCEPT !.since = n] \in Results
    /\ NoResult \in Results
<1>1. << >> \in Seq(QueuedEvent) /\ << >> \in Seq(Events) /\ << >> \in Seq(Receipts)
  BY EmptySeq
<1>2. Len(<< >>) = 0
  BY EmptySeq
<1>3. Genesis \in Points
  BY <1>1, <1>2 DEF Genesis, Points, Cursors, Cursor
<1>4. NoDrain \in Drains
  BY <1>1, LimitsAssumption DEF NoDrain, Drains, Failures
<1>5. NoTxn \in Transactions
  BY <1>1, <1>3 DEF NoTxn, Transactions
<1>6. NoResult \in Results
  BY <1>1 DEF NoResult, Results
<1> QED
  BY <1>4, <1>5, <1>6 DEF Results

\* Every queue entry enqueue builds is a queued event.
LEMMA TicketedType ==
    ASSUME TypeOK, NEW e \in Events
    PROVE  Ticketed(e) \in QueuedEvent
  BY LenProperties, IdAssumption DEF TypeOK, Ticketed, QueuedEvent, None

\* Both kinds of receipt are well typed.
LEMMA ReceiptTypes ==
    ASSUME TypeOK, NEW failure \in Failures
    PROVE  /\ RejectedReceipt(failure) \in Receipts
           /\ CommittedReceipt(failure) \in Receipts
  BY LenProperties DEF TypeOK, Transactions, RejectedReceipt, CommittedReceipt, Receipt,
     Receipts

\* An append to a sequence keeps its type and adds one element.
LEMMA Appended ==
    ASSUME NEW S, NEW s \in Seq(S), NEW e \in S
    PROVE  Append(s, e) \in Seq(S) /\ Len(Append(s, e)) = Len(s) + 1
BY AppendProperties

\* A drain that is finished leaves well-typed state (DrainGuard::finish).
LEMMA FinishTypes ==
    ASSUME TypeOK, NEW error \in ErrorKinds \cup {"None"},
           NEW receipts \in Seq(Receipts), Finish(error, receipts)
    PROVE  /\ phase' \in Phases /\ active' \in Nat /\ draining' \in BOOLEAN
           /\ drain' \in Drains /\ txn' \in Transactions /\ result' \in Results
BY EmptyTypes DEF TypeOK, Finish, Results, Phases, None

\* from_log: the restored scheduler is well typed.
LEMMA InitTypes == Init => TypeOK
<1> SUFFICES ASSUME Init PROVE TypeOK
  OBVIOUS
<1>1. PICK h \in Histories : log = [i \in 1..Len(h) |-> Imported(h[i])]
  BY DEF Init
<1>2. h \in Seq(Events)
  BY EventsAssumption, SeqMonotonic
<1>3. Len(h) \in Nat /\ \A i \in 1..Len(h) : h[i] \in Events
  BY <1>2, LenProperties, ElementOfSeq
<1>4. \A i \in 1..Len(h) : Imported(h[i]) \in QueuedEvent
  BY <1>3 DEF Imported, QueuedEvent
<1>5. log \in Seq(QueuedEvent)
  BY <1>1, <1>4, <1>3, SeqDef
<1>6. stable \in [history : Cursors, state : Seq(Events)]
  BY <1>5, FoldType, CursorType DEF Init
<1>7. /\ << >> \in Seq(QueuedEvent) /\ Len(<< >>) <= MaxEventsPerTransaction
      /\ << >> \in Seq(Receipts)
  BY EmptySeq, LimitsAssumption
<1>8. /\ phase \in Phases /\ active \in Nat /\ next_transaction \in 1..MaxTransactionId
      /\ draining \in BOOLEAN /\ dropped \in BOOLEAN
  <2>1. active \in Nat /\ next_transaction \in 1..MaxTransactionId
    BY IdAssumption DEF Init, None
  <2>2. phase \in Phases
    BY DEF Init, Phases
  <2>3. draining \in BOOLEAN /\ dropped \in BOOLEAN
    BY Zenon DEF Init
  <2> QED
    BY <2>1, <2>2, <2>3
<1>9. drain \in Drains /\ txn \in Transactions /\ result \in Results
  BY EmptyTypes DEF Init
<1>10. /\ ready \in Seq(QueuedEvent) /\ Len(ready) <= MaxEventsPerTransaction
       /\ deferred \in Seq(QueuedEvent) /\ Len(deferred) <= MaxEventsPerTransaction
       /\ ledger \in Seq(Receipts)
  BY <1>7 DEF Init
<1> QED
  BY <1>5, <1>6, <1>8, <1>9, <1>10 DEF TypeOK

\* What the projection commits (commit_stable) is well typed.
LEMMA PreparedType ==
    ASSUME TypeOK
    PROVE  Prepared(txn.candidate) \in [history : Cursors, state : Seq(Events)]
  BY TailOfType, FoldType, ConcatProperties, CursorType DEF TypeOK, Transactions, Prepared

\* A queue that enqueue accepted an event into stays within its limit.
LEMMA PushQueuedTypes ==
    ASSUME TypeOK, NEW e \in Events, PushQueued(e)
    PROVE  /\ ready' \in Seq(QueuedEvent) /\ Len(ready') <= MaxEventsPerTransaction
           /\ deferred' \in Seq(QueuedEvent) /\ Len(deferred') <= MaxEventsPerTransaction
<1>1. Ticketed(e) \in QueuedEvent
  BY TicketedType
<1>2. ready \in Seq(QueuedEvent) /\ deferred \in Seq(QueuedEvent)
  BY DEF TypeOK
<1>3. Len(ready) \in Nat /\ Len(deferred) \in Nat
  BY <1>2, LenProperties
<1>4. /\ Append(ready, Ticketed(e)) \in Seq(QueuedEvent)
      /\ Len(Append(ready, Ticketed(e))) = Len(ready) + 1
      /\ Append(deferred, Ticketed(e)) \in Seq(QueuedEvent)
      /\ Len(Append(deferred, Ticketed(e))) = Len(deferred) + 1
  BY <1>1, <1>2, Appended
<1>5. \/ /\ Len(deferred) < MaxEventsPerTransaction
         /\ deferred' = Append(deferred, Ticketed(e)) /\ ready' = ready
      \/ /\ Len(ready) < MaxEventsPerTransaction
         /\ ready' = Append(ready, Ticketed(e)) /\ deferred' = deferred
  BY DEF PushQueued
<1>6. Len(ready) <= MaxEventsPerTransaction /\ Len(deferred) <= MaxEventsPerTransaction
  BY DEF TypeOK
<1>7. /\ Len(ready) < MaxEventsPerTransaction => Len(ready) + 1 <= MaxEventsPerTransaction
      /\ Len(deferred) < MaxEventsPerTransaction =>
            Len(deferred) + 1 <= MaxEventsPerTransaction
  BY <1>3, LimitsAssumption
<1>8. CASE /\ Len(deferred) < MaxEventsPerTransaction
           /\ deferred' = Append(deferred, Ticketed(e)) /\ ready' = ready
  BY <1>2, <1>4, <1>6, <1>7, <1>8, Zenon
<1>9. CASE /\ Len(ready) < MaxEventsPerTransaction
           /\ ready' = Append(ready, Ticketed(e)) /\ deferred' = deferred
  BY <1>2, <1>4, <1>6, <1>7, <1>9, Zenon
<1> QED
  BY <1>5, <1>8, <1>9

\* Cleared queues are well typed (clear_queues).
LEMMA ClearQueuesTypes ==
    ASSUME ClearQueues
    PROVE  /\ ready' \in Seq(QueuedEvent) /\ Len(ready') <= MaxEventsPerTransaction
           /\ deferred' \in Seq(QueuedEvent) /\ Len(deferred') <= MaxEventsPerTransaction
BY EmptySeq, LimitsAssumption DEF ClearQueues

\* Every operation of the kernel keeps its state well typed.
LEMMA NextTypes == TypeOK /\ [Next]_vars => TypeOK'
<1> SUFFICES ASSUME TypeOK, [Next]_vars PROVE TypeOK'
  OBVIOUS
<1>1. CASE UNCHANGED vars
  BY <1>1 DEF vars, core, TypeOK
<1>2. ASSUME NEW e \in Events, Enqueue(e) PROVE TypeOK'
  BY <1>2, PushQueuedTypes DEF Enqueue, TypeOK
<1>3. ASSUME NEW context \in Contexts, StartDrain(context)
      PROVE  /\ phase' = phase /\ active' = active
             /\ next_transaction' = next_transaction /\ log' = log
             /\ stable' = stable /\ txn' = txn /\ ledger' = ledger
             /\ dropped' = dropped /\ draining' = TRUE
             /\ drain' \in Drains /\ result' \in Results
  BY LenProperties, <1>3, EmptyTypes DEF TypeOK, StartDrain, Drains
<1>4. ASSUME NEW e \in Events, NEW context \in Contexts, Dispatch(e, context)
      PROVE  TypeOK'
  BY <1>3, <1>4, PushQueuedTypes DEF Dispatch, TypeOK
<1>5. ASSUME NEW context \in Contexts, Drain(context) PROVE TypeOK'
  BY <1>3, <1>5 DEF Drain, TypeOK
<1>6. CASE TakeTransaction
  <2>1. ready \in Seq(QueuedEvent) /\ Len(ready) \in Nat
    BY LenProperties DEF TypeOK
  <2>2. txn' \in Transactions
    <3>1. Point \in Points
      BY DEF Point, Points, TypeOK
    <3> QED
      BY <1>6, <2>1, <3>1, EmptyTypes DEF TakeTransaction, Transactions
  <2>3. drain' \in Drains
    <3>1. /\ drain.transactions + 1 \in 0..MaxTransactionsPerDrain
          /\ drain.events + Len(ready) \in 0..MaxEventsPerDrain
      BY SMTT(60), <1>6, <2>1, LimitsAssumption DEF TakeTransaction, WithinLimits, Drains, TypeOK
    <3>2. drain' = [drain EXCEPT !.transactions = @ + 1, !.events = @ + Len(ready)]
      BY <1>6 DEF TakeTransaction
    <3> QED
      BY <3>1, <3>2 DEF Drains, TypeOK
  <2>4. next_transaction' \in 1..MaxTransactionId /\ active' \in Nat /\ phase' \in Phases
    BY <1>6, IdAssumption DEF TakeTransaction, CanTake, TypeOK, Phases, UserPhases
  <2>5. ready' \in Seq(QueuedEvent) /\ Len(ready') <= MaxEventsPerTransaction
    BY <1>6, EmptySeq, LimitsAssumption DEF TakeTransaction
  <2> QED
    BY <1>6, <2>2, <2>3, <2>4, <2>5 DEF TakeTransaction, TypeOK
<1>7. CASE ExceedLimit
  BY <1>7, IdAssumption, FinishTypes, ClearQueuesTypes DEF ExceedLimit, CanTake, TypeOK,
     Drains, ErrorKinds
<1>8. ASSUME NEW error \in ErrorKinds, Recover(error),
             next_transaction' \in 1..MaxTransactionId
      PROVE  TypeOK'
  <2>1. << >> \in Seq(Receipts)
    BY EmptySeq
  <2> QED
    BY <1>8, <2>1, FinishTypes, ClearQueuesTypes DEF Recover, TypeOK
<1>9. CASE ExhaustIds
  BY <1>8, <1>9 DEF ExhaustIds, ErrorKinds, TypeOK
<1>10. CASE UnsettledPanic
  BY <1>10, IdAssumption, <1>8 DEF UnsettledPanic, CanTake, TypeOK, ErrorKinds
<1>11. CASE EndDrain
  BY <1>11, FinishTypes DEF TypeOK, Drains, Failures, ErrorKinds, EndDrain
<1>12. CASE AppendBatch
  BY ConcatProperties, <1>12 DEF TypeOK, Transactions, AppendBatch, Phases, UserPhases
<1>13. ASSUME NEW failure \in Failures \ {"None"}, Reject(failure) PROVE TypeOK'
  BY ReceiptTypes, <1>13, Appended, FinishTypes, ClearQueuesTypes DEF Reject, Emit, TypeOK,
     Drains, Failures, ErrorKinds
<1>14. CASE RejectAppend
  BY <1>13, <1>14 DEF RejectAppend, Failures
<1>15. CASE RejectProjection
  BY <1>13, <1>15 DEF RejectProjection, Failures
<1>16. CASE PrepareUnwinds
  BY <1>8, <1>16 DEF PrepareUnwinds, ErrorKinds, TypeOK
<1>17. CASE CommitAndPublish
  BY <1>17, PreparedType DEF CommitAndPublish, TypeOK, Transactions, Points, Phases, UserPhases
<1>18. ASSUME NEW failure \in Failures, RecordReceipt(failure) PROVE TypeOK'
  <2>1. CommittedReceipt(failure) \in Receipts
    BY ReceiptTypes
  <2>2. /\ ledger' \in Seq(Receipts)
        /\ Append(drain.receipts, CommittedReceipt(failure)) \in Seq(Receipts)
    BY <1>18, <2>1, Appended DEF RecordReceipt, Emit, TypeOK, Drains
  <2>3. drain' \in Drains
    BY <1>18, <2>2 DEF RecordReceipt, TypeOK, Drains
  <2>4. deferred' \in Seq(QueuedEvent) /\ Len(deferred') <= MaxEventsPerTransaction
    BY <1>18, EmptySeq, LimitsAssumption DEF RecordReceipt
  <2> QED
    BY <1>18, <2>2, <2>3, <2>4, EmptyTypes DEF RecordReceipt, TypeOK, Phases, None
<1>19. CASE DropScheduler
  BY <1>19 DEF DropScheduler, core, TypeOK
<1> QED
  BY <1>1, <1>2, <1>4, <1>5, <1>6, <1>7, <1>9, <1>10, <1>11, <1>12, <1>14,
     <1>15, <1>16, <1>17, <1>18, <1>19 DEF Next, DrainStep

\* The kernel state keeps its types, its queues, drains and ids their limits,
\* whatever user code enqueues or raises in the middle of a drain.
THEOREM TypeCorrect == Spec => []TypeOK
BY InitTypes, NextTypes, PTL DEF Spec

-----------------------------------------------------------------------------
(* The projection is the fold of the log, and receipts chain.              *)

\* prepare_projection on the extended log: the state it prepares is the fold of
\* the whole candidate although only the tail was reduced.
LEMMA PreparedIsFold ==
    ASSUME TypeOK, StateIsFoldOfLog, txn.candidate = log \o txn.batch
    PROVE  Prepared(txn.candidate) =
               [history |-> Cursor(txn.candidate), state |-> Fold(txn.candidate)]
<1>1. log \in Seq(QueuedEvent) /\ txn.batch \in Seq(QueuedEvent)
  BY DEF TypeOK, Transactions
<1>2. TailOf(txn.candidate, stable.history) = txn.batch
  BY <1>1, TailOfConcat DEF StateIsFoldOfLog
<1>3. stable.state \o Fold(txn.batch) = Fold(txn.candidate)
  BY <1>1, FoldConcat DEF StateIsFoldOfLog
<1> QED
  BY <1>2, <1>3 DEF Prepared

\* Appending a receipt that starts at the end of the chain extends the chain.
LEMMA ChainAppend ==
    ASSUME NEW l \in Seq(Receipts), NEW r \in Receipts,
           Chained(l), EndsAt(l, r.before),
           \A i \in 1..Len(l) : l[i].transaction_id < r.transaction_id,
           ~Committed(r) => r.before = r.after
    PROVE  /\ Chained(Append(l, r))
           /\ EndsAt(Append(l, r), r.after)
<1> DEFINE m == Append(l, r)
<1>1. /\ m \in Seq(Receipts) /\ Len(m) = Len(l) + 1 /\ m[Len(l) + 1] = r
      /\ \A i \in 1..Len(l) : m[i] = l[i]
  BY AppendProperties
<1>2. Len(l) \in Nat
  BY LenProperties
<1> HIDE DEF m
<1>3. ASSUME NEW i \in 1..(Len(m) - 1)
      PROVE  /\ m[i].after = m[i + 1].before
             /\ m[i].transaction_id < m[i + 1].transaction_id
  <2>1. CASE i = Len(l)
    BY <1>1, <1>2, <2>1, EmptySeq DEF EndsAt
  <2>2. CASE i # Len(l)
    BY <1>1, <1>2, <2>2 DEF Chained
  <2> QED
    BY <2>1, <2>2
<1>4. ASSUME NEW i \in 1..Len(m), ~Committed(m[i]) PROVE m[i].before = m[i].after
  BY <1>1, <1>2, <1>4 DEF Chained
<1>5. EndsAt(m, r.after)
  BY <1>1 DEF EndsAt
<1> QED
  BY <1>3, <1>4, <1>5 DEF Chained, m

\* Recorded transaction ids are numbers.
LEMMA LedgerIds ==
    ASSUME TypeOK, NEW i \in 1..Len(ledger)
    PROVE  ledger[i].transaction_id \in Nat
<1>1. ledger \in Seq(Receipts)
  BY DEF TypeOK
<1>2. ledger[i] \in Receipts
  BY <1>1, ElementOfSeq
<1> QED
  BY <1>2 DEF Receipts

\* from_log: the projection is folded over the imported log, no receipt exists.
LEMMA InitKernel == Init => KernelInvariant
<1> SUFFICES ASSUME Init PROVE KernelInvariant
  OBVIOUS
<1>1. TypeOK
  BY InitTypes
<1>2. drain.context # "tracked"
  BY DEF Init, NoDrain
<1>3. StateIsFoldOfLog
  BY DEF Init, StateIsFoldOfLog
<1>4. ledger = << >> /\ Len(<< >>) = 0
  BY EmptySeq DEF Init
<1>5. ReceiptContinuity
  BY <1>4 DEF ReceiptContinuity, Chained, EndsAt
<1>6. ActiveInPhase /\ LocalsCurrent
  BY DEF Init, ActiveInPhase, LocalsCurrent, None
<1>7. IdsInOrder
  BY <1>4 DEF Init, IdsInOrder, None
<1> QED
  BY <1>1, <1>2, <1>3, <1>5, <1>6, <1>7 DEF KernelInvariant

\* A drain that ends (DrainGuard::finish or drop) without touching log,
\* projection or ledger keeps the invariant.
LEMMA FinishKernel ==
    ASSUME KernelInvariant, NEW error, NEW receipts, Finish(error, receipts),
           phase # "RunningEffects",
           next_transaction' \in {next_transaction, next_transaction + 1},
           log' = log, stable' = stable, ledger' = ledger, TypeOK'
    PROVE  KernelInvariant'
<1>1. drain'.context # "tracked"
  BY DEF Finish, NoDrain
<1>2. StateIsFoldOfLog'
  BY DEF KernelInvariant, StateIsFoldOfLog
<1>3. ReceiptContinuity'
  BY DEF KernelInvariant, ReceiptContinuity, Finish, Point
<1>4. ActiveInPhase' /\ LocalsCurrent'
  BY DEF Finish, ActiveInPhase, LocalsCurrent, None
<1>5. IdsInOrder'
  <2>1. next_transaction \in Nat /\ next_transaction >= 1
        /\ next_transaction' \in Nat /\ next_transaction' >= next_transaction
    BY IdAssumption DEF KernelInvariant, TypeOK
  <2>2. active' = 0 /\ active' < next_transaction'
    BY <2>1 DEF Finish, None
  <2>3. ASSUME NEW i \in 1..Len(ledger)
        PROVE  ledger[i].transaction_id < next_transaction'
    BY LedgerIds, <2>1 DEF KernelInvariant, IdsInOrder
  <2> QED
    BY <2>2, <2>3 DEF IdsInOrder, None
<1> QED
  BY <1>1, <1>2, <1>3, <1>4, <1>5 DEF KernelInvariant

\* Steps that only queue events or enter a drain keep the invariant.
LEMMA QueueKernel ==
    ASSUME KernelInvariant, TypeOK', drain'.context # "tracked",
           phase' = phase, active' = active, txn' = txn,
           next_transaction' = next_transaction,
           log' = log, stable' = stable, ledger' = ledger
    PROVE  KernelInvariant'
<1>1. StateIsFoldOfLog' /\ ActiveInPhase'
  BY DEF KernelInvariant, StateIsFoldOfLog, ActiveInPhase
<1>2. ReceiptContinuity'
  BY DEF KernelInvariant, ReceiptContinuity, Point
<1>3. LocalsCurrent'
  BY DEF KernelInvariant, LocalsCurrent, Point
<1>4. IdsInOrder'
  BY DEF KernelInvariant, IdsInOrder
<1> QED
  BY <1>1, <1>2, <1>3, <1>4 DEF KernelInvariant

\* Every operation of the kernel keeps the invariant when no caller is tracked.
LEMMA NextKernel ==
    ASSUME UntrackedCallers, KernelInvariant, [Next]_vars
    PROVE  KernelInvariant'
<1> USE DEF KernelInvariant
<1>0. TypeOK'
  BY NextTypes
<1>1. CASE UNCHANGED vars
  BY <1>0, <1>1, QueueKernel DEF vars, core
<1>2. ASSUME NEW e \in Events, Enqueue(e) PROVE KernelInvariant'
  BY <1>0, <1>2, QueueKernel DEF Enqueue
<1>3. ASSUME NEW context \in Contexts, StartDrain(context) PROVE KernelInvariant'
  BY <1>3, <1>0, QueueKernel DEF StartDrain, NoDrain, UntrackedCallers
<1>4. ASSUME NEW e \in Events, NEW context \in Contexts, Dispatch(e, context)
      PROVE  KernelInvariant'
  BY <1>3, <1>4 DEF Dispatch
<1>5. ASSUME NEW context \in Contexts, Drain(context) PROVE KernelInvariant'
  BY <1>3, <1>5 DEF Drain
<1>6. CASE TakeTransaction
  <2>1. phase = "Idle" /\ active = None
    BY <1>6 DEF TakeTransaction, CanTake, ActiveInPhase
  <2>2. drain'.context # "tracked"
    BY <1>6 DEF TakeTransaction, TypeOK, Drains
  <2>3. StateIsFoldOfLog'
    BY <1>6 DEF TakeTransaction, StateIsFoldOfLog
  <2>4. ReceiptContinuity'
    BY <1>6, <2>1 DEF TakeTransaction, ReceiptContinuity, Point
  <2>5. ActiveInPhase'
    BY <1>6, IdAssumption DEF TakeTransaction, ActiveInPhase, None, TypeOK
  <2>6. LocalsCurrent'
    BY <1>6 DEF TakeTransaction, LocalsCurrent, Point, NoTxn
  <2>7. IdsInOrder'
    BY <1>6, IdAssumption, LedgerIds DEF TakeTransaction, TypeOK, IdsInOrder
  <2> QED
    BY <1>0, <2>2, <2>3, <2>4, <2>5, <2>6, <2>7
<1>7. CASE ExceedLimit
  BY <1>0, <1>7, FinishKernel DEF ExceedLimit, CanTake
<1>8. CASE ExhaustIds
  BY <1>0, <1>8, FinishKernel DEF ExhaustIds, Recover
<1>9. CASE UnsettledPanic
  BY <1>0, <1>9, FinishKernel DEF UnsettledPanic, CanTake, Recover
<1>10. CASE EndDrain
  BY <1>0, <1>10, FinishKernel DEF EndDrain
<1>11. CASE PrepareUnwinds
  BY <1>0, <1>11, FinishKernel DEF PrepareUnwinds, Recover
<1>12. CASE AppendBatch
  <2>1. StateIsFoldOfLog' /\ drain'.context # "tracked"
    BY <1>12 DEF AppendBatch, StateIsFoldOfLog
  <2>2. txn'.before = txn.before /\ txn'.candidate = log \o txn'.batch
        /\ phase' = "Reducing" /\ log' = log
    BY <1>12 DEF AppendBatch, TypeOK, Transactions
  <2>3. ReceiptContinuity'
    BY <1>12, <2>2 DEF AppendBatch, ReceiptContinuity, Point
  <2>4. LocalsCurrent'
    BY <1>12, <2>2 DEF AppendBatch, LocalsCurrent, Point
  <2>5. ActiveInPhase' /\ IdsInOrder'
    BY <1>12 DEF AppendBatch, ActiveInPhase, IdsInOrder
  <2> QED
    BY <1>0, <2>1, <2>3, <2>4, <2>5
<1>13. ASSUME NEW failure \in Failures, Reject(failure),
              phase \in {"Collecting", "Reducing"}
       PROVE  KernelInvariant'
  <2> DEFINE r == RejectedReceipt(failure)
  <2>1. r \in Receipts /\ r.transaction_id = active /\ r.before = Point
        /\ r.after = Point /\ ledger' = Append(ledger, r)
    BY <1>13, ReceiptTypes DEF Reject, Emit, RejectedReceipt, Receipt, LocalsCurrent
  <2>2. active # None /\ active \in Nat /\ active < next_transaction
        /\ next_transaction \in Nat /\ next_transaction' = next_transaction
        /\ active' = None /\ phase' = "Idle"
    BY <1>13, IdAssumption DEF ActiveInPhase, IdsInOrder, TypeOK, Reject, Finish
  <2> HIDE DEF r
  <2>3. ledger \in Seq(Receipts) /\ Len(ledger) \in Nat
    BY LenProperties DEF TypeOK
  <2>4. Chained(ledger') /\ EndsAt(ledger', Point)
    BY <1>13, <2>1, <2>2, <2>3, ChainAppend DEF ReceiptContinuity, IdsInOrder
  <2>5. StateIsFoldOfLog' /\ Point' = Point
    BY <1>13 DEF Reject, StateIsFoldOfLog, Point
  <2>6. ReceiptContinuity'
    BY <2>2, <2>4, <2>5 DEF ReceiptContinuity
  <2>7. ActiveInPhase' /\ LocalsCurrent'
    BY <2>2 DEF ActiveInPhase, LocalsCurrent
  <2>8. IdsInOrder'
    BY <2>1, <2>3, AppendProperties, <2>2 DEF IdsInOrder, None
  <2>9. drain'.context # "tracked"
    BY <1>13 DEF Reject, Finish, NoDrain
  <2> QED
    BY <1>0, <2>5, <2>6, <2>7, <2>8, <2>9
<1>14. CASE RejectAppend
  BY <1>13, <1>14 DEF RejectAppend, Failures
<1>15. CASE RejectProjection
  BY <1>13, <1>15 DEF RejectProjection, Failures
<1>16. CASE CommitAndPublish
  <2>1. txn.candidate = log \o txn.batch /\ txn.before = Point
    BY <1>16 DEF CommitAndPublish, LocalsCurrent
  <2>2. stable' = [history |-> Cursor(txn.candidate), state |-> Fold(txn.candidate)]
    BY <1>16, <2>1, PreparedIsFold DEF CommitAndPublish
  <2>3. log' = txn.candidate /\ phase' = "RunningEffects" /\ active' = active
        /\ ledger' = ledger /\ next_transaction' = next_transaction
        /\ drain' = drain
    BY <1>16 DEF CommitAndPublish
  <2>4. StateIsFoldOfLog'
    BY <2>2, <2>3 DEF StateIsFoldOfLog
  <2>5. txn'.before = txn.before /\ txn'.after = Point'
    BY <1>16 DEF CommitAndPublish, Point, TypeOK, Transactions
  <2>6. ReceiptContinuity'
    BY <1>16, <2>1, <2>3, <2>5 DEF ReceiptContinuity, CommitAndPublish
  <2>7. LocalsCurrent'
    BY <2>3, <2>5 DEF LocalsCurrent
  <2>8. ActiveInPhase' /\ IdsInOrder'
    BY <1>16, <2>3 DEF ActiveInPhase, IdsInOrder, CommitAndPublish
  <2> QED
    BY <1>0, <2>3, <2>4, <2>6, <2>7, <2>8
<1>17. ASSUME NEW failure \in Failures, RecordReceipt(failure) PROVE KernelInvariant'
  <2> DEFINE r == CommittedReceipt(failure)
  <2>1. r \in Receipts /\ r.transaction_id = active /\ r.before = txn.before
        /\ r.after = Point /\ ledger' = Append(ledger, r) /\ Committed(r)
    BY <1>17, ReceiptTypes
       DEF RecordReceipt, Emit, CommittedReceipt, Receipt, LocalsCurrent, Committed
  <2>2. active # None /\ active \in Nat /\ active < next_transaction
        /\ next_transaction \in Nat /\ next_transaction' = next_transaction
        /\ active' = None /\ phase' = "Idle" /\ phase = "RunningEffects"
    BY <1>17, IdAssumption DEF ActiveInPhase, IdsInOrder, TypeOK, RecordReceipt
  <2> HIDE DEF r
  <2>3. ledger \in Seq(Receipts) /\ Len(ledger) \in Nat
    BY LenProperties DEF TypeOK
  <2>4. Chained(ledger') /\ EndsAt(ledger', Point)
    BY <2>1, <2>2, <2>3, ChainAppend DEF ReceiptContinuity, IdsInOrder
  <2>5. StateIsFoldOfLog' /\ Point' = Point
    BY <1>17 DEF RecordReceipt, StateIsFoldOfLog, Point
  <2>6. ReceiptContinuity'
    BY <2>2, <2>4, <2>5 DEF ReceiptContinuity
  <2>7. ActiveInPhase' /\ LocalsCurrent'
    BY <2>2 DEF ActiveInPhase, LocalsCurrent
  <2>8. IdsInOrder'
    BY <2>1, <2>3, AppendProperties, <2>2 DEF IdsInOrder, None
  <2>9. drain'.context # "tracked"
    BY <1>17 DEF RecordReceipt, TypeOK, Drains
  <2> QED
    BY <1>0, <2>5, <2>6, <2>7, <2>8, <2>9
<1>18. CASE DropScheduler
  BY <1>0, <1>18, QueueKernel DEF DropScheduler, core
<1> HIDE DEF KernelInvariant
<1> QED
  BY <1>1, <1>2, <1>4, <1>5, <1>6, <1>7, <1>8, <1>9, <1>10, <1>11, <1>12,
     <1>14, <1>15, <1>16, <1>17, <1>18 DEF Next, DrainStep

\* When no caller dispatches from inside a running reactive computation, the
\* state a reader sees is the fold of exactly the published log, between any
\* two steps of a drain and whatever fails or unwinds in it.
THEOREM ProjectionIsFoldOfLog == UntrackedCallers => (Spec => []StateIsFoldOfLog)
<1> SUFFICES ASSUME UntrackedCallers PROVE Spec => []StateIsFoldOfLog
  OBVIOUS
<1>1. Init => KernelInvariant
  BY InitKernel
<1>2. KernelInvariant /\ [Next]_vars => KernelInvariant'
  BY NextKernel
<1>3. KernelInvariant => StateIsFoldOfLog
  BY DEF KernelInvariant
<1> QED
  BY <1>1, <1>2, <1>3, PTL DEF Spec

\* Under the same condition the receipts of all drains of a scheduler form one
\* chain of increasing ids that ends at the published log.
THEOREM ReceiptsChain == UntrackedCallers => (Spec => []ReceiptContinuity)
<1> SUFFICES ASSUME UntrackedCallers PROVE Spec => []ReceiptContinuity
  OBVIOUS
<1>1. Init => KernelInvariant
  BY InitKernel
<1>2. KernelInvariant /\ [Next]_vars => KernelInvariant'
  BY NextKernel
<1>3. KernelInvariant => ReceiptContinuity
  BY DEF KernelInvariant
<1> QED
  BY <1>1, <1>2, <1>3, PTL DEF Spec

-----------------------------------------------------------------------------
(* Tickets, effects, rejections and results.                               *)

\* The end of a log that was appended to is the old end and the new element.
LEMMA EndOfAppend ==
    ASSUME NEW S, NEW s \in Seq(S), NEW e \in S, NEW n \in Nat, n <= Len(s)
    PROVE  SubSeq(Append(s, e), n + 1, Len(s) + 1) = Append(SubSeq(s, n + 1, Len(s)), e)
<1> DEFINE a == Append(s, e)
           t == SubSeq(s, n + 1, Len(s))
           u == SubSeq(a, n + 1, Len(s) + 1)
           v == Append(t, e)
<1>1. Len(s) \in Nat
  BY LenProperties
<1>2. /\ a \in Seq(S) /\ Len(a) = Len(s) + 1 /\ a[Len(s) + 1] = e
      /\ \A i \in 1..Len(s) : a[i] = s[i]
  BY AppendProperties
<1> HIDE DEF a
<1>3. /\ t \in Seq(S) /\ Len(t) = IF n + 1 <= Len(s) THEN Len(s) - (n + 1) + 1 ELSE 0
      /\ \A i \in 1..(Len(s) - (n + 1) + 1) : t[i] = s[(n + 1) + i - 1]
  BY <1>1, ElementOfSeq, SubSeqProperties
<1>4. /\ u \in Seq(S)
      /\ Len(u) = IF n + 1 <= Len(s) + 1 THEN (Len(s) + 1) - (n + 1) + 1 ELSE 0
      /\ \A i \in 1..((Len(s) + 1) - (n + 1) + 1) : u[i] = a[(n + 1) + i - 1]
  BY <1>1, <1>2, ElementOfSeq, SubSeqProperties
<1> HIDE DEF t, u
<1>5. /\ v \in Seq(S) /\ Len(v) = Len(t) + 1 /\ v[Len(t) + 1] = e
      /\ \A i \in 1..Len(t) : v[i] = t[i]
  BY <1>3, AppendProperties
<1> HIDE DEF v
<1>6. Len(t) = Len(s) - n /\ Len(u) = Len(s) - n + 1
  BY <1>1, <1>3, <1>4
<1>7. ASSUME NEW i \in 1..Len(u) PROVE u[i] = v[i]
  <2>1. u[i] = a[n + i]
    BY <1>1, <1>4, <1>6
  <2>2. CASE i = Len(s) - n + 1
    BY <1>1, <1>2, <1>5, <1>6, <2>1, <2>2
  <2>3. CASE i \in 1..(Len(s) - n)
    BY <1>1, <1>6, <2>3, <1>3, <1>2, <1>5, <2>1
  <2> QED
    BY <1>1, <1>6, <2>2, <2>3
<1>8. u = v
  BY <1>4, <1>5, <1>6, <1>7, SeqEqual
<1> QED
  BY <1>8 DEF u, v, a, t

\* A receipt that is emitted joins the receipts of its drain.
LEMMA EmittedJoinsDrain ==
    ASSUME TypeOK, DrainHoldsReceipts, draining, NEW r \in Receipts,
           ledger' = Append(ledger, r)
    PROVE  /\ result.since \in Nat /\ result.since <= Len(ledger')
           /\ Append(drain.receipts, r) = SubSeq(ledger', result.since + 1, Len(ledger'))
<1>1. PICK n \in Nat : n = result.since /\ n <= Len(ledger)
  BY DEF TypeOK, Results, DrainHoldsReceipts
<1>2. ledger \in Seq(Receipts) /\ Len(ledger) \in Nat
  BY LenProperties DEF TypeOK
<1>3. Len(ledger') = Len(ledger) + 1
  BY <1>2, Appended
<1>4. SubSeq(ledger', n + 1, Len(ledger')) = Append(SubSeq(ledger, n + 1, Len(ledger)), r)
  BY <1>1, <1>2, <1>3, EndOfAppend
<1>5. drain.receipts = SubSeq(ledger, n + 1, Len(ledger))
  BY <1>1 DEF DrainHoldsReceipts
<1>6. n <= Len(ledger')
  BY <1>1, <1>2, <1>3
<1> QED
  BY <1>1, <1>4, <1>5, <1>6, Zenon

\* What an emitted receipt leaves of the ledger.
LEMMA LedgerGrows ==
    ASSUME TypeOK, NEW r \in Receipts, ledger' = Append(ledger, r)
    PROVE  /\ Len(ledger) \in Nat /\ Len(ledger') = Len(ledger) + 1
           /\ ledger'[Len(ledger')] = r
           /\ \A k \in 1..Len(ledger) : k \in 1..Len(ledger') /\ ledger'[k] = ledger[k]
           /\ \A k \in 1..Len(ledger') : k \in 1..Len(ledger) \/ k = Len(ledger')
  BY AppendProperties, LenProperties DEF TypeOK

\* enqueue keeps the queues ticketed in order.
LEMMA PushKeepsTickets ==
    ASSUME QueueInvariant, NEW e \in Events, PushQueued(e),
           UNCHANGED <<active, next_transaction, txn, ledger>>
    PROVE  TicketsInOrder'
<1>1. TypeOK /\ TicketsInOrder
  BY DEF QueueInvariant, KernelInvariant
<1>2. PICK q \in QueuedEvent : q = Ticketed(e)
  BY <1>1, TicketedType
<1>3. /\ ready \in Seq(QueuedEvent) /\ deferred \in Seq(QueuedEvent)
      /\ Len(ready) \in Nat /\ Len(deferred) \in Nat
  BY <1>1, LenProperties DEF TypeOK
<1>4. CASE active # None
  <2>1. ready' = ready /\ deferred' = Append(deferred, q)
    BY <1>2, <1>4 DEF PushQueued
  <2>2. q.transaction = next_transaction /\ q.ordinal = Len(deferred) + 1 /\ q.origin = active
    BY <1>1, <1>2, <1>4 DEF Ticketed, TicketsInOrder
  <2>3. /\ Len(deferred') = Len(deferred) + 1 /\ deferred'[Len(deferred) + 1] = q
        /\ \A i \in 1..Len(deferred) : deferred'[i] = deferred[i]
    BY <1>3, <2>1, AppendProperties
  <2>4. ASSUME NEW i \in 1..Len(deferred')
        PROVE  /\ deferred'[i].transaction = next_transaction /\ deferred'[i].ordinal = i
               /\ deferred'[i].origin = active
    BY <1>3, <2>3, <1>1, <2>2 DEF TicketsInOrder
  <2> QED
    BY <1>1, <1>4, <2>1, <2>4 DEF TicketsInOrder, FromCommitted
<1>5. CASE active = None
  <2>1. deferred' = deferred /\ ready' = Append(ready, q)
    BY <1>2, <1>5 DEF PushQueued
  <2>2. q.transaction = next_transaction /\ q.ordinal = Len(ready) + 1 /\ q.origin = None
    BY <1>1, <1>2, <1>5 DEF Ticketed
  <2>3. /\ Len(ready') = Len(ready) + 1 /\ ready'[Len(ready) + 1] = q
        /\ \A i \in 1..Len(ready) : ready'[i] = ready[i]
    BY <1>3, <2>1, AppendProperties
  <2>4. ASSUME NEW i \in 1..Len(ready')
        PROVE  /\ ready'[i].transaction = next_transaction /\ ready'[i].ordinal = i
               /\ FromCommitted(ready'[i])
    <3>1. i \in 1..Len(ready) \/ i = Len(ready) + 1
      BY <1>3, <2>3
    <3> QED
      BY <1>1, <2>2, <2>3, <3>1 DEF TicketsInOrder, FromCommitted
  <2> QED
    BY <1>1, <1>5, <2>1, <2>4 DEF TicketsInOrder, FromCommitted
<1> QED
  BY <1>4, <1>5

\* Steps that leave log and ledger alone keep what was promised about them.
LEMMA HistoryKeepsGuarantees ==
    ASSUME QueueInvariant, log' = log, ledger' = ledger
    PROVE  TicketsHonoured' /\ EffectsRunInNextTransaction' /\ RejectionIsAtomic'
BY DEF QueueInvariant, QueueGuarantees, TicketsHonoured, EffectsRunInNextTransaction,
       RejectionIsAtomic, Positions, Committed

\* Enqueueing and entering a drain.
LEMMA QueueingKeeps ==
    ASSUME UntrackedCallers, QueueInvariant, KernelInvariant',
           UNCHANGED <<phase, active, next_transaction, log, txn, ledger>>,
           \/ UNCHANGED <<ready, deferred>>
           \/ \E e \in Events : PushQueued(e),
           \/ UNCHANGED <<draining, drain, result>>
           \/ \E context \in Contexts : StartDrain(context)
    PROVE  QueueInvariant'
<1>1. TypeOK /\ TicketsInOrder /\ LoggedIdsSpent /\ BatchIsPublished /\ DrainHoldsReceipts
  BY DEF QueueInvariant, KernelInvariant
<1>2. TicketsInOrder'
  BY <1>1, PushKeepsTickets DEF TicketsInOrder, FromCommitted
<1>3. LoggedIdsSpent' /\ BatchIsPublished'
  BY <1>1 DEF LoggedIdsSpent, BatchIsPublished
<1>4. TicketsHonoured' /\ EffectsRunInNextTransaction' /\ RejectionIsAtomic'
  BY HistoryKeepsGuarantees
<1>5. DrainHoldsReceipts' /\ ResultCarriesReceipts'
  <2>1. CASE UNCHANGED <<draining, drain, result>>
    BY <1>1, <2>1 DEF DrainHoldsReceipts, ResultCarriesReceipts, QueueInvariant, QueueGuarantees
  <2>2. CASE \E context \in Contexts : StartDrain(context)
    BY <2>2, <1>1, LenProperties, SubSeqEmpty DEF StartDrain, NoDrain, NoResult, TypeOK,
       DrainHoldsReceipts, ResultCarriesReceipts
  <2> QED
    BY <2>1, <2>2
<1> QED
  BY <1>2, <1>3, <1>4, <1>5 DEF QueueInvariant, QueueGuarantees

\* A drain that ends without a new receipt (DrainGuard::finish and drop).
LEMMA FinishKeeps ==
    ASSUME QueueInvariant, KernelInvariant', NEW error, NEW receipts,
           Finish(error, receipts), draining, phase # "RunningEffects",
           next_transaction' \in {next_transaction, next_transaction + 1},
           log' = log, ledger' = ledger,
           ready' = << >>, deferred' = << >>,
           receipts = drain.receipts \/ error \in {"Panicked", "TransactionIdExhausted"}
    PROVE  QueueInvariant'
<1>1. TypeOK /\ TicketsInOrder /\ LoggedIdsSpent /\ DrainHoldsReceipts
  BY DEF QueueInvariant, KernelInvariant
<1>2. /\ phase' = "Idle" /\ active' = None /\ draining' = FALSE
      /\ result' = [result EXCEPT !.error = error, !.receipts = receipts]
  BY DEF Finish
<1>3. TicketsInOrder'
  <2>1. Len(<< >>) = 0
    BY EmptySeq
  <2> QED
    BY <1>2, <2>1 DEF TicketsInOrder
<1>4. LoggedIdsSpent' /\ BatchIsPublished'
  <2>1. \A i \in 1..Len(log) : log[i].transaction \in Nat
    <3>1. \A i \in 1..Len(log) : log[i] \in QueuedEvent
      BY <1>1, ElementOfSeq DEF TypeOK
    <3> QED
      BY <3>1 DEF QueuedEvent
  <2>2. next_transaction \in Nat
    BY <1>1, IdAssumption DEF TypeOK
  <2> QED
    BY <1>1, <1>2, <2>1, <2>2 DEF LoggedIdsSpent, BatchIsPublished
<1>5. DrainHoldsReceipts' /\ ResultCarriesReceipts'
  BY <1>1, <1>2 DEF TypeOK, Results, DrainHoldsReceipts, ResultCarriesReceipts
<1> QED
  BY <1>3, <1>4, <1>5, HistoryKeepsGuarantees DEF QueueInvariant, QueueGuarantees

\* The queued events become the batch of the next transaction (take_transaction).
LEMMA TakeKeeps ==
    ASSUME QueueInvariant, KernelInvariant', TakeTransaction
    PROVE  QueueInvariant'
<1>1. TypeOK /\ TicketsInOrder /\ LoggedIdsSpent /\ DrainHoldsReceipts /\ ActiveInPhase
  BY DEF QueueInvariant, KernelInvariant
<1>2. /\ active = None /\ draining /\ next_transaction \in Nat \ {0}
  BY <1>1, IdAssumption DEF TakeTransaction, CanTake, ActiveInPhase, TypeOK
<1>3. /\ active' = next_transaction /\ next_transaction' = next_transaction + 1
      /\ ready' = << >> /\ deferred' = deferred /\ phase' = "Collecting"
      /\ UNCHANGED <<log, ledger, draining, result>>
      /\ txn'.batch = ready /\ drain'.receipts = drain.receipts
  BY <1>1 DEF TakeTransaction, NoTxn, TypeOK, Drains
<1>4. active' # None /\ active' + 1 = next_transaction' /\ Len(<< >>) = 0
  BY <1>2, <1>3, EmptySeq DEF None
<1>5. TicketsInOrder'
  BY <1>1, <1>2, <1>3, <1>4 DEF TicketsInOrder, FromCommitted
<1>6. LoggedIdsSpent'
  <2>1. \A i \in 1..Len(log) : log[i].transaction \in Nat
    <3>1. \A i \in 1..Len(log) : log[i] \in QueuedEvent
      BY <1>1, ElementOfSeq DEF TypeOK
    <3> QED
      BY <3>1 DEF QueuedEvent
  <2> QED
    BY <1>1, <1>2, <1>3, <2>1 DEF LoggedIdsSpent
<1>7. BatchIsPublished' /\ DrainHoldsReceipts' /\ ResultCarriesReceipts'
  BY <1>1, <1>2, <1>3 DEF BatchIsPublished, DrainHoldsReceipts, ResultCarriesReceipts
<1> QED
  BY <1>3, <1>5, <1>6, <1>7, HistoryKeepsGuarantees DEF QueueInvariant, QueueGuarantees

\* The batch is appended to a clone of the log: nothing is published yet.
LEMMA AppendBatchKeeps ==
    ASSUME QueueInvariant, KernelInvariant', AppendBatch
    PROVE  QueueInvariant'
<1>1. /\ TypeOK /\ TicketsInOrder /\ LoggedIdsSpent /\ DrainHoldsReceipts
      /\ ResultCarriesReceipts
  BY DEF QueueInvariant, KernelInvariant, QueueGuarantees
<1>2. /\ phase = "Collecting" /\ phase' = "Reducing" /\ txn'.batch = txn.batch
      /\ UNCHANGED <<active, next_transaction, ready, deferred, draining, log, drain,
                     result, ledger>>
  BY <1>1 DEF AppendBatch, TypeOK, Transactions
<1>3. TicketsInOrder' /\ LoggedIdsSpent'
  BY <1>1, <1>2 DEF TicketsInOrder, FromCommitted, LoggedIdsSpent
<1>4. BatchIsPublished' /\ DrainHoldsReceipts' /\ ResultCarriesReceipts'
  BY <1>1, <1>2 DEF BatchIsPublished, DrainHoldsReceipts, ResultCarriesReceipts
<1> QED
  BY <1>2, <1>3, <1>4, HistoryKeepsGuarantees DEF QueueInvariant, QueueGuarantees

\* A committed receipt more leaves what was said of the earlier ones.
LEMMA EmitKeeps ==
    ASSUME QueueInvariant, NEW r \in Receipts, ledger' = Append(ledger, r), log' = log,
           Committed(r) =>
               /\ Cardinality(Positions(r)) = r.committed
               /\ \A i \in Positions(r) :
                     /\ i <= Len(log)
                     /\ log[i].transaction = r.transaction_id
                     /\ log[i].ordinal = i - r.before.history.position,
           ~Committed(r) => \A i \in 1..Len(log) : log[i].transaction # r.transaction_id
    PROVE  TicketsHonoured' /\ EffectsRunInNextTransaction' /\ RejectionIsAtomic'
<1>1. TypeOK /\ TicketsHonoured /\ EffectsRunInNextTransaction /\ RejectionIsAtomic
  BY DEF QueueInvariant, KernelInvariant, QueueGuarantees
<1>2. /\ Len(ledger) \in Nat /\ Len(ledger') = Len(ledger) + 1
      /\ ledger'[Len(ledger')] = r
      /\ \A k \in 1..Len(ledger) : k \in 1..Len(ledger') /\ ledger'[k] = ledger[k]
      /\ \A k \in 1..Len(ledger') : k \in 1..Len(ledger) \/ k = Len(ledger')
  BY <1>1, LedgerGrows
<1>3. TicketsHonoured'
  BY <1>1, <1>2 DEF TicketsHonoured, Committed, Positions
<1>4. EffectsRunInNextTransaction'
  BY <1>1, <1>2 DEF EffectsRunInNextTransaction, Committed
<1>5. RejectionIsAtomic'
  BY <1>1, <1>2 DEF RejectionIsAtomic, Committed
<1> QED
  BY <1>3, <1>4, <1>5

\* The Err arm of the drain loop.
LEMMA RejectKeeps ==
    ASSUME QueueInvariant, KernelInvariant', NEW failure \in Failures, Reject(failure),
           phase \in {"Collecting", "Reducing"}
    PROVE  QueueInvariant'
<1>1. /\ TypeOK /\ LoggedIdsSpent /\ DrainHoldsReceipts /\ ActiveInPhase /\ IdsInOrder
  BY DEF QueueInvariant, KernelInvariant
<1>2. PICK r \in Receipts : r = RejectedReceipt(failure)
  BY <1>1, ReceiptTypes
<1>3. /\ ~Committed(r) /\ r.transaction_id = active
  BY <1>2 DEF RejectedReceipt, Receipt, Committed
<1>4. /\ ledger' = Append(ledger, r) /\ log' = log /\ draining
      /\ next_transaction' = next_transaction /\ ready' = << >> /\ deferred' = << >>
      /\ Finish(failure, Append(drain.receipts, r))
  BY <1>1, <1>2 DEF Reject, Emit, ClearQueues, DrainHoldsReceipts
<1>5. \A i \in 1..Len(log) : log[i].transaction # active
  <2>1. \A i \in 1..Len(log) : log[i] \in QueuedEvent
    BY <1>1, ElementOfSeq DEF TypeOK
  <2>2. \A i \in 1..Len(log) : log[i].transaction \in Nat /\ log[i].transaction < active
    BY <1>1, <2>1 DEF QueuedEvent, LoggedIdsSpent
  <2> QED
    BY <1>1, <2>2 DEF TypeOK
<1>6. TicketsHonoured' /\ EffectsRunInNextTransaction' /\ RejectionIsAtomic'
  BY <1>3, <1>4, <1>5, EmitKeeps
<1>7. /\ phase' = "Idle" /\ active' = None /\ draining' = FALSE
      /\ result' = [result EXCEPT !.error = failure, !.receipts = Append(drain.receipts, r)]
  BY <1>4 DEF Finish
<1>8. TicketsInOrder'
  <2>1. Len(<< >>) = 0
    BY EmptySeq
  <2> QED
    BY <1>4, <1>7, <2>1 DEF TicketsInOrder
<1>9. LoggedIdsSpent' /\ BatchIsPublished'
  BY <1>1, <1>4, <1>7 DEF LoggedIdsSpent, BatchIsPublished
<1>10. DrainHoldsReceipts' /\ ResultCarriesReceipts'
  BY <1>1, <1>7, <1>4, EmittedJoinsDrain DEF TypeOK, Results, DrainHoldsReceipts,
     ResultCarriesReceipts
<1> QED
  BY <1>6, <1>8, <1>9, <1>10 DEF QueueInvariant, QueueGuarantees

\* The batch becomes the end of the published log (commit_prepared, publish).
LEMMA CommitKeeps ==
    ASSUME QueueInvariant, KernelInvariant', CommitAndPublish
    PROVE  QueueInvariant'
<1>1. /\ TypeOK /\ TicketsInOrder /\ LoggedIdsSpent /\ DrainHoldsReceipts
      /\ ActiveInPhase /\ IdsInOrder /\ LocalsCurrent /\ StateIsFoldOfLog
      /\ TicketsHonoured /\ EffectsRunInNextTransaction /\ RejectionIsAtomic
      /\ ResultCarriesReceipts /\ drain.context # "tracked"
  BY DEF QueueInvariant, KernelInvariant, QueueGuarantees
<1>2. PICK batch \in Seq(QueuedEvent) : batch = txn.batch
  BY <1>1 DEF TypeOK, Transactions
<1>3. /\ phase = "Reducing" /\ phase' = "RunningEffects" /\ active # None
      /\ log' = log \o batch /\ txn'.batch = batch /\ txn'.before = txn.before
      /\ UNCHANGED <<active, next_transaction, ready, deferred, draining, drain,
                     result, ledger>>
  BY <1>1, <1>2 DEF CommitAndPublish, LocalsCurrent, ActiveInPhase, TypeOK, Transactions
<1>4. /\ log \in Seq(QueuedEvent) /\ Len(log) \in Nat /\ Len(batch) \in Nat
  BY <1>1, LenProperties DEF TypeOK
<1>5. /\ Len(log') = Len(log) + Len(batch)
      /\ \A i \in 1..(Len(log) + Len(batch)) :
            log'[i] = IF i <= Len(log) THEN log[i] ELSE batch[i - Len(log)]
  BY <1>3, <1>4, ConcatProperties
<1>6. /\ \A i \in 1..Len(log) : i \in 1..Len(log') /\ log'[i] = log[i]
      /\ \A i \in 1..Len(batch) : log'[Len(log) + i] = batch[i]
      /\ \A i \in 1..Len(log') :
            i \in 1..Len(log) \/ \E j \in 1..Len(batch) : log'[i] = batch[j]
  <2>1. ASSUME NEW i \in 1..Len(log) PROVE i \in 1..Len(log') /\ log'[i] = log[i]
    BY <1>4, <1>5
  <2>2. ASSUME NEW i \in 1..Len(batch) PROVE log'[Len(log) + i] = batch[i]
    <3>1. Len(log) + i \in 1..(Len(log) + Len(batch)) /\ ~(Len(log) + i <= Len(log))
          /\ (Len(log) + i) - Len(log) = i
      BY <1>4
    <3> QED
      BY <1>5, <3>1
  <2>3. ASSUME NEW i \in 1..Len(log'), i \notin 1..Len(log)
        PROVE  \E j \in 1..Len(batch) : log'[i] = batch[j]
    <3>1. i - Len(log) \in 1..Len(batch) /\ ~(i <= Len(log)) /\ i \in 1..(Len(log) + Len(batch))
      BY <1>4, <1>5, <2>3
    <3> QED
      BY <1>5, <3>1
  <2> QED
    BY <2>1, <2>2, <2>3
<1>7. \A j \in 1..Len(batch) :
          /\ batch[j].transaction = active /\ batch[j].ordinal = j /\ FromCommitted(batch[j])
  BY <1>1, <1>2, <1>3 DEF TicketsInOrder
<1>8. /\ active \in Nat /\ next_transaction \in Nat /\ active < next_transaction
      /\ \A k \in 1..Len(ledger) : ledger[k].transaction_id \in Nat
                                   /\ ledger[k].transaction_id < active
  BY <1>1, LedgerIds, <1>3, IdAssumption DEF TypeOK, IdsInOrder
<1>9. TicketsInOrder'
  BY <1>1, <1>2, <1>3 DEF TicketsInOrder, FromCommitted
<1>10. LoggedIdsSpent'
  <2>1. \A i \in 1..Len(log') : log'[i].transaction < next_transaction
    BY ZenonT(60), <1>1, <1>6, <1>7, <1>8 DEF LoggedIdsSpent
  <2> QED
    BY <1>3, <2>1 DEF LoggedIdsSpent
<1>11. BatchIsPublished'
  <2>1. txn.before.history.position = Len(log)
    BY <1>1, <1>3 DEF LocalsCurrent, Point, StateIsFoldOfLog, Cursor
  <2> QED
    BY <1>3, <1>5, <1>6, <2>1 DEF BatchIsPublished
<1>12. DrainHoldsReceipts' /\ ResultCarriesReceipts'
  BY <1>1, <1>3 DEF DrainHoldsReceipts, ResultCarriesReceipts
<1>13. TicketsHonoured'
  <2> SUFFICES ASSUME NEW k \in 1..Len(ledger), Committed(ledger[k])
               PROVE  /\ Cardinality(Positions(ledger[k])) = ledger[k].committed
                      /\ \A i \in Positions(ledger[k]) :
                            /\ i <= Len(log')
                            /\ log'[i].transaction = ledger[k].transaction_id
                            /\ log'[i].ordinal = i - ledger[k].before.history.position
    BY <1>3 DEF TicketsHonoured, Committed, Positions
  <2>1. \A i \in Positions(ledger[k]) : i \in 1..Len(log)
    <3>1. ledger[k] \in Receipts
      BY <1>1, ElementOfSeq DEF TypeOK
    <3>2. ledger[k].before.history.position \in Nat /\ ledger[k].after.history.position \in Nat
      BY <3>1 DEF Receipts, Points, Cursors
    <3>3. \A i \in Positions(ledger[k]) : i <= Len(log)
      BY <1>1 DEF TicketsHonoured
    <3> QED
      BY <1>4, <3>2, <3>3 DEF Positions
  <2>2. \A i \in Positions(ledger[k]) : log'[i] = log[i] /\ i <= Len(log')
    BY <1>4, <1>5, <1>6, <2>1
  <2> QED
    BY <1>1, <2>2 DEF TicketsHonoured
<1>14. EffectsRunInNextTransaction'
  <2> SUFFICES ASSUME NEW i \in 1..Len(log') PROVE FromCommitted(log'[i])
    BY <1>3 DEF EffectsRunInNextTransaction, FromCommitted
  <2>1. CASE i \in 1..Len(log)
    BY <1>1, <1>6, <2>1 DEF EffectsRunInNextTransaction, FromCommitted
  <2>2. CASE \E j \in 1..Len(batch) : log'[i] = batch[j]
    BY <1>7, <2>2
  <2> QED
    BY <1>6, <2>1, <2>2
<1>15. RejectionIsAtomic'
  <2> SUFFICES ASSUME NEW k \in 1..Len(ledger), ~Committed(ledger[k]), NEW i \in 1..Len(log')
               PROVE  log'[i].transaction # ledger[k].transaction_id
    BY <1>3 DEF RejectionIsAtomic, Committed
  <2>1. CASE i \in 1..Len(log)
    BY <1>1, <1>6, <2>1 DEF RejectionIsAtomic
  <2>2. CASE \E j \in 1..Len(batch) : log'[i] = batch[j]
    BY <1>7, <1>8, <2>2
  <2> QED
    BY <1>6, <2>1, <2>2
<1> QED
  BY <1>9, <1>10, <1>11, <1>12, <1>13, <1>14, <1>15 DEF QueueInvariant, QueueGuarantees

\* The receipt is recorded and the deferred events become the next batch
\* (advance_generation).
LEMMA RecordKeeps ==
    ASSUME QueueInvariant, KernelInvariant', NEW failure \in Failures, RecordReceipt(failure)
    PROVE  QueueInvariant'
<1>1. /\ TypeOK /\ TicketsInOrder /\ LoggedIdsSpent /\ DrainHoldsReceipts /\ BatchIsPublished
      /\ ActiveInPhase /\ LocalsCurrent /\ StateIsFoldOfLog
  BY DEF QueueInvariant, KernelInvariant
<1>2. PICK r \in Receipts : r = CommittedReceipt(failure)
  BY <1>1, ReceiptTypes
<1>3. /\ Committed(r) /\ r.transaction_id = active /\ r.before = txn.before /\ r.after = txn.after
      /\ r.committed = Len(txn.batch)
  BY <1>2 DEF CommittedReceipt, Receipt, Committed
<1>4. /\ phase = "RunningEffects" /\ phase' = "Idle" /\ active # None /\ active' = None
      /\ ledger' = Append(ledger, r) /\ ready' = deferred /\ deferred' = << >>
      /\ drain'.receipts = Append(drain.receipts, r) /\ draining
      /\ UNCHANGED <<next_transaction, draining, log, result>>
  BY <1>1, <1>2 DEF RecordReceipt, Emit, ActiveInPhase, DrainHoldsReceipts, TypeOK, Drains
<1>5. PICK p \in Nat, n \in Nat :
          /\ p = r.before.history.position /\ n = Len(txn.batch) /\ n = r.committed
          /\ Len(log) = p + n /\ r.after.history.position = p + n
          /\ \A i \in 1..n : log[p + i] = txn.batch[i]
  <2>1. Len(txn.batch) \in Nat /\ txn.before.history.position \in Nat
    BY <1>1, LenProperties DEF TypeOK, Transactions, Points, Cursors
  <2>2. r.after.history.position = Len(log)
    BY <1>1, <1>3, <1>4 DEF LocalsCurrent, Point, StateIsFoldOfLog, Cursor
  <2> QED
    BY <1>1, <1>3, <1>4, <2>1, <2>2 DEF BatchIsPublished
<1>6. /\ Positions(r) = (p + 1)..(p + n)
      /\ Cardinality(Positions(r)) = r.committed
  <2>1. Cardinality((p + 1)..(p + n)) = IF p + 1 > p + n THEN 0 ELSE (p + n) - (p + 1) + 1
    BY FS_Interval
  <2> QED
    BY <1>5, <2>1 DEF Positions
<1>7. ASSUME NEW i \in Positions(r)
      PROVE  /\ i <= Len(log) /\ log[i].transaction = r.transaction_id
             /\ log[i].ordinal = i - r.before.history.position
  <2>1. PICK j \in 1..n : i = p + j
    BY <1>6
  <2>2. txn.batch[j].transaction = active /\ txn.batch[j].ordinal = j
    BY <1>1, <1>4, <1>5 DEF TicketsInOrder
  <2>3. log[i] = txn.batch[j]
    BY <1>5, <2>1
  <2>4. i <= p + n /\ i - p = j
    BY <2>1
  <2> QED
    BY <1>3, <1>5, <2>2, <2>3, <2>4
<1>8. TicketsHonoured' /\ EffectsRunInNextTransaction' /\ RejectionIsAtomic'
  BY <1>3, <1>4, <1>6, <1>7, EmitKeeps
<1>9. TicketsInOrder'
  <2>1. /\ Len(<< >>) = 0 /\ active \in Nat /\ active + 1 = next_transaction
    BY <1>1, <1>4, EmptySeq DEF TypeOK, TicketsInOrder
  <2>2. PICK k \in 1..Len(ledger') : Committed(ledger'[k]) /\ ledger'[k].transaction_id = active
    BY <1>1, <1>4, LedgerGrows, <1>3
  <2>3. ASSUME NEW i \in 1..Len(ready')
        PROVE  /\ ready'[i].transaction = next_transaction' /\ ready'[i].ordinal = i
               /\ ready'[i].origin = active
    BY <1>1, <1>4 DEF TicketsInOrder
  <2> QED
    BY <1>4, <2>1, <2>2, <2>3 DEF TicketsInOrder, FromCommitted, Committed
<1>10. LoggedIdsSpent' /\ BatchIsPublished'
  BY <1>1, <1>4 DEF LoggedIdsSpent, BatchIsPublished
<1>11. DrainHoldsReceipts' /\ ResultCarriesReceipts'
  BY <1>1, <1>4, EmittedJoinsDrain DEF DrainHoldsReceipts, ResultCarriesReceipts
<1> QED
  BY <1>8, <1>9, <1>10, <1>11 DEF QueueInvariant, QueueGuarantees

\* A restored scheduler has queued nothing and promised nothing.
LEMMA InitQueue == Init => QueueInvariant
<1> SUFFICES ASSUME Init PROVE QueueInvariant
  OBVIOUS
<1>1. KernelInvariant
  BY InitKernel
<1>2. Len(<< >>) = 0
  BY EmptySeq
<1>3. /\ TicketsInOrder /\ BatchIsPublished /\ TicketsHonoured /\ RejectionIsAtomic
  BY <1>2 DEF Init, TicketsInOrder, BatchIsPublished, TicketsHonoured, RejectionIsAtomic
<1>4. \A i \in 1..Len(log) : log[i].transaction = 0 /\ log[i].origin = 0
  <2>1. PICK h \in Histories : log = [i \in 1..Len(h) |-> Imported(h[i])]
    BY DEF Init
  <2>2. Len(h) \in Nat
    <3>1. h \in Seq(Events)
      BY EventsAssumption, SeqMonotonic
    <3> QED
      BY <3>1, LenProperties
  <2>3. Len(log) = Len(h)
    BY <1>1, <2>1, LenProperties, <2>2 DEF KernelInvariant, TypeOK
  <2> QED
    BY <2>1, <2>3 DEF Imported
<1>5. LoggedIdsSpent /\ EffectsRunInNextTransaction
  <2>1. next_transaction = 1 /\ phase = "Idle"
    BY DEF Init
  <2>2. LoggedIdsSpent
    BY <1>4, <2>1 DEF LoggedIdsSpent
  <2>3. EffectsRunInNextTransaction
    BY <1>4 DEF EffectsRunInNextTransaction, None
  <2> QED
    BY <2>2, <2>3
<1>6. DrainHoldsReceipts /\ ResultCarriesReceipts
  BY SubSeqEmpty, <1>2 DEF Init, DrainHoldsReceipts, ResultCarriesReceipts, NoResult
<1> QED
  BY <1>1, <1>3, <1>5, <1>6 DEF QueueInvariant, QueueGuarantees

\* Every operation keeps the promises of the queue.
LEMMA NextQueue ==
    ASSUME UntrackedCallers, QueueInvariant, [Next]_vars
    PROVE  QueueInvariant'
<1>1. KernelInvariant /\ KernelInvariant'
  BY NextKernel DEF QueueInvariant
<1>2. CASE UNCHANGED vars
  BY <1>1, <1>2, QueueingKeeps DEF vars, core
<1>3. ASSUME NEW e \in Events, Enqueue(e) PROVE QueueInvariant'
  BY <1>1, <1>3, QueueingKeeps DEF Enqueue
<1>4. ASSUME NEW e \in Events, NEW context \in Contexts, Dispatch(e, context)
      PROVE  QueueInvariant'
  BY <1>4, <1>1, QueueingKeeps DEF Dispatch, StartDrain
<1>5. ASSUME NEW context \in Contexts, Drain(context) PROVE QueueInvariant'
  BY <1>5, <1>1, QueueingKeeps DEF Drain, StartDrain
<1>6. CASE ExceedLimit
  BY <1>6, <1>1, FinishKeeps DEF ExceedLimit, CanTake, ClearQueues
<1>7. ASSUME NEW error \in {"Panicked", "TransactionIdExhausted"}, Recover(error),
             draining, phase # "RunningEffects",
             next_transaction' \in {next_transaction, next_transaction + 1}
      PROVE  QueueInvariant'
  BY <1>7, <1>1, FinishKeeps DEF Recover, ClearQueues
<1>8. CASE ExhaustIds
  BY <1>7, <1>8 DEF ExhaustIds
<1>9. CASE UnsettledPanic
  BY <1>7, <1>9 DEF UnsettledPanic, CanTake
<1>10. CASE PrepareUnwinds
  BY <1>10, <1>7 DEF PrepareUnwinds, QueueInvariant, DrainHoldsReceipts
<1>11. CASE EndDrain
  BY <1>11, <1>1, FinishKeeps DEF EndDrain, KernelInvariant, ActiveInPhase, QueueInvariant,
     TicketsInOrder
<1>12. CASE RejectAppend
  BY <1>1, <1>12, RejectKeeps DEF RejectAppend, Failures
<1>13. CASE RejectProjection
  BY <1>1, <1>13, RejectKeeps DEF RejectProjection, Failures
<1>14. ASSUME NEW failure \in Failures, RecordReceipt(failure) PROVE QueueInvariant'
  BY <1>1, <1>14, RecordKeeps
<1>15. CASE DropScheduler
  BY <1>1, <1>15, QueueingKeeps DEF DropScheduler, core
<1> QED
  BY <1>1, <1>2, <1>3, <1>4, <1>5, <1>6, <1>8, <1>9, <1>10, <1>11, <1>12, <1>13, <1>14,
     <1>15, TakeKeeps, AppendBatchKeeps, CommitKeeps DEF Next, DrainStep

\* When no caller dispatches from inside a running reactive computation: the
\* log positions of a committed receipt hold exactly the events ticketed for
\* it, in order; what an effect produced is committed by the next transaction
\* and only after its own was; a rejected transaction leaves nothing in the
\* log; and what a drain returns carries every receipt it emitted.
THEOREM QueueKeepsPromises == UntrackedCallers => (Spec => []QueueGuarantees)
<1> SUFFICES ASSUME UntrackedCallers PROVE Spec => []QueueGuarantees
  OBVIOUS
<1>1. Init => QueueInvariant
  BY InitQueue
<1>2. QueueInvariant /\ [Next]_vars => QueueInvariant'
  BY NextQueue
<1>3. QueueInvariant => QueueGuarantees
  BY DEF QueueInvariant
<1> QED
  BY <1>1, <1>2, <1>3, PTL DEF Spec

-----------------------------------------------------------------------------
(* However a drain ends, nothing is left queued.                           *)

\* Nothing is deferred while no transaction is active.
IdleQueues ==
    /\ TypeOK /\ ActiveInPhase
    /\ active = None => deferred = << >>

\* Deferred events exist only under an active transaction, in every context.
LEMMA NextIdleQueues ==
    ASSUME IdleQueues, [Next]_vars
    PROVE  /\ IdleQueues'
           /\ (draining /\ ~draining') =>
                 /\ ready' = << >> /\ deferred' = << >> /\ phase' = "Idle" /\ active' = None
<1> USE DEF IdleQueues
<1>1. TypeOK'
  BY NextTypes
<1>2. CASE UNCHANGED vars
  BY <1>1, <1>2 DEF vars, core, ActiveInPhase
<1>3. ASSUME NEW e \in Events, PushQueued(e), phase' = phase, active' = active
      PROVE  ActiveInPhase' /\ (active' = None => deferred' = << >>)
  BY <1>3 DEF PushQueued, ActiveInPhase
<1>4. CASE \E e \in Events : Enqueue(e)
  BY <1>1, <1>3, <1>4 DEF Enqueue
<1>5. CASE \E e \in Events, context \in Contexts : Dispatch(e, context)
  BY <1>1, <1>3, <1>5 DEF Dispatch, StartDrain
<1>6. CASE \E context \in Contexts : Drain(context)
  BY <1>1, <1>6 DEF Drain, StartDrain, ActiveInPhase
<1>7. CASE TakeTransaction
  BY <1>1, <1>7, IdAssumption DEF TakeTransaction, ActiveInPhase, None, TypeOK
<1>8. ASSUME NEW error, NEW receipts, Finish(error, receipts),
             ready' = << >>, deferred' = << >>
      PROVE  /\ IdleQueues'
             /\ ready' = << >> /\ deferred' = << >> /\ phase' = "Idle" /\ active' = None
  BY <1>1, <1>8 DEF Finish, ActiveInPhase
<1>9. CASE ExceedLimit \/ ExhaustIds \/ UnsettledPanic \/ PrepareUnwinds
  BY <1>8, <1>9 DEF ExceedLimit, ExhaustIds, UnsettledPanic, PrepareUnwinds, Recover, ClearQueues
<1>10. CASE EndDrain
  BY <1>8, <1>10 DEF EndDrain, ActiveInPhase
<1>11. CASE RejectAppend \/ RejectProjection
  BY <1>8, <1>11 DEF RejectAppend, RejectProjection, Reject, ClearQueues
<1>12. CASE AppendBatch \/ CommitAndPublish
  BY <1>1, <1>12 DEF AppendBatch, CommitAndPublish, ActiveInPhase
<1>13. CASE \E failure \in Failures : RecordReceipt(failure)
  BY <1>1, <1>13 DEF RecordReceipt, ActiveInPhase
<1>14. CASE DropScheduler
  BY <1>1, <1>14 DEF DropScheduler, core, ActiveInPhase
<1> QED
  BY <1>2, <1>4, <1>5, <1>6, <1>7, <1>9, <1>10, <1>11, <1>12, <1>13, <1>14
     DEF Next, DrainStep

\* However a drain ends, by its report, an error or a panic, and wherever it was
\* called from, both queues are empty and the kernel is Idle (DrainGuard).
THEOREM DrainsLeaveNothingQueued == Spec => QuietAfterDrain
<1>1. Init => IdleQueues
  BY InitTypes DEF Init, IdleQueues, ActiveInPhase
<1>2. IdleQueues /\ [Next]_vars => IdleQueues'
  BY NextIdleQueues
<1>3. IdleQueues /\ [Next]_vars =>
          [(draining /\ ~draining') =>
             /\ ready' = << >> /\ deferred' = << >>
             /\ phase' = "Idle" /\ active' = None]_vars
  BY NextIdleQueues
<1> QED
  BY <1>1, <1>2, <1>3, PTL DEF Spec, QuietAfterDrain

-----------------------------------------------------------------------------
(* The kernel implements the ledger.                                       *)

\* The abstract transactions of a sequence of receipts.
Entries(l) == [k \in 1..Len(l) |-> LedgerEntry(l[k])]

LedgerEntries == [transaction : Nat, from : Nat, to : Nat]

\* The batch of the active transaction is one the ledger knows.
BatchFits == active # None => Len(txn.batch) \in 1..MaxEventsPerTransaction

\* A receipt stands for one entry.
LEMMA EntryType ==
    ASSUME NEW r \in Receipts
    PROVE  LedgerEntry(r) \in LedgerEntries
BY DEF LedgerEntry, LedgerEntries, Receipts, Points, Cursors

\* The entries of receipts are a sequence of the same length.
LEMMA EntriesType ==
    ASSUME NEW l \in Seq(Receipts)
    PROVE  /\ Entries(l) \in Seq(LedgerEntries) /\ Len(Entries(l)) = Len(l)
           /\ Len(l) \in Nat
           /\ \A k \in 1..Len(l) : Entries(l)[k] = LedgerEntry(l[k])
  BY LenProperties, ElementOfSeq, EntryType, SeqDef DEF Entries

\* A receipt more is an entry more.
LEMMA EntriesAppend ==
    ASSUME NEW l \in Seq(Receipts), NEW r \in Receipts
    PROVE  Entries(Append(l, r)) = Append(Entries(l), LedgerEntry(r))
<1> DEFINE m == Append(l, r)
           a == Entries(m)
           e == Entries(l)
           b == Append(e, LedgerEntry(r))
<1>1. /\ m \in Seq(Receipts) /\ Len(m) = Len(l) + 1 /\ m[Len(l) + 1] = r
      /\ \A k \in 1..Len(l) : m[k] = l[k]
  BY AppendProperties
<1> HIDE DEF m
<1>2. /\ a \in Seq(LedgerEntries) /\ Len(a) = Len(m)
      /\ \A k \in 1..Len(m) : a[k] = LedgerEntry(m[k])
  BY <1>1, EntriesType
<1>3. /\ e \in Seq(LedgerEntries) /\ Len(e) = Len(l) /\ Len(l) \in Nat
      /\ \A k \in 1..Len(l) : e[k] = LedgerEntry(l[k])
  BY EntriesType
<1> HIDE DEF a, e
<1>4. /\ b \in Seq(LedgerEntries) /\ Len(b) = Len(e) + 1 /\ b[Len(e) + 1] = LedgerEntry(r)
      /\ \A k \in 1..Len(e) : b[k] = e[k]
  BY <1>3, EntryType, AppendProperties
<1> HIDE DEF b
<1>5. ASSUME NEW k \in 1..Len(a) PROVE a[k] = b[k]
  BY <1>1, <1>2, <1>3, <1>4
<1>6. a = b
  BY <1>1, <1>2, <1>3, <1>4, <1>5, SeqEqual
<1> QED
  BY <1>6 DEF a, b, m, e

\* from_log: the ledger starts with the imported history and no transaction.
LEMMA InitLedger == Init => Ledger!LInit
<1> SUFFICES ASSUME Init PROVE Ledger!LInit
  OBVIOUS
<1>1. PICK h \in Histories : log = [i \in 1..Len(h) |-> Imported(h[i])]
  BY DEF Init
<1>2. h \in Seq(Events) /\ Len(h) \in Nat /\ DOMAIN h = 1..Len(h)
  <2>1. h \in Seq(Events)
    BY EventsAssumption, SeqMonotonic
  <2> QED
    BY <2>1, LenProperties
<1>3. log \in Seq(QueuedEvent) /\ Len(log) = Len(h)
  <2>1. log \in Seq(QueuedEvent)
    BY InitTypes DEF TypeOK
  <2>2. DOMAIN log = 1..Len(log) /\ DOMAIN log = 1..Len(h) /\ Len(log) \in Nat
    BY <1>1, <2>1, LenProperties
  <2>3. Len(log) = Len(h)
    <3>1. Len(h) \in Nat
      BY <1>2
    <3> QED
      BY <2>2, <3>1
  <2> QED
    BY <2>1, <2>3
<1>4. Fold(log) = h
  BY <1>3, FoldType, <1>1, <1>2, SeqEqual DEF Fold, Imported
<1>5. Decided = << >> /\ << >> \in Seq(Receipts) /\ Len(<< >>) = 0
  BY EmptySeq DEF Init, Decided
<1>6. [k \in 1..Len(Decided) |-> LedgerEntry(Decided[k])] = << >>
  BY <1>5, EntriesType, EmptySeq DEF Entries
<1> QED
  BY <1>4, <1>6 DEF Ledger!LInit

\* A decided transaction extends the chain of the ledger by its entry.
LEMMA DecidedGrows ==
    ASSUME KernelInvariant, phase # "RunningEffects", NEW r \in Receipts,
           Decided' = Append(ledger, r), r.transaction_id = active, active # None
    PROVE  /\ active \in 1..MaxTransactionId
           /\ [k \in 1..Len(Decided') |-> LedgerEntry(Decided'[k])]
                = Append([k \in 1..Len(Decided) |-> LedgerEntry(Decided[k])], LedgerEntry(r))
           /\ \A i \in 1..Len([k \in 1..Len(Decided) |-> LedgerEntry(Decided[k])]) :
                 [k \in 1..Len(Decided) |-> LedgerEntry(Decided[k])][i].transaction < active
<1>1. TypeOK /\ IdsInOrder /\ ledger \in Seq(Receipts) /\ Decided = ledger
  BY DEF KernelInvariant, TypeOK, Decided
<1>2. active \in 1..MaxTransactionId
  BY <1>1, IdAssumption DEF TypeOK, IdsInOrder, None
<1>3. Entries(Decided') = Append(Entries(Decided), LedgerEntry(r))
  BY <1>1, EntriesAppend
<1>4. ASSUME NEW i \in 1..Len(Entries(ledger)) PROVE Entries(ledger)[i].transaction < active
  <2>1. i \in 1..Len(ledger) /\ Entries(ledger)[i] = LedgerEntry(ledger[i])
    BY <1>1, EntriesType
  <2>2. ledger[i].transaction_id < active
    BY <1>1, <2>1 DEF IdsInOrder
  <2> QED
    BY <2>1, <2>2 DEF LedgerEntry
<1> QED
  BY <1>1, <1>2, <1>3, <1>4 DEF Entries

\* A rejected transaction is a rejection of the ledger.
LEMMA RejectLedger ==
    ASSUME QueueInvariant, NEW failure \in Failures, Reject(failure),
           phase \in {"Collecting", "Reducing"}
    PROVE  Ledger!LNext
<1>1. /\ KernelInvariant /\ TypeOK /\ ActiveInPhase /\ LocalsCurrent /\ StateIsFoldOfLog
  BY DEF QueueInvariant, KernelInvariant
<1>2. PICK r \in Receipts : r = RejectedReceipt(failure)
  BY <1>1, ReceiptTypes
<1>3. /\ r.transaction_id = active /\ active # None /\ r.before = Point /\ r.after = Point
      /\ Decided' = Append(ledger, r) /\ log' = log
  BY <1>1, <1>2 DEF RejectedReceipt, Receipt, Reject, Emit, Finish, Decided, ActiveInPhase,
        LocalsCurrent
<1>4. Len(Fold(log)) = Len(log)
  BY <1>1, FoldType DEF TypeOK
<1>5. LedgerEntry(r) = [transaction |-> active, from |-> Len(Fold(log)), to |-> Len(Fold(log))]
  BY <1>1, <1>3, <1>4 DEF LedgerEntry, Point, StateIsFoldOfLog, Cursor
<1>6. Ledger!LReject(active)
  BY <1>1, <1>3, <1>5, DecidedGrows DEF Ledger!LReject, Ledger!Later, Ledger!Entry, Fold
<1> QED
  BY <1>1, <1>3, <1>6, DecidedGrows DEF Ledger!LNext

\* A published batch is a commit of the ledger.
LEMMA CommitLedger ==
    ASSUME QueueInvariant, BatchFits, CommitAndPublish
    PROVE  Ledger!LNext
<1>1. /\ KernelInvariant /\ TypeOK /\ ActiveInPhase /\ LocalsCurrent /\ StateIsFoldOfLog
      /\ drain.context # "tracked" /\ phase = "Reducing"
  BY DEF QueueInvariant, KernelInvariant, CommitAndPublish
<1>2. PICK batch \in Seq(QueuedEvent) : batch = txn.batch
  BY <1>1 DEF TypeOK, Transactions
<1>3. /\ log \in Seq(QueuedEvent) /\ active # None /\ log' = log \o batch
      /\ txn.before.history.position = Len(log)
  BY <1>1, <1>2 DEF CommitAndPublish, TypeOK, LocalsCurrent, ActiveInPhase, Point,
        StateIsFoldOfLog, Cursor
<1>4. /\ Fold(log') = Fold(log) \o Fold(batch) /\ Len(log') = Len(log) + Len(batch)
      /\ Len(Fold(log)) = Len(log) /\ Len(Fold(batch)) = Len(batch)
      /\ Fold(batch) \in Seq(Events)
  BY <1>3, FoldConcat, FoldType, ConcatProperties
<1>5. Fold(batch) \in Ledger!Batches
  BY <1>2, <1>3, <1>4, LenProperties DEF BatchFits, Ledger!Batches
<1>6. TypeOK'
  BY NextTypes, <1>1 DEF Next, DrainStep
<1>7. /\ txn' = [txn EXCEPT !.after = [history |-> stable'.history, state_root |-> stable'.state]]
      /\ stable'.history = Cursor(txn.candidate) /\ txn.candidate = log \o batch
      /\ phase' = "RunningEffects" /\ active' = active /\ ledger' = ledger
  BY <1>1, <1>2 DEF CommitAndPublish, Prepared, LocalsCurrent
<1>8. PICK r \in Receipts : r = CommittedReceipt("None")'
  BY <1>6, LenProperties DEF TypeOK, Transactions, CommittedReceipt, Receipt, Receipts,
     Failures
<1>9. /\ r.transaction_id = active /\ r.before.history.position = Len(log)
      /\ r.after.history.position = Len(log) + Len(batch)
  <2>1. txn'.before = txn.before /\ txn'.after.history = Cursor(log \o batch)
    BY <1>1, <1>7 DEF TypeOK, Transactions
  <2>2. r.transaction_id = active' /\ r.before = txn'.before /\ r.after = txn'.after
    BY <1>8 DEF CommittedReceipt, Receipt
  <2>3. Cursor(log \o batch).position = Len(log) + Len(batch)
    BY <1>3, <1>4 DEF Cursor
  <2> QED
    BY <1>3, <1>7, <2>1, <2>2, <2>3
<1>10. Decided' = Append(ledger, r)
  BY <1>7, <1>8 DEF Decided
<1>11. LedgerEntry(r) = [transaction |-> active, from |-> Len(Fold(log)),
                         to |-> Len(Fold(log)) + Len(Fold(batch))]
  BY <1>4, <1>9 DEF LedgerEntry
<1>12. /\ active \in 1..MaxTransactionId
       /\ [k \in 1..Len(Decided') |-> LedgerEntry(Decided'[k])]
             = Append([k \in 1..Len(Decided) |-> LedgerEntry(Decided[k])], LedgerEntry(r))
       /\ \A i \in 1..Len([k \in 1..Len(Decided) |-> LedgerEntry(Decided[k])]) :
             [k \in 1..Len(Decided) |-> LedgerEntry(Decided[k])][i].transaction < active
  BY <1>1, <1>3, <1>9, <1>10, DecidedGrows
<1>13. Ledger!LCommit(active, Fold(batch))
  BY <1>4, <1>11, <1>12 DEF Ledger!LCommit, Ledger!Later, Ledger!Entry
<1> QED
  BY <1>5, <1>12, <1>13 DEF Ledger!LNext

\* Recording the receipt of a decided transaction changes nothing in the ledger.
LEMMA RecordLedger ==
    ASSUME KernelInvariant, NEW failure \in Failures, RecordReceipt(failure)
    PROVE  UNCHANGED Ledger!lvars
<1>1. TypeOK /\ ledger \in Seq(Receipts) /\ "None" \in Failures
  BY DEF KernelInvariant, TypeOK, Failures
<1>2. PICK r \in Receipts : r = CommittedReceipt(failure)
  BY <1>1, ReceiptTypes
<1>3. PICK q \in Receipts : q = CommittedReceipt("None")
  BY <1>1, ReceiptTypes
<1>4. Decided = Append(ledger, q) /\ Decided' = Append(ledger, r) /\ log' = log
  BY <1>2, <1>3 DEF RecordReceipt, Emit, Decided
<1>5. LedgerEntry(q) = LedgerEntry(r)
  BY <1>2, <1>3 DEF LedgerEntry, CommittedReceipt, Receipt
<1>6. Entries(Decided') = Entries(Decided)
  BY <1>1, <1>4, <1>5, EntriesAppend
<1> QED
  BY <1>4, <1>6 DEF Ledger!lvars, Entries, Fold

\* Every step of the kernel is a step of the ledger or none.
LEMMA NextLedger ==
    ASSUME QueueInvariant, BatchFits, [Next]_vars
    PROVE  [Ledger!LNext]_(Ledger!lvars)
<1>1. TypeOK /\ KernelInvariant
  BY DEF QueueInvariant, KernelInvariant
<1>2. ASSUME log' = log, ledger' = ledger, phase # "RunningEffects", phase' # "RunningEffects"
      PROVE  UNCHANGED Ledger!lvars
  BY <1>2 DEF Ledger!lvars, Decided, Fold
<1>3. ASSUME log' = log, ledger' = ledger, phase' = phase, txn' = txn, active' = active
      PROVE  UNCHANGED Ledger!lvars
  BY <1>3 DEF CommittedReceipt, Receipt, Decided, Ledger!lvars, Fold
<1>4. CASE UNCHANGED vars \/ DropScheduler
  BY <1>3, <1>4 DEF vars, core, DropScheduler
<1>5. CASE \/ \E e \in Events : Enqueue(e)
           \/ \E e \in Events, context \in Contexts : Dispatch(e, context)
           \/ \E context \in Contexts : Drain(context)
  BY <1>3, <1>5 DEF Enqueue, Dispatch, Drain, StartDrain
<1>6. CASE TakeTransaction \/ AppendBatch
  BY <1>2, <1>6 DEF TakeTransaction, CanTake, AppendBatch
<1>7. CASE ExceedLimit \/ ExhaustIds \/ UnsettledPanic \/ EndDrain \/ PrepareUnwinds
  BY <1>2, <1>7 DEF ExceedLimit, ExhaustIds, UnsettledPanic, EndDrain, PrepareUnwinds,
        CanTake, Recover, Finish
<1>8. CASE RejectAppend \/ RejectProjection
  BY <1>8, RejectLedger DEF RejectAppend, RejectProjection, Failures
<1>9. CASE CommitAndPublish
  BY <1>9, CommitLedger
<1>10. CASE \E failure \in Failures : RecordReceipt(failure)
  BY <1>1, <1>10, RecordLedger
<1> QED
  BY <1>4, <1>5, <1>6, <1>7, <1>8, <1>9, <1>10 DEF Next, DrainStep

\* The batch that is taken is not empty and within the limit.
LEMMA NextBatchFits ==
    ASSUME TypeOK, ActiveInPhase, BatchFits, [Next]_vars
    PROVE  BatchFits'
<1>1. CASE TakeTransaction
  BY <1>1, EmptySeq, LimitsAssumption DEF TypeOK, TakeTransaction, CanTake, NoTxn, BatchFits
<1>2. ASSUME active' = None PROVE BatchFits'
  BY <1>2 DEF BatchFits
<1>3. ASSUME active' = active, txn'.batch = txn.batch PROVE BatchFits'
  BY <1>3 DEF BatchFits
<1>4. CASE ExceedLimit \/ ExhaustIds \/ UnsettledPanic \/ EndDrain \/ PrepareUnwinds
           \/ RejectAppend \/ RejectProjection
  BY <1>2, <1>4 DEF ExceedLimit, ExhaustIds, UnsettledPanic, EndDrain, PrepareUnwinds,
        Recover, RejectAppend, RejectProjection, Reject, Finish
<1>5. CASE \E failure \in Failures : RecordReceipt(failure)
  BY <1>2, <1>5 DEF RecordReceipt
<1>6. CASE AppendBatch \/ CommitAndPublish
  BY <1>6, <1>3 DEF AppendBatch, CommitAndPublish, TypeOK, Transactions
<1>7. CASE \/ UNCHANGED vars \/ DropScheduler
           \/ \E e \in Events : Enqueue(e)
           \/ \E e \in Events, context \in Contexts : Dispatch(e, context)
           \/ \E context \in Contexts : Drain(context)
  BY <1>3, <1>7 DEF vars, core, DropScheduler, Enqueue, Dispatch, Drain, StartDrain
<1> QED
  BY <1>1, <1>4, <1>5, <1>6, <1>7 DEF Next, DrainStep

\* When no caller dispatches from inside a running reactive computation, the
\* kernel implements the client's view of it: history and receipts change only
\* by whole transactions, decided in increasing id order, whatever user code
\* enqueues, raises or unwinds in the middle of a drain.
THEOREM KernelImplementsLedger == UntrackedCallers => (Spec => ImplementsLedger)
<1> SUFFICES ASSUME UntrackedCallers PROVE Spec => ImplementsLedger
  OBVIOUS
<1> DEFINE I == QueueInvariant /\ BatchFits
<1>1. Init => I
  BY InitQueue DEF Init, BatchFits
<1>2. I /\ [Next]_vars => I'
  BY NextQueue, NextBatchFits DEF QueueInvariant, KernelInvariant
<1>3. I /\ [Next]_vars => [Ledger!LNext]_(Ledger!lvars)
  BY NextLedger
<1>4. Init => Ledger!LInit
  BY InitLedger
<1> HIDE DEF I
<1> QED
  BY <1>1, <1>2, <1>3, <1>4, PTL DEF Spec, ImplementsLedger, Ledger!LSpec
=============================================================================
