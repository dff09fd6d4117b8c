--------------------------- MODULE IdempotentAction ---------------------------
(***************************************************************************)
(* Idempotent actions of pliego-data: DataContext::act_idempotent and act, *)
(* the ActionCommitHandle an action moves, the IdempotencyPermit and the   *)
(* shared IdempotencyStore whose records expire.                           *)
(*                                                                         *)
(* Attempts of several requests (retries, double submissions, the same     *)
(* form on two hosts) run concurrently; every await is a state.  Any of    *)
(* them can be interrupted by cancellation or deadline, lose a store call, *)
(* or be dropped with its future.  The action itself is application code:  *)
(* it moves the commit handle and sends one mutation to an external        *)
(* system, which applies it at any later time or not at all.               *)
(*                                                                         *)
(* A scope is what scope_digest binds: policy, action, revision, epoch,    *)
(* key and partition.  A result is named by the attempt that returned it.  *)
(* The handle is moved only by the action's own future, and receipts and   *)
(* field contents are left out.                                            *)
(***************************************************************************)
EXTENDS Naturals

CONSTANTS
    Requests,  \* attempts
    Scopes,    \* scope digests
    Inputs,    \* input digests
    Retention, \* IdempotencyPolicy.retention
    Deadline,  \* how long an attempt can be under way: deadline and grace
    MaxTime    \* bound on the clock

ASSUME TimesAssumption ==
    Retention \in Nat \ {0} /\ Deadline \in Nat /\ MaxTime \in Nat

VARIABLES
    now,      \* unix_millis
    store,    \* the record of every scope, or Absent
    pc,       \* where an attempt is
    call,     \* its scope, input digest and the time begin computed expiry at
    commit,   \* its ActionCommitState
    answer,   \* what act_idempotent returned
    effect,   \* its mutation: "none", "sent" or "applied"
    acquired  \* history: when it acquired its scope

vars == <<now, store, pc, call, commit, answer, effect, acquired>>

Absent == [state |-> "Absent"]
NoResult == "NoResult"

Record(state, input, expires, result) ==
    [state |-> state, input |-> input, expires |-> expires, result |-> result]

\* Commit states in which nothing was sent, or the system refused it.
Undone == {"NotStarted", "PreCommit", "Failed"}

CommitStates == Undone \cup {"Committing", "Committed", "OutcomeUnknown",
                             "CompensationRequired"}

\* An attempt between StoreBegin and the resolution of its permit.
Holding == {"admitting", "acting", "grace", "completing", "settling"}
UnderWay == Holding \cup {"beginning"}

Pending == [kind |-> "Pending"]
Replay(q) == [kind |-> "Replay", from |-> q]
Refused(why) == [kind |-> why, commit |-> "NotStarted"]
Answer(kind, state) == [kind |-> kind, commit |-> state]

Expires(r) == call[r].begun + Retention

Go(r, to) == pc' = [pc EXCEPT ![r] = to]

Return(r, a) == Go(r, "done") /\ answer' = [answer EXCEPT ![r] = a]

MoveCommit(r, to) == commit' = [commit EXCEPT ![r] = to]

Init ==
    /\ now = 0
    /\ store = [s \in Scopes |-> Absent]
    /\ pc = [r \in Requests |-> "idle"]
    /\ call \in [Requests -> [scope : Scopes, input : Inputs, begun : {0}]]
    /\ commit = [r \in Requests |-> "NotStarted"]
    /\ answer = [r \in Requests |-> Pending]
    /\ effect = [r \in Requests |-> "none"]
    /\ acquired = [r \in Requests |-> 0]

-----------------------------------------------------------------------------
(* IdempotencyManager::begin and the store.                                *)

\* The expiry is computed before the store is asked.
Begin(r) ==
    /\ pc[r] = "idle"
    /\ call' = [call EXCEPT ![r].begun = now]
    /\ Go(r, "beginning")
    /\ UNCHANGED <<now, store, commit, answer, effect, acquired>>

\* No record, or one that has expired and is removed.
Vacant(s) == ~(store[s].state # "Absent" /\ now < store[s].expires)

Acquire(r) ==
    /\ pc[r] = "beginning"
    /\ Vacant(call[r].scope)
    /\ store' = [store EXCEPT ![call[r].scope] =
                    Record("InProgress", call[r].input, Expires(r), NoResult)]
    /\ acquired' = [acquired EXCEPT ![r] = now]
    /\ Go(r, "admitting")
    /\ UNCHANGED <<now, call, commit, answer, effect>>

\* What begin answers when the scope is held: the record decides.
HeldAnswer(r) ==
    LET record == store[call[r].scope]
    IN  IF record.input # call[r].input THEN Refused("Conflict")
        ELSE CASE record.state = "InProgress"     -> Refused("InProgress")
               [] record.state = "OutcomeUnknown" -> Refused("OutcomeUnknown")
               [] record.state = "Completed"      -> Replay(record.result)

BeginHeld(r) ==
    /\ pc[r] = "beginning"
    /\ ~Vacant(call[r].scope)
    /\ Return(r, HeldAnswer(r))
    /\ UNCHANGED <<now, store, call, commit, effect, acquired>>

-----------------------------------------------------------------------------
(* DataContext::act and the application's action.                          *)

\* The action policy, the admission and the closed check.
Admit(r) ==
    /\ pc[r] = "admitting"
    /\ \E to \in {"acting", "settling"} : Go(r, to)
    /\ UNCHANGED <<now, store, call, commit, answer, effect, acquired>>

\* The future of the action runs: in act, or polled again in the grace period.
Running(r) == pc[r] \in {"acting", "grace"}

EnterPreCommit(r) ==
    /\ Running(r) /\ commit[r] = "NotStarted"
    /\ MoveCommit(r, "PreCommit")
    /\ UNCHANGED <<now, store, pc, call, answer, effect, acquired>>

\* The application sends its mutation once it has begun to commit.
BeginCommit(r) ==
    /\ Running(r) /\ commit[r] \in {"NotStarted", "PreCommit"}
    /\ MoveCommit(r, "Committing")
    /\ effect' = [effect EXCEPT ![r] = "sent"]
    /\ UNCHANGED <<now, store, pc, call, answer, acquired>>

\* It marks committed what it has seen applied, and failed what was refused.
Committed(r) ==
    /\ Running(r) /\ commit[r] = "Committing" /\ effect[r] = "applied"
    /\ MoveCommit(r, "Committed")
    /\ UNCHANGED <<now, store, pc, call, answer, effect, acquired>>

Failed(r) ==
    /\ Running(r) /\ commit[r] \in {"NotStarted", "PreCommit", "Committing"}
    /\ effect[r] # "applied"
    /\ MoveCommit(r, "Failed")
    /\ effect' = [effect EXCEPT ![r] = "none"]
    /\ UNCHANGED <<now, store, pc, call, answer, acquired>>

OutcomeUnknown(r) ==
    /\ Running(r) /\ commit[r] = "Committing"
    /\ MoveCommit(r, "OutcomeUnknown")
    /\ UNCHANGED <<now, store, pc, call, answer, effect, acquired>>

CompensationRequired(r) ==
    /\ Running(r) /\ commit[r] = "Committed"
    /\ MoveCommit(r, "CompensationRequired")
    /\ UNCHANGED <<now, store, pc, call, answer, effect, acquired>>

\* The external system applies a mutation, whatever became of the attempt.
ApplyMutation(r) ==
    /\ effect[r] = "sent"
    /\ effect' = [effect EXCEPT ![r] = "applied"]
    /\ UNCHANGED <<now, store, pc, call, commit, answer, acquired>>

\* The action returns a response; one over max_output_bytes is a failure.
ReturnResponse(r) ==
    /\ Running(r)
    /\ \E to \in {"completing", "settling"} : Go(r, to)
    /\ UNCHANGED <<now, store, call, commit, answer, effect, acquired>>

ReturnError(r) ==
    /\ Running(r)
    /\ Go(r, "settling")
    /\ UNCHANGED <<now, store, call, commit, answer, effect, acquired>>

\* Mutant: an interrupted commit is taken for a failed one.
InterruptRolledBack(r) ==
    /\ pc[r] = "acting"
    /\ Go(r, "settling")
    /\ IF commit[r] = "Committing" THEN MoveCommit(r, "Failed") ELSE UNCHANGED commit
    /\ UNCHANGED <<now, store, call, answer, effect, acquired>>

\* finish_interrupted_action: cancellation or deadline wins the select.
Interrupt(r) ==
    /\ pc[r] = "acting"
    /\ Go(r, IF commit[r] \in {"Committed", "CompensationRequired"}
             THEN "grace" ELSE "settling")
    /\ IF commit[r] = "Committing"
       THEN MoveCommit(r, "OutcomeUnknown") ELSE UNCHANGED commit
    /\ UNCHANGED <<now, store, call, answer, effect, acquired>>

\* The grace period ends before the action does.
GraceEnds(r) ==
    /\ pc[r] = "grace"
    /\ Go(r, "settling")
    /\ UNCHANGED <<now, store, call, commit, answer, effect, acquired>>

-----------------------------------------------------------------------------
(* IdempotencyPermit: the end of act_idempotent.                           *)

\* store.complete on whatever record the scope has now.
StoreComplete(r) ==
    LET record == store[call[r].scope]
    IN  CASE record.state = "Absent" ->
                Return(r, Answer("StoreFailure", "Committed")) /\ UNCHANGED store
          [] record.state = "InProgress" ->
                /\ store' = [store EXCEPT ![call[r].scope] =
                       Record("Completed", record.input, record.expires, r)]
                /\ Return(r, Answer("Ok", commit[r]))
          [] OTHER ->
                Return(r, Answer("StoreConflict", "Committed")) /\ UNCHANGED store

\* A response over max_result_bytes abandons the scope.
AbandonTooLarge(r) ==
    /\ store' = [store EXCEPT ![call[r].scope] = Absent]
    /\ Return(r, Answer("ResultTooLarge", "Committed"))

Complete(r) ==
    /\ pc[r] = "completing"
    /\ StoreComplete(r) \/ AbandonTooLarge(r)
    /\ UNCHANGED <<now, call, commit, effect, acquired>>

Abandon(r) == store' = [store EXCEPT ![call[r].scope] = Absent]

MarkUnknown(r) ==
    LET record == store[call[r].scope]
    IN  IF record.state = "Absent" THEN UNCHANGED store
        ELSE store' = [store EXCEPT ![call[r].scope] =
                 Record("OutcomeUnknown", record.input, record.expires, NoResult)]

\* Mutant: an unknown outcome abandons the scope.
SettleUnknownAsUndone(r) ==
    /\ pc[r] = "settling"
    /\ IF commit[r] \in Undone \cup {"OutcomeUnknown"} THEN Abandon(r) ELSE MarkUnknown(r)
    /\ Return(r, Answer("Err", commit[r]))
    /\ UNCHANGED <<now, call, commit, effect, acquired>>

\* A failure abandons the scope if nothing can have happened.
Settle(r) ==
    /\ pc[r] = "settling"
    /\ IF commit[r] \in Undone THEN Abandon(r) ELSE MarkUnknown(r)
    /\ Return(r, Answer("Err", commit[r]))
    /\ UNCHANGED <<now, call, commit, effect, acquired>>

\* A store call fails without effect; what it was to do is not tried again.
LoseStoreCall(r) ==
    /\ \/ pc[r] = "beginning" /\ Return(r, Refused("StoreFailure"))
       \/ pc[r] = "completing" /\ Return(r, Answer("StoreFailure", "Committed"))
       \/ pc[r] = "settling" /\ Return(r, Answer("Err", commit[r]))
    /\ UNCHANGED <<now, store, call, commit, effect, acquired>>

\* The future of the request is dropped at an await, the permit with it.
Drop(r) ==
    /\ pc[r] \in UnderWay
    /\ Go(r, "gone")
    /\ UNCHANGED <<now, store, call, commit, answer, effect, acquired>>

\* Time passes; the deadline of an attempt under way is kept.
Tick ==
    /\ now < MaxTime
    /\ \A r \in Requests : pc[r] \in UnderWay => now < call[r].begun + Deadline
    /\ now' = now + 1
    /\ UNCHANGED <<store, pc, call, commit, answer, effect, acquired>>

ActionStep(r) ==
    \/ EnterPreCommit(r) \/ BeginCommit(r) \/ Committed(r) \/ Failed(r)
    \/ OutcomeUnknown(r) \/ CompensationRequired(r) \/ ApplyMutation(r)

Next ==
    \/ \E r \in Requests :
          \/ Begin(r) \/ Acquire(r) \/ BeginHeld(r) \/ Admit(r)
          \/ ActionStep(r)
          \/ ReturnResponse(r) \/ ReturnError(r) \/ Interrupt(r) \/ GraceEnds(r)
          \/ Complete(r) \/ Settle(r) \/ LoseStoreCall(r) \/ Drop(r)
    \/ Tick

Spec == Init /\ [][Next]_vars

-----------------------------------------------------------------------------
(* Properties.                                                             *)

\* Two attempts hold one scope only if the first one outlived its record: the
\* permit of begin is exclusive (InMemoryIdempotencyStore::begin).
OneHolder ==
    \A r, q \in Requests :
        (/\ pc[r] \in Holding /\ pc[q] \in Holding
         /\ call[r].scope = call[q].scope) => r = q

TooLarge(r) == answer[r].kind = "ResultTooLarge"

\* Within the retention of a scope at most one attempt sends a mutation, however
\* attempts are interrupted, dropped or lose store calls, and also if the
\* mutation is applied after the attempt ended (act_idempotent's choice between
\* complete, abandon and mark_unknown).  A result too large to be stored is the
\* exception: complete abandons the scope of a mutation that was applied.
OneMutation ==
    \A r, q \in Requests :
        (/\ r # q /\ call[r].scope = call[q].scope
         /\ effect[r] # "none" /\ effect[q] # "none"
         /\ ~TooLarge(r) /\ ~TooLarge(q)) =>
            acquired[q] >= Expires(r) \/ acquired[r] >= Expires(q)

\* No attempt reports that nothing happened while its mutation was sent: what is
\* applied now or later was reported Committing, Committed or unknown
\* (finish_interrupted_action).
NoUnprovenRollback ==
    \A r \in Requests :
        (pc[r] = "done" /\ answer[r].kind = "Err" /\ answer[r].commit \in Undone) =>
            effect[r] = "none"

\* A replayed result was returned by an attempt of the same scope with the same
\* input (begin's input_digest, complete).
ReplaysAgree ==
    \A r \in Requests : answer[r].kind = "Replay" =>
        LET q == answer[r].from
        IN  /\ answer[q].kind = "Ok"
            /\ call[q].scope = call[r].scope /\ call[q].input = call[r].input

(* What makes them inductive.                                              *)

\* Attempts end, by deadline and grace, before their record expires.
TimelyCalls == Deadline < Retention

Records ==
    [state : {"InProgress", "OutcomeUnknown"}, input : Inputs, expires : Nat,
     result : {NoResult}]
    \cup [state : {"Completed"}, input : Inputs, expires : Nat, result : Requests]

Answers ==
    {Pending} \cup {Replay(q) : q \in Requests}
    \cup [kind : {"Ok", "Err", "InProgress", "OutcomeUnknown", "Conflict",
                  "StoreFailure", "StoreConflict", "ResultTooLarge"},
          commit : CommitStates]

ActionTypes ==
    /\ now \in Nat
    /\ store \in [Scopes -> Records \cup {Absent}]
    /\ pc \in [Requests -> UnderWay \cup {"idle", "done", "gone"}]
    /\ call \in [Requests -> [scope : Scopes, input : Inputs, begun : Nat]]
    /\ commit \in [Requests -> CommitStates]
    /\ answer \in [Requests -> Answers]
    /\ effect \in [Requests -> {"none", "sent", "applied"}]
    /\ acquired \in [Requests -> Nat]

\* Nothing is sent before an attempt holds its scope or when its commit state
\* says so, and it is answered when it is done.
EffectsMatchCommit ==
    \A r \in Requests :
        /\ commit[r] \in Undone => effect[r] = "none"
        /\ pc[r] \in {"idle", "beginning"} => effect[r] = "none"
        /\ pc[r] # "done" => answer[r] = Pending

\* An attempt under way is within its deadline, and one that holds its scope
\* still has its own record there.
HoldersOwnTheirRecord ==
    \A r \in Requests :
        /\ acquired[r] <= now
        /\ pc[r] \in UnderWay => now <= call[r].begun + Deadline
        /\ pc[r] \in Holding =>
              store[call[r].scope] =
                  Record("InProgress", call[r].input, Expires(r), NoResult)

\* The record of an attempt that sent its mutation stays until it expires.
MutationsAreGuarded ==
    \A r \in Requests :
        (effect[r] # "none" /\ ~TooLarge(r) /\ now < Expires(r)) =>
            /\ store[call[r].scope] # Absent
            /\ store[call[r].scope].expires = Expires(r)

\* OneMutation already when one of the two only holds the scope.
NoSecondHolder ==
    \A r, q \in Requests :
        (/\ r # q /\ call[r].scope = call[q].scope
         /\ effect[r] # "none" \/ pc[r] \in Holding
         /\ effect[q] # "none"
         /\ ~TooLarge(r) /\ ~TooLarge(q)) =>
            acquired[q] >= Expires(r) \/ acquired[r] >= Expires(q)

\* A completed record is the result of an attempt of its scope and input.
CompletedRecordsAgree ==
    \A s \in Scopes : store[s].state = "Completed" =>
        LET q == store[s].result
        IN  /\ q \in Requests /\ answer[q].kind = "Ok"
            /\ call[q].scope = s /\ call[q].input = store[s].input

ActionInvariant ==
    /\ ActionTypes
    /\ EffectsMatchCommit
    /\ HoldersOwnTheirRecord
    /\ OneHolder
    /\ MutationsAreGuarded
    /\ NoSecondHolder
    /\ CompletedRecordsAgree
    /\ ReplaysAgree
=============================================================================
