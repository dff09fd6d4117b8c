-------------------------- MODULE RequestDataProofs -------------------------
(***************************************************************************)
(* Proofs about the data a request works with: idempotent actions,         *)
(* sessions and the cache, for any number of concurrent calls, any         *)
(* admitted policy and an unbounded clock.                                 *)
(***************************************************************************)
EXTENDS IdempotentAction, SessionStore, DataCache, SequenceTheorems, FiniteSetTheorems, TLAPS

-----------------------------------------------------------------------------
(* Idempotent actions.                                                     *)

\* Every step keeps the types.
LEMMA NextTypes == ActionTypes /\ [Next]_vars => ActionTypes'
<1> SUFFICES ASSUME ActionTypes, [Next]_vars PROVE ActionTypes'
  OBVIOUS
<1> USE TimesAssumption
<1>1. ASSUME NEW r \in Requests, Begin(r) PROVE ActionTypes'
  BY <1>1 DEF Begin, ActionTypes, Go, Return, MoveCommit, UnderWay, Holding,
     CommitStates, Undone
<1>2. ASSUME NEW r \in Requests, Acquire(r) PROVE ActionTypes'
  BY <1>2 DEF Acquire, ActionTypes, Go, Return, MoveCommit, UnderWay, Holding,
     CommitStates, Undone, Record, Expires, NoResult, Records
<1>3. ASSUME NEW r \in Requests, BeginHeld(r) PROVE ActionTypes'
  BY <1>3 DEF BeginHeld, ActionTypes, Go, Return, MoveCommit, UnderWay,
     Holding, CommitStates, Undone, HeldAnswer, Refused, Replay, Answers,
     Records, Absent, Vacant
<1>4. ASSUME NEW r \in Requests, Admit(r) PROVE ActionTypes'
  BY <1>4 DEF Admit, ActionTypes, Go, Return, MoveCommit, UnderWay, Holding,
     CommitStates, Undone
<1>5. ASSUME NEW r \in Requests, EnterPreCommit(r) PROVE ActionTypes'
  BY <1>5 DEF EnterPreCommit, Running, ActionTypes, Go, Return, MoveCommit,
     UnderWay, Holding, CommitStates, Undone
<1>6. ASSUME NEW r \in Requests, BeginCommit(r) PROVE ActionTypes'
  BY <1>6 DEF BeginCommit, Running, ActionTypes, Go, Return, MoveCommit,
     UnderWay, Holding, CommitStates, Undone
<1>7. ASSUME NEW r \in Requests, Committed(r) PROVE ActionTypes'
  BY <1>7 DEF Committed, Running, ActionTypes, Go, Return, MoveCommit,
     UnderWay, Holding, CommitStates, Undone
<1>8. ASSUME NEW r \in Requests, Failed(r) PROVE ActionTypes'
  BY <1>8 DEF Failed, Running, ActionTypes, Go, Return, MoveCommit, UnderWay,
     Holding, CommitStates, Undone
<1>9. ASSUME NEW r \in Requests, OutcomeUnknown(r) PROVE ActionTypes'
  BY <1>9 DEF OutcomeUnknown, Running, ActionTypes, Go, Return, MoveCommit,
     UnderWay, Holding, CommitStates, Undone
<1>10. ASSUME NEW r \in Requests, CompensationRequired(r) PROVE ActionTypes'
  BY <1>10 DEF CompensationRequired, Running, ActionTypes, Go, Return,
     MoveCommit, UnderWay, Holding, CommitStates, Undone
<1>11. ASSUME NEW r \in Requests, ApplyMutation(r) PROVE ActionTypes'
  BY <1>11 DEF ApplyMutation, ActionTypes, Go, Return, MoveCommit, UnderWay,
     Holding, CommitStates, Undone
<1>12. ASSUME NEW r \in Requests, ReturnResponse(r) PROVE ActionTypes'
  BY <1>12 DEF ReturnResponse, Running, ActionTypes, Go, Return, MoveCommit,
     UnderWay, Holding, CommitStates, Undone
<1>13. ASSUME NEW r \in Requests, ReturnError(r) PROVE ActionTypes'
  BY <1>13 DEF ReturnError, Running, ActionTypes, Go, Return, MoveCommit,
     UnderWay, Holding, CommitStates, Undone
<1>14. ASSUME NEW r \in Requests, Interrupt(r) PROVE ActionTypes'
  BY <1>14 DEF Interrupt, ActionTypes, Go, Return, MoveCommit, UnderWay,
     Holding, CommitStates, Undone
<1>15. ASSUME NEW r \in Requests, GraceEnds(r) PROVE ActionTypes'
  BY <1>15 DEF GraceEnds, ActionTypes, Go, Return, MoveCommit, UnderWay,
     Holding, CommitStates, Undone
<1>16. ASSUME NEW r \in Requests, Complete(r) PROVE ActionTypes'
  <2>1. store[call[r].scope] \in Records \cup {Absent}
    BY DEF ActionTypes
  <2>2. CASE StoreComplete(r)
    <3>1. CASE store[call[r].scope].state = "InProgress"
      <4>1. Record("Completed", store[call[r].scope].input,
                   store[call[r].scope].expires, r) \in Records
        BY <2>1, <3>1 DEF Records, Record, Absent
      <4>2. Answer("Ok", commit[r]) \in Answers
        BY DEF Answer, Answers, ActionTypes
      <4> QED
        BY ZenonT(60), <1>16, <2>2, <3>1, <4>1, <4>2
           DEF Complete, StoreComplete, ActionTypes, Go, Return
    <3>2. CASE store[call[r].scope].state # "InProgress"
      <4>1. /\ Answer("StoreFailure", "Committed") \in Answers
            /\ Answer("StoreConflict", "Committed") \in Answers
        BY DEF Answer, Answers, CommitStates
      <4> QED
        BY <1>16, <2>2, <3>2, <4>1
           DEF Complete, StoreComplete, ActionTypes, Go, Return
    <3> QED
      BY <3>1, <3>2
  <2>3. CASE AbandonTooLarge(r)
    <3>1. Answer("ResultTooLarge", "Committed") \in Answers
      BY DEF Answer, Answers, CommitStates
    <3> QED
      BY <1>16, <2>3, <3>1
         DEF Complete, AbandonTooLarge, ActionTypes, Go, Return
  <2> QED
    BY <1>16, <2>2, <2>3 DEF Complete
<1>17. ASSUME NEW r \in Requests, Settle(r) PROVE ActionTypes'
  BY <1>17 DEF Settle, ActionTypes, Go, Return, MoveCommit, UnderWay, Holding,
     CommitStates, Undone, Abandon, MarkUnknown, Answer, Answers, Record,
     Records, Absent, NoResult
<1>18. ASSUME NEW r \in Requests, LoseStoreCall(r) PROVE ActionTypes'
  <2>1. /\ Refused("StoreFailure") \in Answers
        /\ Answer("StoreFailure", "Committed") \in Answers
        /\ Answer("Err", commit[r]) \in Answers
    BY DEF Refused, Answer, Answers, CommitStates, Undone, ActionTypes
  <2> QED
    BY ZenonT(60), <1>18, <2>1 DEF LoseStoreCall, ActionTypes, Go, Return
<1>19. ASSUME NEW r \in Requests, Drop(r) PROVE ActionTypes'
  BY <1>19 DEF Drop, ActionTypes, Go, Return, MoveCommit, UnderWay, Holding,
     CommitStates, Undone
<1>20. CASE Tick
  BY <1>20 DEF Tick, ActionTypes, Go, Return, MoveCommit, UnderWay, Holding,
     CommitStates, Undone
<1>21. CASE UNCHANGED vars
  BY <1>21 DEF vars, ActionTypes, Go, Return, MoveCommit, UnderWay, Holding,
     CommitStates, Undone
<1> QED
  BY <1>1, <1>2, <1>3, <1>4, <1>5, <1>6, <1>7, <1>8, <1>9, <1>10, <1>11,
     <1>12, <1>13, <1>14, <1>15, <1>16, <1>17, <1>18, <1>19, <1>20, <1>21 DEF
     Next, ActionStep

\* An attempt sends only while it holds its scope and is committing.
LEMMA NextEffects ==
    ActionTypes /\ EffectsMatchCommit /\ [Next]_vars => EffectsMatchCommit'
<1> SUFFICES ASSUME ActionTypes, EffectsMatchCommit, [Next]_vars
             PROVE  EffectsMatchCommit'
  OBVIOUS
<1>1. ASSUME NEW r \in Requests, Begin(r) PROVE EffectsMatchCommit'
  BY <1>1 DEF Begin, ActionTypes, EffectsMatchCommit, Go, Return, MoveCommit,
     UnderWay, Holding, Undone
<1>2. ASSUME NEW r \in Requests, Acquire(r) PROVE EffectsMatchCommit'
  BY <1>2 DEF Acquire, ActionTypes, EffectsMatchCommit, Go, Return,
     MoveCommit, UnderWay, Holding, Undone
<1>3. ASSUME NEW r \in Requests, BeginHeld(r) PROVE EffectsMatchCommit'
  BY <1>3 DEF BeginHeld, ActionTypes, EffectsMatchCommit, Go, Return,
     MoveCommit, UnderWay, Holding, Undone
<1>4. ASSUME NEW r \in Requests, Admit(r) PROVE EffectsMatchCommit'
  BY <1>4 DEF Admit, ActionTypes, EffectsMatchCommit, Go, Return, MoveCommit,
     UnderWay, Holding, Undone
<1>5. ASSUME NEW r \in Requests, EnterPreCommit(r) PROVE EffectsMatchCommit'
  BY <1>5 DEF EnterPreCommit, Running, ActionTypes, EffectsMatchCommit, Go,
     Return, MoveCommit, UnderWay, Holding, Undone
<1>6. ASSUME NEW r \in Requests, BeginCommit(r) PROVE EffectsMatchCommit'
  BY <1>6 DEF BeginCommit, Running, ActionTypes, EffectsMatchCommit, Go,
     Return, MoveCommit, UnderWay, Holding, Undone
<1>7. ASSUME NEW r \in Requests, Committed(r) PROVE EffectsMatchCommit'
  BY <1>7 DEF Committed, Running, ActionTypes, EffectsMatchCommit, Go, Return,
     MoveCommit, UnderWay, Holding, Undone
<1>8. ASSUME NEW r \in Requests, Failed(r) PROVE EffectsMatchCommit'
  BY <1>8 DEF Failed, Running, ActionTypes, EffectsMatchCommit, Go, Return,
     MoveCommit, UnderWay, Holding, Undone
<1>9. ASSUME NEW r \in Requests, OutcomeUnknown(r) PROVE EffectsMatchCommit'
  BY <1>9 DEF OutcomeUnknown, Running, ActionTypes, EffectsMatchCommit, Go,
     Return, MoveCommit, UnderWay, Holding, Undone
<1>10. ASSUME NEW r \in Requests, CompensationRequired(r) PROVE EffectsMatchCommit'
  BY <1>10 DEF CompensationRequired, Running, ActionTypes, EffectsMatchCommit,
     Go, Return, MoveCommit, UnderWay, Holding, Undone
<1>11. ASSUME NEW r \in Requests, ApplyMutation(r) PROVE EffectsMatchCommit'
  BY <1>11 DEF ApplyMutation, ActionTypes, EffectsMatchCommit, Go, Return,
     MoveCommit, UnderWay, Holding, Undone
<1>12. ASSUME NEW r \in Requests, ReturnResponse(r) PROVE EffectsMatchCommit'
  BY <1>12 DEF ReturnResponse, Running, ActionTypes, EffectsMatchCommit, Go,
     Return, MoveCommit, UnderWay, Holding, Undone
<1>13. ASSUME NEW r \in Requests, ReturnError(r) PROVE EffectsMatchCommit'
  BY <1>13 DEF ReturnError, Running, ActionTypes, EffectsMatchCommit, Go,
     Return, MoveCommit, UnderWay, Holding, Undone
<1>14. ASSUME NEW r \in Requests, Interrupt(r) PROVE EffectsMatchCommit'
  BY <1>14 DEF Interrupt, ActionTypes, EffectsMatchCommit, Go, Return,
     MoveCommit, UnderWay, Holding, Undone
<1>15. ASSUME NEW r \in Requests, GraceEnds(r) PROVE EffectsMatchCommit'
  BY <1>15 DEF GraceEnds, ActionTypes, EffectsMatchCommit, Go, Return,
     MoveCommit, UnderWay, Holding, Undone
<1>16. ASSUME NEW r \in Requests, Complete(r) PROVE EffectsMatchCommit'
  BY <1>16 DEF Complete, ActionTypes, EffectsMatchCommit, Go, Return,
     MoveCommit, UnderWay, Holding, Undone, StoreComplete, AbandonTooLarge
<1>17. ASSUME NEW r \in Requests, Settle(r) PROVE EffectsMatchCommit'
  BY <1>17 DEF Settle, ActionTypes, EffectsMatchCommit, Go, Return,
     MoveCommit, UnderWay, Holding, Undone
<1>18. ASSUME NEW r \in Requests, LoseStoreCall(r) PROVE EffectsMatchCommit'
  BY <1>18 DEF LoseStoreCall, ActionTypes, EffectsMatchCommit, Go, Return,
     MoveCommit, UnderWay, Holding, Undone
<1>19. ASSUME NEW r \in Requests, Drop(r) PROVE EffectsMatchCommit'
  BY <1>19 DEF Drop, ActionTypes, EffectsMatchCommit, Go, Return, MoveCommit,
     UnderWay, Holding, Undone
<1>20. CASE Tick
  BY <1>20 DEF Tick, ActionTypes, EffectsMatchCommit, Go, Return, MoveCommit,
     UnderWay, Holding, Undone
<1>21. CASE UNCHANGED vars
  BY <1>21 DEF vars, ActionTypes, EffectsMatchCommit, Go, Return, MoveCommit,
     UnderWay, Holding, Undone
<1> QED
  BY <1>1, <1>2, <1>3, <1>4, <1>5, <1>6, <1>7, <1>8, <1>9, <1>10, <1>11,
     <1>12, <1>13, <1>14, <1>15, <1>16, <1>17, <1>18, <1>19, <1>20, <1>21 DEF
     Next, ActionStep

\* What an attempt reports as undone was not sent and is not sent later.
LEMMA NextRollback ==
    ActionTypes /\ EffectsMatchCommit /\ NoUnprovenRollback /\ [Next]_vars
    => NoUnprovenRollback'
<1> SUFFICES ASSUME ActionTypes, EffectsMatchCommit, NoUnprovenRollback, [Next]_vars
             PROVE  NoUnprovenRollback'
  OBVIOUS
<1>1. ASSUME NEW r \in Requests, Begin(r) PROVE NoUnprovenRollback'
  BY <1>1 DEF Begin, ActionTypes, EffectsMatchCommit, NoUnprovenRollback, Go,
     Return, MoveCommit, Undone, Pending
<1>2. ASSUME NEW r \in Requests, Acquire(r) PROVE NoUnprovenRollback'
  BY <1>2 DEF Acquire, ActionTypes, EffectsMatchCommit, NoUnprovenRollback,
     Go, Return, MoveCommit, Undone, Pending
<1>3. ASSUME NEW r \in Requests, BeginHeld(r) PROVE NoUnprovenRollback'
  BY <1>3 DEF BeginHeld, ActionTypes, EffectsMatchCommit, NoUnprovenRollback,
     Go, Return, MoveCommit, Undone, HeldAnswer, Refused, Replay, Pending
<1>4. ASSUME NEW r \in Requests, Admit(r) PROVE NoUnprovenRollback'
  BY <1>4 DEF Admit, ActionTypes, EffectsMatchCommit, NoUnprovenRollback, Go,
     Return, MoveCommit, Undone, Pending
<1>5. ASSUME NEW r \in Requests, EnterPreCommit(r) PROVE NoUnprovenRollback'
  BY <1>5 DEF EnterPreCommit, Running, ActionTypes, EffectsMatchCommit,
     NoUnprovenRollback, Go, Return, MoveCommit, Undone, Pending
<1>6. ASSUME NEW r \in Requests, BeginCommit(r) PROVE NoUnprovenRollback'
  BY <1>6 DEF BeginCommit, Running, ActionTypes, EffectsMatchCommit,
     NoUnprovenRollback, Go, Return, MoveCommit, Undone, Pending
<1>7. ASSUME NEW r \in Requests, Committed(r) PROVE NoUnprovenRollback'
  BY <1>7 DEF Committed, Running, ActionTypes, EffectsMatchCommit,
     NoUnprovenRollback, Go, Return, MoveCommit, Undone, Pending
<1>8. ASSUME NEW r \in Requests, Failed(r) PROVE NoUnprovenRollback'
  BY <1>8 DEF Failed, Running, ActionTypes, EffectsMatchCommit,
     NoUnprovenRollback, Go, Return, MoveCommit, Undone, Pending
<1>9. ASSUME NEW r \in Requests, OutcomeUnknown(r) PROVE NoUnprovenRollback'
  BY <1>9 DEF OutcomeUnknown, Running, ActionTypes, EffectsMatchCommit,
     NoUnprovenRollback, Go, Return, MoveCommit, Undone, Pending
<1>10. ASSUME NEW r \in Requests, CompensationRequired(r) PROVE NoUnprovenRollback'
  BY <1>10 DEF CompensationRequired, Running, ActionTypes, EffectsMatchCommit,
     NoUnprovenRollback, Go, Return, MoveCommit, Undone, Pending
<1>11. ASSUME NEW r \in Requests, ApplyMutation(r) PROVE NoUnprovenRollback'
  BY <1>11 DEF ApplyMutation, ActionTypes, EffectsMatchCommit,
     NoUnprovenRollback, Go, Return, MoveCommit, Undone, Pending
<1>12. ASSUME NEW r \in Requests, ReturnResponse(r) PROVE NoUnprovenRollback'
  BY <1>12 DEF ReturnResponse, Running, ActionTypes, EffectsMatchCommit,
     NoUnprovenRollback, Go, Return, MoveCommit, Undone, Pending
<1>13. ASSUME NEW r \in Requests, ReturnError(r) PROVE NoUnprovenRollback'
  BY <1>13 DEF ReturnError, Running, ActionTypes, EffectsMatchCommit,
     NoUnprovenRollback, Go, Return, MoveCommit, Undone, Pending
<1>14. ASSUME NEW r \in Requests, Interrupt(r) PROVE NoUnprovenRollback'
  BY <1>14 DEF Interrupt, ActionTypes, EffectsMatchCommit, NoUnprovenRollback,
     Go, Return, MoveCommit, Undone, Pending
<1>15. ASSUME NEW r \in Requests, GraceEnds(r) PROVE NoUnprovenRollback'
  BY <1>15 DEF GraceEnds, ActionTypes, EffectsMatchCommit, NoUnprovenRollback,
     Go, Return, MoveCommit, Undone, Pending
<1>16. ASSUME NEW r \in Requests, Complete(r) PROVE NoUnprovenRollback'
  BY <1>16 DEF Complete, ActionTypes, EffectsMatchCommit, NoUnprovenRollback,
     Go, Return, MoveCommit, Undone, StoreComplete, AbandonTooLarge, Answer
<1>17. ASSUME NEW r \in Requests, Settle(r) PROVE NoUnprovenRollback'
  BY <1>17 DEF Settle, ActionTypes, EffectsMatchCommit, NoUnprovenRollback,
     Go, Return, MoveCommit, Undone, Answer, Pending
<1>18. ASSUME NEW r \in Requests, LoseStoreCall(r) PROVE NoUnprovenRollback'
  BY <1>18 DEF LoseStoreCall, ActionTypes, EffectsMatchCommit,
     NoUnprovenRollback, Go, Return, MoveCommit, Undone, Answer, Refused,
     Pending
<1>19. ASSUME NEW r \in Requests, Drop(r) PROVE NoUnprovenRollback'
  BY <1>19 DEF Drop, ActionTypes, EffectsMatchCommit, NoUnprovenRollback, Go,
     Return, MoveCommit, Undone, Pending
<1>20. CASE Tick
  BY <1>20 DEF Tick, ActionTypes, EffectsMatchCommit, NoUnprovenRollback, Go,
     Return, MoveCommit, Undone
<1>21. CASE UNCHANGED vars
  BY <1>21 DEF vars, ActionTypes, EffectsMatchCommit, NoUnprovenRollback, Go,
     Return, MoveCommit, Undone
<1> QED
  BY <1>1, <1>2, <1>3, <1>4, <1>5, <1>6, <1>7, <1>8, <1>9, <1>10, <1>11,
     <1>12, <1>13, <1>14, <1>15, <1>16, <1>17, <1>18, <1>19, <1>20, <1>21 DEF
     Next, ActionStep

\* The record of an attempt under way has not expired, so nobody acquires it.
LEMMA NextHolders ==
    ASSUME TimelyCalls, ActionTypes, HoldersOwnTheirRecord, OneHolder, [Next]_vars
    PROVE  HoldersOwnTheirRecord' /\ OneHolder'
<1> USE TimesAssumption
<1>1. ASSUME NEW r \in Requests, Begin(r) PROVE HoldersOwnTheirRecord' /\ OneHolder'
  BY <1>1 DEF Begin, ActionTypes, HoldersOwnTheirRecord, OneHolder, Expires,
     Go, Return, MoveCommit, UnderWay, Holding
<1>2. ASSUME NEW r \in Requests, Acquire(r) PROVE HoldersOwnTheirRecord' /\ OneHolder'
  <2>1. \A q \in Requests : pc[q] \in Holding => call[q].scope # call[r].scope
    <3> SUFFICES ASSUME NEW q \in Requests, pc[q] \in Holding,
                        call[q].scope = call[r].scope
                 PROVE  FALSE
      OBVIOUS
    <3>0. store[call[q].scope] =
              Record("InProgress", call[q].input, Expires(q), NoResult)
      BY DEF HoldersOwnTheirRecord
    <3>1. /\ store[call[r].scope].state = "InProgress"
          /\ store[call[r].scope].expires = call[q].begun + Retention
      BY <3>0 DEF Record, Expires
    <3>2. now <= call[q].begun + Deadline
      BY DEF HoldersOwnTheirRecord, UnderWay
    <3>3. /\ call[q].begun \in Nat /\ now \in Nat
      BY DEF ActionTypes
    <3> QED
      BY <1>2, <3>1, <3>2, <3>3 DEF Acquire, Vacant, TimelyCalls
  <2>2. \A q \in Requests : pc'[q] \in Holding => q = r \/ pc[q] \in Holding
    BY <1>2 DEF Acquire, ActionTypes, Go
  <2>3. \A q \in Requests : pc'[q] \in UnderWay => pc[q] \in UnderWay
    BY <1>2 DEF Acquire, ActionTypes, Go, UnderWay
  <2>4. /\ UNCHANGED <<now, call>>
        /\ \A q \in Requests : acquired'[q] <= now
    BY <1>2 DEF Acquire, ActionTypes, HoldersOwnTheirRecord
  <2>5. /\ store'[call[r].scope] =
              Record("InProgress", call[r].input, Expires(r), NoResult)
        /\ \A s \in Scopes : s # call[r].scope => store'[s] = store[s]
    BY <1>2 DEF Acquire, ActionTypes
  <2>6. HoldersOwnTheirRecord'
    BY <2>3, <2>4, <2>5, <2>1, <2>2 DEF HoldersOwnTheirRecord, Expires, ActionTypes
  <2> QED
    BY <2>1, <2>2, <2>4, <2>6 DEF OneHolder
<1>3. ASSUME NEW r \in Requests, BeginHeld(r) PROVE HoldersOwnTheirRecord' /\ OneHolder'
  BY <1>3 DEF BeginHeld, ActionTypes, HoldersOwnTheirRecord, OneHolder,
     Expires, Go, Return, MoveCommit, UnderWay, Holding
<1>4. ASSUME NEW r \in Requests, Admit(r) PROVE HoldersOwnTheirRecord' /\ OneHolder'
  BY <1>4 DEF Admit, ActionTypes, HoldersOwnTheirRecord, OneHolder, Expires,
     Go, Return, MoveCommit, UnderWay, Holding
<1>5. ASSUME NEW r \in Requests, EnterPreCommit(r) PROVE HoldersOwnTheirRecord' /\ OneHolder'
  BY <1>5 DEF EnterPreCommit, Running, ActionTypes, HoldersOwnTheirRecord,
     OneHolder, Expires, Go, Return, MoveCommit, UnderWay, Holding
<1>6. ASSUME NEW r \in Requests, BeginCommit(r) PROVE HoldersOwnTheirRecord' /\ OneHolder'
  BY <1>6 DEF BeginCommit, Running, ActionTypes, HoldersOwnTheirRecord,
     OneHolder, Expires, Go, Return, MoveCommit, UnderWay, Holding
<1>7. ASSUME NEW r \in Requests, Committed(r) PROVE HoldersOwnTheirRecord' /\ OneHolder'
  BY <1>7 DEF Committed, Running, ActionTypes, HoldersOwnTheirRecord,
     OneHolder, Expires, Go, Return, MoveCommit, UnderWay, Holding
<1>8. ASSUME NEW r \in Requests, Failed(r) PROVE HoldersOwnTheirRecord' /\ OneHolder'
  BY <1>8 DEF Failed, Running, ActionTypes, HoldersOwnTheirRecord, OneHolder,
     Expires, Go, Return, MoveCommit, UnderWay, Holding
<1>9. ASSUME NEW r \in Requests, OutcomeUnknown(r) PROVE HoldersOwnTheirRecord' /\ OneHolder'
  BY <1>9 DEF OutcomeUnknown, Running, ActionTypes, HoldersOwnTheirRecord,
     OneHolder, Expires, Go, Return, MoveCommit, UnderWay, Holding
<1>10. ASSUME NEW r \in Requests, CompensationRequired(r) PROVE HoldersOwnTheirRecord' /\ OneHolder'
  BY <1>10 DEF CompensationRequired, Running, ActionTypes,
     HoldersOwnTheirRecord, OneHolder, Expires, Go, Return, MoveCommit,
     UnderWay, Holding
<1>11. ASSUME NEW r \in Requests, ApplyMutation(r) PROVE HoldersOwnTheirRecord' /\ OneHolder'
  BY <1>11 DEF ApplyMutation, ActionTypes, HoldersOwnTheirRecord, OneHolder,
     Expires, Go, Return, MoveCommit, UnderWay, Holding
<1>12. ASSUME NEW r \in Requests, ReturnResponse(r) PROVE HoldersOwnTheirRecord' /\ OneHolder'
  BY <1>12 DEF ReturnResponse, Running, ActionTypes, HoldersOwnTheirRecord,
     OneHolder, Expires, Go, Return, MoveCommit, UnderWay, Holding
<1>13. ASSUME NEW r \in Requests, ReturnError(r) PROVE HoldersOwnTheirRecord' /\ OneHolder'
  BY <1>13 DEF ReturnError, Running, ActionTypes, HoldersOwnTheirRecord,
     OneHolder, Expires, Go, Return, MoveCommit, UnderWay, Holding
<1>14. ASSUME NEW r \in Requests, Interrupt(r) PROVE HoldersOwnTheirRecord' /\ OneHolder'
  BY <1>14 DEF Interrupt, ActionTypes, HoldersOwnTheirRecord, OneHolder,
     Expires, Go, Return, MoveCommit, UnderWay, Holding
<1>15. ASSUME NEW r \in Requests, GraceEnds(r) PROVE HoldersOwnTheirRecord' /\ OneHolder'
  BY <1>15 DEF GraceEnds, ActionTypes, HoldersOwnTheirRecord, OneHolder,
     Expires, Go, Return, MoveCommit, UnderWay, Holding
<1>16. ASSUME NEW r \in Requests, Complete(r) PROVE HoldersOwnTheirRecord' /\ OneHolder'
  <2>1. \A q \in Requests : pc'[q] \in Holding =>
          /\ pc[q] \in Holding /\ q # r
          /\ call[q].scope # call[r].scope
    BY <1>16 DEF Complete, StoreComplete, AbandonTooLarge, ActionTypes, OneHolder,
             Go, Return, Holding
  <2>2. \A s \in Scopes : s # call[r].scope => store'[s] = store[s]
    BY <1>16 DEF Complete, StoreComplete, AbandonTooLarge, ActionTypes
  <2>3. \A q \in Requests : pc'[q] \in UnderWay => pc[q] \in UnderWay
    BY <1>16 DEF Complete, StoreComplete, AbandonTooLarge, ActionTypes, Go, Return,
             UnderWay, Holding
  <2>4. UNCHANGED <<now, call, acquired>>
    BY <1>16 DEF Complete
  <2>5. HoldersOwnTheirRecord'
    BY <2>1, <2>2, <2>3, <2>4 DEF HoldersOwnTheirRecord, Expires, ActionTypes
  <2> QED
    BY <2>1, <2>4, <2>5 DEF OneHolder
<1>17. ASSUME NEW r \in Requests, Settle(r) PROVE HoldersOwnTheirRecord' /\ OneHolder'
  BY <1>17 DEF Settle, ActionTypes, HoldersOwnTheirRecord, OneHolder, Expires,
     Go, Return, MoveCommit, UnderWay, Holding, Abandon, MarkUnknown
<1>18. ASSUME NEW r \in Requests, LoseStoreCall(r) PROVE HoldersOwnTheirRecord' /\ OneHolder'
  BY <1>18 DEF LoseStoreCall, ActionTypes, HoldersOwnTheirRecord, OneHolder,
     Expires, Go, Return, MoveCommit, UnderWay, Holding
<1>19. ASSUME NEW r \in Requests, Drop(r) PROVE HoldersOwnTheirRecord' /\ OneHolder'
  BY <1>19 DEF Drop, ActionTypes, HoldersOwnTheirRecord, OneHolder, Expires,
     Go, Return, MoveCommit, UnderWay, Holding
<1>20. CASE Tick
  BY <1>20 DEF Tick, ActionTypes, HoldersOwnTheirRecord, OneHolder, Expires,
     Go, Return, MoveCommit, UnderWay, Holding
<1>21. CASE UNCHANGED vars
  BY <1>21 DEF vars, ActionTypes, HoldersOwnTheirRecord, OneHolder, Expires,
     Go, Return, MoveCommit, UnderWay, Holding
<1> QED
  BY <1>1, <1>2, <1>3, <1>4, <1>5, <1>6, <1>7, <1>8, <1>9, <1>10, <1>11,
     <1>12, <1>13, <1>14, <1>15, <1>16, <1>17, <1>18, <1>19, <1>20, <1>21 DEF
     Next, ActionStep

\* The two points at which an attempt meets the mutation of another one: while
\* it holds their scope, the other's record has expired.
LEMMA HolderIsAlone ==
    ASSUME TimelyCalls, ActionTypes, EffectsMatchCommit, HoldersOwnTheirRecord,
           NoSecondHolder,
           NEW r \in Requests, NEW q \in Requests, r # q,
           call[r].scope = call[q].scope, pc[r] \in Holding,
           effect[q] # "none", ~TooLarge(q)
    PROVE  now >= Expires(q)
<1> USE TimesAssumption
<1>1. ~TooLarge(r)
  BY DEF EffectsMatchCommit, Holding, TooLarge, Pending
<1>2. acquired[q] >= Expires(r) \/ acquired[r] >= Expires(q)
  BY <1>1 DEF NoSecondHolder
<1>3. acquired[q] <= now /\ acquired[r] <= now /\ now <= call[r].begun + Deadline
  BY DEF HoldersOwnTheirRecord, UnderWay
<1>4. /\ now \in Nat /\ acquired[q] \in Nat /\ acquired[r] \in Nat
      /\ call[r].begun \in Nat /\ call[q].begun \in Nat
  BY DEF ActionTypes
<1> QED
  BY <1>2, <1>3, <1>4 DEF Expires, TimelyCalls

\* A step that replaces the record of one scope, if it is on behalf of its holder
\* r, leaves the guards of all other attempts.
LEMMA OthersStayGuarded ==
    ASSUME TimelyCalls, ActionTypes, EffectsMatchCommit, HoldersOwnTheirRecord,
           NoSecondHolder, MutationsAreGuarded,
           NEW r \in Requests, pc[r] \in Holding,
           NEW q \in Requests, q # r,
           \A s \in Scopes : s # call[r].scope => store'[s] = store[s],
           UNCHANGED <<now, call, effect>>, answer'[q] = answer[q],
           effect[q] # "none", ~TooLarge(q), now < Expires(q)
    PROVE  /\ store'[call[q].scope] # Absent
           /\ store'[call[q].scope].expires = Expires(q)
  BY TimesAssumption, HolderIsAlone DEF ActionTypes, Expires, MutationsAreGuarded

\* The record of a mutation is removed only by its own attempt and only if the
\* result is too large.
LEMMA NextGuarded ==
    ASSUME TimelyCalls, ActionTypes, EffectsMatchCommit, HoldersOwnTheirRecord,
           NoSecondHolder, MutationsAreGuarded, [Next]_vars
    PROVE  MutationsAreGuarded'
<1> USE TimesAssumption
<1>1. ASSUME NEW r \in Requests, Begin(r) PROVE MutationsAreGuarded'
  BY <1>1 DEF Begin, ActionTypes, EffectsMatchCommit, MutationsAreGuarded,
     TooLarge, Expires, Go, Return, MoveCommit, Holding, Pending
<1>2. ASSUME NEW r \in Requests, Acquire(r) PROVE MutationsAreGuarded'
  <2> SUFFICES ASSUME NEW q \in Requests, effect[q] # "none", ~TooLarge(q),
                      now < Expires(q)
               PROVE  /\ store'[call[q].scope] # Absent
                      /\ store'[call[q].scope].expires = Expires(q)
    BY <1>2 DEF Acquire, MutationsAreGuarded, TooLarge, Expires
  <2>1. /\ store[call[q].scope] # Absent
        /\ store[call[q].scope].expires = Expires(q)
    BY DEF MutationsAreGuarded
  <2>2. call[q].scope # call[r].scope
    BY <1>2, <2>1 DEF Acquire, Vacant, ActionTypes, Records, Absent
  <2> QED
    BY <1>2, <2>1, <2>2 DEF Acquire, ActionTypes
<1>3. ASSUME NEW r \in Requests, BeginHeld(r) PROVE MutationsAreGuarded'
  BY <1>3 DEF BeginHeld, ActionTypes, EffectsMatchCommit, MutationsAreGuarded,
     TooLarge, Expires, Go, Return, MoveCommit, Holding, Pending, HeldAnswer,
     Refused, Replay
<1>4. ASSUME NEW r \in Requests, Admit(r) PROVE MutationsAreGuarded'
  BY <1>4 DEF Admit, ActionTypes, EffectsMatchCommit, MutationsAreGuarded,
     TooLarge, Expires, Go, Return, MoveCommit, Holding, Pending
<1>5. ASSUME NEW r \in Requests, EnterPreCommit(r) PROVE MutationsAreGuarded'
  BY <1>5 DEF EnterPreCommit, Running, ActionTypes, EffectsMatchCommit,
     MutationsAreGuarded, TooLarge, Expires, Go, Return, MoveCommit, Holding,
     Pending
<1>6. ASSUME NEW r \in Requests, BeginCommit(r) PROVE MutationsAreGuarded'
  <2>1. store[call[r].scope] =
            Record("InProgress", call[r].input, Expires(r), NoResult)
    BY <1>6 DEF BeginCommit, Running, HoldersOwnTheirRecord, Holding
  <2>2. /\ store[call[r].scope] # Absent
        /\ store[call[r].scope].expires = Expires(r)
    BY <2>1 DEF Record, Absent
  <2>3. \A q \in Requests : q # r => effect'[q] = effect[q]
    BY <1>6 DEF BeginCommit, ActionTypes
  <2> QED
    BY <1>6, <2>2, <2>3 DEF BeginCommit, MutationsAreGuarded, TooLarge, Expires
<1>7. ASSUME NEW r \in Requests, Committed(r) PROVE MutationsAreGuarded'
  BY <1>7 DEF Committed, Running, ActionTypes, EffectsMatchCommit,
     MutationsAreGuarded, TooLarge, Expires, Go, Return, MoveCommit, Holding,
     Pending
<1>8. ASSUME NEW r \in Requests, Failed(r) PROVE MutationsAreGuarded'
  BY <1>8 DEF Failed, Running, ActionTypes, EffectsMatchCommit,
     MutationsAreGuarded, TooLarge, Expires, Go, Return, MoveCommit, Holding,
     Pending
<1>9. ASSUME NEW r \in Requests, OutcomeUnknown(r) PROVE MutationsAreGuarded'
  BY <1>9 DEF OutcomeUnknown, Running, ActionTypes, EffectsMatchCommit,
     MutationsAreGuarded, TooLarge, Expires, Go, Return, MoveCommit, Holding,
     Pending
<1>10. ASSUME NEW r \in Requests, CompensationRequired(r) PROVE MutationsAreGuarded'
  BY <1>10 DEF CompensationRequired, Running, ActionTypes, EffectsMatchCommit,
     MutationsAreGuarded, TooLarge, Expires, Go, Return, MoveCommit, Holding,
     Pending
<1>11. ASSUME NEW r \in Requests, ApplyMutation(r) PROVE MutationsAreGuarded'
  BY <1>11 DEF ApplyMutation, ActionTypes, EffectsMatchCommit,
     MutationsAreGuarded, TooLarge, Expires, Go, Return, MoveCommit, Holding,
     Pending
<1>12. ASSUME NEW r \in Requests, ReturnResponse(r) PROVE MutationsAreGuarded'
  BY <1>12 DEF ReturnResponse, Running, ActionTypes, EffectsMatchCommit,
     MutationsAreGuarded, TooLarge, Expires, Go, Return, MoveCommit, Holding,
     Pending
<1>13. ASSUME NEW r \in Requests, ReturnError(r) PROVE MutationsAreGuarded'
  BY <1>13 DEF ReturnError, Running, ActionTypes, EffectsMatchCommit,
     MutationsAreGuarded, TooLarge, Expires, Go, Return, MoveCommit, Holding,
     Pending
<1>14. ASSUME NEW r \in Requests, Interrupt(r) PROVE MutationsAreGuarded'
  BY <1>14 DEF Interrupt, ActionTypes, EffectsMatchCommit,
     MutationsAreGuarded, TooLarge, Expires, Go, Return, MoveCommit, Holding,
     Pending
<1>15. ASSUME NEW r \in Requests, GraceEnds(r) PROVE MutationsAreGuarded'
  BY <1>15 DEF GraceEnds, ActionTypes, EffectsMatchCommit,
     MutationsAreGuarded, TooLarge, Expires, Go, Return, MoveCommit, Holding,
     Pending
<1>16. ASSUME NEW r \in Requests, Complete(r) PROVE MutationsAreGuarded'
  <2>1. \A s \in Scopes : s # call[r].scope => store'[s] = store[s]
    BY <1>16 DEF Complete, StoreComplete, AbandonTooLarge, ActionTypes
  <2>2. /\ UNCHANGED <<now, call, effect>> /\ pc[r] \in Holding
        /\ \A q \in Requests : q # r => answer'[q] = answer[q]
    BY <1>16 DEF Complete, StoreComplete, AbandonTooLarge, Return, ActionTypes, Holding
  <2>3. \A q \in Requests :
          (q # r /\ effect[q] # "none" /\ ~TooLarge(q) /\ now < Expires(q)) =>
              /\ store'[call[q].scope] # Absent
              /\ store'[call[q].scope].expires = Expires(q)
    BY <2>1, <2>2, OthersStayGuarded
  <2>4. (effect[r] # "none" /\ ~TooLarge(r)' /\ now < Expires(r)) =>
              /\ store'[call[r].scope] # Absent
              /\ store'[call[r].scope].expires = Expires(r)
    <3>1. store[call[r].scope] =
              Record("InProgress", call[r].input, Expires(r), NoResult)
      BY <2>2 DEF HoldersOwnTheirRecord
    <3> QED
      BY <1>16, <3>1
         DEF Complete, StoreComplete, AbandonTooLarge, Return, Record, Absent, Answer, TooLarge, ActionTypes, EffectsMatchCommit
  <2> QED
    BY <2>2, <2>3, <2>4 DEF MutationsAreGuarded, TooLarge, Expires
<1>17. ASSUME NEW r \in Requests, Settle(r) PROVE MutationsAreGuarded'
  <2>1. \A s \in Scopes : s # call[r].scope => store'[s] = store[s]
    BY <1>17 DEF Settle, Abandon, MarkUnknown, ActionTypes
  <2>2. /\ UNCHANGED <<now, call, effect>> /\ pc[r] \in Holding
        /\ \A q \in Requests : q # r => answer'[q] = answer[q]
    BY <1>17 DEF Settle, Abandon, MarkUnknown, Return, ActionTypes, Holding
  <2>3. \A q \in Requests :
          (q # r /\ effect[q] # "none" /\ ~TooLarge(q) /\ now < Expires(q)) =>
              /\ store'[call[q].scope] # Absent
              /\ store'[call[q].scope].expires = Expires(q)
    BY <2>1, <2>2, OthersStayGuarded
  <2>4. (effect[r] # "none" /\ ~TooLarge(r)' /\ now < Expires(r)) =>
              /\ store'[call[r].scope] # Absent
              /\ store'[call[r].scope].expires = Expires(r)
    <3>1. store[call[r].scope] =
              Record("InProgress", call[r].input, Expires(r), NoResult)
      BY <2>2 DEF HoldersOwnTheirRecord
    <3> QED
      BY <1>17, <3>1
         DEF Settle, Abandon, MarkUnknown, Return, Record, Absent, Answer, TooLarge, ActionTypes, EffectsMatchCommit
  <2> QED
    BY <2>2, <2>3, <2>4 DEF MutationsAreGuarded, TooLarge, Expires
<1>18. ASSUME NEW r \in Requests, LoseStoreCall(r) PROVE MutationsAreGuarded'
  BY <1>18 DEF LoseStoreCall, ActionTypes, EffectsMatchCommit,
     MutationsAreGuarded, TooLarge, Expires, Go, Return, MoveCommit, Holding,
     Pending, Refused, Answer
<1>19. ASSUME NEW r \in Requests, Drop(r) PROVE MutationsAreGuarded'
  BY <1>19 DEF Drop, ActionTypes, EffectsMatchCommit, MutationsAreGuarded,
     TooLarge, Expires, Go, Return, MoveCommit, Holding, Pending
<1>20. CASE Tick
  BY <1>20 DEF Tick, ActionTypes, EffectsMatchCommit, MutationsAreGuarded,
     TooLarge, Expires, Go, Return, MoveCommit, Holding, Pending
<1>21. CASE UNCHANGED vars
  BY <1>21 DEF vars, ActionTypes, EffectsMatchCommit, MutationsAreGuarded,
     TooLarge, Expires, Go, Return, MoveCommit, Holding, Pending
<1> QED
  BY <1>1, <1>2, <1>3, <1>4, <1>5, <1>6, <1>7, <1>8, <1>9, <1>10, <1>11,
     <1>12, <1>13, <1>14, <1>15, <1>16, <1>17, <1>18, <1>19, <1>20, <1>21 DEF
     Next, ActionStep

\* An attempt acquires a scope only when the records of all mutations sent there
\* have expired, and sends its own only while no other attempt holds the scope.
LEMMA NextPairs ==
    ASSUME ActionTypes, EffectsMatchCommit, OneHolder, MutationsAreGuarded,
           NoSecondHolder, [Next]_vars
    PROVE  NoSecondHolder'
<1> USE TimesAssumption
<1>1. ASSUME NEW r \in Requests, Begin(r) PROVE NoSecondHolder'
  BY <1>1 DEF Begin, ActionTypes, EffectsMatchCommit, NoSecondHolder,
     TooLarge, Expires, Go, Return, MoveCommit, UnderWay, Holding, Pending
<1>2. ASSUME NEW r \in Requests, Acquire(r) PROVE NoSecondHolder'
  <2>1. /\ UNCHANGED <<now, call, effect, answer>> /\ effect[r] = "none"
        /\ acquired'[r] = now
        /\ \A q \in Requests : q # r =>
              acquired'[q] = acquired[q] /\ pc'[q] = pc[q]
    BY <1>2 DEF Acquire, ActionTypes, EffectsMatchCommit, Go
  <2>2. \A q \in Requests :
          (/\ call[r].scope = call[q].scope
           /\ effect[q] # "none" /\ ~TooLarge(q)) => now >= Expires(q)
    <3> SUFFICES ASSUME NEW q \in Requests, call[r].scope = call[q].scope,
                        effect[q] # "none", ~TooLarge(q), ~(now >= Expires(q))
                 PROVE  FALSE
      OBVIOUS
    <3>1. now \in Nat /\ Expires(q) \in Nat
      BY DEF ActionTypes, Expires
    <3>2. /\ store[call[q].scope] # Absent
          /\ store[call[q].scope].expires = Expires(q)
      BY <3>1 DEF MutationsAreGuarded
    <3> QED
      BY <1>2, <3>1, <3>2 DEF Acquire, Vacant, ActionTypes, Records, Absent
  <2> QED
    BY <2>1, <2>2 DEF NoSecondHolder, TooLarge, Expires
<1>3. ASSUME NEW r \in Requests, BeginHeld(r) PROVE NoSecondHolder'
  BY <1>3 DEF BeginHeld, ActionTypes, EffectsMatchCommit, NoSecondHolder,
     TooLarge, Expires, Go, Return, MoveCommit, UnderWay, Holding, Pending,
     HeldAnswer, Refused, Replay
<1>4. ASSUME NEW r \in Requests, Admit(r) PROVE NoSecondHolder'
  BY <1>4 DEF Admit, ActionTypes, EffectsMatchCommit, NoSecondHolder,
     TooLarge, Expires, Go, Return, MoveCommit, UnderWay, Holding, Pending
<1>5. ASSUME NEW r \in Requests, EnterPreCommit(r) PROVE NoSecondHolder'
  BY <1>5 DEF EnterPreCommit, Running, ActionTypes, EffectsMatchCommit,
     NoSecondHolder, TooLarge, Expires, Go, Return, MoveCommit, UnderWay,
     Holding, Pending
<1>6. ASSUME NEW r \in Requests, BeginCommit(r) PROVE NoSecondHolder'
  <2>1. /\ UNCHANGED <<now, call, pc, acquired, answer>> /\ pc[r] \in Holding
        /\ \A q \in Requests : q # r => effect'[q] = effect[q]
    BY <1>6 DEF BeginCommit, Running, ActionTypes, Holding
  <2>2. \A q \in Requests : (q # r /\ pc[q] \in Holding) =>
            call[q].scope # call[r].scope
    BY <2>1 DEF OneHolder
  <2> QED
    BY <2>1, <2>2 DEF NoSecondHolder, TooLarge, Expires
<1>7. ASSUME NEW r \in Requests, Committed(r) PROVE NoSecondHolder'
  BY <1>7 DEF Committed, Running, ActionTypes, EffectsMatchCommit,
     NoSecondHolder, TooLarge, Expires, Go, Return, MoveCommit, UnderWay,
     Holding, Pending
<1>8. ASSUME NEW r \in Requests, Failed(r) PROVE NoSecondHolder'
  BY <1>8 DEF Failed, Running, ActionTypes, EffectsMatchCommit,
     NoSecondHolder, TooLarge, Expires, Go, Return, MoveCommit, UnderWay,
     Holding, Pending
<1>9. ASSUME NEW r \in Requests, OutcomeUnknown(r) PROVE NoSecondHolder'
  BY <1>9 DEF OutcomeUnknown, Running, ActionTypes, EffectsMatchCommit,
     NoSecondHolder, TooLarge, Expires, Go, Return, MoveCommit, UnderWay,
     Holding, Pending
<1>10. ASSUME NEW r \in Requests, CompensationRequired(r) PROVE NoSecondHolder'
  BY <1>10 DEF CompensationRequired, Running, ActionTypes, EffectsMatchCommit,
     NoSecondHolder, TooLarge, Expires, Go, Return, MoveCommit, UnderWay,
     Holding, Pending
<1>11. ASSUME NEW r \in Requests, ApplyMutation(r) PROVE NoSecondHolder'
  BY <1>11 DEF ApplyMutation, ActionTypes, EffectsMatchCommit, NoSecondHolder,
     TooLarge, Expires, Go, Return, MoveCommit, UnderWay, Holding, Pending
<1>12. ASSUME NEW r \in Requests, ReturnResponse(r) PROVE NoSecondHolder'
  BY <1>12 DEF ReturnResponse, Running, ActionTypes, EffectsMatchCommit,
     NoSecondHolder, TooLarge, Expires, Go, Return, MoveCommit, UnderWay,
     Holding, Pending
<1>13. ASSUME NEW r \in Requests, ReturnError(r) PROVE NoSecondHolder'
  BY <1>13 DEF ReturnError, Running, ActionTypes, EffectsMatchCommit,
     NoSecondHolder, TooLarge, Expires, Go, Return, MoveCommit, UnderWay,
     Holding, Pending
<1>14. ASSUME NEW r \in Requests, Interrupt(r) PROVE NoSecondHolder'
  BY <1>14 DEF Interrupt, ActionTypes, EffectsMatchCommit, NoSecondHolder,
     TooLarge, Expires, Go, Return, MoveCommit, UnderWay, Holding, Pending
<1>15. ASSUME NEW r \in Requests, GraceEnds(r) PROVE NoSecondHolder'
  BY <1>15 DEF GraceEnds, ActionTypes, EffectsMatchCommit, NoSecondHolder,
     TooLarge, Expires, Go, Return, MoveCommit, UnderWay, Holding, Pending
<1>16. ASSUME NEW r \in Requests, Complete(r) PROVE NoSecondHolder'
  <2>1. /\ UNCHANGED <<now, call, effect, acquired>>
        /\ \A q \in Requests : pc'[q] \in Holding => pc[q] \in Holding
    BY <1>16 DEF Complete, StoreComplete, AbandonTooLarge, Go, Return, ActionTypes, Holding
  <2>2. \A q \in Requests : TooLarge(q) => TooLarge(q)'
    BY <1>16 DEF Complete, StoreComplete, AbandonTooLarge, Return, TooLarge, ActionTypes, EffectsMatchCommit, Pending
  <2> QED
    BY <2>1, <2>2 DEF NoSecondHolder, Expires
<1>17. ASSUME NEW r \in Requests, Settle(r) PROVE NoSecondHolder'
  BY <1>17 DEF Settle, ActionTypes, EffectsMatchCommit, NoSecondHolder,
     TooLarge, Expires, Go, Return, MoveCommit, UnderWay, Holding, Pending,
     Answer
<1>18. ASSUME NEW r \in Requests, LoseStoreCall(r) PROVE NoSecondHolder'
  <2>1. /\ UNCHANGED <<now, call, effect, acquired>>
        /\ \A q \in Requests : pc'[q] \in Holding => pc[q] \in Holding
    BY <1>18 DEF LoseStoreCall, Go, Return, ActionTypes, Holding
  <2>2. \A q \in Requests : TooLarge(q) => TooLarge(q)'
    BY <1>18 DEF LoseStoreCall, Return, TooLarge, ActionTypes, EffectsMatchCommit, Pending
  <2> QED
    BY <2>1, <2>2 DEF NoSecondHolder, Expires
<1>19. ASSUME NEW r \in Requests, Drop(r) PROVE NoSecondHolder'
  BY <1>19 DEF Drop, ActionTypes, EffectsMatchCommit, NoSecondHolder,
     TooLarge, Expires, Go, Return, MoveCommit, UnderWay, Holding, Pending
<1>20. CASE Tick
  BY <1>20 DEF Tick, ActionTypes, EffectsMatchCommit, NoSecondHolder,
     TooLarge, Expires, Go, Return, MoveCommit, UnderWay, Holding, Pending
<1>21. CASE UNCHANGED vars
  BY <1>21 DEF vars, ActionTypes, EffectsMatchCommit, NoSecondHolder,
     TooLarge, Expires, Go, Return, MoveCommit, UnderWay, Holding, Pending
<1> QED
  BY <1>1, <1>2, <1>3, <1>4, <1>5, <1>6, <1>7, <1>8, <1>9, <1>10, <1>11,
     <1>12, <1>13, <1>14, <1>15, <1>16, <1>17, <1>18, <1>19, <1>20, <1>21 DEF
     Next, ActionStep

\* A completed record holds the result of its own scope and input, and so does what
\* is replayed from it.
LEMMA NextReplays ==
    ASSUME ActionTypes, EffectsMatchCommit, HoldersOwnTheirRecord,
           CompletedRecordsAgree, ReplaysAgree, [Next]_vars
    PROVE  CompletedRecordsAgree' /\ ReplaysAgree'
<1>1. ASSUME NEW r \in Requests, Begin(r) PROVE CompletedRecordsAgree' /\ ReplaysAgree'
  BY <1>1 DEF Begin, ActionTypes, EffectsMatchCommit, CompletedRecordsAgree,
     ReplaysAgree, Go, Return, MoveCommit, UnderWay, Holding, Pending
<1>2. ASSUME NEW r \in Requests, Acquire(r) PROVE CompletedRecordsAgree' /\ ReplaysAgree'
  BY <1>2 DEF Acquire, ActionTypes, EffectsMatchCommit, CompletedRecordsAgree,
     ReplaysAgree, Go, Return, MoveCommit, UnderWay, Holding, Pending, Record
<1>3. ASSUME NEW r \in Requests, BeginHeld(r) PROVE CompletedRecordsAgree' /\ ReplaysAgree'
  <2>1. /\ UNCHANGED <<call, store>> /\ answer[r] = Pending
        /\ answer' = [answer EXCEPT ![r] = HeldAnswer(r)]
    BY <1>3 DEF BeginHeld, Return, EffectsMatchCommit
  <2>2. HeldAnswer(r).kind = "Replay" =>
          LET q == HeldAnswer(r).from
          IN  /\ q \in Requests /\ answer[q].kind = "Ok"
              /\ call[q].scope = call[r].scope /\ call[q].input = call[r].input
    <3>1. store[call[r].scope] \in Records
      BY <1>3 DEF BeginHeld, Vacant, ActionTypes, Absent
    <3> QED
      BY <3>1 DEF HeldAnswer, Refused, Replay, CompletedRecordsAgree, ActionTypes, Records
  <2>3. \A q \in Requests : answer[q].kind = "Ok" => answer'[q] = answer[q]
    BY <2>1 DEF Pending, ActionTypes
  <2>4. CompletedRecordsAgree'
    BY <2>1, <2>3 DEF CompletedRecordsAgree
  <2>5. \A q \in Requests : answer[q].kind = "Replay" => answer[q].from \in Requests
    BY DEF ActionTypes, Answers, Replay, Pending
  <2> QED
    BY <2>1, <2>2, <2>3, <2>4, <2>5 DEF ReplaysAgree, ActionTypes
<1>4. ASSUME NEW r \in Requests, Admit(r) PROVE CompletedRecordsAgree' /\ ReplaysAgree'
  BY <1>4 DEF Admit, ActionTypes, EffectsMatchCommit, CompletedRecordsAgree,
     ReplaysAgree, Go, Return, MoveCommit, UnderWay, Holding, Pending
<1>5. ASSUME NEW r \in Requests, EnterPreCommit(r) PROVE CompletedRecordsAgree' /\ ReplaysAgree'
  BY <1>5 DEF EnterPreCommit, Running, ActionTypes, EffectsMatchCommit,
     CompletedRecordsAgree, ReplaysAgree, Go, Return, MoveCommit, UnderWay,
     Holding, Pending
<1>6. ASSUME NEW r \in Requests, BeginCommit(r) PROVE CompletedRecordsAgree' /\ ReplaysAgree'
  BY <1>6 DEF BeginCommit, Running, ActionTypes, EffectsMatchCommit,
     CompletedRecordsAgree, ReplaysAgree, Go, Return, MoveCommit, UnderWay,
     Holding, Pending
<1>7. ASSUME NEW r \in Requests, Committed(r) PROVE CompletedRecordsAgree' /\ ReplaysAgree'
  BY <1>7 DEF Committed, Running, ActionTypes, EffectsMatchCommit,
     CompletedRecordsAgree, ReplaysAgree, Go, Return, MoveCommit, UnderWay,
     Holding, Pending
<1>8. ASSUME NEW r \in Requests, Failed(r) PROVE CompletedRecordsAgree' /\ ReplaysAgree'
  BY <1>8 DEF Failed, Running, ActionTypes, EffectsMatchCommit,
     CompletedRecordsAgree, ReplaysAgree, Go, Return, MoveCommit, UnderWay,
     Holding, Pending
<1>9. ASSUME NEW r \in Requests, OutcomeUnknown(r) PROVE CompletedRecordsAgree' /\ ReplaysAgree'
  BY <1>9 DEF OutcomeUnknown, Running, ActionTypes, EffectsMatchCommit,
     CompletedRecordsAgree, ReplaysAgree, Go, Return, MoveCommit, UnderWay,
     Holding, Pending
<1>10. ASSUME NEW r \in Requests, CompensationRequired(r) PROVE CompletedRecordsAgree' /\ ReplaysAgree'
  BY <1>10 DEF CompensationRequired, Running, ActionTypes, EffectsMatchCommit,
     CompletedRecordsAgree, ReplaysAgree, Go, Return, MoveCommit, UnderWay,
     Holding, Pending
<1>11. ASSUME NEW r \in Requests, ApplyMutation(r) PROVE CompletedRecordsAgree' /\ ReplaysAgree'
  BY <1>11 DEF ApplyMutation, ActionTypes, EffectsMatchCommit,
     CompletedRecordsAgree, ReplaysAgree, Go, Return, MoveCommit, UnderWay,
     Holding, Pending
<1>12. ASSUME NEW r \in Requests, ReturnResponse(r) PROVE CompletedRecordsAgree' /\ ReplaysAgree'
  BY <1>12 DEF ReturnResponse, Running, ActionTypes, EffectsMatchCommit,
     CompletedRecordsAgree, ReplaysAgree, Go, Return, MoveCommit, UnderWay,
     Holding, Pending
<1>13. ASSUME NEW r \in Requests, ReturnError(r) PROVE CompletedRecordsAgree' /\ ReplaysAgree'
  BY <1>13 DEF ReturnError, Running, ActionTypes, EffectsMatchCommit,
     CompletedRecordsAgree, ReplaysAgree, Go, Return, MoveCommit, UnderWay,
     Holding, Pending
<1>14. ASSUME NEW r \in Requests, Interrupt(r) PROVE CompletedRecordsAgree' /\ ReplaysAgree'
  BY <1>14 DEF Interrupt, ActionTypes, EffectsMatchCommit,
     CompletedRecordsAgree, ReplaysAgree, Go, Return, MoveCommit, UnderWay,
     Holding, Pending
<1>15. ASSUME NEW r \in Requests, GraceEnds(r) PROVE CompletedRecordsAgree' /\ ReplaysAgree'
  BY <1>15 DEF GraceEnds, ActionTypes, EffectsMatchCommit,
     CompletedRecordsAgree, ReplaysAgree, Go, Return, MoveCommit, UnderWay,
     Holding, Pending
<1>16. ASSUME NEW r \in Requests, Complete(r) PROVE CompletedRecordsAgree' /\ ReplaysAgree'
  <2>1. /\ UNCHANGED call /\ answer[r] = Pending
        /\ \A q \in Requests : q # r => answer'[q] = answer[q]
        /\ answer'[r].kind # "Replay"
    BY <1>16 DEF Complete, StoreComplete, AbandonTooLarge, Return, Answer, ActionTypes,
             EffectsMatchCommit
  <2>2. \A q \in Requests : answer[q].kind = "Replay" => answer[q].from \in Requests
    BY DEF ActionTypes, Answers, Replay, Pending
  <2>3. ReplaysAgree'
    BY <2>1, <2>2 DEF ReplaysAgree, Pending
  <2>4. \A s \in Scopes : store'[s].state = "Completed" =>
          \/ store'[s] = store[s]
          \/ /\ s = call[r].scope /\ store'[s].result = r
             /\ store'[s].input = call[r].input /\ answer'[r].kind = "Ok"
    <3>1. store[call[r].scope] =
              Record("InProgress", call[r].input, Expires(r), NoResult)
      BY <1>16 DEF Complete, HoldersOwnTheirRecord, Holding
    <3> QED
      BY <1>16, <3>1 DEF Complete, StoreComplete, AbandonTooLarge, Return, Answer,
                     Record, Absent, ActionTypes
  <2>5. CompletedRecordsAgree'
    BY <2>1, <2>4 DEF CompletedRecordsAgree, Pending
  <2> QED
    BY <2>3, <2>5
<1>17. ASSUME NEW r \in Requests, Settle(r) PROVE CompletedRecordsAgree' /\ ReplaysAgree'
  <2>1. /\ UNCHANGED call /\ answer[r] = Pending
        /\ \A q \in Requests : q # r => answer'[q] = answer[q]
        /\ answer'[r].kind # "Replay"
    BY <1>17 DEF Settle, Abandon, MarkUnknown, Return, Answer, Refused, ActionTypes, EffectsMatchCommit
  <2>2. \A q \in Requests : answer[q].kind = "Replay" => answer[q].from \in Requests
    BY DEF ActionTypes, Answers, Replay, Pending
  <2>3. ReplaysAgree'
    BY <2>1, <2>2 DEF ReplaysAgree, Pending
  <2>4. \A s \in Scopes : store'[s].state = "Completed" => store'[s] = store[s]
    BY <1>17 DEF Settle, Abandon, MarkUnknown, Record, Absent, ActionTypes
  <2>5. CompletedRecordsAgree'
    BY <2>1, <2>4 DEF CompletedRecordsAgree, Pending
  <2> QED
    BY <2>3, <2>5
<1>18. ASSUME NEW r \in Requests, LoseStoreCall(r) PROVE CompletedRecordsAgree' /\ ReplaysAgree'
  <2>1. /\ UNCHANGED call /\ answer[r] = Pending
        /\ \A q \in Requests : q # r => answer'[q] = answer[q]
        /\ answer'[r].kind # "Replay"
    BY <1>18 DEF LoseStoreCall, Return, Answer, Refused, ActionTypes, EffectsMatchCommit
  <2>2. \A q \in Requests : answer[q].kind = "Replay" => answer[q].from \in Requests
    BY DEF ActionTypes, Answers, Replay, Pending
  <2>3. ReplaysAgree'
    BY <2>1, <2>2 DEF ReplaysAgree, Pending
  <2>4. \A s \in Scopes : store'[s].state = "Completed" => store'[s] = store[s]
    BY <1>18 DEF LoseStoreCall, Record, Absent, ActionTypes
  <2>5. CompletedRecordsAgree'
    BY <2>1, <2>4 DEF CompletedRecordsAgree, Pending
  <2> QED
    BY <2>3, <2>5
<1>19. ASSUME NEW r \in Requests, Drop(r) PROVE CompletedRecordsAgree' /\ ReplaysAgree'
  BY <1>19 DEF Drop, ActionTypes, EffectsMatchCommit, CompletedRecordsAgree,
     ReplaysAgree, Go, Return, MoveCommit, UnderWay, Holding, Pending
<1>20. CASE Tick
  BY <1>20 DEF Tick, ActionTypes, EffectsMatchCommit, CompletedRecordsAgree,
     ReplaysAgree, Go, Return, MoveCommit, UnderWay, Holding, Pending
<1>21. CASE UNCHANGED vars
  BY <1>21 DEF vars, ActionTypes, EffectsMatchCommit, CompletedRecordsAgree,
     ReplaysAgree, Go, Return, MoveCommit, UnderWay, Holding, Pending
<1> QED
  BY <1>1, <1>2, <1>3, <1>4, <1>5, <1>6, <1>7, <1>8, <1>9, <1>10, <1>11,
     <1>12, <1>13, <1>14, <1>15, <1>16, <1>17, <1>18, <1>19, <1>20, <1>21 DEF
     Next, ActionStep

LEMMA InitActions == Init => ActionInvariant /\ NoUnprovenRollback
<1> SUFFICES ASSUME Init PROVE ActionInvariant /\ NoUnprovenRollback
  OBVIOUS
<1>1. ActionTypes
  BY DEF Init, ActionTypes, Answers, CommitStates, Undone, UnderWay
<1>2. EffectsMatchCommit /\ NoUnprovenRollback
  BY DEF Init, EffectsMatchCommit, NoUnprovenRollback
<1>3. HoldersOwnTheirRecord /\ OneHolder
  BY DEF Init, HoldersOwnTheirRecord, OneHolder, UnderWay, Holding
<1>4. MutationsAreGuarded /\ NoSecondHolder
  BY DEF Init, MutationsAreGuarded, NoSecondHolder
<1>5. CompletedRecordsAgree /\ ReplaysAgree
  BY DEF Init, CompletedRecordsAgree, ReplaysAgree, Absent, Pending
<1> QED
  BY <1>1, <1>2, <1>3, <1>4, <1>5 DEF ActionInvariant

LEMMA NextActions ==
    TimelyCalls /\ ActionInvariant /\ [Next]_vars => ActionInvariant'
<1> SUFFICES ASSUME TimelyCalls, ActionInvariant, [Next]_vars
             PROVE  ActionInvariant'
  OBVIOUS
<1> USE DEF ActionInvariant
<1>1. ActionTypes' /\ EffectsMatchCommit'
  BY NextTypes, NextEffects
<1>2. HoldersOwnTheirRecord' /\ OneHolder'
  BY NextHolders
<1>3. MutationsAreGuarded'
  BY NextGuarded
<1>4. NoSecondHolder'
  BY NextPairs
<1>5. CompletedRecordsAgree' /\ ReplaysAgree'
  BY NextReplays
<1> QED
  BY <1>1, <1>2, <1>3, <1>4, <1>5

LEMMA ActionInvariance == TimelyCalls => (Spec => []ActionInvariant)
<1> SUFFICES ASSUME TimelyCalls PROVE Spec => []ActionInvariant
  OBVIOUS
<1>1. Init => ActionInvariant
  BY InitActions
<1>2. ActionInvariant /\ [Next]_vars => ActionInvariant'
  BY NextActions
<1> QED
  BY <1>1, <1>2, PTL DEF Spec

\* If attempts end before their record expires, the permit that begin gives out is
\* exclusive: two attempts never run for one scope.
THEOREM PermitIsExclusive == TimelyCalls => (Spec => []OneHolder)
<1>1. ActionInvariant => OneHolder
  BY DEF ActionInvariant
<1> QED
  BY <1>1, ActionInvariance, PTL

\* Under the same condition at most one attempt sends a mutation within the
\* retention of its scope, whatever is interrupted, lost or dropped, except for
\* results too large to be stored.
THEOREM AtMostOneMutation == TimelyCalls => (Spec => []OneMutation)
<1>1. ActionInvariant => OneMutation
  BY DEF ActionInvariant, NoSecondHolder, OneMutation
<1> QED
  BY <1>1, ActionInvariance, PTL

\* Under the same condition a replay is the answer of an attempt of the same scope
\* with the same input.
THEOREM ReplaysAreFaithful == TimelyCalls => (Spec => []ReplaysAgree)
<1>1. ActionInvariant => ReplaysAgree
  BY DEF ActionInvariant
<1> QED
  BY <1>1, ActionInvariance, PTL

\* Whatever the deadlines, no attempt reports a rollback it cannot prove.
THEOREM RollbacksAreProven == Spec => []NoUnprovenRollback
<1> DEFINE Inv == ActionTypes /\ EffectsMatchCommit /\ NoUnprovenRollback
<1>1. Init => Inv
  BY InitActions DEF ActionInvariant
<1>2. Inv /\ [Next]_vars => Inv'
  BY NextTypes, NextEffects, NextRollback
<1>3. Inv => NoUnprovenRollback
  OBVIOUS
<1> QED
  BY <1>1, <1>2, <1>3, PTL DEF Spec

-----------------------------------------------------------------------------
(* Sessions and CSRF proofs.                                               *)

\* The timeouts the builders of SessionPolicy admit.
LEMMA PolicyLimits ==
    /\ SessionPolicy.idle \in Nat /\ SessionPolicy.absolute \in Nat
    /\ SessionPolicy.idle > 0 /\ SessionPolicy.absolute > 0
  BY SessionAssumption DEF SessionPolicyAdmitted, TimeoutsAdmitted

\* The record a session is stored as, within its limits (stored).
LEMMA StoredType ==
    ASSUME NEW schema \in SessionSchemas \cup {SessionPolicy.schema},
           NEW created \in Nat, NEW at \in Nat
    PROVE  StoredSession(schema, created, at) \in StoredSessions
BY PolicyLimits DEF StoredSession, StoredSessions

\* Drawing a token keeps the creation times of the others (create, rotate).
LEMMA BirthGrows ==
    ASSUME SessionTypes, NEW x \in Nat, drawn' = drawn + 1, birth' = Append(birth, x)
    PROVE  /\ birth' \in Seq(Nat) /\ Len(birth') = drawn'
           /\ \A t \in 1..drawn : birth'[t] = birth[t]
           /\ birth'[drawn'] = x
BY AppendProperties DEF SessionTypes

\* Before the first request there is no session and no form.
LEMMA InitSession == SessionInit => SessionInvariant
<1> SUFFICES ASSUME SessionInit PROVE SessionInvariant
  OBVIOUS
<1>1. << >> \in Seq(Nat) /\ Len(<< >>) = 0 /\ DOMAIN << >> = {}
  BY EmptySeq
<1>2. \A c \in SessionCalls : sessionCall[c].at = "idle"
  BY DEF SessionInit, NoSessionCall
<1> QED
  BY <1>1, <1>2 DEF SessionInit, SessionInvariant, SessionTypes, ReadsAreTimely,
        AcceptedFormsExist, SessionGuarantees, RetiredTokensStayDead,
        SessionsKeepTheirLimits, FormsAreBound

\* create stores a session under a token nobody had.
LEMMA CreateKeeps == SessionInvariant /\ SessionCreate => SessionInvariant'
<1> SUFFICES ASSUME SessionInvariant, SessionCreate PROVE SessionInvariant'
  OBVIOUS
<1> USE DEF SessionInvariant
<1>1. PICK schema \in SessionSchemas :
          sessions' = SessionsWith(drawn', StoredSession(schema, sessionNow, sessionNow))
  BY DEF SessionCreate
<1>2. PICK s : s = StoredSession(schema, sessionNow, sessionNow)
  OBVIOUS
<1>3. s \in StoredSessions
  BY <1>2, StoredType DEF SessionTypes
<1>4. /\ s.absoluteUntil <= sessionNow + SessionPolicy.absolute
      /\ s.idleUntil <= s.seen + SessionPolicy.idle
      /\ s.seen < s.absoluteUntil
  BY <1>2, PolicyLimits DEF SessionTypes, StoredSession
<1>5. /\ birth' \in Seq(Nat) /\ Len(birth') = drawn' /\ birth'[drawn'] = sessionNow
      /\ \A t \in 1..drawn : birth'[t] = birth[t]
  BY BirthGrows DEF SessionCreate, SessionTypes
<1>6. /\ drawn' \in Nat /\ drawn' \notin 1..drawn /\ 1..drawn \subseteq 1..drawn'
      /\ drawn' \in 1..drawn' /\ drawn' = drawn + 1
  BY DEF SessionCreate, SessionTypes
<1>7. /\ DOMAIN sessions' = DOMAIN sessions \cup {drawn'} /\ sessions'[drawn'] = s
      /\ \A t \in DOMAIN sessions : sessions'[t] = sessions[t]
  BY <1>1, <1>2, <1>6 DEF SessionsWith, SessionTypes
<1>8. SessionTypes'
  BY <1>3, <1>5, <1>6, <1>7 DEF SessionTypes, SessionCreate
<1>9. ReadsAreTimely' /\ AcceptedFormsExist' /\ FormsAreBound'
  BY <1>5, <1>6 DEF ReadsAreTimely, AcceptedFormsExist, FormsAreBound, SessionCreate,
        SessionGuarantees
<1>10. RetiredTokensStayDead'
  BY <1>6, <1>7 DEF RetiredTokensStayDead, SessionGuarantees, SessionCreate, SessionTypes
<1>11. SessionsKeepTheirLimits'
  BY <1>4, <1>5, <1>7 DEF SessionsKeepTheirLimits, SessionGuarantees, SessionTypes
<1> QED
  BY <1>8, <1>9, <1>10, <1>11 DEF SessionGuarantees

\* A session that leaves the store is gone for good (revoke, an expired load).
LEMMA RemoveKeeps ==
    ASSUME SessionInvariant, NEW t, sessions' = SessionsWithout(t),
           retired' = IF t \in DOMAIN sessions THEN retired \cup {t} ELSE retired,
           UNCHANGED <<sessionNow, drawn, birth>>
    PROVE  /\ sessionNow' \in Nat /\ drawn' \in Nat
           /\ birth' \in Seq(Nat) /\ Len(birth') = drawn'
           /\ DOMAIN sessions' \subseteq 1..drawn' /\ retired' \subseteq 1..drawn'
           /\ \A x \in DOMAIN sessions' : sessions'[x] \in StoredSessions
           /\ RetiredTokensStayDead' /\ SessionsKeepTheirLimits'
  BY DEF SessionsWithout, SessionInvariant, SessionTypes, SessionGuarantees,
     RetiredTokensStayDead, SessionsKeepTheirLimits

\* revoke
LEMMA RevokeKeeps == SessionInvariant /\ SessionRevoke => SessionInvariant'
<1> SUFFICES ASSUME SessionInvariant, SessionRevoke PROVE SessionInvariant'
  OBVIOUS
<1>1. PICK t \in DOMAIN sessions : sessions' = SessionsWithout(t) /\ retired' = retired \cup {t}
  BY DEF SessionRevoke
<1>2. UNCHANGED <<sessionNow, drawn, birth, sessionCall, form>>
  BY DEF SessionRevoke
<1>3. /\ sessionNow' \in Nat /\ drawn' \in Nat
      /\ birth' \in Seq(Nat) /\ Len(birth') = drawn'
      /\ DOMAIN sessions' \subseteq 1..drawn' /\ retired' \subseteq 1..drawn'
      /\ \A x \in DOMAIN sessions' : sessions'[x] \in StoredSessions
      /\ RetiredTokensStayDead' /\ SessionsKeepTheirLimits'
  BY <1>1, <1>2, RemoveKeeps
<1> QED
  BY <1>2, <1>3 DEF SessionInvariant, SessionTypes, ReadsAreTimely, AcceptedFormsExist,
        FormsAreBound, SessionGuarantees

\* What one call does to its own record leaves the promises of the others.
LEMMA CallKeeps ==
    ASSUME SessionInvariant, NEW c \in SessionCalls, NEW entry,
           sessionCall' = [sessionCall EXCEPT ![c] = entry],
           entry.at \notin {"read", "accepted"}, form' = form, drawn' \in Nat, drawn <= drawn',
           \A t \in 1..drawn : birth'[t] = birth[t]
    PROVE  /\ DOMAIN sessionCall' = SessionCalls
           /\ ReadsAreTimely' /\ AcceptedFormsExist' /\ FormsAreBound'
  BY DEF SessionInvariant, SessionTypes, ReadsAreTimely, AcceptedFormsExist, FormsAreBound,
     SessionGuarantees

\* The first await of load and rotate (SessionRead).
LEMMA ReadKeeps ==
    ASSUME SessionInvariant, NEW c \in SessionCalls, SessionRead(c)
    PROVE  SessionInvariant'
<1> USE DEF SessionInvariant
<1>1. UNCHANGED <<sessionNow, sessions, drawn, form, retired, birth>>
  BY DEF SessionRead
<1> DEFINE reply(kind, t) ==
             IF t \notin DOMAIN sessions
             THEN [at |-> "done", kind |-> "absent", token |-> t]
             ELSE IF kind = "load" /\ sessions[t].schema # SessionPolicy.schema
             THEN [at |-> "done", kind |-> "VersionMismatch", token |-> t]
             ELSE IF \/ sessions[t].schema # SessionPolicy.schema
                     \/ SessionExpired(sessions[t])
             THEN [at |-> "expired", kind |-> kind, token |-> t]
             ELSE [at |-> "read", kind |-> kind, token |-> t,
                   read |-> sessions[t], judged |-> sessionNow]
<1>1a. PICK kind \in {"load", "rotate"} :
         \E t : sessionCall' = [sessionCall EXCEPT ![c] = reply(kind, t)]
  BY DEF SessionRead
<1>2. PICK t : sessionCall' = [sessionCall EXCEPT ![c] = reply(kind, t)]
  BY <1>1a
<1>3. DOMAIN sessionCall = SessionCalls /\ drawn \in Nat /\ sessionNow \in Nat
  BY DEF SessionTypes
<1>4. RetiredTokensStayDead' /\ SessionsKeepTheirLimits'
  BY <1>1 DEF SessionGuarantees, RetiredTokensStayDead, SessionsKeepTheirLimits
<1>5. ASSUME NEW entry, sessionCall' = [sessionCall EXCEPT ![c] = entry],
             entry.at \notin {"read", "accepted"}
      PROVE  SessionInvariant'
  <2>1. DOMAIN sessionCall' = SessionCalls /\ ReadsAreTimely' /\ AcceptedFormsExist' /\ FormsAreBound'
    <3>1. drawn' \in Nat /\ drawn <= drawn' /\ form' = form /\ \A x \in 1..drawn : birth'[x] = birth[x]
      BY <1>1, <1>3
    <3> QED
      BY <1>5, <3>1, CallKeeps
  <2> QED
    BY <1>1, <1>4, <2>1 DEF SessionTypes, SessionGuarantees
<1>6. CASE t \notin DOMAIN sessions
  BY <1>2, <1>5, <1>6
<1>7. CASE t \in DOMAIN sessions /\ kind = "load" /\ sessions[t].schema # SessionPolicy.schema
  <2>1. PICK entry : entry = [at |-> "done", kind |-> "VersionMismatch", token |-> t]
    OBVIOUS
  <2>2. sessionCall' = [sessionCall EXCEPT ![c] = entry] /\ entry.at = "done"
    BY <1>2, <1>7, <2>1
  <2> QED
    BY <1>5, <2>2
<1>8. CASE /\ t \in DOMAIN sessions /\ ~(kind = "load" /\ sessions[t].schema # SessionPolicy.schema)
           /\ sessions[t].schema # SessionPolicy.schema \/ SessionExpired(sessions[t])
  BY <1>2, <1>5, <1>8
<1>9. CASE /\ t \in DOMAIN sessions /\ ~SessionExpired(sessions[t])
           /\ sessions[t].schema = SessionPolicy.schema
  <2>1. PICK s \in StoredSessions : s = sessions[t]
    BY <1>9 DEF SessionTypes
  <2>2. /\ t \in 1..drawn /\ sessionNow < s.absoluteUntil
        /\ s.absoluteUntil <= birth[t] + SessionPolicy.absolute
    BY <1>9, <2>1, <1>3 DEF SessionTypes, SessionGuarantees, SessionsKeepTheirLimits,
       SessionExpired, StoredSessions
  <2>3. sessionCall' = [sessionCall EXCEPT ![c] = [at |-> "read", kind |-> kind, token |-> t,
                          read |-> s, judged |-> sessionNow]]
    BY <1>2, <1>9, <2>1
  <2>4. /\ DOMAIN sessionCall' = SessionCalls
        /\ \A d \in SessionCalls \ {c} : sessionCall'[d] = sessionCall[d]
        /\ sessionCall'[c].at = "read" /\ sessionCall'[c].token = t
        /\ sessionCall'[c].read = s /\ sessionCall'[c].judged = sessionNow
    BY <1>3, <2>3
  <2>5. ReadsAreTimely'
    BY <1>1, <1>3, <2>2, <2>4 DEF ReadsAreTimely
  <2>6. AcceptedFormsExist' /\ FormsAreBound'
    BY <1>1, <2>4 DEF AcceptedFormsExist, FormsAreBound, SessionGuarantees
  <2> QED
    BY <1>1, <1>4, <2>4, <2>5, <2>6 DEF SessionTypes, SessionGuarantees
<1> QED
  BY <1>6, <1>7, <1>8, <1>9

\* An expired session is revoked by a store call of its own (SessionExpire).
LEMMA ExpireKeeps ==
    ASSUME SessionInvariant, NEW c \in SessionCalls, SessionExpire(c)
    PROVE  SessionInvariant'
<1>1. PICK t : /\ sessions' = SessionsWithout(t)
               /\ retired' = IF t \in DOMAIN sessions THEN retired \cup {t} ELSE retired
  BY DEF SessionExpire
<1>2. UNCHANGED <<sessionNow, drawn, birth>> /\ form' = form
  BY DEF SessionExpire
<1>3. /\ sessionNow' \in Nat /\ drawn' \in Nat
      /\ birth' \in Seq(Nat) /\ Len(birth') = drawn'
      /\ DOMAIN sessions' \subseteq 1..drawn' /\ retired' \subseteq 1..drawn'
      /\ \A x \in DOMAIN sessions' : sessions'[x] \in StoredSessions
      /\ RetiredTokensStayDead' /\ SessionsKeepTheirLimits'
  BY <1>1, <1>2, RemoveKeeps
<1>4. PICK entry : /\ entry = [at |-> "done", kind |-> "absent", token |-> sessionCall[c].token]
                  /\ sessionCall' = [sessionCall EXCEPT ![c] = entry]
  BY DEF SessionExpire, SessionReturn
<1>5. /\ entry.at \notin {"read", "accepted"} /\ drawn' \in Nat /\ drawn <= drawn'
      /\ \A x \in 1..drawn : birth'[x] = birth[x]
  BY <1>2, <1>3, <1>4
<1>6. DOMAIN sessionCall' = SessionCalls /\ ReadsAreTimely' /\ AcceptedFormsExist' /\ FormsAreBound'
  BY <1>2, <1>4, <1>5, CallKeeps
<1> QED
  BY <1>3, <1>6 DEF SessionInvariant, SessionTypes, SessionGuarantees

\* What load writes back stays within the limits of the session it read.
LEMMA TouchedWithinLimits ==
    ASSUME SessionInvariant, NEW c \in SessionCalls, sessionCall[c].at = "read"
    PROVE  /\ SessionTouched(c) \in StoredSessions
           /\ SessionTouched(c).absoluteUntil
                  <= birth[sessionCall[c].token] + SessionPolicy.absolute
           /\ SessionTouched(c).idleUntil <= SessionTouched(c).seen + SessionPolicy.idle
           /\ SessionTouched(c).seen < SessionTouched(c).absoluteUntil
<1>1. PICK r \in StoredSessions, j \in Nat :
          /\ r = sessionCall[c].read /\ j = sessionCall[c].judged
          /\ r.absoluteUntil <= birth[sessionCall[c].token] + SessionPolicy.absolute
          /\ j < r.absoluteUntil
  BY DEF SessionInvariant, ReadsAreTimely
<1>2. PICK i \in Nat : i = IF j + SessionPolicy.idle < r.absoluteUntil
                           THEN j + SessionPolicy.idle ELSE r.absoluteUntil
  BY PolicyLimits DEF StoredSessions
<1>3. SessionTouched(c) = [r EXCEPT !.seen = j, !.idleUntil = i]
  BY <1>1, <1>2 DEF SessionTouched
<1>4. /\ SessionTouched(c) \in StoredSessions
      /\ SessionTouched(c).absoluteUntil = r.absoluteUntil
      /\ SessionTouched(c).seen = j /\ SessionTouched(c).idleUntil = i
  BY <1>3 DEF StoredSessions
<1>5. i <= j + SessionPolicy.idle
  BY <1>2, PolicyLimits DEF StoredSessions
<1> QED
  BY <1>1, <1>4, <1>5

\* load touches the session, if it is still stored (SessionUpdate).
LEMMA UpdateKeeps ==
    ASSUME SessionInvariant, NEW c \in SessionCalls, SessionUpdate(c)
    PROVE  SessionInvariant'
<1> USE DEF SessionInvariant
<1>1. UNCHANGED <<sessionNow, drawn, form, retired, birth>> /\ sessionCall[c].at = "read"
  BY DEF SessionUpdate
<1>2. PICK t \in 1..drawn : t = sessionCall[c].token
  BY <1>1 DEF ReadsAreTimely
<1>3. PICK entry : /\ entry.at = "done" /\ sessionCall' = [sessionCall EXCEPT ![c] = entry]
  BY DEF SessionUpdate, SessionReturn
<1>4. DOMAIN sessionCall' = SessionCalls /\ ReadsAreTimely' /\ AcceptedFormsExist' /\ FormsAreBound'
  <2>1. /\ entry.at \notin {"read", "accepted"} /\ drawn' \in Nat /\ drawn <= drawn'
        /\ form' = form /\ \A x \in 1..drawn : birth'[x] = birth[x]
    BY <1>1, <1>3 DEF SessionTypes
  <2> QED
    BY <1>3, <2>1, CallKeeps
<1>5. CASE sessions' = sessions
  BY <1>1, <1>4, <1>5 DEF SessionTypes, SessionGuarantees, RetiredTokensStayDead,
     SessionsKeepTheirLimits
<1>6. CASE t \in DOMAIN sessions /\ sessions' = SessionsWith(t, SessionTouched(c))
  BY <1>1, <1>2, TouchedWithinLimits, <1>6, <1>4 DEF SessionsWith, SessionTypes,
     SessionGuarantees, RetiredTokensStayDead, SessionsKeepTheirLimits
<1> QED
  BY <1>2, <1>5, <1>6 DEF SessionUpdate

\* What rotate stores keeps the absolute expiry of the session it read.
LEMMA RotatedWithinLimits ==
    ASSUME SessionInvariant, NEW c \in SessionCalls, sessionCall[c].at = "read"
    PROVE  /\ SessionRotated(c) \in StoredSessions
           /\ SessionRotated(c).absoluteUntil
                  <= birth[sessionCall[c].token] + SessionPolicy.absolute
           /\ SessionRotated(c).idleUntil <= SessionRotated(c).seen + SessionPolicy.idle
           /\ SessionRotated(c).seen < SessionRotated(c).absoluteUntil
  BY StoredType, PolicyLimits DEF SessionInvariant, ReadsAreTimely, StoredSessions,
     StoredSession, SessionRotated

\* rotate moves the session to a new token, if it is still stored (SessionReplace).
LEMMA ReplaceKeeps ==
    ASSUME SessionInvariant, NEW c \in SessionCalls, SessionReplace(c)
    PROVE  SessionInvariant'
<1> USE DEF SessionInvariant
<1>1. UNCHANGED <<sessionNow, form>> /\ sessionCall[c].at = "read" /\ drawn' = drawn + 1
  BY DEF SessionReplace
<1>2. PICK t \in 1..drawn : t = sessionCall[c].token
  BY <1>1 DEF ReadsAreTimely
<1>3. PICK entry : /\ entry.at = "done" /\ sessionCall' = [sessionCall EXCEPT ![c] = entry]
  BY DEF SessionReplace, SessionReturn
<1>4. PICK b \in Nat : b = birth[t] /\ birth' = Append(birth, b)
  BY <1>2, ElementOfSeq DEF SessionReplace, SessionTypes
<1>5. /\ birth' \in Seq(Nat) /\ Len(birth') = drawn' /\ birth'[drawn'] = b
      /\ \A x \in 1..drawn : birth'[x] = birth[x]
  BY <1>1, <1>4, BirthGrows
<1>6. /\ drawn \in Nat /\ drawn' \in Nat /\ drawn <= drawn' /\ drawn' \notin 1..drawn
      /\ 1..drawn \subseteq 1..drawn' /\ drawn' \in 1..drawn'
  BY <1>1 DEF SessionTypes
<1>7. DOMAIN sessionCall' = SessionCalls /\ ReadsAreTimely' /\ AcceptedFormsExist' /\ FormsAreBound'
  BY <1>1, <1>3, <1>5, <1>6, CallKeeps
<1>8. CASE sessions' = sessions /\ retired' = retired
  BY <1>1, <1>5, <1>6, <1>7, <1>8 DEF SessionTypes, SessionGuarantees, RetiredTokensStayDead,
     SessionsKeepTheirLimits
<1>9. CASE /\ t \in DOMAIN sessions
           /\ sessions' = [x \in (DOMAIN sessions \ {t}) \cup {drawn'} |->
                              IF x = drawn' THEN SessionRotated(c) ELSE sessions[x]]
           /\ retired' = retired \cup {t}
  <2>1. PICK s \in StoredSessions :
            /\ s = SessionRotated(c)
            /\ s.absoluteUntil <= birth[t] + SessionPolicy.absolute
            /\ s.idleUntil <= s.seen + SessionPolicy.idle /\ s.seen < s.absoluteUntil
    BY <1>1, <1>2, RotatedWithinLimits
  <2>2. /\ DOMAIN sessions' = (DOMAIN sessions \ {t}) \cup {drawn'} /\ sessions'[drawn'] = s
        /\ \A x \in DOMAIN sessions \ {t} : sessions'[x] = sessions[x]
    BY <1>6, <1>9, <2>1 DEF SessionTypes
  <2>3. RetiredTokensStayDead'
    BY <1>6, <1>9, <2>2 DEF SessionTypes, SessionGuarantees, RetiredTokensStayDead
  <2>4. SessionTypes'
    BY <1>1, <1>5, <1>6, <1>7, <1>9, <2>1, <2>2 DEF SessionTypes
  <2>5. SessionsKeepTheirLimits'
    BY <1>4, <1>5, <2>1, <2>2 DEF SessionsKeepTheirLimits, SessionGuarantees, SessionTypes
  <2> QED
    BY <1>7, <2>3, <2>4, <2>5 DEF SessionGuarantees
<1> QED
  BY <1>2, <1>8, <1>9 DEF SessionReplace

\* A submission is judged with the form the browser holds (CsrfSubmit).
LEMMA SubmitKeeps ==
    ASSUME SessionInvariant, NEW c \in SessionCalls, CsrfSubmit(c)
    PROVE  SessionInvariant'
<1> USE DEF SessionInvariant
<1>1. UNCHANGED <<sessionNow, sessions, drawn, form, retired, birth>> /\ form # NoForm
  BY DEF CsrfSubmit
<1>2. PICK action \in 1..2 : sessionCall' = [sessionCall EXCEPT ![c] =
              [at |-> IF CsrfVerifies(form, sessionCall[c].token, action)
                      THEN "accepted" ELSE "forbidden",
               kind |-> "submitted", token |-> sessionCall[c].token, action |-> action]]
  BY DEF CsrfSubmit
<1>3. PICK at : at = IF CsrfVerifies(form, sessionCall[c].token, action)
                     THEN "accepted" ELSE "forbidden"
  OBVIOUS
<1>4. /\ DOMAIN sessionCall' = SessionCalls
      /\ \A d \in SessionCalls \ {c} : sessionCall'[d] = sessionCall[d]
      /\ sessionCall'[c].at = at /\ sessionCall'[c].token = sessionCall[c].token
      /\ sessionCall'[c].action = action
  BY <1>2, <1>3 DEF SessionTypes
<1>5. at # "read"
  BY <1>3
<1>6. at = "accepted" => form.session = sessionCall[c].token /\ form.action = action
  BY <1>3 DEF CsrfVerifies, CsrfMessage
<1>7. ReadsAreTimely'
  BY <1>1, <1>4, <1>5 DEF ReadsAreTimely
<1>8. AcceptedFormsExist' /\ FormsAreBound'
  BY <1>1, <1>4, <1>6 DEF AcceptedFormsExist, FormsAreBound, SessionGuarantees
<1>9. SessionTypes' /\ RetiredTokensStayDead' /\ SessionsKeepTheirLimits'
  BY <1>1, <1>4 DEF SessionTypes, SessionGuarantees, RetiredTokensStayDead,
        SessionsKeepTheirLimits
<1> QED
  BY <1>7, <1>8, <1>9 DEF SessionGuarantees

\* Every step keeps the invariant.
LEMMA NextSession == SessionInvariant /\ [SessionNext]_sessionVars => SessionInvariant'
<1> SUFFICES ASSUME SessionInvariant, [SessionNext]_sessionVars PROVE SessionInvariant'
  OBVIOUS
<1>1. CASE CsrfIssue
  <2>1. \A c \in SessionCalls : sessionCall[c].at # "accepted"
    BY <1>1 DEF CsrfIssue, SessionInvariant, AcceptedFormsExist
  <2>2. UNCHANGED <<sessionNow, sessions, drawn, sessionCall, retired, birth>>
    BY <1>1 DEF CsrfIssue
  <2> QED
    BY <2>1, <2>2 DEF SessionInvariant, SessionTypes, ReadsAreTimely, AcceptedFormsExist,
          SessionGuarantees, RetiredTokensStayDead, SessionsKeepTheirLimits, FormsAreBound
<1>2. CASE CsrfRotateKeys \/ UNCHANGED sessionVars
  <2>1. UNCHANGED <<sessionNow, sessions, drawn, sessionCall, form, retired, birth>>
    BY <1>2 DEF CsrfRotateKeys, sessionVars
  <2> QED
    BY <2>1 DEF SessionInvariant, SessionTypes, ReadsAreTimely, AcceptedFormsExist,
          SessionGuarantees, RetiredTokensStayDead, SessionsKeepTheirLimits, FormsAreBound
<1>3. CASE SessionTick
  <2>1. UNCHANGED <<sessions, drawn, sessionCall, form, retired, birth>> /\ sessionNow' \in Nat
    BY <1>3 DEF SessionTick, SessionInvariant, SessionTypes
  <2> QED
    BY <2>1 DEF SessionInvariant, SessionTypes, ReadsAreTimely, AcceptedFormsExist,
          SessionGuarantees, RetiredTokensStayDead, SessionsKeepTheirLimits, FormsAreBound
<1>4. CASE \E c \in SessionCalls : \/ SessionRead(c) \/ SessionExpire(c) \/ SessionUpdate(c)
                                   \/ SessionReplace(c) \/ CsrfSubmit(c)
  BY <1>4, ReadKeeps, ExpireKeeps, UpdateKeeps, ReplaceKeeps, SubmitKeeps
<1> QED
  BY <1>1, <1>2, <1>3, <1>4, CreateKeeps, RevokeKeeps DEF SessionNext

\* However loads, rotations, revocations and key changes interleave: a token
\* that left the store never names a session again, no write lets a session
\* outlive the limits it was created with, and a submission is accepted only
\* from the session and for the action its form was issued to.
THEOREM SessionsAreSafe == SessionSpec => []SessionGuarantees
<1>1. SessionInvariant => SessionGuarantees
  BY DEF SessionInvariant
<1> QED
  BY InitSession, NextSession, <1>1, PTL DEF SessionSpec

-----------------------------------------------------------------------------
(* The cache.  What a step of a call does to the calls: the others stay,   *)
(* and the call keeps its key.                                             *)

CacheOthersStay(c) ==
    /\ DOMAIN cacheCall' = CacheCalls
    /\ \A b \in CacheCalls : b # c => cacheCall'[b] = cacheCall[b]

CacheGoesOn(c) ==
    /\ CacheOthersStay(c)
    /\ DOMAIN cacheCall'[c] = CacheFields
    /\ cacheCall'[c].host = cacheCall[c].host /\ cacheCall'[c].policy = cacheCall[c].policy
    /\ cacheCall'[c].input = cacheCall[c].input /\ cacheCall'[c].before = cacheCall[c].before
    /\ cacheCall'[c].at # "idle"

LEMMA CacheAnswerGoesOn ==
    ASSUME NEW c \in CacheCalls, DOMAIN cacheCall = CacheCalls,
           DOMAIN cacheCall[c] = CacheFields, NEW a, CacheAnswer(c, a)
    PROVE  /\ CacheGoesOn(c) /\ cacheCall'[c].at = "done" /\ cacheCall'[c].answer = a
           /\ cacheCall'[c].leader = c /\ cacheCall'[c].seen = FALSE
  BY DEF CacheAnswer, CacheGoesOn, CacheOthersStay, CacheFields

LEMMA CacheGoGoesOn ==
    ASSUME NEW c \in CacheCalls, DOMAIN cacheCall = CacheCalls,
           DOMAIN cacheCall[c] = CacheFields, NEW to, to # "idle", CacheGo(c, to)
    PROVE  /\ CacheGoesOn(c) /\ cacheCall'[c].at = to
           /\ cacheCall'[c].answer = cacheCall[c].answer
           /\ cacheCall'[c].leader = cacheCall[c].leader
           /\ cacheCall'[c].seen = cacheCall[c].seen
           /\ cacheCall'[c].final = cacheCall[c].final
  BY DEF CacheGo, CacheGoesOn, CacheOthersStay, CacheFields

LEMMA CacheInitHolds == CacheInit => CacheInvariant
<1> SUFFICES ASSUME CacheInit PROVE CacheInvariant
  OBVIOUS
<1>1. \A c \in CacheCalls : /\ cacheCall[c] = NoCacheCall /\ fill[c] = NoFill
                            /\ ~CacheServed(c) /\ ~CacheOpened(c)
  BY DEF CacheInit, CacheServed, CacheOpened, NoCacheCall, CacheNone, CacheFields
<1>2. CacheTypes
  <2>1. /\ DOMAIN sweep = {"event", "todo"} /\ sweep.todo \subseteq CacheHosts
        /\ sequence = 0 /\ \A e \in events \cup {sweep.event} : e.sequence \in 0..sequence
    BY DEF CacheInit, NoSweep
  <2>2. swept \in [CacheHosts -> Nat]
    BY DEF CacheInit
  <2>3. \A c \in CacheCalls :
          /\ DOMAIN fill[c] = {"phase", "result", "notified"} /\ fill[c].phase = "idle"
          /\ fill[c].phase \in CachePhases /\ fill[c].result \in CacheResults /\ fill[c].notified \in BOOLEAN
    <3>1. /\ DOMAIN NoFill = {"phase", "result", "notified"} /\ NoFill.phase = "idle"
          /\ NoFill.result = "none" /\ NoFill.notified = FALSE
      BY DEF NoFill, CacheNone
    <3>2. "idle" \in CachePhases /\ "none" \in CacheResults
      BY DEF CachePhases, CacheResults, CacheNone
    <3> QED
      BY <1>1, <3>1, <3>2
  <2>4. \A c \in CacheCalls : DOMAIN cacheCall[c] = {"at", "answer"} /\ cacheCall[c].at = "idle"
    BY <1>1 DEF NoCacheCall
  <2>5. /\ DOMAIN cacheCall = CacheCalls /\ DOMAIN entries = CacheHosts /\ DOMAIN fills = CacheHosts
        /\ DOMAIN fill = CacheCalls
    BY DEF CacheInit
  <2> QED
    BY <1>1, <2>1, <2>2, <2>3, <2>4, <2>5 DEF CacheTypes
<1>3. CacheEntriesHold /\ CacheSweepsCover
  BY DEF CacheInit, CacheEntriesHold, CacheSweepsCover, CacheOver, NoSweep
<1>4. CacheFillsAreLed /\ CacheNotices
  BY <1>1 DEF CacheInit, CacheFillsAreLed, CacheNotices, NoFill, NoCacheCall
<1>5. CacheIsIsolated /\ CacheSweepsHold
  BY <1>1 DEF CacheIsIsolated, CacheSweepsHold
<1> QED
  BY <1>2, <1>3, <1>4, <1>5 DEF CacheInvariant

\* CacheGuarantees follows from the invariant.
LEMMA CacheInvariantSuffices == CacheInvariant => CacheGuarantees
<1> SUFFICES ASSUME CacheInvariant PROVE CacheWaitersAreWoken
  BY DEF CacheInvariant, CacheGuarantees
<1> SUFFICES ASSUME NEW c \in CacheCalls, cacheCall[c].at = "waiting",
                    fill[cacheCall[c].leader].phase \in {"notified", "ended"}
             PROVE  fill[cacheCall[c].leader].notified /\ ~cacheCall[c].seen
  BY DEF CacheWaitersAreWoken
<1>1. CacheOpened(c)
  BY DEF CacheInvariant, CacheTypes
<1>2. PICK b \in CacheCalls : b = cacheCall[c].leader
  BY <1>1 DEF CacheOpened
<1>3. b = c \/ cacheCall[b].policy.coalesce
  BY <1>1, <1>2 DEF CacheInvariant, CacheFillsAreLed, CacheLeads
<1>4. fill[b].notified
  BY <1>2, <1>3 DEF CacheInvariant, CacheNotices
<1> QED
  BY <1>2, <1>4 DEF CacheInvariant, CacheNotices

\* What a step of call c may do to the fills, to their leaders and to the stores.
CacheFillFollows(c) ==
    /\ DOMAIN fill' = CacheCalls
    /\ \A b \in CacheCalls :
          /\ DOMAIN fill'[b] = {"phase", "result", "notified"}
          /\ fill'[b].result = fill[b].result /\ fill'[b].notified = fill[b].notified
          /\ \/ fill'[b].phase = fill[b].phase
             \/ b = c /\ fill'[b].phase = "reading"
             \/ /\ b = c /\ fill'[b].phase = "ended"
                /\ ~cacheCall[c].policy.coalesce /\ cacheCall'[c].at = "done"

CacheFillsFollow(c) ==
    /\ DOMAIN fills' = CacheHosts
    /\ \A h \in CacheHosts : \A d \in DOMAIN fills'[h] :
          \/ d \in DOMAIN fills[h] /\ fills'[h][d] = fills[h][d]
          \/ fills'[h][d] = c /\ cacheCall[c].policy.coalesce

CacheEntriesFollow ==
    /\ DOMAIN entries' = CacheHosts
    /\ \A h \in CacheHosts : \A d \in DOMAIN entries'[h] :
          d \in DOMAIN entries[h] /\ entries'[h][d] = entries[h][d]

CacheWaitsFor(c) ==
    /\ cacheCall'[c].leader \in CacheCalls
    /\ cacheCall'[c].leader = c \/ CacheLeads(cacheCall'[c].leader)
    /\ cacheCall'[c].seen \in BOOLEAN
    /\ cacheCall'[c].seen => fill[cacheCall'[c].leader].notified
    /\ cacheCall'[c].at \in {"missed", "waiting"} => ~cacheCall'[c].seen
    /\ cacheCall'[c].at \in {"lookup", "removing", "mismatched"} => (cacheCall'[c].final \/ ~cacheCall'[c].seen)

CacheAnsweredRight(c) ==
    CacheServed(c)' =>
        /\ cacheCall'[c].answer.value.stamp = CacheStamp(cacheCall[c].policy)
        /\ cacheCall'[c].answer.value.owner = cacheCall[c].input.owner
        /\ \A e \in cacheCall[c].before :
              CacheConcerns(e, CacheDigest(c), cacheCall'[c].answer.value) =>
                  cacheCall'[c].answer.value.putAfter >= e.sequence

\* A step of a call that does no more than that keeps the invariant.
LEMMA CacheCallKeeps ==
    ASSUME CacheInvariant, NEW c \in CacheCalls, CacheOpened(c), cacheCall[c].at # "done",
           CacheGoesOn(c), CacheFillFollows(c), CacheFillsFollow(c), CacheEntriesFollow,
           CacheWaitsFor(c), CacheAnsweredRight(c),
           UNCHANGED <<sweep, sequence, events, swept>>
    PROVE  CacheInvariant'
<1>1. \A b \in CacheCalls : CacheOpened(b) => CacheOpened(b)'
  BY DEF CacheOpened, CacheGoesOn, CacheWaitsFor, CacheOthersStay
<1>2. \A b \in CacheCalls : CacheOpened(b)' => CacheOpened(b)
  BY DEF CacheOpened, CacheGoesOn, CacheOthersStay
<1>3. \A b \in CacheCalls : cacheCall'[b].policy = cacheCall[b].policy
  BY DEF CacheGoesOn, CacheOthersStay
<1>4. \A b \in CacheCalls : CacheLeads(b) => CacheLeads(b)'
  BY <1>1, <1>3 DEF CacheLeads
<1>5. CacheTypes'
  <2>1. \A b \in CacheCalls :
          \/ CacheOpened(b)'
          \/ /\ DOMAIN cacheCall'[b] = {"at", "answer"} /\ cacheCall'[b].at \in {"idle", "done"}
             /\ ~CacheServed(b)'
    BY <1>1 DEF CacheInvariant, CacheTypes, CacheGoesOn, CacheOthersStay, CacheServed
  <2>2. \A b \in CacheCalls : fill'[b].phase \in CachePhases /\ (fill'[b].phase # "idle" => CacheOpened(b)')
    BY <1>1 DEF CacheInvariant, CacheTypes, CacheFillFollows, CachePhases
  <2> QED
    BY <2>1, <2>2 DEF CacheInvariant, CacheTypes, CacheGoesOn, CacheOthersStay, CacheFillFollows,
       CacheFillsFollow, CacheEntriesFollow
<1>6. CacheEntriesHold' /\ CacheSweepsCover'
  BY DEF CacheInvariant, CacheEntriesHold, CacheSweepsCover, CacheEntriesFollow, CacheOver
<1>7. CacheFillsAreLed'
  <2>1. \A h \in CacheHosts : \A d \in DOMAIN fills'[h] :
          fills'[h][d] \in CacheCalls /\ CacheLeads(fills'[h][d])
    BY DEF CacheInvariant, CacheFillsAreLed, CacheFillsFollow, CacheLeads
  <2>2. \A h \in CacheHosts : \A d \in DOMAIN fills'[h] :
          fills'[h][d] \in CacheCalls /\ CacheLeads(fills[h][d])'
    BY <2>1, <1>4 DEF CacheLeads, CacheOpened
  <2>3. ASSUME NEW b \in CacheCalls, CacheOpened(b)'
        PROVE  cacheCall'[b].leader = b \/ CacheLeads(cacheCall[b].leader)'
    <3>1. cacheCall'[b].leader \in CacheCalls
      BY <2>3 DEF CacheOpened
    <3>2. cacheCall'[b].leader = b \/ CacheLeads(cacheCall'[b].leader)
      BY <2>3, <1>2 DEF CacheInvariant, CacheFillsAreLed, CacheWaitsFor, CacheGoesOn, CacheOthersStay
    <3> QED
      BY <3>1, <3>2, <1>4 DEF CacheLeads, CacheOpened
  <2> QED
    BY <2>2, <2>3 DEF CacheFillsAreLed
<1>8. CacheNotices'
  <2> SUFFICES ASSUME NEW b \in CacheCalls
               PROVE  /\ fill'[b].notified => fill'[b].result # CacheNone
                      /\ fill'[b].phase = "notified" => fill'[b].notified
                      /\ fill'[b].phase = "settled" => fill'[b].result # CacheNone
                      /\ fill'[b].phase = "ended" =>
                          fill'[b].notified \/ (~cacheCall'[b].policy.coalesce /\ cacheCall'[b].at = "done")
                      /\ (CacheOpened(b)' /\ cacheCall'[b].seen) => fill'[cacheCall'[b].leader].notified
                      /\ cacheCall'[b].at \in {"missed", "waiting"} => ~cacheCall'[b].seen
                      /\ cacheCall'[b].at \in {"lookup", "removing", "mismatched"} =>
                            (cacheCall'[b].final \/ ~cacheCall'[b].seen)
    BY DEF CacheNotices
  <2>1. /\ fill'[b].notified => fill'[b].result # CacheNone
        /\ fill'[b].phase = "notified" => fill'[b].notified
        /\ fill'[b].phase = "settled" => fill'[b].result # CacheNone
    BY DEF CacheInvariant, CacheNotices, CacheFillFollows
  <2>2. fill'[b].phase = "ended" =>
            fill'[b].notified \/ (~cacheCall'[b].policy.coalesce /\ cacheCall'[b].at = "done")
    BY <1>3 DEF CacheInvariant, CacheNotices, CacheFillFollows, CacheGoesOn, CacheOthersStay
  <2>3. (CacheOpened(b)' /\ cacheCall'[b].seen) => fill'[cacheCall'[b].leader].notified
    <3>1. CacheOpened(b)' => cacheCall'[b].leader \in CacheCalls
      BY DEF CacheOpened
    <3>2. (CacheOpened(b)' /\ cacheCall'[b].seen) => fill[cacheCall'[b].leader].notified
      BY <1>2 DEF CacheInvariant, CacheNotices, CacheWaitsFor, CacheGoesOn, CacheOthersStay
    <3> QED
      BY <3>1, <3>2 DEF CacheFillFollows
  <2>4. /\ cacheCall'[b].at \in {"missed", "waiting"} => ~cacheCall'[b].seen
        /\ cacheCall'[b].at \in {"lookup", "removing", "mismatched"} => (cacheCall'[b].final \/ ~cacheCall'[b].seen)
    BY DEF CacheInvariant, CacheNotices, CacheWaitsFor, CacheGoesOn, CacheOthersStay
  <2> QED
    BY <2>1, <2>2, <2>3, <2>4
<1>9. CacheIsIsolated' /\ CacheSweepsHold'
  BY DEF CacheInvariant, CacheIsIsolated, CacheSweepsHold, CacheAnsweredRight, CacheGoesOn,
     CacheOthersStay, CacheServed, CacheStamp, CacheDigest
<1> QED
  BY <1>5, <1>6, <1>7, <1>8, <1>9 DEF CacheInvariant

LEMMA CacheCallsAreOpen ==
    ASSUME CacheInvariant, NEW c \in CacheCalls, cacheCall[c].at \notin {"idle", "done"}
    PROVE  /\ CacheOpened(c) /\ DOMAIN cacheCall = CacheCalls /\ DOMAIN cacheCall[c] = CacheFields
           /\ cacheCall[c].leader = c \/ CacheLeads(cacheCall[c].leader)
           /\ cacheCall[c].leader \in CacheCalls /\ cacheCall[c].seen \in BOOLEAN
           /\ cacheCall[c].seen => fill[cacheCall[c].leader].notified
  BY DEF CacheInvariant, CacheTypes, CacheOpened, CacheFillsAreLed, CacheNotices

LEMMA CacheUnchangedFollows ==
    ASSUME CacheInvariant, NEW c \in CacheCalls
    PROVE  /\ UNCHANGED fill => CacheFillFollows(c)
           /\ UNCHANGED fills => CacheFillsFollow(c)
           /\ UNCHANGED entries => CacheEntriesFollow
  BY DEF CacheInvariant, CacheTypes, CacheFillFollows, CacheFillsFollow, CacheEntriesFollow

LEMMA CacheAnswerWaits ==
    ASSUME CacheInvariant, NEW c \in CacheCalls, cacheCall[c].at \notin {"idle", "done"},
           NEW a, CacheAnswer(c, a)
    PROVE  CacheGoesOn(c) /\ CacheWaitsFor(c) /\ cacheCall'[c].answer = a /\ cacheCall'[c].at = "done"
  BY CacheAnswerGoesOn, CacheCallsAreOpen DEF CacheWaitsFor

LEMMA CacheGoWaits ==
    ASSUME CacheInvariant, NEW c \in CacheCalls, cacheCall[c].at \notin {"idle", "done"},
           NEW to, to # "idle", CacheGo(c, to),
           to \in {"missed", "waiting"} => ~cacheCall[c].seen,
           to \in {"lookup", "removing", "mismatched"} => (cacheCall[c].final \/ ~cacheCall[c].seen)
    PROVE  CacheGoesOn(c) /\ CacheWaitsFor(c) /\ CacheAnsweredRight(c)
  BY CacheGoGoesOn, CacheCallsAreOpen DEF CacheWaitsFor, CacheAnsweredRight, CacheInvariant,
     CacheIsIsolated, CacheSweepsHold, CacheServed, CacheDigest

LEMMA CacheMissKeeps ==
    ASSUME CacheInvariant, NEW c \in CacheCalls, cacheCall[c].at \in {"lookup", "removing", "mismatched"},
           CacheMiss(c)
    PROVE  CacheGoesOn(c) /\ CacheWaitsFor(c) /\ CacheAnsweredRight(c)
  BY CacheAnswerWaits, CacheGoWaits DEF CacheMiss, CacheAnsweredRight, CacheServed,
     CacheInvariant, CacheNotices

LEMMA CacheLookupKeeps ==
    ASSUME CacheInvariant, NEW c \in CacheCalls, CacheLookup(c)
    PROVE  CacheInvariant'
<1> USE CacheUnchangedFollows DEF CacheLookup
<1> DEFINE held == entries[cacheCall[c].host]
           d == CacheDigest(c)
<1>0. cacheCall[c].at \notin {"idle", "done"}
  OBVIOUS
<1>1. CacheOpened(c)
  BY <1>0, CacheCallsAreOpen
<1>2. CASE d \notin DOMAIN held
  <2>1. CacheMiss(c)
    BY <1>2
  <2> QED
    BY <1>0, <1>1, <2>1, CacheMissKeeps, CacheCallKeeps
<1>3. CASE /\ d \in DOMAIN held
           /\ CacheGo(c, "mismatched") \/ CacheGo(c, "removing")
  BY <1>3, <1>0, <1>1, CacheGoWaits, CacheCallKeeps DEF CacheInvariant, CacheNotices
<1>4. CASE /\ d \in DOMAIN held
           /\ held[d].stamp = CacheStamp(cacheCall[c].policy)
           /\ ~(cacheNow >= held[d].staleUntil)
  <2>1. CacheAnswer(c, CacheHit(c, held[d]))
    BY <1>4
  <2>2. /\ CacheGoesOn(c) /\ CacheWaitsFor(c)
        /\ cacheCall'[c].answer = CacheHit(c, held[d])
    BY <1>0, <2>1, CacheAnswerWaits
  <2>3. cacheCall'[c].answer.value = held[d]
    BY <2>2 DEF CacheHit
  <2>4. held[d].owner = cacheCall[c].input.owner
    BY <1>1, <1>4 DEF CacheDigest, CacheKeyDigest, CacheInvariant, CacheEntriesHold,
       CacheOpened
  <2>5. \A e \in cacheCall[c].before : CacheConcerns(e, d, held[d]) => held[d].putAfter >= e.sequence
    BY <1>1, <1>4 DEF CacheOpened, CacheInvariant, CacheEntriesHold, CacheOver
  <2>6. CacheAnsweredRight(c)
    BY <1>4, <2>3, <2>4, <2>5 DEF CacheAnsweredRight
  <2> QED
    BY <1>0, <1>1, <2>2, <2>6, CacheCallKeeps
<1>5. \/ d \notin DOMAIN held
      \/ d \in DOMAIN held /\ (CacheGo(c, "mismatched") \/ CacheGo(c, "removing"))
      \/ /\ d \in DOMAIN held /\ held[d].stamp = CacheStamp(cacheCall[c].policy)
         /\ ~(cacheNow >= held[d].staleUntil)
  OBVIOUS
<1> QED
  BY <1>2, <1>3, <1>4, <1>5

LEMMA CacheRemoveKeeps ==
    ASSUME CacheInvariant, NEW c \in CacheCalls, CacheRemove(c)
    PROVE  CacheInvariant'
<1>1. cacheCall[c].at \in {"removing", "mismatched"} /\ cacheCall[c].at \notin {"idle", "done"}
  BY DEF CacheRemove
<1>2. /\ CacheEntriesFollow /\ CacheFillFollows(c) /\ CacheFillsFollow(c)
      /\ UNCHANGED <<sweep, sequence, events, swept>>
  BY CacheUnchangedFollows DEF CacheRemove, CacheEntriesFollow, CacheWithout, CacheInvariant, CacheTypes
<1>3. CASE CacheMiss(c)
  BY <1>1, <1>2, <1>3, CacheCallsAreOpen, CacheMissKeeps, CacheCallKeeps
<1>4. CASE CacheAnswer(c, [kind |-> "VersionMismatch"])
  BY <1>1, <1>2, <1>4, CacheCallsAreOpen, CacheAnswerWaits, CacheCallKeeps DEF CacheAnsweredRight, CacheServed
<1> QED
  BY <1>3, <1>4 DEF CacheRemove

LEMMA CacheGiveUpKeeps ==
    ASSUME CacheInvariant, NEW c \in CacheCalls, CacheGiveUp(c)
    PROVE  CacheInvariant'
  BY CacheCallsAreOpen, CacheAnswerWaits, CacheUnchangedFollows, CacheCallKeeps DEF
     CacheGiveUp, CacheAnsweredRight, CacheServed, CacheFillFollows, CacheInvariant, CacheTypes

LEMMA CacheJoinKeeps ==
    ASSUME CacheInvariant, NEW c \in CacheCalls, CacheJoin(c)
    PROVE  CacheInvariant'
<1> DEFINE h == cacheCall[c].host
           d == CacheDigest(c)
<1>1. cacheCall[c].at \notin {"idle", "done"}
  BY DEF CacheJoin
<1>2. CacheOpened(c) /\ h \in CacheHosts
  BY <1>1, CacheCallsAreOpen DEF CacheOpened
<1>3. CacheEntriesFollow /\ UNCHANGED <<sweep, sequence, events, swept>>
  BY CacheUnchangedFollows DEF CacheJoin
<1>4. fill' = [fill EXCEPT ![c].phase = "reading"] => CacheFillFollows(c)
  BY DEF CacheFillFollows, CacheInvariant, CacheTypes
<1>5. CASE CacheGo(c, "subscribe") /\ UNCHANGED fills /\ fill' = [fill EXCEPT ![c].phase = "reading"]
  BY <1>1, <1>2, <1>3, <1>4, <1>5, CacheGoWaits, CacheUnchangedFollows, CacheCallKeeps
<1>6. CASE /\ d \in DOMAIN fills[h]
           /\ cacheCall' = [cacheCall EXCEPT ![c].at = "subscribe", ![c].leader = fills[h][d]]
           /\ UNCHANGED <<fills, fill>>
  <2>1. PICK b \in CacheCalls : b = fills[h][d] /\ CacheLeads(b)
    BY <1>2, <1>6 DEF CacheInvariant, CacheFillsAreLed
  <2>2. cacheCall' = [cacheCall EXCEPT ![c].at = "subscribe", ![c].leader = b]
    BY <1>6, <2>1
  <2>3. DOMAIN cacheCall = CacheCalls /\ DOMAIN cacheCall[c] = CacheFields
    BY <1>1, CacheCallsAreOpen
  <2>4. /\ CacheGoesOn(c) /\ cacheCall'[c].leader = b /\ cacheCall'[c].at = "subscribe"
        /\ cacheCall'[c].answer = cacheCall[c].answer /\ cacheCall'[c].seen = cacheCall[c].seen
    BY <2>2, <2>3 DEF CacheGoesOn, CacheOthersStay, CacheFields
  <2>5. ~cacheCall[c].seen
    BY DEF CacheJoin, CacheInvariant, CacheNotices
  <2>6. CacheWaitsFor(c) /\ CacheAnsweredRight(c)
    BY <2>1, <2>4, <2>5, <1>1, CacheCallsAreOpen DEF CacheWaitsFor, CacheAnsweredRight, CacheInvariant,
       CacheIsIsolated, CacheSweepsHold, CacheServed, CacheDigest
  <2>7. CacheFillFollows(c) /\ CacheFillsFollow(c)
    BY <1>6, CacheUnchangedFollows
  <2> QED
    BY <1>1, <1>2, <1>3, <2>4, <2>6, <2>7, CacheCallKeeps
<1>7. CASE /\ cacheCall[c].policy.coalesce /\ CacheGo(c, "subscribe")
           /\ fills' = [fills EXCEPT ![h] = CacheWith(@, d, c)]
           /\ fill' = [fill EXCEPT ![c].phase = "reading"]
  <2>1. CacheFillsFollow(c)
    BY <1>2, <1>7 DEF CacheFillsFollow, CacheWith, CacheInvariant, CacheTypes
  <2> QED
    BY <1>1, <1>2, <1>3, <1>4, <1>7, <2>1, CacheGoWaits, CacheCallKeeps
<1> QED
  BY <1>5, <1>6, <1>7 DEF CacheJoin

LEMMA CacheSubscribeKeeps ==
    ASSUME CacheInvariant, NEW c \in CacheCalls, CacheSubscribe(c)
    PROVE  CacheInvariant'
<1>1. cacheCall[c].at \notin {"idle", "done"}
  BY DEF CacheSubscribe
<1>2. /\ CacheOpened(c) /\ DOMAIN cacheCall = CacheCalls /\ DOMAIN cacheCall[c] = CacheFields
      /\ cacheCall[c].leader = c \/ CacheLeads(cacheCall[c].leader)
      /\ cacheCall[c].leader \in CacheCalls
  BY <1>1, CacheCallsAreOpen
<1>3. PICK n \in BOOLEAN : n = fill[cacheCall[c].leader].notified
  BY <1>2 DEF CacheInvariant, CacheTypes
<1>4. cacheCall' = [cacheCall EXCEPT ![c].at = "check", ![c].seen = n]
  BY <1>3 DEF CacheSubscribe
<1>5. /\ CacheGoesOn(c) /\ cacheCall'[c].leader = cacheCall[c].leader /\ cacheCall'[c].at = "check"
      /\ cacheCall'[c].answer = cacheCall[c].answer /\ cacheCall'[c].seen = n
  BY <1>2, <1>4 DEF CacheGoesOn, CacheOthersStay, CacheFields
<1>6. CacheWaitsFor(c)
  BY <1>2, <1>3, <1>5 DEF CacheWaitsFor
<1>7. CacheAnsweredRight(c)
  BY <1>5 DEF CacheAnsweredRight, CacheInvariant, CacheIsIsolated, CacheSweepsHold, CacheServed, CacheDigest
<1>8. CacheFillFollows(c) /\ CacheFillsFollow(c) /\ CacheEntriesFollow
  BY CacheUnchangedFollows DEF CacheSubscribe
<1> QED
  BY <1>1, <1>2, <1>5, <1>6, <1>7, <1>8, CacheCallKeeps DEF CacheSubscribe

LEMMA CacheCheckKeeps ==
    ASSUME CacheInvariant, NEW c \in CacheCalls, CacheCheck(c)
    PROVE  CacheInvariant'
<1>1. cacheCall[c].at \notin {"idle", "done"}
  BY DEF CacheCheck
<1>2. /\ CacheOpened(c) /\ DOMAIN cacheCall = CacheCalls /\ DOMAIN cacheCall[c] = CacheFields
      /\ cacheCall[c].leader = c \/ CacheLeads(cacheCall[c].leader)
      /\ cacheCall[c].leader \in CacheCalls /\ cacheCall[c].seen \in BOOLEAN
      /\ cacheCall[c].seen => fill[cacheCall[c].leader].notified
  BY <1>1, CacheCallsAreOpen
<1>3. PICK b \in CacheCalls : b = cacheCall[c].leader
  BY <1>2
<1>4. CacheFillFollows(c) /\ CacheFillsFollow(c) /\ CacheEntriesFollow
      /\ UNCHANGED <<sweep, sequence, events, swept>>
  BY CacheUnchangedFollows DEF CacheCheck
<1>5. CASE fill[b].result = CacheNone
  BY <1>3, <1>5, <1>2, <1>1, <1>4, CacheGoWaits, CacheCallKeeps DEF CacheCheck, CacheInvariant,
     CacheNotices
<1>6. CASE fill[b].result \notin {CacheNone, "ok"}
  <2>1. CacheAnswer(c, [kind |-> fill[b].result])
    BY <1>3, <1>6 DEF CacheCheck
  <2>2. fill[b].result # "served"
    BY <1>6 DEF CacheInvariant, CacheTypes, CacheResults, CacheNone
  <2>3. CacheGoesOn(c) /\ CacheWaitsFor(c) /\ cacheCall'[c].answer = [kind |-> fill[b].result]
    BY <1>1, <2>1, CacheAnswerWaits
  <2>4. CacheAnsweredRight(c)
    BY <2>2, <2>3 DEF CacheAnsweredRight, CacheServed
  <2> QED
    BY <1>1, <1>2, <1>4, <2>3, <2>4, CacheCallKeeps
<1>7. CASE fill[b].result = "ok"
  <2>1. cacheCall' = [cacheCall EXCEPT ![c].at = "lookup", ![c].final = TRUE]
    BY <1>3, <1>7 DEF CacheCheck, CacheNone
  <2>2. /\ CacheGoesOn(c) /\ cacheCall'[c].leader = cacheCall[c].leader /\ cacheCall'[c].at = "lookup"
        /\ cacheCall'[c].answer = cacheCall[c].answer /\ cacheCall'[c].seen = cacheCall[c].seen
        /\ cacheCall'[c].final = TRUE
    BY <1>2, <2>1 DEF CacheGoesOn, CacheOthersStay, CacheFields
  <2>3. CacheWaitsFor(c)
    BY <1>2, <2>2 DEF CacheWaitsFor
  <2>4. CacheAnsweredRight(c)
    BY <2>2 DEF CacheAnsweredRight, CacheInvariant, CacheIsIsolated, CacheSweepsHold, CacheServed, CacheDigest
  <2> QED
    BY <1>1, <1>2, <1>4, <2>2, <2>3, <2>4, CacheCallKeeps
<1> QED
  BY <1>5, <1>6, <1>7

LEMMA CacheWakeKeeps ==
    ASSUME CacheInvariant, NEW c \in CacheCalls, CacheWake(c)
    PROVE  CacheInvariant'
  BY CacheUnchangedFollows, CacheCallsAreOpen, CacheGoWaits, CacheCallKeeps DEF CacheWake

\* A call that begins is refused for its key or goes to look its key up.
LEMMA CacheBeginKeeps ==
    ASSUME CacheInvariant, NEW c \in CacheCalls, CacheBegin(c)
    PROVE  CacheInvariant'
<1>1. PICK h \in CacheHosts, p \in CachePolicies, i \in CacheInputs :
        cacheCall' = [cacheCall EXCEPT ![c] =
            IF CacheKeyError(p, i) # CacheNone
            THEN [at |-> "done", answer |-> [kind |-> CacheKeyError(p, i)]]
            ELSE [at |-> "lookup", host |-> h, policy |-> p, input |-> i,
                  before |-> events, leader |-> c, seen |-> FALSE, final |-> FALSE,
                  answer |-> [kind |-> CacheNone]]]
  BY DEF CacheBegin
<1>2. PICK new : /\ cacheCall' = [cacheCall EXCEPT ![c] = new]
                 /\ \/ /\ new.at = "done" /\ ~(new.answer.kind = "served")
                       /\ DOMAIN new = {"at", "answer"}
                    \/ /\ DOMAIN new = CacheFields /\ new.at = "lookup" /\ new.host \in CacheHosts
                       /\ new.leader = c /\ new.seen = FALSE /\ new.before = events
                       /\ ~(new.answer.kind = "served")
  <2>1. CASE CacheKeyError(p, i) # CacheNone
    <3> DEFINE new == [at |-> "done", answer |-> [kind |-> CacheKeyError(p, i)]]
    <3>1. CacheKeyError(p, i) # "served"
      BY DEF CacheKeyError, CacheNone
    <3>2. new.at = "done" /\ ~(new.answer.kind = "served")
      BY <3>1
    <3>3. DOMAIN new = {"at", "answer"}
      OBVIOUS
    <3>4. cacheCall' = [cacheCall EXCEPT ![c] = new]
      BY <1>1, <2>1
    <3> HIDE DEF new
    <3> QED
      BY <3>2, <3>3, <3>4
  <2>2. CASE CacheKeyError(p, i) = CacheNone
    <3> DEFINE new == [at |-> "lookup", host |-> h, policy |-> p, input |-> i,
                       before |-> events, leader |-> c, seen |-> FALSE, final |-> FALSE,
                       answer |-> [kind |-> CacheNone]]
    <3>1. /\ DOMAIN new = CacheFields /\ new.at = "lookup" /\ new.host \in CacheHosts
          /\ new.leader = c /\ new.seen = FALSE /\ new.before = events
          /\ ~(new.answer.kind = "served")
      BY DEF CacheFields, CacheNone
    <3>2. cacheCall' = [cacheCall EXCEPT ![c] = new]
      BY <1>1, <2>2
    <3> HIDE DEF new
    <3> QED
      BY <3>1, <3>2
  <2> QED
    BY <2>1, <2>2
<1>3. /\ ~CacheOpened(c) /\ fill[c].phase = "idle"
      /\ UNCHANGED <<cacheNow, entries, fills, fill, sweep, sequence, replay, events, swept>>
  BY DEF CacheBegin, CacheOpened, CacheInvariant, CacheTypes
<1>4. /\ CacheOthersStay(c) /\ cacheCall'[c] = new /\ ~CacheServed(c)'
  BY <1>2 DEF CacheOthersStay, CacheServed, CacheInvariant, CacheTypes
<1>5. /\ \A b \in CacheCalls : b # c => (CacheOpened(b)' <=> CacheOpened(b))
      /\ \A b \in CacheCalls : b # c => (CacheServed(b)' <=> CacheServed(b))
  BY <1>3, <1>4 DEF CacheOthersStay, CacheOpened, CacheServed
<1>6. CacheOpened(c)' \/ (cacheCall'[c].at = "done" /\ DOMAIN cacheCall'[c] = {"at", "answer"})
  <2>1. events' = events
    BY <1>3
  <2>2. ASSUME DOMAIN new = CacheFields, new.at = "lookup", new.host \in CacheHosts,
               new.leader = c, new.seen = FALSE, new.before = events
        PROVE  CacheOpened(c)'
    BY <2>2, <1>4, <2>1 DEF CacheOpened
  <2> QED
    BY <2>2, <1>2, <1>4
<1>7. CacheOpened(c)' => cacheCall'[c].leader = c /\ cacheCall'[c].seen = FALSE /\ cacheCall'[c].at = "lookup"
  BY <1>2, <1>4 DEF CacheOpened, CacheFields
<1>8. CacheTypes'
  BY <1>3, <1>4, <1>5, <1>6 DEF CacheTypes, CacheInvariant, CacheOthersStay
<1>9. CacheEntriesHold' /\ CacheSweepsCover'
  BY <1>3 DEF CacheInvariant, CacheEntriesHold, CacheSweepsCover, CacheOver
<1>10. CacheFillsAreLed'
  <2>1. ASSUME NEW b, b \in CacheCalls, CacheLeads(b) PROVE CacheLeads(b)'
    BY <2>1, <1>3, <1>4, <1>5 DEF CacheLeads, CacheOthersStay
  <2>2. \A h1 \in CacheHosts : \A d \in DOMAIN fills'[h1] :
          fills'[h1][d] \in CacheCalls /\ CacheLeads(fills[h1][d])'
    BY <1>3, <2>1 DEF CacheInvariant, CacheFillsAreLed
  <2>3. ASSUME NEW b \in CacheCalls, CacheOpened(b)'
        PROVE  cacheCall'[b].leader = b \/ CacheLeads(cacheCall[b].leader)'
    BY <2>3, <1>7, <1>4, <1>5, <2>1 DEF CacheOthersStay, CacheOpened, CacheInvariant,
       CacheFillsAreLed, CacheLeads
  <2> QED
    BY <2>2, <2>3 DEF CacheFillsAreLed
<1>11. CacheNotices'
  BY <1>3, <1>4, <1>5, <1>6, <1>7 DEF CacheOthersStay, CacheNotices, CacheInvariant
<1>12. CacheIsIsolated' /\ CacheSweepsHold'
  BY <1>4, <1>5 DEF CacheInvariant, CacheIsIsolated, CacheSweepsHold, CacheOthersStay, CacheStamp, CacheDigest
<1> QED
  BY <1>8, <1>9, <1>10, <1>11, <1>12 DEF CacheInvariant

-----------------------------------------------------------------------------
(* The steps of a fill leave the calls alone.                              *)

\* What a step of the fill of call c may do to it.
CacheFillMoves(c) ==
    /\ UNCHANGED <<cacheCall, sweep, sequence, events, swept>>
    /\ DOMAIN fill' = CacheCalls /\ \A b \in CacheCalls : b # c => fill'[b] = fill[b]
    /\ DOMAIN fill'[c] = {"phase", "result", "notified"}
    /\ fill'[c].phase \in CachePhases \ {"idle"} /\ fill'[c].result \in CacheResults
    /\ fill'[c].notified \in BOOLEAN
    /\ fill[c].notified => fill'[c].notified
    /\ fill'[c].notified => fill'[c].result # CacheNone
    /\ fill'[c].phase \in {"notified", "ended"} => fill'[c].notified
    /\ fill'[c].phase = "settled" => fill'[c].result # CacheNone

LEMMA CacheFillKeeps ==
    ASSUME CacheInvariant, NEW c \in CacheCalls, CacheOpened(c), CacheFillMoves(c),
           CacheEntriesHold', DOMAIN entries' = CacheHosts, DOMAIN fills' = CacheHosts,
           \A h \in CacheHosts : \A d \in DOMAIN fills'[h] :
              d \in DOMAIN fills[h] /\ fills'[h][d] = fills[h][d]
    PROVE  CacheInvariant'
<1>1. \A b : /\ CacheOpened(b)' <=> CacheOpened(b)
             /\ CacheLeads(b)' <=> CacheLeads(b)
             /\ CacheServed(b)' <=> CacheServed(b)
  BY DEF CacheFillMoves, CacheOpened, CacheLeads, CacheServed
<1>2. CacheTypes'
  BY <1>1 DEF CacheInvariant, CacheTypes, CacheFillMoves
<1>3. CacheSweepsCover'
  BY DEF CacheInvariant, CacheSweepsCover, CacheFillMoves, CacheOver
<1>4. CacheFillsAreLed'
  BY <1>1 DEF CacheInvariant, CacheFillsAreLed, CacheFillMoves
<1>5. CacheNotices'
  BY <1>1 DEF CacheFillMoves, CacheOpened, CacheInvariant, CacheNotices
<1>6. CacheIsIsolated' /\ CacheSweepsHold'
  BY <1>1 DEF CacheInvariant, CacheIsIsolated, CacheSweepsHold, CacheFillMoves, CacheStamp, CacheDigest
<1> QED
  BY <1>2, <1>3, <1>4, <1>5, <1>6 DEF CacheInvariant

LEMMA CacheFillFacts ==
    ASSUME CacheInvariant, NEW c \in CacheCalls, fill[c].phase # "idle"
    PROVE  /\ CacheOpened(c) /\ DOMAIN fill = CacheCalls /\ DOMAIN fills = CacheHosts
           /\ DOMAIN entries = CacheHosts /\ cacheCall[c].host \in CacheHosts
           /\ DOMAIN fill[c] = {"phase", "result", "notified"}
           /\ fill[c].result \in CacheResults /\ fill[c].notified \in BOOLEAN
           /\ fill[c].notified => fill[c].result # CacheNone
           /\ fill[c].phase = "notified" => fill[c].notified
           /\ fill[c].phase = "settled" => fill[c].result # CacheNone
  BY DEF CacheInvariant, CacheTypes, CacheNotices, CacheOpened

LEMMA CacheSameEntries ==
    ASSUME CacheInvariant, UNCHANGED <<entries, sweep, events>>
    PROVE  CacheEntriesHold' /\ DOMAIN entries' = CacheHosts
  BY DEF CacheInvariant, CacheEntriesHold, CacheTypes, CacheOver

LEMMA CacheFillReadKeeps ==
    ASSUME CacheInvariant, NEW c \in CacheCalls, CacheFillRead(c)
    PROVE  CacheInvariant'
  BY CacheFillFacts, CacheFillKeeps, CacheSameEntries DEF CacheFillRead, CacheFillMoves,
     CachePhases

LEMMA CacheFillFailKeeps ==
    ASSUME CacheInvariant, NEW c \in CacheCalls, CacheFillFail(c)
    PROVE  CacheInvariant'
  BY CacheFillFacts, CacheFillKeeps, CacheSameEntries DEF CacheFillFail, CacheFillMoves,
     CachePhases, CacheResults, CacheNone

LEMMA CacheFillNotifyKeeps ==
    ASSUME CacheInvariant, NEW c \in CacheCalls, CacheFillNotify(c)
    PROVE  CacheInvariant'
  BY CacheFillFacts, CacheFillKeeps, CacheSameEntries DEF CacheFillNotify, CacheFillMoves,
     CachePhases

LEMMA CacheFillEndKeeps ==
    ASSUME CacheInvariant, NEW c \in CacheCalls, CacheFillEnd(c)
    PROVE  CacheInvariant'
  BY CacheFillFacts, CacheFillKeeps, CacheSameEntries DEF CacheFillEnd, CacheFillMoves,
     CachePhases, CacheWithout

\* What is put in a store is its key's and carries the sweeps the store has had.
LEMMA CacheFillInsertKeeps ==
    ASSUME CacheInvariant, NEW c \in CacheCalls, CacheFillInsert(c)
    PROVE  CacheInvariant'
<1>1. fill[c].phase = "inserting"
  BY DEF CacheFillInsert
<1> DEFINE h == cacheCall[c].host
           d == CacheDigest(c)
           put == [entries EXCEPT ![h] = CacheWith(@, d, CacheRecord(c))]
<1>2. PICK error \in CacheResults \ {CacheNone} : error = CacheInsertError(c)
  BY DEF CacheInsertError, CacheResults, CacheNone
<1>2a. /\ fill' = [fill EXCEPT ![c].phase = "settled", ![c].result = error]
       /\ entries' = entries \/ entries' = put
  BY <1>2 DEF CacheFillInsert
<1>3. CacheFillMoves(c)
  BY <1>1, <1>2a, CacheFillFacts DEF CacheFillInsert, CacheFillMoves, CachePhases
<1>4. CASE entries' = entries
  BY <1>1, <1>3, <1>4, CacheFillFacts, CacheFillKeeps, CacheSameEntries DEF CacheFillInsert
<1>5. CASE entries' = put
  <2>1. h \in CacheHosts /\ swept[h] \in Nat
    BY <1>1, CacheFillFacts DEF CacheInvariant, CacheTypes
  <2>2. d[9] = cacheCall[c].input.owner
    BY DEF CacheDigest, CacheKeyDigest
  <2>3. PICK record : /\ record = CacheRecord(c) /\ record.owner = d[9] /\ record.putAfter = swept[h]
    <3>1. CacheRecord(c).owner = cacheCall[c].input.owner /\ CacheRecord(c).putAfter = swept[h]
      BY DEF CacheRecord
    <3> QED
      BY <2>2, <3>1, Zenon
  <2>4. entries' = [entries EXCEPT ![h] = CacheWith(@, d, record)]
    BY <1>5, <2>3
  <2>5. DOMAIN entries' = CacheHosts /\ DOMAIN entries = CacheHosts
    BY <2>4 DEF CacheInvariant, CacheTypes
  <2>6. \A g \in CacheHosts : \A x \in DOMAIN entries'[g] :
            \/ x \in DOMAIN entries[g] /\ entries'[g][x] = entries[g][x]
            \/ g = h /\ x = d /\ entries'[g][x] = record
    <3> HIDE DEF h, d
    <3> QED
      BY <2>4, <2>5 DEF CacheWith
  <2>7. \A e \in events \cup {sweep.event} : CacheOver(e, h) => e.sequence <= swept[h]
    BY <2>1 DEF CacheInvariant, CacheSweepsCover
  <2>8. UNCHANGED <<events, sweep>>
    BY DEF CacheFillInsert
  <2>9. CacheEntriesHold'
    <3> HIDE DEF h, d
    <3> SUFFICES ASSUME NEW g \in CacheHosts, NEW x \in DOMAIN entries'[g]
                 PROVE  /\ entries'[g][x].owner = x[9] /\ entries'[g][x].putAfter \in Nat
                        /\ \A e \in events \cup {sweep.event} :
                              CacheOver(e, g) /\ CacheConcerns(e, x, entries'[g][x]) =>
                                  entries'[g][x].putAfter >= e.sequence
      BY <2>8 DEF CacheEntriesHold, CacheOver
    <3>1. CASE x \in DOMAIN entries[g] /\ entries'[g][x] = entries[g][x]
      BY <3>1 DEF CacheInvariant, CacheEntriesHold
    <3>2. CASE g = h /\ x = d /\ entries'[g][x] = record
      <4>1. \A e \in events \cup {sweep.event} : e.sequence \in Nat
        BY DEF CacheInvariant, CacheTypes
      <4> QED
        BY <2>1, <2>3, <2>7, <3>2, <4>1
    <3> QED
      BY <2>6, <3>1, <3>2
  <2> QED
    BY <1>1, <1>3, <2>5, <2>9, CacheFillFacts, CacheFillKeeps DEF CacheFillInsert
<1> QED
  BY <1>2a, <1>4, <1>5

-----------------------------------------------------------------------------
(* Sweeps and time.                                                        *)

\* A step that leaves calls and fills alone and whose sweeps cover what they should.
LEMMA CacheSweepKeeps ==
    ASSUME CacheInvariant, UNCHANGED <<cacheCall, fill, fills>>,
           events \subseteq events', sequence' \in Nat, swept' \in [CacheHosts -> Nat],
           DOMAIN sweep' = {"event", "todo"}, sweep'.todo \subseteq CacheHosts,
           \A e \in events' \cup {sweep'.event} : e.sequence \in 0..sequence',
           DOMAIN entries' = CacheHosts, CacheEntriesHold', CacheSweepsCover'
    PROVE  CacheInvariant'
<1>1. \A b \in CacheCalls : CacheOpened(b) => CacheOpened(b)'
  BY DEF CacheOpened, CacheInvariant, CacheTypes
<1>2. \A b \in CacheCalls : CacheOpened(b)' => CacheOpened(b)
  BY DEF CacheOpened, CacheInvariant, CacheTypes, CacheFields
<1>3. \A b : CacheServed(b)' <=> CacheServed(b)
  BY DEF CacheServed
<1>4. CacheTypes'
  BY <1>1, <1>3 DEF CacheInvariant, CacheTypes
<1>5. \A b \in CacheCalls : CacheLeads(b) => CacheLeads(b)'
  BY <1>1 DEF CacheLeads
<1>6. CacheFillsAreLed'
  <2>1. \A h \in CacheHosts : \A d \in DOMAIN fills[h] :
          fills[h][d] \in CacheCalls /\ CacheLeads(fills[h][d])'
    BY <1>5 DEF CacheInvariant, CacheFillsAreLed
  <2>2. ASSUME NEW b \in CacheCalls, CacheOpened(b)'
        PROVE  cacheCall[b].leader = b \/ CacheLeads(cacheCall[b].leader)'
    BY <2>2, <1>2, <1>5 DEF CacheOpened, CacheInvariant, CacheFillsAreLed, CacheLeads
  <2> QED
    BY <2>1, <2>2 DEF CacheFillsAreLed
<1>7. CacheNotices'
  BY <1>2 DEF CacheInvariant, CacheNotices
<1>8. CacheIsIsolated' /\ CacheSweepsHold'
  BY <1>3 DEF CacheInvariant, CacheIsIsolated, CacheSweepsHold, CacheStamp, CacheDigest
<1> QED
  BY <1>4, <1>6, <1>7, <1>8 DEF CacheInvariant

LEMMA CacheTickKeeps ==
    ASSUME CacheInvariant, CacheTick
    PROVE  CacheInvariant'
  BY CacheSameEntries, CacheSweepKeeps DEF CacheTick, CacheInvariant, CacheTypes, CacheSweepsCover, CacheOver

\* A step that leaves the stores alone: what is over after it was over before.
LEMMA CacheOverKeeps ==
    ASSUME CacheInvariant, UNCHANGED <<cacheCall, fill, fills, entries, swept>>,
           events \subseteq events', sequence' \in Nat, sequence <= sequence',
           DOMAIN sweep' = {"event", "todo"}, sweep'.todo \subseteq CacheHosts,
           \A e \in events' \cup {sweep'.event} : e.sequence \in 0..sequence',
           sweep' # NoSweep => sweep'.event.sequence = sequence',
           \A e \in events' \cup {sweep'.event}, h \in CacheHosts :
               CacheOver(e, h)' => CacheOver(e, h) /\ e \in events \cup {sweep.event}
    PROVE  CacheInvariant'
<1>1. CacheEntriesHold'
  BY DEF CacheInvariant, CacheEntriesHold
<1>2. CacheSweepsCover'
  BY DEF CacheInvariant, CacheSweepsCover, CacheTypes
<1> QED
  BY <1>1, <1>2, CacheSweepKeeps DEF CacheInvariant, CacheTypes

LEMMA CacheInvalidateKeeps ==
    ASSUME CacheInvariant, CacheInvalidateTags \/ CacheInvalidateKey
    PROVE  CacheInvariant'
<1>1. PICK p, tags, keys : CacheSweepBegins(p, tags, keys)
  BY DEF CacheInvalidateTags, CacheInvalidateKey
<1>2. PICK e : e.sequence = sequence + 1 /\ sweep' = [event |-> e, todo |-> CacheHosts]
  BY <1>1 DEF CacheSweepBegins
<1>3. /\ sequence' = sequence + 1 /\ sequence \in Nat
      /\ UNCHANGED <<cacheCall, fill, fills, entries, swept, events>>
  BY <1>1 DEF CacheSweepBegins, CacheInvariant, CacheTypes
<1>4. DOMAIN sweep' = {"event", "todo"} /\ sweep'.todo = CacheHosts /\ sweep'.event = e
  BY <1>2
<1>5. \A x \in events : x.sequence \in 0..sequence
  BY DEF CacheInvariant, CacheTypes
<1>6. \A x \in events' \cup {sweep'.event} : x.sequence \in 0..sequence'
  BY <1>2, <1>3, <1>4, <1>5
<1>7. \A x \in events' \cup {sweep'.event}, h \in CacheHosts :
        CacheOver(x, h)' => CacheOver(x, h) /\ x \in events \cup {sweep.event}
  BY <1>3, <1>4 DEF CacheOver
<1> QED
  BY <1>2, <1>3, <1>4, <1>6, <1>7, CacheOverKeeps

LEMMA CacheAcknowledgeKeeps ==
    ASSUME CacheInvariant, CacheAcknowledge
    PROVE  CacheInvariant'
<1>1. /\ sweep # NoSweep /\ sweep.todo = {} /\ events' = events \cup {sweep.event} /\ sweep' = NoSweep
      /\ UNCHANGED <<cacheCall, fill, fills, entries, swept, sequence>>
  BY DEF CacheAcknowledge
<1>2. /\ sequence \in Nat /\ \A e \in events \cup {sweep.event} : e.sequence \in 0..sequence
  BY DEF CacheInvariant, CacheTypes
<1>3. /\ DOMAIN sweep' = {"event", "todo"} /\ sweep'.todo = {} /\ sweep'.event.sequence = 0
  BY <1>1 DEF NoSweep
<1>4. \A e \in events' \cup {sweep'.event} : e.sequence \in 0..sequence'
  BY <1>1, <1>2, <1>3
<1>5. \A e \in events' \cup {sweep'.event}, h \in CacheHosts :
        CacheOver(e, h)' => CacheOver(e, h) /\ e \in events \cup {sweep.event}
  BY <1>1 DEF CacheOver
<1> QED
  BY <1>1, <1>2, <1>3, <1>4, <1>5, CacheOverKeeps

LEMMA CacheSweepHostKeeps ==
    ASSUME CacheInvariant, NEW h \in CacheHosts, CacheSweepHost(h)
    PROVE  CacheInvariant'
<1>1. /\ h \in sweep.todo /\ sweep # NoSweep /\ sweep' = [sweep EXCEPT !.todo = @ \ {h}]
      /\ swept' = [swept EXCEPT ![h] = sweep.event.sequence]
      /\ UNCHANGED <<cacheCall, fill, fills, sequence, events>>
  BY DEF CacheSweepHost, NoSweep
<1>2. /\ sequence \in Nat /\ \A e \in events \cup {sweep.event} : e.sequence \in 0..sequence
      /\ DOMAIN sweep = {"event", "todo"} /\ sweep.todo \subseteq CacheHosts
      /\ swept \in [CacheHosts -> Nat] /\ DOMAIN entries = CacheHosts
  BY DEF CacheInvariant, CacheTypes
<1>3. /\ DOMAIN sweep' = {"event", "todo"} /\ sweep'.todo = sweep.todo \ {h} /\ sweep'.event = sweep.event
  BY <1>1, <1>2
<1>4. sweep.event.sequence = sequence
  BY <1>1 DEF CacheInvariant, CacheSweepsCover
<1>5. /\ DOMAIN entries' = CacheHosts
      /\ \A g \in CacheHosts : \A d \in DOMAIN entries'[g] :
            /\ d \in DOMAIN entries[g] /\ entries'[g][d] = entries[g][d]
            /\ g = h => CacheSurvives(d, entries[g][d])
  BY <1>2 DEF CacheSweepHost
<1>6. CacheEntriesHold'
  <2> SUFFICES ASSUME NEW g \in CacheHosts, NEW d \in DOMAIN entries'[g]
               PROVE  /\ entries'[g][d].owner = d[9] /\ entries'[g][d].putAfter \in Nat
                      /\ \A e \in events \cup {sweep.event} :
                            CacheOver(e, g)' /\ CacheConcerns(e, d, entries'[g][d]) =>
                                entries'[g][d].putAfter >= e.sequence
    BY <1>1, <1>3 DEF CacheEntriesHold
  <2>1. /\ entries[g][d].owner = d[9] /\ entries[g][d].putAfter \in Nat /\ entries'[g][d] = entries[g][d]
        /\ \A e \in events \cup {sweep.event} :
              CacheOver(e, g) /\ CacheConcerns(e, d, entries[g][d]) => entries[g][d].putAfter >= e.sequence
    BY <1>5 DEF CacheInvariant, CacheEntriesHold
  <2>2. ASSUME NEW e \in events \cup {sweep.event}, CacheOver(e, g)', CacheConcerns(e, d, entries[g][d])
        PROVE  CacheOver(e, g)
    <3>1. CASE g = h /\ e = sweep.event
      BY <1>5, <2>2, <3>1 DEF CacheSurvives, CacheConcerns
    <3>2. CASE ~(g = h /\ e = sweep.event)
      BY <1>1, <1>3, <2>2, <3>2 DEF CacheOver
    <3> QED
      BY <3>1, <3>2
  <2> QED
    BY <2>1, <2>2
<1>7. CacheSweepsCover'
  <2> SUFFICES ASSUME NEW g \in CacheHosts
               PROVE  /\ swept'[g] <= sequence
                      /\ \A e \in events \cup {sweep.event} : CacheOver(e, g)' => e.sequence <= swept'[g]
    BY <1>1, <1>3, <1>4 DEF CacheSweepsCover
  <2>1. CASE g = h
    BY <1>1, <1>2, <1>4, <2>1
  <2>2. CASE g # h
    <3>1. swept'[g] = swept[g] /\ \A e : CacheOver(e, g)' => CacheOver(e, g)
      BY <1>1, <1>2, <1>3, <2>2 DEF CacheOver
    <3> QED
      BY <3>1 DEF CacheInvariant, CacheSweepsCover
  <2> QED
    BY <2>1, <2>2
<1>8. swept' \in [CacheHosts -> Nat]
  BY <1>1, <1>2, <1>4
<1> QED
  BY <1>1, <1>2, <1>3, <1>5, <1>6, <1>7, <1>8, CacheSweepKeeps

LEMMA CacheStutterKeeps ==
    ASSUME CacheInvariant, UNCHANGED cacheVars
    PROVE  CacheInvariant'
  BY DEF cacheVars, CacheOver, CacheInvariant, CacheTypes, CacheEntriesHold, CacheSweepsCover, CacheFillsAreLed,
     CacheNotices, CacheIsIsolated, CacheSweepsHold, CacheDigest, CacheOpened, CacheLeads, CacheServed

\* Whatever calls, fills and sweeps do in whatever order, no call is answered
\* with another partition's value or with one that an earlier invalidation of its
\* key, or of a tag in its namespace and epoch, took from the store, and no waiter
\* sleeps through the end of its fill (get_or_fill, lookup, insert, invalidate_tags
\* and invalidate_key), for any hosts, calls, policies, tags, inputs and capacity.
THEOREM CacheHolds == CacheSpec => []CacheGuarantees
<1>1. CacheInvariant /\ [CacheNext]_cacheVars => CacheInvariant'
  <2> SUFFICES ASSUME CacheInvariant, [CacheNext]_cacheVars PROVE CacheInvariant'
    OBVIOUS
  <2>1. ASSUME NEW c \in CacheCalls, CacheCallStep(c) PROVE CacheInvariant'
    BY <2>1, CacheBeginKeeps, CacheLookupKeeps, CacheRemoveKeeps, CacheGiveUpKeeps, CacheJoinKeeps,
       CacheSubscribeKeeps, CacheCheckKeeps, CacheWakeKeeps DEF CacheCallStep
  <2>2. ASSUME NEW c \in CacheCalls, CacheFillStep(c) PROVE CacheInvariant'
    BY <2>2, CacheFillReadKeeps, CacheFillFailKeeps, CacheFillInsertKeeps, CacheFillNotifyKeeps,
       CacheFillEndKeeps DEF CacheFillStep
  <2>3. ASSUME NEW h \in CacheHosts, CacheSweepHost(h) PROVE CacheInvariant'
    BY <2>3, CacheSweepHostKeeps
  <2>4. CASE CacheInvalidateTags \/ CacheInvalidateKey \/ CacheAcknowledge \/ CacheTick
    BY <2>4, CacheTickKeeps, CacheInvalidateKeeps, CacheAcknowledgeKeeps
  <2>5. CASE UNCHANGED cacheVars
    BY <2>5, CacheStutterKeeps
  <2> QED
    BY <2>1, <2>2, <2>3, <2>4, <2>5 DEF CacheNext
<1> QED
  BY <1>1, CacheInitHolds, CacheInvariantSuffices, PTL DEF CacheSpec
=============================================================================
