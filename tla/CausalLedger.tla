------------------------------ MODULE CausalLedger ------------------------------
(***************************************************************************)
(* What the causal transaction kernel promises a client, without queues,   *)
(* phases, projections or reactive publication: one append-only history    *)
(* and one chain of transactions.  A transaction either appends its whole  *)
(* batch or nothing, transaction ids only grow, and every transaction      *)
(* starts where the history stood.                                         *)
(***************************************************************************)
EXTENDS Naturals, Sequences

CONSTANTS Events, Histories, MaxEventsPerTransaction, MaxTransactionId

VARIABLES
    history,   \* the published events
    chain      \* one entry per transaction, in the order they were decided

lvars == <<history, chain>>

Entry(id, from, to) == [transaction |-> id, from |-> from, to |-> to]

\* Ids are spent in order; a transaction that never ran may have spent one.
Later(id) == \A i \in 1..Len(chain) : chain[i].transaction < id

Batches == UNION {[1..n -> Events] : n \in 1..MaxEventsPerTransaction}

LInit == history \in Histories /\ chain = << >>

LCommit(id, batch) ==
    /\ Later(id)
    /\ history' = history \o batch
    /\ chain' = Append(chain, Entry(id, Len(history), Len(history) + Len(batch)))

LReject(id) ==
    /\ Later(id)
    /\ chain' = Append(chain, Entry(id, Len(history), Len(history)))
    /\ UNCHANGED history

LNext ==
    \E id \in 1..MaxTransactionId :
        (\E batch \in Batches : LCommit(id, batch)) \/ LReject(id)

LSpec == LInit /\ [][LNext]_lvars
=============================================================================
