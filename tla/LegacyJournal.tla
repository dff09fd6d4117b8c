----------------------------- MODULE LegacyJournal -----------------------------
(***************************************************************************)
(* The legacy seam of pliego-hyphae: SyncState, push_pending over a        *)
(* transport that takes one event at a time, and the browser's             *)
(* append_remote, several of which may be awaited at once.  The journal is *)
(* external; requests and answers are lost, and the seam is documented not *)
(* to make a lost acknowledgement idempotent: an event may land twice.     *)
(***************************************************************************)
EXTENDS Naturals, Sequences

CONSTANTS
    LegLocal,      \* the local log: events with the kind and size they have
    LegAckLimit,   \* MAX_LEGACY_ACKS
    LegFetches,    \* browser futures
    LegJournalBound   \* bound: entries of the journal

VARIABLES
    legLog,       \* how much of the local log is written
    legJournal,   \* the durable journal: a sequence of local sequence numbers
    legSync,      \* SyncState: acknowledgements in the order of the local log
    legPush,      \* push_pending: the events it still has to push
    legFetch      \* per future: append_remote

legVars == <<legLog, legJournal, legSync, legPush, legFetch>>

LegIdle == [at |-> "idle", seq |-> 0, ack |-> 0]

LegInit ==
    /\ legLog = 0 /\ legJournal = <<>> /\ legSync = <<>>
    /\ legPush = [at |-> "idle", todo |-> <<>>, ack |-> 0]
    /\ legFetch = [f \in LegFetches |-> LegIdle]

LegWrite ==
    /\ legLog < Len(LegLocal) /\ legLog' = legLog + 1
    /\ UNCHANGED <<legJournal, legSync, legPush, legFetch>>

\* validate_kind and the payload bound; push_pending sends the kind as it is,
\* append_remote prefixes one that lacks the prefix.
LegPushable(seq) == LegLocal[seq].kind = "app" /\ LegLocal[seq].fits
LegFetchable(seq) == LegLocal[seq].kind \in {"app", "bare"} /\ LegLocal[seq].fits

\* The journal takes an event; the acknowledgement is its place there.
LegLands(seq) ==
    /\ Len(legJournal) < LegJournalBound
    /\ legJournal' = Append(legJournal, seq)

\* Mutant: any later acknowledgement is recorded behind the last one.
LegConfirmedAnyway(seq, ack) ==
    IF seq <= Len(legSync) \/ Len(legSync) >= LegAckLimit THEN legSync ELSE Append(legSync, ack)

\* try_confirm: a repeated one must agree, the next one is recorded within the
\* limit, a gap is refused; the state that follows.
LegConfirmed(seq, ack) ==
    IF seq = Len(legSync) + 1 /\ Len(legSync) < LegAckLimit THEN Append(legSync, ack) ELSE legSync

LegConfirms(seq, ack) ==
    \/ seq <= Len(legSync) /\ legSync[seq] = ack
    \/ seq = Len(legSync) + 1 /\ Len(legSync) < LegAckLimit

-----------------------------------------------------------------------------
(* push_pending.                                                           *)

\* The tail is copied; what is written later waits for the next call.
LegPushStart ==
    /\ legPush.at = "idle" /\ legLog > Len(legSync)
    /\ legPush' = [at |-> "next", ack |-> 0,
                   todo |-> [i \in 1..(legLog - Len(legSync)) |-> Len(legSync) + i]]
    /\ UNCHANGED <<legLog, legJournal, legSync, legFetch>>

LegPushEnds == legPush' = [at |-> "idle", todo |-> <<>>, ack |-> 0]

\* One event is sent: it lands and is acknowledged, lands and the answer is
\* lost or malformed, or never arrives.  Any error ends the call.
LegPushOne ==
    /\ legPush.at = "next"
    /\ \/ /\ legPush.todo /= <<>> => ~LegPushable(Head(legPush.todo))
          /\ LegPushEnds /\ UNCHANGED legJournal
       \/ /\ legPush.todo /= <<>> /\ LegPushable(Head(legPush.todo))
          /\ \/ LegLands(Head(legPush.todo))
                /\ legPush' = [legPush EXCEPT !.at = "acked", !.ack = Len(legJournal')]
             \/ LegLands(Head(legPush.todo)) /\ LegPushEnds
             \/ LegPushEnds /\ UNCHANGED legJournal
    /\ UNCHANGED <<legLog, legSync, legFetch>>

LegPushConfirms ==
    /\ legPush.at = "acked"
    /\ LET seq == Head(legPush.todo)
       IN  /\ legSync' = LegConfirmed(seq, legPush.ack)
           /\ IF LegConfirms(seq, legPush.ack)
              THEN legPush' = [at |-> "next", todo |-> Tail(legPush.todo), ack |-> 0]
              ELSE LegPushEnds
    /\ UNCHANGED <<legLog, legJournal, legFetch>>

-----------------------------------------------------------------------------
(* append_remote, and confirm when its future resolves.  SyncState is      *)
(* borrowed by a running push_pending, never across an await.              *)

LegFetchStart(f) ==
    /\ legFetch[f].at = "idle"
    /\ \E seq \in 1..legLog :
          /\ LegFetchable(seq)
          /\ legFetch' = [legFetch EXCEPT ![f] = [at |-> "sent", seq |-> seq, ack |-> 0]]
    /\ UNCHANGED <<legLog, legJournal, legSync, legPush>>

LegFetchLands(f) ==
    /\ legFetch[f].at = "sent" /\ LegLands(legFetch[f].seq)
    /\ legFetch' = [legFetch EXCEPT ![f].at = "answered", ![f].ack = Len(legJournal')]
    /\ UNCHANGED <<legLog, legSync, legPush>>

\* The request or its answer is lost, too long, not successful or malformed.
LegFetchFails(f) ==
    /\ legFetch[f].at \in {"sent", "answered"}
    /\ legFetch' = [legFetch EXCEPT ![f] = LegIdle]
    /\ UNCHANGED <<legLog, legJournal, legSync, legPush>>

\* SyncState::confirm drops what try_confirm refuses.
LegFetchConfirms(f) ==
    /\ legFetch[f].at = "answered" /\ legPush.at = "idle"
    /\ legSync' = LegConfirmed(legFetch[f].seq, legFetch[f].ack)
    /\ legFetch' = [legFetch EXCEPT ![f] = LegIdle]
    /\ UNCHANGED <<legLog, legJournal, legPush>>

LegNext ==
    \/ LegWrite \/ LegPushStart \/ LegPushOne \/ LegPushConfirms
    \/ \E f \in LegFetches :
          LegFetchStart(f) \/ LegFetchLands(f) \/ LegFetchFails(f) \/ LegFetchConfirms(f)

LegSpec == LegInit /\ [][LegNext]_legVars

-----------------------------------------------------------------------------
(* Properties.                                                             *)

\* However answers are lost, repeated and reordered between a push and several
\* fetches, what counts as confirmed is durable: the acknowledgement kept for a
\* local event names a journal entry that holds this event (try_confirm).
LegConfirmedIsDurable ==
    \A seq \in DOMAIN legSync :
        legSync[seq] \in DOMAIN legJournal /\ legJournal[legSync[seq]] = seq

-----------------------------------------------------------------------------
(* What makes LegConfirmedIsDurable inductive.                             *)

LegTypes ==
    /\ legLog \in Nat /\ legJournal \in Seq(Nat) /\ legSync \in Seq(Nat)
    /\ legPush \in [at : {"idle", "next", "acked"}, todo : Seq(Nat), ack : Nat]
    /\ legFetch \in [LegFetches -> [at : {"idle", "sent", "answered"}, seq : Nat, ack : Nat]]

\* The acknowledgement in hand names an entry that holds the event it is for.
LegNames(ack, seq) == ack \in DOMAIN legJournal /\ legJournal[ack] = seq

LegAcksAreDurable ==
    /\ legPush.at = "acked" =>
          legPush.todo # <<>> /\ LegNames(legPush.ack, Head(legPush.todo))
    /\ \A f \in LegFetches :
          legFetch[f].at = "answered" => LegNames(legFetch[f].ack, legFetch[f].seq)

LegInvariant == LegTypes /\ LegAcksAreDurable /\ LegConfirmedIsDurable
=============================================================================
