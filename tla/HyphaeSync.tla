------------------------------- MODULE HyphaeSync -------------------------------
(***************************************************************************)
(* The client side of pliego-hyphae: idempotent append batches with        *)
(* retries, and the replay of pulled pages through validate, verify and    *)
(* apply.  The authority and the network are external: requests and        *)
(* answers are lost, delayed and repeated, several pages are in hand at    *)
(* once, a second authority holds another stream, and an authority may     *)
(* come back from a backup with a stream that forks from the one it served.*)
(*                                                                         *)
(* A durable hash commits to everything before it, so the hash of an entry *)
(* is the sequence of event identities up to it.                           *)
(***************************************************************************)
EXTENDS Naturals, Sequences, FiniteSets, SequencesExt, TLC

CONSTANTS
    HypAuthorities,   \* authorities the verifier accepts
    HypHome,          \* the one this client appends to
    HypLocal,         \* the local log: a sequence of client event ids
    HypForeign,       \* event ids of other clients
    HypLimits,        \* page limits a caller asks for
    HypBatchLimit,    \* MAX_BATCH_EVENTS
    HypPullLimit,     \* MAX_PULL_EVENTS
    HypWindow,        \* MAX_REPLAY_ANCHORS
    HypAttempts,      \* max_attempts of append_with_retry
    HypStreamBound,   \* bound: entries of a stream
    HypPageBound,     \* bound: pages in hand
    HypBatchBound     \* bound: batches built

\* Clients draw distinct event ids.
ASSUME HypAssumption ==
    /\ HypHome \in HypAuthorities /\ HypWindow \in Nat \ {0}
    /\ HypLocal \in Seq(Range(HypLocal)) /\ IsInjective(HypLocal)
    /\ HypForeign \cap Range(HypLocal) = {}

VARIABLES
    hypStream,   \* per authority: its stream
    hypServer,   \* the home authority: answers given, batches on the wire
    hypSend,     \* the sender: the batch it retries and how far it is
    hypPages,    \* verified pages in hand
    hyp,         \* ReplayState
    hypSink      \* what the application's reducer has been given

hypVars == <<hypStream, hypServer, hypSend, hypPages, hyp, hypSink>>

HypCursor(s) == [pos |-> Len(s), head |-> s]
HypGenesis == HypCursor(<<>>)
HypCursorValid(c) == c.pos = 0 <=> c.head = <<>>

HypInit ==
    /\ hypStream = [a \in HypAuthorities |-> <<>>]
    /\ hypServer = [answers |-> {}, wire |-> {}, rewound |-> FALSE]
    /\ hypSend = [at |-> "idle", batch |-> {}, attempts |-> 0, done |-> 0, built |-> 0]
    /\ hypPages = {}
    /\ hyp = [authority |-> {}, cursor |-> HypGenesis, snapshot |-> {},
              anchors |-> [n \in {0} |-> [head |-> <<>>, id |-> {}]]]
    /\ hypSink = <<>>

-----------------------------------------------------------------------------
(* Appending.                                                              *)

\* AppendBatch::validate: bounded, distinct, contiguous in the local log.
HypBatchValid(b) ==
    /\ Len(b.events) \in 1..HypBatchLimit /\ IsInjective(b.events) /\ HypCursorValid(b.expected)

HypBatch(n, expected, events) == [id |-> n, expected |-> expected, events |-> events]

\* The application batches what the local log holds beyond the receipts it has.
HypSubmit ==
    /\ hypSend.at = "idle" /\ ~hypServer.rewound /\ hypSend.built < HypBatchBound
    /\ \E n \in (hypSend.done + 1)..Len(HypLocal), expected \in {HypGenesis, hyp.cursor} :
          LET b == HypBatch(hypSend.built + 1, expected, SubSeq(HypLocal, hypSend.done + 1, n))
          IN /\ HypBatchValid(b)
             /\ hypSend' = [hypSend EXCEPT !.at = "retrying", !.batch = {b}, !.attempts = 0,
                                           !.built = @ + 1]
    /\ UNCHANGED <<hypStream, hypServer, hypPages, hyp, hypSink>>

\* Mutant: a retry is built anew on the cursor the client knows by then.
HypRetriedAnew(b) == HypBatch(Len(b.events) + 100, HypCursor(hypStream[HypHome]), b.events)

\* append_with_retry sends the same immutable batch.
HypRetried(b) == b

\* An attempt puts the batch on the wire; its answer may never come.
HypSendBatch ==
    /\ hypSend.at = "retrying" /\ hypSend.attempts < HypAttempts
    /\ \E b \in hypSend.batch :
          hypServer' = [hypServer EXCEPT !.wire = @ \cup
                            {IF hypSend.attempts = 0 THEN b ELSE HypRetried(b)}]
    /\ hypSend' = [hypSend EXCEPT !.attempts = @ + 1]
    /\ UNCHANGED <<hypStream, hypPages, hyp, hypSink>>

\* The authority: a batch it has answered is answered alike, one whose cursor
\* is its head is appended, any other conflicts.
HypAuthorityAppends ==
    /\ Len(hypStream[HypHome]) + HypBatchLimit <= HypStreamBound
    /\ \E b \in hypServer.wire :
          /\ \A r \in hypServer.answers : r.batch /= b.id
          /\ LET ok == b.expected = HypCursor(hypStream[HypHome])
             IN /\ hypStream' = IF ok THEN [hypStream EXCEPT ![HypHome] = @ \o b.events] ELSE hypStream
                /\ hypServer' = [hypServer EXCEPT !.answers = @ \cup
                        {[batch |-> b.id, ok |-> ok, expected |-> b.expected, events |-> b.events,
                          next |-> HypCursor(hypStream'[HypHome])]}]
    /\ UNCHANGED <<hypSend, hypPages, hyp, hypSink>>

\* AppendResponse::validate_against: the receipts continue the batch's cursor.
HypResponseValid(r, b) ==
    /\ r.batch = b.id /\ Len(r.events) = Len(b.events) /\ r.events = b.events
    /\ r.next = [pos |-> b.expected.pos + Len(b.events), head |-> b.expected.head \o b.events]

\* An answer arrives: the receipts are verified, or a conflict ends the batch.
HypAnswered ==
    /\ hypSend.at = "retrying" /\ hypSend.attempts > 0
    /\ \E b \in hypSend.batch, r \in hypServer.answers :
          /\ r.batch = b.id
          /\ \/ r.ok /\ HypResponseValid(r, b)
                /\ hypSend' = [hypSend EXCEPT !.at = "idle", !.batch = {}, !.done = @ + Len(b.events)]
             \/ ~r.ok
                /\ hypSend' = [hypSend EXCEPT !.at = "idle", !.batch = {}]
    /\ UNCHANGED <<hypStream, hypServer, hypPages, hyp, hypSink>>

\* AttemptsExhausted: the caller schedules the same batch again.
HypExhausted ==
    /\ hypSend.at = "retrying" /\ hypSend.attempts = HypAttempts
    /\ hypSend' = [hypSend EXCEPT !.attempts = 0]
    /\ UNCHANGED <<hypStream, hypServer, hypPages, hyp, hypSink>>

\* Other clients append to any authority.
HypOthersAppend ==
    /\ \E a \in HypAuthorities, e \in HypForeign :
          /\ ~Contains(hypStream[a], e) /\ Len(hypStream[a]) < HypStreamBound
          /\ hypStream' = [hypStream EXCEPT ![a] = Append(@, e)]
    /\ UNCHANGED <<hypServer, hypSend, hypPages, hyp, hypSink>>

\* An authority comes back from a backup.
HypRewind ==
    /\ ~hypServer.rewound /\ hypSend.built = 0
    /\ \E a \in HypAuthorities : \E n \in 0..(Len(hypStream[a]) - 1) :
          hypStream' = [hypStream EXCEPT ![a] = SubSeq(@, 1, n)]
    /\ hypServer' = [hypServer EXCEPT !.rewound = TRUE]
    /\ UNCHANGED <<hypSend, hypPages, hyp, hypSink>>

-----------------------------------------------------------------------------
(* Pulling.                                                                *)

\* PullRequest::validate.
HypRequestValid(q) ==
    /\ HypCursorValid(q.after) /\ q.limit \in 1..HypPullLimit
    /\ \A s \in q.exact : /\ HypCursorValid(s) /\ s.pos >= q.after.pos
                          /\ s.pos = q.after.pos => s.head = q.after.head

\* The authority answers a request about its own stream with a signed page.
HypPageFor(a, q) ==
    LET s == hypStream[a]
        snapshot == IF q.exact = {} THEN Len(s) ELSE (CHOOSE c \in q.exact : TRUE).pos
        last == Min({q.after.pos + q.limit, snapshot})
    IN [authority |-> a, request |-> q,
        events |-> [i \in 1..(last - q.after.pos) |->
                       [id |-> s[q.after.pos + i], seq |-> q.after.pos + i,
                        prev |-> SubSeq(s, 1, q.after.pos + i - 1),
                        hash |-> SubSeq(s, 1, q.after.pos + i)]],
        next |-> HypCursor(SubSeq(s, 1, last)), snapshot |-> HypCursor(SubSeq(s, 1, snapshot)),
        complete |-> last = snapshot]

\* PullPage::validate_against.
HypPageValid(p) ==
    LET q == p.request
    IN /\ Len(p.events) <= q.limit
       /\ p.snapshot.pos >= q.after.pos /\ \A c \in q.exact : p.snapshot = c
       /\ p.next.pos <= p.snapshot.pos
       /\ p.next.pos = p.snapshot.pos => p.next.head = p.snapshot.head
       /\ IsInjective([i \in DOMAIN p.events |-> p.events[i].id])
       /\ \A i \in DOMAIN p.events :
             /\ p.events[i].seq = q.after.pos + i
             /\ p.events[i].prev = IF i = 1 THEN q.after.head ELSE p.events[i - 1].hash
       /\ p.next.pos = q.after.pos + Len(p.events)
       /\ IF p.events = <<>> THEN p.next = q.after ELSE p.next.head = Last(p.events).hash
       /\ p.complete = (p.next = p.snapshot) /\ (p.complete \/ p.events /= <<>>)

\* ReplayState::preflight, by the state at the time of the call.
HypPreflight(p) ==
    LET after == p.request.after
    IN /\ after.pos <= hyp.cursor.pos /\ after.pos \in DOMAIN hyp.anchors
       /\ hyp.anchors[after.pos].head = after.head
       /\ p.snapshot.pos >= hyp.cursor.pos
       /\ p.snapshot.pos = hyp.cursor.pos => p.snapshot.head = hyp.cursor.head
       /\ \A bound \in hyp.snapshot :
             (p.request.exact /= {} \/ hyp.cursor /= bound) => p.snapshot = bound

\* pull_page, UntrustedPullPage::validate and ValidatedPullPage::verify.  A
\* request is made from the cursor or from an earlier one that is still held.
\* Validation reads the replay state and verification, by a verifier that
\* resolves page and receipts to one authority, only the page; apply repeats
\* what depends on the state, so a page that waits does so here, verified.
HypPull ==
    /\ Cardinality(hypPages) < HypPageBound
    /\ \E a \in HypAuthorities, p \in DOMAIN hyp.anchors, l \in HypLimits,
          exact \in {{}, hyp.snapshot} :
          LET q == [after |-> [pos |-> p, head |-> hyp.anchors[p].head], exact |-> exact, limit |-> l]
              page == HypPageFor(a, q)
          IN /\ HypRequestValid(q)
             /\ p <= Len(hypStream[a]) /\ \A c \in exact : c.pos <= Len(hypStream[a])
             /\ HypPageValid(page) /\ HypPreflight(page)
             /\ hypPages' = hypPages \cup {page}
    /\ UNCHANGED <<hypStream, hypServer, hypSend, hyp, hypSink>>

\* An event's position is its place in the page after the request's cursor.
HypOverlap(p) == {i \in DOMAIN p.events : p.request.after.pos + i <= hyp.cursor.pos}
HypFresh(p) == SubSeq(p.events, hyp.cursor.pos - p.request.after.pos + 1, Len(p.events))

\* The overlap must repeat what was applied, the rest must continue it with
\* identities the window does not hold.
HypApplicable(p) ==
    /\ HypPreflight(p)
    /\ \A a \in hyp.authority : a = p.authority
    /\ \A i \in HypOverlap(p) :
          LET e == p.events[i]
          IN e.seq \in DOMAIN hyp.anchors /\ hyp.anchors[e.seq] = [head |-> e.hash, id |-> {e.id}]
    /\ \A i \in DOMAIN HypFresh(p) :
          /\ HypFresh(p)[i].seq = hyp.cursor.pos + i
          /\ \A n \in DOMAIN hyp.anchors : HypFresh(p)[i].id \notin hyp.anchors[n].id
    /\ p.next.pos = hyp.cursor.pos => p.next.head = hyp.cursor.head

\* prune_anchors keeps the newest ones.
HypPrune(anchors) ==
    LET keep == {n \in DOMAIN anchors :
                    Cardinality({m \in DOMAIN anchors : m > n}) < HypWindow}
    IN [n \in keep |-> anchors[n]]

HypCandidate(p) ==
    [authority |-> {p.authority}, snapshot |-> {p.snapshot},
     cursor |-> IF p.next.pos > hyp.cursor.pos THEN p.next ELSE hyp.cursor,
     anchors |-> HypPrune([n \in DOMAIN hyp.anchors \cup {HypFresh(p)[i].seq : i \in DOMAIN HypFresh(p)} |->
                     IF n \in DOMAIN hyp.anchors THEN hyp.anchors[n]
                     ELSE LET e == HypFresh(p)[n - hyp.cursor.pos]
                          IN [head |-> e.hash, id |-> {e.id}]])]

\* VerifiedPullPage::apply: the reducer takes the fresh events as one batch,
\* and only then is the candidate the state.
HypApply ==
    /\ \E p \in hypPages :
          /\ hypPages' = hypPages \ {p}
          /\ \/ ~HypApplicable(p) /\ UNCHANGED <<hyp, hypSink>>
             \/ /\ HypApplicable(p)
                /\ hypSink' = hypSink \o [i \in DOMAIN HypFresh(p) |-> HypFresh(p)[i].id]
                /\ hyp' = HypCandidate(p)
             \/ /\ HypApplicable(p) /\ HypFresh(p) /= <<>>   \* the reducer refuses
                /\ UNCHANGED <<hyp, hypSink>>
    /\ UNCHANGED <<hypStream, hypServer, hypSend>>

HypNext ==
    \/ HypSubmit \/ HypSendBatch \/ HypAuthorityAppends \/ HypAnswered \/ HypExhausted
    \/ HypOthersAppend \/ HypRewind \/ HypPull \/ HypApply

HypSpec == HypInit /\ [][HypNext]_hypVars

-----------------------------------------------------------------------------
(* Properties.                                                             *)

\* However pages overlap, repeat, arrive late or fork, and although the state
\* moves between validate and apply, what the reducer was given is exactly
\* what the replay cursor's durable hash commits to: no event twice, none
\* skipped, none of another authority or of a fork (lib.rs preflight, apply).
HypReplayIsTheStream == hyp.cursor = HypCursor(hypSink)

\* A batch that is retried after its answer was lost, and arrives any number of
\* times and late, is in the stream at most once, and receipts are only taken
\* for events that are there (append_with_retry, validate_against).
HypAppendsOnce ==
    /\ IsInjective(hypStream[HypHome])
    /\ \A i \in 1..hypSend.done : Contains(hypStream[HypHome], HypLocal[i])

\* Replay is the stream of the authority, and a batch is appended once however
\* often it is sent (VerifiedPullPage::apply, append_with_retry).
HypGuarantees ==
    /\ HypReplayIsTheStream
    /\ HypAppendsOnce

-----------------------------------------------------------------------------
(* What makes HypReplayIsTheStream inductive.                              *)

HypIds == Range(HypLocal) \cup HypForeign
HypCursors == [pos : Nat, head : Seq(HypIds)]

HypReplayTypes ==
    /\ hypStream \in [HypAuthorities -> Seq(HypIds)]
    /\ hypSink \in Seq(HypIds)
    /\ hyp.cursor \in HypCursors /\ hyp.snapshot \subseteq HypCursors
    /\ DOMAIN hyp.anchors \subseteq Nat
    /\ \A n \in DOMAIN hyp.anchors : hyp.anchors[n].head \in Seq(HypIds)

\* A page in hand is a cut of the stream its snapshot commits to, and what it
\* brings continues the cursor it was asked from.
HypIsCut(p) ==
    LET s == p.snapshot.head
        n == p.request.after.pos
    IN  /\ p.snapshot \in HypCursors /\ n \in Nat
        /\ p.next.pos \in n..Len(s) /\ p.next = HypCursor(SubSeq(s, 1, p.next.pos))
        /\ p.events = [i \in 1..(p.next.pos - n) |->
                          [id |-> s[n + i], seq |-> n + i, prev |-> SubSeq(s, 1, n + i - 1),
                           hash |-> SubSeq(s, 1, n + i)]]
        /\ p.next.pos > n => SubSeq(s, 1, n) = p.request.after.head

\* The window holds an anchor for the cursor, and none beyond it.
HypAnchored ==
    /\ hyp.cursor.pos \in DOMAIN hyp.anchors
    /\ hyp.anchors[hyp.cursor.pos].head = hyp.cursor.head
    /\ \A n \in DOMAIN hyp.anchors : n <= hyp.cursor.pos

HypReplayInvariant ==
    /\ HypReplayTypes /\ HypAnchored /\ HypReplayIsTheStream
    /\ \A p \in hypPages : HypIsCut(p)

(* What makes HypAppendsOnce inductive.                                    *)

HypBatches == [id : Nat \ {0}, expected : HypCursors, events : Seq(HypIds)]

HypAnswers == [batch : Nat, ok : BOOLEAN, expected : HypCursors, events : Seq(HypIds),
               next : HypCursors]

HypAppendTypes ==
    /\ hypServer \in [answers : SUBSET HypAnswers, wire : SUBSET HypBatches, rewound : BOOLEAN]
    /\ hypSend \in [at : {"idle", "retrying"}, batch : SUBSET HypBatches, attempts : Nat,
                    done : 0..Len(HypLocal), built : Nat]

\* The local events of a batch.
HypSpan(b) == (hypSend.done + 1)..(hypSend.done + Len(b.events))

\* The sender holds at most one batch, of what follows its receipts.
HypBatchFollows ==
    /\ hypSend.at = "idle" => hypSend.batch = {}
    /\ \A b \in hypSend.batch :
          /\ b.id = hypSend.built /\ hypSend.batch = {b}
          /\ hypSend.done + Len(b.events) <= Len(HypLocal)
          /\ b.events = SubSeq(HypLocal, hypSend.done + 1, hypSend.done + Len(b.events))

\* A batch has one answer, and one without an answer is the sender's.
HypAnswersOnce ==
    /\ \A r, q \in hypServer.answers : r.batch = q.batch => r = q
    /\ \A r \in hypServer.answers : r.batch <= hypSend.built
    /\ \A b \in hypServer.wire :
          b \in hypSend.batch \/ \E r \in hypServer.answers : r.batch = b.id
    /\ hypServer.rewound => hypSend.built = 0
    /\ hypSend.built = 0 => /\ hypSend.done = 0 /\ hypSend.batch = {}
                            /\ hypServer.wire = {}

\* The stream holds the local events with a receipt and those of a batch that
\* was appended and whose answer is still to come.
HypLocalEvents ==
    \A i \in 1..Len(HypLocal) :
        Contains(hypStream[HypHome], HypLocal[i]) <=>
            \/ i <= hypSend.done
            \/ \E b \in hypSend.batch, r \in hypServer.answers :
                  r.batch = b.id /\ r.ok /\ i \in HypSpan(b)

HypAppendInvariant ==
    HypAppendTypes /\ HypBatchFollows /\ HypAnswersOnce /\ HypLocalEvents /\ HypAppendsOnce

HypInvariant == HypReplayInvariant /\ HypAppendInvariant
=============================================================================
