-------------------------- MODULE ProjectionRestore --------------------------
(***************************************************************************)
(* Projections and their checkpoints (pliego-fold projection.rs, snapshot  *)
(* and state_root): a projection folds the reactive log, takes snapshots,  *)
(* is lost with its process, and is restored by another process that may   *)
(* run another release of the application and may hold another copy of the *)
(* history.                                                                *)
(*                                                                         *)
(* The reducer is free: its state is the sequence of what it applied, each *)
(* entry naming the event, the schema set that decoded it and the reducer  *)
(* that reduced it.  A history cursor is the prefix it binds (EventLog).   *)
(* Digests are free terms.                                                 *)
(***************************************************************************)
EXTENDS Naturals, Sequences, FiniteSets

CONSTANTS
    Events,      \* events of the log
    Releases,    \* contracts: [schema, reducer, codec], one per release
    Irreducible, \* pairs <<reducer, event>>: the reducer or decoder fails
    LossyCodecs, \* codecs that do not round-trip a non-empty state
    MaxLog       \* bound on the length of the log

ASSUME ReleasesAssumption ==
    \A c \in Releases :
        c = [schema |-> c.schema, reducer |-> c.reducer, codec |-> c.codec]

ASSUME MaxLogAssumption == MaxLog \in Nat

VARIABLES
    log,      \* the ReactiveLog of the running process
    contract, \* ProjectionContract of the running release
    live,     \* a Projection exists
    stable,   \* Projection.stable: state, state_bytes, history
    error,    \* ProjectionRead.error of the memo
    disk      \* the stored snapshot envelope, or NoSnapshot

vars == <<log, contract, live, stable, error, disk>>

NoSnapshot == [stored |-> FALSE]

IsPrefixOf(a, b) == Len(a) <= Len(b) /\ SubSeq(b, 1, Len(a)) = a

-----------------------------------------------------------------------------
(* Folding and encoding.                                                   *)

Apply(c, e) == [event |-> e, schema |-> c.schema, reducer |-> c.reducer]

\* The reducer run over a sequence of events.
Reduce(c, events) == [i \in 1..Len(events) |-> Apply(c, events[i])]

Reducible(c, events) ==
    \A i \in 1..Len(events) : <<c.reducer, events[i]>> \notin Irreducible

\* canonical_state_bytes succeeds
Encodes(c, state) == c.codec \notin LossyCodecs \/ state = << >>

Encode(c, state) == <<c.codec, state>>

\* codec_decode of bytes another codec wrote is an error
Decodes(c, bytes) == bytes[1] = c.codec

TailOf(s) == SubSeq(log, Len(s.history) + 1, Len(log))

\* Log::tail with the stable cursor
TailAccepted(s) == IsPrefixOf(s.history, log)

\* prepare_projection succeeds on the tail
Prepares(s) ==
    /\ Reducible(contract, TailOf(s))
    /\ Encodes(contract, s.state \o Reduce(contract, TailOf(s)))

\* synchronize: the whole tail is folded, or nothing is.
Synchronized(s) ==
    IF TailAccepted(s) /\ Prepares(s)
    THEN LET next == s.state \o Reduce(contract, TailOf(s))
         IN  [state |-> next, state_bytes |-> Encode(contract, next), history |-> log]
    ELSE s

SettleError(s) ==
    IF ~TailAccepted(s) THEN "Cursor"
    ELSE IF s.history # log /\ ~Prepares(s) THEN "Rejected" ELSE "None"

-----------------------------------------------------------------------------
(* Snapshots.                                                              *)

\* Mutant: the envelope digest does not bind the history cursor.
compute_snapshot_digest_unbound(s) ==
    <<s.schema, s.reducer, s.codec, s.state_bytes, s.state_digest>>

compute_snapshot_digest(s) ==
    <<s.history, s.schema, s.reducer, s.codec, s.state_bytes, s.state_digest>>

Envelope(c, s) ==
    LET body == [history |-> s.history, schema |-> c.schema,
                 reducer |-> c.reducer, codec |-> c.codec,
                 state_bytes |-> s.state_bytes, state_digest |-> s.state_bytes]
    IN  [stored |-> TRUE, history |-> body.history, schema |-> body.schema,
         reducer |-> body.reducer, codec |-> body.codec,
         state_bytes |-> body.state_bytes, state_digest |-> body.state_digest,
         snapshot_digest |-> compute_snapshot_digest(body)]

\* ProjectionSnapshot::decode admits the envelope (verify_integrity).
Intact(s) ==
    /\ s.state_digest = s.state_bytes
    /\ s.snapshot_digest = compute_snapshot_digest(s)

\* Mutant: a new reducer revision does not invalidate the snapshot.
BoundToSchema(s) == s.schema = contract.schema /\ s.codec = contract.codec

\* The contract checks of Projection::restore.
BoundToContract(s) ==
    /\ s.schema = contract.schema
    /\ s.reducer = contract.reducer
    /\ s.codec = contract.codec

\* The StableSeed of Projection::new and of Projection::restore.
GenesisSeed == [state |-> << >>, state_bytes |-> Encode(contract, << >>),
                history |-> << >>]
SnapshotSeed == [state |-> disk.state_bytes[2], state_bytes |-> disk.state_bytes,
                 history |-> disk.history]

-----------------------------------------------------------------------------

Init ==
    /\ log = << >>
    /\ contract \in Releases
    /\ live = FALSE
    /\ stable = GenesisSeed
    /\ error = "None"
    /\ disk = NoSnapshot

\* Projection::new, over an empty or an imported log.
NewProjection ==
    /\ ~live
    /\ live' = TRUE
    /\ stable' = GenesisSeed
    /\ error' = "None"
    /\ UNCHANGED <<log, contract, disk>>

\* ReactiveLog append; the projection is stale until it is settled.
AppendEvent(e) ==
    /\ Len(log) < MaxLog
    /\ log' = Append(log, e)
    /\ UNCHANGED <<contract, live, stable, error, disk>>

\* Projection::try_get, sync, history: settle the memo.
Settle ==
    /\ live
    /\ stable' = Synchronized(stable)
    /\ error' = SettleError(stable)
    /\ UNCHANGED <<log, contract, live, disk>>

\* Projection::snapshot: settle, then checkpoint unless settling failed.
TakeSnapshot ==
    /\ live
    /\ stable' = Synchronized(stable)
    /\ error' = SettleError(stable)
    /\ disk' = IF error' = "None" THEN Envelope(contract, stable') ELSE disk
    /\ UNCHANGED <<log, contract, live>>

\* Projection::restore_bytes; any error leaves no projection.
Restore ==
    /\ ~live
    /\ disk.stored
    /\ Intact(disk)
    /\ BoundToContract(disk)
    /\ IsPrefixOf(disk.history, log)
    /\ Decodes(contract, disk.state_bytes)
    /\ Encodes(contract, SnapshotSeed.state)
    /\ SettleError(SnapshotSeed) = "None"
    /\ live' = TRUE
    /\ stable' = Synchronized(SnapshotSeed)
    /\ error' = "None"
    /\ UNCHANGED <<log, contract, disk>>

-----------------------------------------------------------------------------
(* The environment: processes, deployments and storage.                    *)

\* Copies of the history another process may hold: behind, or forked.
OtherCopies ==
    {SubSeq(log, 1, n) : n \in 0..Len(log)}
    \cup {[log EXCEPT ![n] = e] : n \in 1..Len(log), e \in Events}

\* The process ends; the next one runs some release over some copy.
Restart ==
    /\ live' = FALSE
    /\ log' \in OtherCopies
    /\ contract' \in Releases
    /\ stable' = GenesisSeed'
    /\ error' = "None"
    /\ UNCHANGED disk

\* Storage damages one field of the envelope (bound: one fault per envelope).
DamageSnapshot ==
    /\ disk.stored /\ Intact(disk)
    /\ \/ \E h \in OtherCopies : disk' = [disk EXCEPT !.history = h]
       \/ \E c \in Releases :
             \/ disk' = [disk EXCEPT !.schema = c.schema]
             \/ disk' = [disk EXCEPT !.reducer = c.reducer]
             \/ disk' = [disk EXCEPT !.codec = c.codec]
             \/ disk' = [disk EXCEPT !.state_bytes = Encode(c, Reduce(c, log))]
    /\ UNCHANGED <<log, contract, live, stable, error>>

Next ==
    \/ NewProjection
    \/ \E e \in Events : AppendEvent(e)
    \/ Settle \/ TakeSnapshot \/ Restore \/ Restart \/ DamageSnapshot

Spec == Init /\ [][Next]_vars

-----------------------------------------------------------------------------
(* Properties.                                                             *)

\* Restore parity: a live projection, restored or folded from genesis, holds
\* exactly what the running release computes by folding the log up to its
\* cursor, whatever was stored, damaged, deployed or forked in between
\* (Projection::restore, synchronize).
RestoreParity ==
    live => /\ IsPrefixOf(stable.history, log)
            /\ stable.state = Reduce(contract, stable.history)
            /\ stable.state_bytes = Encode(contract, stable.state)

\* Fail closed: no event that the running release cannot reduce is ever part
\* of a live state, and a failing tail does not move the cursor (prepare_projection).
FailsClosed ==
    live => /\ Reducible(contract, stable.history)
            /\ error = "Rejected" => stable.history # log

\* An envelope that decode admits is one some projection took: its state is
\* the fold of its own history under its own contract (compute_snapshot_digest).
AdmittedSnapshotsAreFolds ==
    (disk.stored /\ Intact(disk)) =>
        disk.state_bytes = <<disk.codec,
            Reduce([schema |-> disk.schema, reducer |-> disk.reducer,
                    codec |-> disk.codec], disk.history)>>

\* A projection moves only to the head of the log, never part of the way and
\* never back (commit_stable).
MovesToHead ==
    [][(live /\ live') => stable'.history \in {stable.history, log}]_vars

(* What makes the three invariants inductive.                              *)

\* The contract an envelope was written under.
ContractOf(s) == [schema |-> s.schema, reducer |-> s.reducer, codec |-> s.codec]

\* Stored bytes have the fields of an envelope.
EnvelopeShape(s) ==
    /\ s = [stored |-> TRUE, history |-> s.history, schema |-> s.schema,
            reducer |-> s.reducer, codec |-> s.codec,
            state_bytes |-> s.state_bytes, state_digest |-> s.state_digest,
            snapshot_digest |-> s.snapshot_digest]
    /\ s.history \in Seq(Events)

RestoreTypes ==
    /\ log \in Seq(Events)
    /\ contract \in Releases
    /\ live \in BOOLEAN
    /\ stable.history \in Seq(Events)
    /\ disk = NoSnapshot \/ EnvelopeShape(disk)

\* A checkpoint was taken by a projection that could reduce all of its history.
CheckpointsReducible ==
    (disk.stored /\ Intact(disk)) => Reducible(ContractOf(disk), disk.history)

RestoreInvariant ==
    /\ RestoreTypes
    /\ RestoreParity
    /\ FailsClosed
    /\ AdmittedSnapshotsAreFolds
    /\ CheckpointsReducible
=============================================================================
