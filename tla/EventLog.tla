------------------------------- MODULE EventLog -------------------------------
(***************************************************************************)
(* The hash-chained application history of pliego-log: Log::append_typed,  *)
(* import_raw, cursor, tail and verify.  Several logs of one application   *)
(* are appended to independently, exported to a storage the application    *)
(* does not control, and imported again.  Storage may lose, repeat,        *)
(* reorder, splice and rewrite serialized events.                          *)
(*                                                                         *)
(* SHA-256 is a free term: the digest of an event is the tuple of the      *)
(* fields hashed, so two digests are equal exactly when their inputs are.  *)
(* Storage cannot recompute a digest.                                      *)
(***************************************************************************)
EXTENDS Naturals, Sequences, FiniteSets

CONSTANTS
    Logs,       \* independent logs of the application
    LogKinds,      \* event kinds, valid or not
    ValidKinds, \* those validate_kind admits
    LogPayloads,   \* canonical payloads
    Lossy,      \* payloads whose typed value does not survive the round trip
    MaxLen,     \* bound on the length of a history
    MaxWritten, \* bound on the histories written, the empty one included
    MaxEdits    \* bound on the edits storage makes to one export

ASSUME KindsAssumption == ValidKinds \subseteq LogKinds /\ Lossy \subseteq LogPayloads

ASSUME BoundsAssumption ==
    MaxLen \in Nat /\ MaxWritten \in Nat /\ MaxEdits \in Nat

VARIABLES
    logs,      \* Log.events of every log
    wire,     \* the serialized history in storage: RawEvents
    edits,    \* how often storage changed wire since the export
    taken,    \* the last LogCursor handed out, with the prefix it was taken at
    written   \* history: every sequence of events append ever produced

logVars == <<logs, wire, edits, taken, written>>

GENESIS_HASH == << >>

\* 0 and 2 stand for the versions outside and inside 1..=MAX_SCHEMA_VERSION.
LogVersions == {0, 2}
ValidVersion(v) == v # 0

\* JSON text in storage: a payload spelled canonically, spelled otherwise, or
\* bytes that are not admissible JSON.
Json(payload, spelling) == [payload |-> payload, spelling |-> spelling]

\* CanonicalJson::parse maps every spelling of a payload to its canonical one.
Parses(json) == json.spelling # "malformed"
Parse(json) == Json(json.payload, "canonical")

event_hash(e) == <<e.seq, e.prev_hash, e.kind, e.schema_version, e.payload>>

Head_(events) ==
    IF events = << >> THEN GENESIS_HASH ELSE events[Len(events)].hash

cursor_at(events, position) ==
    [position |-> position, head_hash |-> Head_(SubSeq(events, 1, position))]

\* Log::tail succeeds
LogTailAccepts(events, cursor) ==
    /\ cursor.position <= Len(events)
    /\ cursor_at(events, cursor.position) = cursor

\* CanonicalJson::from_serialize and decode give the typed value back.  The
\* encoder refuses a number JSON cannot carry instead of writing null.
RoundTrips(payload) == payload \notin Lossy

-----------------------------------------------------------------------------

LogInit ==
    /\ logs = [l \in Logs |-> << >>]
    /\ wire = << >>
    /\ edits = 0
    /\ taken = [cursor |-> cursor_at(<< >>, 0), prefix |-> << >>]
    /\ written = {<< >>}

\* append_canonical
NewEvent(events, kind, version, payload) ==
    LET e == [seq |-> Len(events), kind |-> kind, schema_version |-> version,
              payload |-> Json(payload, "canonical"), prev_hash |-> Head_(events)]
    IN  [seq |-> e.seq, kind |-> kind, schema_version |-> version,
         payload |-> e.payload, prev_hash |-> e.prev_hash,
         hash |-> event_hash(e)]

\* Log::append_typed: an inadmissible schema or a payload that does not round
\* trip is an error that leaves the log as it was.
AppendTyped(l, kind, version, payload) ==
    /\ Len(logs[l]) < MaxLen
    /\ Cardinality(written) < MaxWritten
    /\ kind \in ValidKinds
    /\ ValidVersion(version)
    /\ RoundTrips(payload)
    /\ logs' = [logs EXCEPT ![l] = Append(@, NewEvent(@, kind, version, payload))]
    /\ written' = written \cup {logs'[l]}
    /\ UNCHANGED <<wire, edits, taken>>

\* The application stores a history (Log::events) as RawEvents.
Export(l) ==
    /\ logs[l] # << >>
    /\ wire' = logs[l]
    /\ edits' = 0
    /\ UNCHANGED <<logs, taken, written>>

\* Log::cursor and Log::cursor_at
TakeCursor(l, position) ==
    /\ position <= Len(logs[l])
    /\ taken' = [cursor |-> cursor_at(logs[l], position),
                 prefix |-> SubSeq(logs[l], 1, position)]
    /\ UNCHANGED <<logs, wire, edits, written>>

\* Mutant: the link to the previous event is not compared.
AdmitsUnlinked(events, i) ==
    /\ events[i].kind \in ValidKinds
    /\ ValidVersion(events[i].schema_version)
    /\ events[i].seq = i - 1
    /\ Parses(events[i].payload)
    /\ events[i].hash = event_hash([events[i] EXCEPT !.payload = Parse(@)])

\* One iteration of the loops of import_raw and verify.
Admits(events, i) ==
    /\ events[i].kind \in ValidKinds
    /\ ValidVersion(events[i].schema_version)
    /\ events[i].seq = i - 1
    /\ events[i].prev_hash = Head_(SubSeq(events, 1, i - 1))
    /\ Parses(events[i].payload)
    /\ events[i].hash = event_hash([events[i] EXCEPT !.payload = Parse(@)])

\* Log::import_raw: the first inadmissible event refuses the whole import.
ImportRaw(l) ==
    /\ \A i \in 1..Len(wire) : Admits(wire, i)
    /\ logs' = [logs EXCEPT ![l] =
                 [i \in 1..Len(wire) |-> [wire[i] EXCEPT !.payload = Parse(@)]]]
    /\ UNCHANGED <<wire, edits, taken, written>>

-----------------------------------------------------------------------------
(* Storage: not part of the repository.                                    *)

Without(s, i) == SubSeq(s, 1, i - 1) \o SubSeq(s, i + 1, Len(s))
Twice(s, i)   == SubSeq(s, 1, i) \o SubSeq(s, i, Len(s))
Swapped(s, i) == [s EXCEPT ![i] = s[i + 1], ![i + 1] = s[i]]

Foreign == UNION {{logs[l][i] : i \in 1..Len(logs[l])} : l \in Logs}

\* What one storage fault can make of the stored history.
Faulty ==
    LET At == 1..Len(wire)
    IN  {Without(wire, i) : i \in At}
        \cup {Twice(wire, i) : i \in At}
        \cup {Swapped(wire, i) : i \in 1..(Len(wire) - 1)}
        \cup {[wire EXCEPT ![i] = e] : i \in At, e \in Foreign}
        \cup {[wire EXCEPT ![i].seq = j] : i \in At, j \in 0..MaxLen}
        \cup {[wire EXCEPT ![i].kind = k] : i \in At, k \in LogKinds}
        \cup {[wire EXCEPT ![i].schema_version = v] : i \in At, v \in LogVersions}
        \cup {[wire EXCEPT ![i].payload = Json(p, s)] :
                  i \in At, p \in LogPayloads, s \in {"canonical", "other", "malformed"}}
        \cup {[wire EXCEPT ![i].prev_hash = wire[j].prev_hash] : i \in At, j \in At}
        \cup {[wire EXCEPT ![i].hash = wire[j].hash] : i \in At, j \in At}

Corrupt ==
    /\ edits < MaxEdits
    /\ wire' \in {w \in Faulty \ {wire} : Len(w) <= MaxLen}
    /\ edits' = edits + 1
    /\ UNCHANGED <<logs, taken, written>>

LogNext ==
    \/ \E l \in Logs, k \in LogKinds, v \in LogVersions, p \in LogPayloads :
          AppendTyped(l, k, v, p)
    \/ \E l \in Logs : Export(l) \/ ImportRaw(l)
    \/ \E l \in Logs, position \in 0..MaxLen : TakeCursor(l, position)
    \/ Corrupt

LogSpec == LogInit /\ [][LogNext]_logVars

-----------------------------------------------------------------------------
(* Properties.                                                             *)

\* Every log, appended to or imported, passes Log::verify: positions, links and
\* digests hold from genesis to the head, which from_log relies on.
Verifies == \A l \in Logs : \A i \in 1..Len(logs[l]) : Admits(logs[l], i)

\* No history is invented: whatever storage lost, repeated, reordered, spliced
\* or rewrote, an import that import_raw admits is a history that appends
\* produced, in the order they produced it.
NoInventedHistory == \A l \in Logs : logs[l] \in written

\* A cursor binds the whole history before it: Log::tail accepts it exactly on
\* the logs that begin with the prefix it was taken at, a shorter, forked or
\* spliced log refuses it.
CursorBindsPrefix ==
    \A l \in Logs :
        LogTailAccepts(logs[l], taken.cursor) <=>
            /\ Len(taken.prefix) <= Len(logs[l])
            /\ SubSeq(logs[l], 1, Len(taken.prefix)) = taken.prefix

\* A log verifies from genesis, is one somebody wrote, and accepts a cursor only
\* over the prefix the cursor was taken from (append_typed, import_raw, tail).
LogGuarantees ==
    /\ Verifies
    /\ NoInventedHistory
    /\ CursorBindsPrefix
-----------------------------------------------------------------------------
(* What makes LogGuarantees inductive.                                     *)

\* The digests that appends computed; storage has no others.
Digests == UNION {{w[i].hash : i \in 1..Len(w)} : w \in written}

RawEvents ==
    [seq : Nat, kind : LogKinds, schema_version : LogVersions,
     payload : [payload : LogPayloads, spelling : {"canonical", "other", "malformed"}],
     prev_hash : Digests \cup {GENESIS_HASH}, hash : Digests]

\* A history that verifies and is spelled canonically.
IsChain(w) ==
    /\ w \in Seq(RawEvents)
    /\ \A i \in 1..Len(w) : Admits(w, i) /\ w[i].payload = Parse(w[i].payload)

\* Appends produce chains, one event at a time from the empty history.
WrittenAreChains ==
    /\ << >> \in written
    /\ \A w \in written :
          IsChain(w) /\ \A n \in 0..Len(w) : SubSeq(w, 1, n) \in written

LogInvariant ==
    /\ logs \in [Logs -> written]
    /\ WrittenAreChains
    /\ wire \in Seq(RawEvents)
    /\ taken.prefix \in written
    /\ taken.cursor = cursor_at(taken.prefix, Len(taken.prefix))
=============================================================================
