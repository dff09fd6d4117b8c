----------------------------- MODULE EventCatalog -----------------------------
(***************************************************************************)
(* The event catalog of pliego-log: EventCatalogBuilder (register_current, *)
(* register_upcaster, seal), SealedEventCatalog::decode and the observed-  *)
(* divergence tripwire TransformObservations.                              *)
(*                                                                         *)
(* A sealed catalog is shared by threads: its transforms are application   *)
(* code that runs twice outside any lock, and each transform remembers a   *)
(* bounded number of results behind a mutex.  Application code may be      *)
(* impure: every run of a transform may return any output.                 *)
(*                                                                         *)
(* A transform is named by its kind and the version it reads; the one at   *)
(* the current version maps into the reducer's event type, the others      *)
(* upcast to the next version.                                             *)
(***************************************************************************)
EXTENDS Naturals, Sequences, FiniteSets

CONSTANTS
    Kinds,            \* event kinds the application declares
    SchemaIds,        \* EventSchema::SCHEMA_ID values
    MaxVersion,       \* highest schema version an application declares
    MaxKinds,         \* MAX_CATALOG_KINDS
    MaxSchemas,       \* MAX_SCHEMAS_PER_KIND
    Threads,          \* threads that decode with the sealed catalog
    Payloads,         \* canonical payloads
    MaxObservations   \* MAX_TRANSFORM_OBSERVATIONS

ASSUME CatalogAssumption ==
    /\ MaxVersion \in Nat \ {0}
    /\ MaxKinds \in Nat
    /\ MaxSchemas \in Nat \ {0}
    /\ MaxObservations \in Nat \ {0}

VARIABLES
    kinds,     \* the KindBuilder or SealedKind of every registered kind
    sealed,    \* "building", "sealed" or "refused"
    job,       \* the decode a thread is running
    observed,  \* TransformObservations of every transform, oldest first
    returned   \* history: results accepted per input since it was remembered

catVars == <<kinds, sealed, job, observed, returned>>

Versions == 1..MaxVersion
Transforms == Kinds \X Versions

EmptyKind == [schemas |-> << >>, current |-> 0, upcasters |-> {}]

Idle == [at |-> "idle"]
Done(outcome) == [at |-> "done", outcome |-> outcome]

CatInit ==
    /\ kinds = << >>
    /\ sealed = "building"
    /\ job = [t \in Threads |-> Idle]
    /\ observed = [f \in Transforms |-> << >>]
    /\ returned = [f \in Transforms |-> {}]

-----------------------------------------------------------------------------
(* Building.                                                               *)

\* BTreeMap::insert on a finite function
With(f, k, v) == [x \in DOMAIN f \cup {k} |-> IF x = k THEN v ELSE f[x]]

KindOf(k) == IF k \in DOMAIN kinds THEN kinds[k] ELSE EmptyKind

CanOpen(k) == k \in DOMAIN kinds \/ Cardinality(DOMAIN kinds) < MaxKinds

\* KindBuilder::register_schema succeeds
AdmitsSchema(kind, v, id) ==
    IF v \in DOMAIN kind.schemas THEN kind.schemas[v] = id
    ELSE Cardinality(DOMAIN kind.schemas) < MaxSchemas

AddSchema(kind, v, id) ==
    IF AdmitsSchema(kind, v, id)
    THEN [kind EXCEPT !.schemas = With(@, v, id)] ELSE kind

\* register_current.  A DuplicateCurrent error comes after the schema was
\* registered, and the schema stays.
RegisterCurrent(k, v, id) ==
    /\ sealed = "building"
    /\ CanOpen(k)
    /\ LET kind == AddSchema(KindOf(k), v, id)
       IN  kinds' = With(kinds, k,
               IF AdmitsSchema(KindOf(k), v, id) /\ kind.current = 0
               THEN [kind EXCEPT !.current = v] ELSE kind)
    /\ UNCHANGED <<sealed, job, observed, returned>>

\* register_upcaster from version v to v + 1.  Errors after the first schema
\* was registered leave it behind.
RegisterUpcaster(k, v, from, to) ==
    /\ sealed = "building"
    /\ v + 1 \in Versions
    /\ CanOpen(k)
    /\ LET one  == AddSchema(KindOf(k), v, from)
           both == AddSchema(one, v + 1, to)
       IN  kinds' = With(kinds, k,
               IF ~AdmitsSchema(KindOf(k), v, from) \/ ~AdmitsSchema(one, v + 1, to)
               THEN one
               ELSE IF \/ v \in both.upcasters
                       \/ Cardinality(both.upcasters) >= MaxSchemas - 1
                    THEN both
                    ELSE [both EXCEPT !.upcasters = @ \cup {v}])
    /\ UNCHANGED <<sealed, job, observed, returned>>

\* The checks of seal on one kind.
WellFormed(kind) ==
    /\ kind.current # 0
    /\ kind.current \in DOMAIN kind.schemas
    /\ \A v \in DOMAIN kind.schemas :
          /\ v <= kind.current
          /\ (\E u \in DOMAIN kind.schemas : u < v) => v - 1 \in DOMAIN kind.schemas
          /\ v < kind.current => v \in kind.upcasters
    /\ \A v \in kind.upcasters : v < kind.current

Seal ==
    /\ sealed = "building"
    /\ sealed' = IF DOMAIN kinds # {} /\ \A k \in DOMAIN kinds : WellFormed(kinds[k])
                 THEN "sealed" ELSE "refused"
    /\ UNCHANGED <<kinds, job, observed, returned>>

-----------------------------------------------------------------------------
(* Decoding.                                                               *)

\* The entry of decode.
StartDecode(t, k, v, payload) ==
    /\ sealed = "sealed"
    /\ job[t].at # "running"
    /\ job' = [job EXCEPT ![t] =
         IF k \in DOMAIN kinds /\ v \in DOMAIN kinds[k].schemas
            /\ v <= kinds[k].current
         THEN [at |-> "running", kind |-> k, version |-> v, payload |-> payload]
         ELSE Done("Unknown")]
    /\ UNCHANGED <<kinds, sealed, observed, returned>>

Remembered(f, in) == {i \in 1..Len(observed[f]) : observed[f][i].in = in}

\* Mutant: a diverging result replaces the remembered one.
AcceptsLatest(f, in, out) ==
    /\ LET kept == SelectSeq(observed[f], LAMBDA o : o.in # in)
       IN  observed' = [observed EXCEPT ![f] =
             Append(IF Len(kept) = MaxObservations THEN Tail(kept) ELSE kept,
                    [in |-> in, out |-> out])]
    /\ returned' = [returned EXCEPT ![f] = @ \cup {<<in, out>>}]

\* TransformObservations::accepts, when it returns true.
Accepts(f, in, out) ==
    IF Remembered(f, in) # {}
    THEN /\ \A i \in Remembered(f, in) : observed[f][i].out = out
         /\ returned' = [returned EXCEPT ![f] = @ \cup {<<in, out>>}]
         /\ UNCHANGED observed
    ELSE LET full == Len(observed[f]) = MaxObservations
             gone == IF full THEN {observed[f][1].in} ELSE {}
         IN  /\ observed' = [observed EXCEPT ![f] =
                   Append(IF full THEN Tail(@) ELSE @, [in |-> in, out |-> out])]
             /\ returned' = [returned EXCEPT ![f] =
                   {r \in @ : r[1] \notin gone} \cup {<<in, out>>}]

\* Mutant: the loop keeps the version it started with.
AdvanceStuck(t, out) ==
    job' = [job EXCEPT ![t] =
        IF @.version < kinds[@.kind].current
        THEN [@ EXCEPT !.payload = out] ELSE Done("Decoded")]

\* Where decode goes with an accepted output.
Advance(t, out) ==
    job' = [job EXCEPT ![t] =
        IF job[t].version < kinds[job[t].kind].current
        THEN [job[t] EXCEPT !.version = @ + 1, !.payload = out]
        ELSE Done("Decoded")]

Lacks(t) == /\ job[t].version < kinds[job[t].kind].current
            /\ job[t].version \notin kinds[job[t].kind].upcasters

\* One transform of the decode loop ran twice with equal results, and the
\* result is the remembered one.
ApplyTransform(t, out) ==
    /\ job[t].at = "running"
    /\ ~Lacks(t)
    /\ Accepts(<<job[t].kind, job[t].version>>, job[t].payload, out)
    /\ Advance(t, out)
    /\ UNCHANGED <<kinds, sealed>>

\* The decode fails: an upcaster is missing, the transform fails, its two runs
\* differ, or they differ from the remembered result.
Refuse(t) ==
    /\ job[t].at = "running"
    /\ \/ /\ Lacks(t)
          /\ job' = [job EXCEPT ![t] = Done("MissingUpcaster")]
       \/ /\ ~Lacks(t)
          /\ \E why \in {"Failed", "Nondeterministic"} :
                job' = [job EXCEPT ![t] = Done(why)]
    /\ UNCHANGED <<kinds, sealed, observed, returned>>

CatNext ==
    \/ \E k \in Kinds, v \in Versions, id \in SchemaIds : RegisterCurrent(k, v, id)
    \/ \E k \in Kinds, v \in Versions, from, to \in SchemaIds :
          RegisterUpcaster(k, v, from, to)
    \/ Seal
    \/ \E t \in Threads, k \in Kinds, v \in Versions, p \in Payloads :
          StartDecode(t, k, v, p)
    \/ \E t \in Threads : Refuse(t) \/ \E out \in Payloads : ApplyTransform(t, out)

\* A decode is a function call: its loop goes on until it returns.
CatSpec ==
    /\ CatInit /\ [][CatNext]_catVars
    /\ \A t \in Threads : WF_catVars(Refuse(t) \/ \E out \in Payloads : ApplyTransform(t, out))

-----------------------------------------------------------------------------
(* Properties.                                                             *)

\* Every version a sealed catalog supports reaches the current version: no
\* decode meets a missing upcaster, whatever order the application registered
\* schemas in and whatever a failed registration left behind (seal, decode).
AdmittedVersionsReachCurrent ==
    /\ sealed = "sealed" => \A k \in DOMAIN kinds :
          \A v \in DOMAIN kinds[k].schemas :
              v..(kinds[k].current - 1) \subseteq kinds[k].upcasters
              /\ v <= kinds[k].current
    /\ \A t \in Threads : job[t].at = "done" => job[t].outcome # "MissingUpcaster"

\* While a transform remembers an input, all threads that decoded that input
\* were given the same output, although application code may be impure and the
\* cache evicts its oldest inputs (TransformObservations::accepts).
RememberedResultsAgree ==
    \A f \in Transforms : \A r, s \in returned[f] : r[1] = s[1] => r[2] = s[2]

\* The cache holds at most MAX_TRANSFORM_OBSERVATIONS inputs, each once.
ObservationsBounded ==
    \A f \in Transforms :
        /\ Len(observed[f]) <= MaxObservations
        /\ \A i, j \in 1..Len(observed[f]) :
              observed[f][i].in = observed[f][j].in => i = j

\* A decode returns: the upcast loop always makes progress towards the current
\* version.
DecodeReturns == \A t \in Threads : job[t].at = "running" ~> job[t].at # "running"

\* A sealed catalog brings every admitted version to the current one, and what
\* it remembers of the transforms agrees and is bounded (seal, decode, accepts).
CatalogGuarantees ==
    /\ AdmittedVersionsReachCurrent
    /\ RememberedResultsAgree
    /\ ObservationsBounded

-----------------------------------------------------------------------------
(* What makes CatalogGuarantees inductive.                                 *)

CatKinds == [schemas : UNION {[D -> SchemaIds] : D \in SUBSET Versions},
             current : 0..MaxVersion, upcasters : SUBSET Versions]
CatRunning == [at : {"running"}, kind : Kinds, version : Versions, payload : Payloads]
CatEnded == [at : {"done"}, outcome : {"Unknown", "Decoded", "Failed", "Nondeterministic"}]
CatObservations == [in : Payloads, out : Payloads]

CatTypes ==
    /\ \A k \in DOMAIN kinds : kinds[k] \in CatKinds
    /\ job \in [Threads -> {Idle} \cup CatRunning \cup CatEnded]
    /\ observed \in [Transforms -> Seq(CatObservations)]
    /\ returned \in [Transforms -> SUBSET (Payloads \X Payloads)]

\* A sealed catalog passed the checks of seal, and a decode that runs is at a
\* version it knows.
CatDecodesAreKnown ==
    /\ sealed = "sealed" => \A k \in DOMAIN kinds : WellFormed(kinds[k])
    /\ \A t \in Threads : job[t].at = "running" =>
          /\ sealed = "sealed" /\ job[t].kind \in DOMAIN kinds
          /\ job[t].version \in DOMAIN kinds[job[t].kind].schemas

\* What was accepted and is not forgotten is what is remembered.
CatReturnedIsRemembered ==
    \A f \in Transforms : \A r \in returned[f] :
        \E i \in 1..Len(observed[f]) : observed[f][i].in = r[1] /\ observed[f][i].out = r[2]

CatInvariant ==
    CatTypes /\ CatDecodesAreKnown /\ CatReturnedIsRemembered /\ ObservationsBounded
=============================================================================
