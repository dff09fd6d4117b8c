------------------------------- MODULE DataCache -------------------------------
(***************************************************************************)
(* The runtime cache of pliego-data: CachePolicy and its keys, one         *)
(* CacheManager and InMemoryCacheStore per host, get_or_fill with its      *)
(* coalesced fills, and the InMemoryInvalidationCoordinator that sweeps    *)
(* every registered store.                                                 *)
(*                                                                         *)
(* What a fill computes is the application's and left open; a record       *)
(* remembers whose it is and how many sweeps its store had seen when it    *)
(* was put.  Digests are the tuples they hash.                             *)
(***************************************************************************)
EXTENDS Naturals, Sequences, FiniteSets

CONSTANTS
    CacheHosts,     \* replicas: a store and its manager each
    CacheCalls,     \* calls of get_or_fill
    CachePolicies,  \* policies the calls are made under
    CacheInputs,    \* CacheKeyInputs
    CacheCapacity,  \* InMemoryCacheStore.max_entries
    CacheReplays,   \* MAX_INVALIDATION_REPLAY_EVENTS
    CacheTags,      \* tags that are invalidated
    CacheCauses,    \* cause receipts of invalidations
    CacheMaxSweeps, \* bound on the coordinator's sequence
    CacheMaxTime    \* bound on the clock

ASSUME CacheAssumption ==
    CacheCapacity \in Nat \ {0} /\ CacheReplays \in Nat \ {0}

VARIABLES
    cacheNow,   \* unix_millis
    entries,    \* per host: digest -> CacheStoreRecord
    fills,      \* per host: digest -> the call that leads the fill
    fill,       \* per call: its FillState and the task that fills it
    cacheCall,  \* per call: where it is, with what, and its answer
    sweep,      \* the invalidation under way
    sequence,   \* InvalidationCoordinatorInner.sequence
    replay,     \* InvalidationReplayWindow: events, oldest first
    events,     \* history: InvalidationEvents that were acknowledged
    swept       \* history: the latest sweep of each host's store

cacheVars == <<cacheNow, entries, fills, fill, cacheCall, sweep, sequence, replay,
               events, swept>>

CacheNone == "none"
NoFill == [phase |-> "idle", result |-> CacheNone, notified |-> FALSE]
NoCacheCall == [at |-> "idle", answer |-> [kind |-> CacheNone]]
NoSweep == [event |-> [sequence |-> 0], todo |-> {}]

\* What the builder methods of CachePolicy admit.
CachePolicyAdmitted(p) ==
    /\ p.revision > 0 /\ p.epoch > 0
    /\ Cardinality(p.vary) <= 32
    /\ p.fresh > 0
    /\ p.maxKey > 0 /\ p.maxValue > 0 /\ p.maxTags > 0
    /\ p.timeout > 0

\* A private policy needs a partition of its kind, a public one none.
CachePartitionMatches(p, input) ==
    input.partition = CASE p.domain = "public-runtime"  -> CacheNone
                        [] p.domain = "private-request" -> "request"
                        [] p.domain = "private-session" -> "session"

CacheKeyError(p, input) ==
    IF ~CachePolicyAdmitted(p) THEN "InvalidPolicy"
    ELSE IF DOMAIN input.vary # p.vary THEN "MissingVary"
    ELSE IF ~CachePartitionMatches(p, input) THEN "PartitionMismatch"
    ELSE IF input.bytes > p.maxKey THEN "KeyTooLarge"
    ELSE CacheNone

\* CachePolicy::key: every part is framed by its length, so that the digest
\* tells any two different tuples apart.
CacheKeyDigest(p, input) ==
    <<p.id, p.revision, p.namespace, p.epoch, p.domain, input.operation, input.vary,
      input.partition, input.owner>>

CacheStamp(p) == <<p.id, p.revision, p.namespace, p.epoch, p.domain>>

CacheInit ==
    /\ cacheNow = 0
    /\ entries = [h \in CacheHosts |-> <<>>]
    /\ fills = [h \in CacheHosts |-> <<>>]
    /\ fill = [c \in CacheCalls |-> NoFill]
    /\ cacheCall = [c \in CacheCalls |-> NoCacheCall]
    /\ sweep = NoSweep /\ sequence = 0 /\ replay = <<>> /\ events = {}
    /\ swept = [h \in CacheHosts |-> 0]

CacheWithout(f, d) == [x \in DOMAIN f \ {d} |-> f[x]]
CacheWith(f, d, v) == [x \in DOMAIN f \cup {d} |-> IF x = d THEN v ELSE f[x]]

CacheGo(c, to) == cacheCall' = [cacheCall EXCEPT ![c].at = to]
CacheAnswer(c, answer) ==
    cacheCall' = [cacheCall EXCEPT ![c].at = "done", ![c].answer = answer,
                                   ![c].leader = c, ![c].seen = FALSE, ![c].final = FALSE]
CacheDigest(c) == CacheKeyDigest(cacheCall[c].policy, cacheCall[c].input)

-----------------------------------------------------------------------------
(* get_or_fill and lookup.                                                 *)

CacheBegin(c) ==
    /\ cacheCall[c].at = "idle"
    /\ \E h \in CacheHosts, p \in CachePolicies, i \in CacheInputs :
          cacheCall' = [cacheCall EXCEPT ![c] =
              IF CacheKeyError(p, i) # CacheNone
              THEN [at |-> "done", answer |-> [kind |-> CacheKeyError(p, i)]]
              ELSE [at |-> "lookup", host |-> h, policy |-> p, input |-> i,
                    before |-> events, leader |-> c, seen |-> FALSE, final |-> FALSE,
                    answer |-> [kind |-> CacheNone]]]
    /\ UNCHANGED <<cacheNow, entries, fills, fill, sweep, sequence, replay, events, swept>>

CacheHit(c, record) ==
    [kind |-> "served", value |-> record,
     outcome |-> IF cacheCall[c].policy.domain # "public-runtime" THEN "private"
                 ELSE IF cacheNow < record.freshUntil THEN "hit" ELSE "stale"]

\* A miss ends the call when it follows the fill it waited for.
CacheMiss(c) == IF cacheCall[c].final THEN CacheAnswer(c, [kind |-> "miss"]) ELSE CacheGo(c, "missed")

\* An entry of another policy or past its stale window is removed by a second
\* call to the store.
CacheLookup(c) ==
    /\ cacheCall[c].at = "lookup"
    /\ LET held == entries[cacheCall[c].host]
           d == CacheDigest(c)
       IN  IF d \notin DOMAIN held THEN CacheMiss(c)
           ELSE IF held[d].stamp # CacheStamp(cacheCall[c].policy) THEN CacheGo(c, "mismatched")
           ELSE IF cacheNow >= held[d].staleUntil THEN CacheGo(c, "removing")
           ELSE CacheAnswer(c, CacheHit(c, held[d]))
    /\ UNCHANGED <<cacheNow, entries, fills, fill, sweep, sequence, replay, events, swept>>

CacheRemove(c) ==
    /\ cacheCall[c].at \in {"removing", "mismatched"}
    /\ entries' = [entries EXCEPT ![cacheCall[c].host] = CacheWithout(@, CacheDigest(c))]
    /\ IF cacheCall[c].at = "removing" THEN CacheMiss(c)
       ELSE CacheAnswer(c, [kind |-> "VersionMismatch"])
    /\ UNCHANGED <<cacheNow, fills, fill, sweep, sequence, replay, events, swept>>

\* Cancellation and the deadline of a call, seen before it fills and while it
\* waits.  A fill the call runs by itself is dropped with it.
CacheGiveUp(c) ==
    /\ cacheCall[c].at \in {"missed", "waiting"}
    /\ CacheAnswer(c, [kind |-> "Cancelled"])
    /\ IF cacheCall[c].at = "missed" \/ cacheCall[c].policy.coalesce THEN UNCHANGED fill
       ELSE fill[c].phase = "reading" /\ fill' = [fill EXCEPT ![c].phase = "ended"]
    /\ UNCHANGED <<cacheNow, entries, fills, sweep, sequence, replay, events, swept>>

\* Without coalescing the call fills by itself, with it it joins the fill of its
\* key or leads a new one in a task of the host.
CacheJoin(c) ==
    /\ cacheCall[c].at = "missed"
    /\ LET h == cacheCall[c].host
           d == CacheDigest(c)
       IN  \/ /\ ~cacheCall[c].policy.coalesce
              /\ fill' = [fill EXCEPT ![c].phase = "reading"]
              /\ CacheGo(c, "subscribe") /\ UNCHANGED fills
           \/ /\ cacheCall[c].policy.coalesce /\ d \in DOMAIN fills[h]
              /\ cacheCall' = [cacheCall EXCEPT ![c].at = "subscribe",
                                                ![c].leader = fills[h][d]]
              /\ UNCHANGED <<fills, fill>>
           \/ /\ cacheCall[c].policy.coalesce /\ d \notin DOMAIN fills[h]
              /\ fills' = [fills EXCEPT ![h] = CacheWith(@, d, c)]
              /\ fill' = [fill EXCEPT ![c].phase = "reading"]
              /\ CacheGo(c, "subscribe")
    /\ UNCHANGED <<cacheNow, entries, sweep, sequence, replay, events, swept>>

\* state.notify.notified() is created before the result is looked at.
CacheSubscribe(c) ==
    /\ cacheCall[c].at = "subscribe"
    /\ cacheCall' = [cacheCall EXCEPT ![c].at = "check",
                                      ![c].seen = fill[cacheCall[c].leader].notified]
    /\ UNCHANGED <<cacheNow, entries, fills, fill, sweep, sequence, replay, events, swept>>

CacheCheck(c) ==
    /\ cacheCall[c].at = "check"
    /\ LET result == fill[cacheCall[c].leader].result
       IN  IF result = CacheNone THEN CacheGo(c, "waiting")
           ELSE IF result # "ok" THEN CacheAnswer(c, [kind |-> result])
           ELSE cacheCall' = [cacheCall EXCEPT ![c].at = "lookup", ![c].final = TRUE]
    /\ UNCHANGED <<cacheNow, entries, fills, fill, sweep, sequence, replay, events, swept>>

CacheWake(c) ==
    /\ cacheCall[c].at = "waiting"
    /\ fill[cacheCall[c].leader].notified /\ ~cacheCall[c].seen
    /\ CacheGo(c, "subscribe")
    /\ UNCHANGED <<cacheNow, entries, fills, fill, sweep, sequence, replay, events, swept>>

-----------------------------------------------------------------------------
(* The task of a fill: the application's future, insert, the result, the   *)
(* wakeup and the removal of the fill.                                     *)

CacheFillRead(c) ==
    /\ fill[c].phase = "reading"
    /\ fill' = [fill EXCEPT ![c].phase = "inserting"]
    /\ UNCHANGED <<cacheNow, entries, fills, cacheCall, sweep, sequence, replay, events, swept>>

\* The future fails, panics or runs into fill_timeout.
CacheFillFail(c) ==
    /\ fill[c].phase \in {"reading", "inserting"}
    /\ fill' = [fill EXCEPT ![c].phase = "settled", ![c].result = "FillFailed"]
    /\ UNCHANGED <<cacheNow, entries, fills, cacheCall, sweep, sequence, replay, events, swept>>

CacheRecord(c) ==
    LET p == cacheCall[c].policy
    IN  [stamp |-> CacheStamp(p), owner |-> cacheCall[c].input.owner, namespace |-> p.namespace,
         epoch |-> p.epoch, tags |-> cacheCall[c].input.tags,
         freshUntil |-> cacheNow + p.fresh, staleUntil |-> cacheNow + p.fresh + p.stale,
         putAfter |-> swept[cacheCall[c].host]]

\* insert, which the bounds of the policy and the capacity of the store refuse.
CacheInsertError(c) ==
    LET held == entries[cacheCall[c].host]
    IN  IF cacheCall[c].input.valueBytes > cacheCall[c].policy.maxValue THEN "ValueTooLarge"
        ELSE IF Cardinality(cacheCall[c].input.tags) > cacheCall[c].policy.maxTags
        THEN "TooManyTags"
        ELSE IF CacheDigest(c) \notin DOMAIN held /\ Cardinality(DOMAIN held) >= CacheCapacity
        THEN "StoreCapacity" ELSE "ok"

CacheFillInsert(c) ==
    LET h == cacheCall[c].host
        error == CacheInsertError(c)
    IN  /\ fill[c].phase = "inserting"
        /\ fill' = [fill EXCEPT ![c].phase = "settled", ![c].result = error]
        /\ entries' = IF error # "ok" THEN entries
                      ELSE [entries EXCEPT ![h] = CacheWith(@, CacheDigest(c), CacheRecord(c))]
        /\ UNCHANGED <<cacheNow, fills, cacheCall, sweep, sequence, replay, events, swept>>

CacheFillNotify(c) ==
    /\ fill[c].phase = "settled"
    /\ fill' = [fill EXCEPT ![c].phase = "notified", ![c].notified = TRUE]
    /\ UNCHANGED <<cacheNow, entries, fills, cacheCall, sweep, sequence, replay, events, swept>>

CacheFillEnd(c) ==
    LET h == cacheCall[c].host
        d == CacheDigest(c)
    IN  /\ fill[c].phase = "notified"
        /\ fill' = [fill EXCEPT ![c].phase = "ended"]
        /\ fills' = IF d \in DOMAIN fills[h] /\ fills[h][d] = c
                    THEN [fills EXCEPT ![h] = CacheWithout(@, d)] ELSE fills
        /\ UNCHANGED <<cacheNow, entries, cacheCall, sweep, sequence, replay, events, swept>>

-----------------------------------------------------------------------------
(* InMemoryInvalidationCoordinator::invalidate_tags and invalidate_key,    *)
(* serialised by the lock of the replay window.                            *)

CacheKeys ==
    {CacheKeyDigest(k[1], k[2]) : k \in {x \in CachePolicies \X CacheInputs : CacheKeyError(x[1], x[2]) = CacheNone}}

\* invalidation_replay_id: an event is known by its policy, target and cause.
CacheReplayed(e) == \E i \in DOMAIN replay : [replay[i] EXCEPT !.sequence = e.sequence] = e

\* An event that was delivered before is answered from the replay window.
CacheSweepBegins(p, tags, keys) ==
    /\ sweep = NoSweep /\ sequence < CacheMaxSweeps
    /\ sequence' = sequence + 1
    /\ \E cause \in CacheCauses :
          LET e == [sequence |-> sequence', id |-> p.id, revision |-> p.revision,
                    namespace |-> p.namespace, epoch |-> p.epoch, tags |-> tags, keys |-> keys,
                    cause |-> cause]
          IN  ~CacheReplayed(e) /\ sweep' = [event |-> e, todo |-> CacheHosts]
    /\ UNCHANGED <<cacheNow, entries, fills, fill, cacheCall, replay, events, swept>>

CacheInvalidateTags ==
    \E p \in CachePolicies, tags \in SUBSET CacheTags :
        tags # {} /\ Cardinality(tags) <= p.maxTags /\ CacheSweepBegins(p, tags, {})

CacheInvalidateKey ==
    \E p \in CachePolicies, k \in CacheKeys :
        k[1] = p.id /\ k[4] = p.epoch /\ CacheSweepBegins(p, {}, {k})

\* Mutant: an entry is dropped only when every tag of it is invalidated.
CacheSurvivesExact(d, record) ==
    LET e == sweep.event
    IN  /\ d \notin e.keys
        /\ ~(/\ e.tags # {} /\ record.namespace = e.namespace /\ record.epoch = e.epoch
             /\ record.tags \subseteq e.tags)

\* InMemoryCacheStore::invalidate keeps what has another key and, unless it is
\* of the policy's namespace and epoch, what has the tags.
CacheSurvives(d, record) ==
    LET e == sweep.event
    IN  /\ d \notin e.keys
        /\ ~(/\ e.tags # {} /\ record.namespace = e.namespace /\ record.epoch = e.epoch
             /\ record.tags \cap e.tags # {})

CacheSweepHost(h) ==
    /\ h \in sweep.todo
    /\ entries' = [entries EXCEPT ![h] = [d \in {x \in DOMAIN @ : CacheSurvives(x, @[x])} |-> @[d]]]
    /\ sweep' = [sweep EXCEPT !.todo = @ \ {h}]
    /\ swept' = [swept EXCEPT ![h] = sweep.event.sequence]
    /\ UNCHANGED <<cacheNow, fills, fill, cacheCall, sequence, replay, events>>

\* The event, with one acknowledgement per registered store.
CacheAcknowledge ==
    /\ sweep # NoSweep /\ sweep.todo = {}
    /\ LET longer == Append(replay, sweep.event)
       IN  replay' = IF Len(longer) > CacheReplays THEN Tail(longer) ELSE longer
    /\ events' = events \cup {sweep.event}
    /\ sweep' = NoSweep
    /\ UNCHANGED <<cacheNow, entries, fills, fill, cacheCall, sequence, swept>>

CacheTick ==
    /\ cacheNow < CacheMaxTime
    /\ cacheNow' = cacheNow + 1
    /\ UNCHANGED <<entries, fills, fill, cacheCall, sweep, sequence, replay, events, swept>>

CacheCallStep(c) ==
    \/ CacheBegin(c) \/ CacheLookup(c) \/ CacheRemove(c) \/ CacheGiveUp(c)
    \/ CacheJoin(c) \/ CacheSubscribe(c) \/ CacheCheck(c) \/ CacheWake(c)

CacheFillStep(c) ==
    \/ CacheFillRead(c) \/ CacheFillFail(c) \/ CacheFillInsert(c)
    \/ CacheFillNotify(c) \/ CacheFillEnd(c)

CacheNext ==
    \/ \E c \in CacheCalls : CacheCallStep(c) \/ CacheFillStep(c)
    \/ \E h \in CacheHosts : CacheSweepHost(h)
    \/ CacheInvalidateTags \/ CacheInvalidateKey \/ CacheAcknowledge \/ CacheTick

CacheSpec == CacheInit /\ [][CacheNext]_cacheVars

-----------------------------------------------------------------------------
(* Properties.                                                             *)

CacheServed(c) == cacheCall[c].answer.kind = "served"

\* No call is answered with a value computed for another partition, policy,
\* revision or epoch, whoever filled, joined or shares its store
\* (CachePolicy::key, record_matches).
CacheIsIsolated ==
    \A c \in CacheCalls : CacheServed(c) =>
        /\ cacheCall[c].answer.value.stamp = CacheStamp(cacheCall[c].policy)
        /\ cacheCall[c].answer.value.owner = cacheCall[c].input.owner

\* The event's target: a key, or tags in a namespace and epoch.
CacheConcerns(e, d, record) ==
    d \in e.keys \/ (e.namespace = record.namespace /\ e.epoch = record.epoch /\ e.tags \cap record.tags # {})

\* A call made after an invalidation was acknowledged is never answered with a
\* value of its namespace and epoch with one of its tags, or of its key, that was
\* in a store when the store was swept: one that was put there since may still
\* have been computed before (invalidate, its replay window).
CacheSweepsHold ==
    \A c \in CacheCalls : CacheServed(c) =>
        \A e \in cacheCall[c].before :
            CacheConcerns(e, CacheDigest(c), cacheCall[c].answer.value) =>
                cacheCall[c].answer.value.putAfter >= e.sequence

\* A waiter is not left asleep: once the fill it waits for has ended, it can be
\* woken (the order of notified(), the result and notify_waiters).
CacheWaitersAreWoken ==
    \A c \in CacheCalls :
        (cacheCall[c].at = "waiting" /\ fill[cacheCall[c].leader].phase \in {"notified", "ended"})
            => fill[cacheCall[c].leader].notified /\ ~cacheCall[c].seen

\* What the cache owes to its callers: isolation of partitions, sweeps that
\* hold, and wakeups that reach every waiter (key, invalidate, get_or_fill).
CacheGuarantees ==
    /\ CacheIsIsolated
    /\ CacheSweepsHold
    /\ CacheWaitersAreWoken

-----------------------------------------------------------------------------
(* What makes CacheGuarantees inductive.                                   *)

CacheFields == {"at", "host", "policy", "input", "before", "leader", "seen", "final", "answer"}
CacheResults == {CacheNone, "ok", "FillFailed", "ValueTooLarge", "TooManyTags", "StoreCapacity"}
CachePhases == {"idle", "reading", "inserting", "settled", "notified", "ended"}

\* The call has a key and goes on under it.
CacheOpened(c) ==
    /\ DOMAIN cacheCall[c] = CacheFields /\ cacheCall[c].at # "idle"
    /\ cacheCall[c].host \in CacheHosts /\ cacheCall[c].leader \in CacheCalls
    /\ cacheCall[c].seen \in BOOLEAN
    /\ cacheCall[c].before \subseteq events

CacheTypes ==
    /\ DOMAIN cacheCall = CacheCalls /\ DOMAIN entries = CacheHosts /\ DOMAIN fills = CacheHosts
    /\ DOMAIN fill = CacheCalls
    /\ \A c \in CacheCalls :
          /\ DOMAIN fill[c] = {"phase", "result", "notified"}
          /\ fill[c].phase \in CachePhases /\ fill[c].result \in CacheResults
          /\ fill[c].notified \in BOOLEAN
          /\ fill[c].phase # "idle" => CacheOpened(c)
          /\ \/ CacheOpened(c)
             \/ /\ DOMAIN cacheCall[c] = {"at", "answer"} /\ cacheCall[c].at \in {"idle", "done"}
                /\ ~CacheServed(c)
    /\ swept \in [CacheHosts -> Nat] /\ sequence \in Nat
    /\ DOMAIN sweep = {"event", "todo"} /\ sweep.todo \subseteq CacheHosts
    /\ \A e \in events \cup {sweep.event} : e.sequence \in 0..sequence

\* The event's sweep of the store is over.
CacheOver(e, h) == e \in events \/ (e = sweep.event /\ sweep # NoSweep /\ h \notin sweep.todo)

\* An entry is its key's, and of what a store was swept of nothing is left.
CacheEntriesHold ==
    \A h \in CacheHosts : \A d \in DOMAIN entries[h] :
        /\ entries[h][d].owner = d[9] /\ entries[h][d].putAfter \in Nat
        /\ \A e \in events \cup {sweep.event} :
              CacheOver(e, h) /\ CacheConcerns(e, d, entries[h][d]) => entries[h][d].putAfter >= e.sequence

CacheSweepsCover ==
    /\ sweep # NoSweep => sweep.event.sequence = sequence
    /\ \A h \in CacheHosts :
          /\ swept[h] <= sequence
          /\ \A e \in events \cup {sweep.event} : CacheOver(e, h) => e.sequence <= swept[h]

\* Only a fill that its host runs is led for others, and a fill that is
\* dropped has no one else waiting.
CacheLeads(c) == CacheOpened(c) /\ cacheCall[c].policy.coalesce

CacheFillsAreLed ==
    /\ \A h \in CacheHosts : \A d \in DOMAIN fills[h] :
          fills[h][d] \in CacheCalls /\ CacheLeads(fills[h][d])
    /\ \A c \in CacheCalls :
          CacheOpened(c) => cacheCall[c].leader = c \/ CacheLeads(cacheCall[c].leader)

CacheNotices ==
    \A c \in CacheCalls :
        /\ fill[c].notified => fill[c].result # CacheNone
        /\ fill[c].phase = "notified" => fill[c].notified
        /\ fill[c].phase = "settled" => fill[c].result # CacheNone
        /\ fill[c].phase = "ended" =>
              fill[c].notified \/ (~cacheCall[c].policy.coalesce /\ cacheCall[c].at = "done")
        /\ (CacheOpened(c) /\ cacheCall[c].seen) => fill[cacheCall[c].leader].notified
        /\ cacheCall[c].at \in {"missed", "waiting"} => ~cacheCall[c].seen
        /\ cacheCall[c].at \in {"lookup", "removing", "mismatched"} => (cacheCall[c].final \/ ~cacheCall[c].seen)

CacheInvariant ==
    CacheTypes /\ CacheEntriesHold /\ CacheSweepsCover /\ CacheFillsAreLed /\ CacheNotices
    /\ CacheIsIsolated /\ CacheSweepsHold
=============================================================================
