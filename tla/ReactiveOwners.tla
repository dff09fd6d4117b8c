---------------------------- MODULE ReactiveOwners ----------------------------
(***************************************************************************)
(* Ownership and lifetime in pliego-reactive: the generational arena       *)
(* (allocate_node, take_node), explicit Owner scopes, nodes and cleanups   *)
(* that belong to the computation that created them, provisional frames    *)
(* that replace or roll back a scope, and disposal that is deferred while  *)
(* a descendant is running.                                                *)
(*                                                                         *)
(* What computations read and write is in ReactiveGraph; here a memo or an *)
(* effect may be run at any time and a signal updated at any time.  A      *)
(* resource is identified, as history, by a uid; a cleanup by a number.    *)
(* free is a set: any of its slots may be the next one taken.              *)
(***************************************************************************)
EXTENDS Naturals, Sequences, FiniteSets, SequencesExt

CONSTANTS
    MaxSlots,     \* bound on the arena
    MaxGeneration,\* u32::MAX
    MaxResources, \* bound on the nodes ever created
    MaxCleanups,  \* bound on the cleanups ever registered
    MaxCalls,     \* bound on computations and updates nested in one another
    ChildrenPull  \* a computation may pull the memo whose scope it belongs to

ASSUME BoundsAssumption ==
    {MaxSlots, MaxGeneration, MaxResources, MaxCleanups, MaxCalls} \subseteq Nat

ASSUME ChildrenPullAssumption == ChildrenPull \in BOOLEAN

VARIABLES
    nodes,      \* live nodes by NodeId
    generation, \* Slot.generation of every slot the arena has grown to
    free,       \* Runtime.free
    calls,      \* running calls, innermost last; the runs are Runtime.frames
    deferred,   \* Runtime.deferred_disposals
    ownUnwinding,  \* a panic is propagating
    uids,       \* history: number of nodes created
    issued,     \* history: <<NodeId, uid>> of every handle handed out
    registered, \* history: number of cleanups registered
    cleaned     \* history: cleanups in the order they ran

ownVars == <<nodes, generation, free, calls, deferred, ownUnwinding, uids, issued,
          registered, cleaned>>
counters == <<uids, issued, registered>>

None == <<0, 0>>
Live == DOMAIN nodes

Node(kind, owner, uid) ==
    [kind |-> kind, owner |-> owner, uid |-> uid, owned |-> << >>,
     cleanups |-> << >>, dispose_requested |-> FALSE, busy |-> FALSE]

OwnComputations == {"Memo", "Effect"}

\* A ComputationFrame, and whether it is the first run of a new effect.
Frame(id, first) == [op |-> "run", id |-> id, first |-> first, owned |-> << >>,
                     cleanups |-> << >>]

OwnUpdateCall(id) == [op |-> "update", id |-> id, owned |-> << >>, cleanups |-> << >>]

Last_(s) == s[Len(s)]

\* Runtime.owner as the place of its frame in calls, 0 for None.
Ambient == LET runs == {i \in 1..Len(calls) : calls[i].op = "run"}
           IN  IF runs = {} THEN 0 ELSE CHOOSE i \in runs : \A j \in runs : j <= i

OwnInit ==
    /\ nodes = << >>
    /\ generation = << >>
    /\ free = {}
    /\ calls = << >>
    /\ deferred = << >>
    /\ ownUnwinding = FALSE
    /\ uids = 0
    /\ issued = {}
    /\ registered = 0
    /\ cleaned = << >>

-----------------------------------------------------------------------------
(* Disposal.                                                               *)

\* Nodes below a node, itself included, through committed scopes only.
Tree(ns, id) ==
    LET grow[k \in 0..MaxResources] ==
            IF k = 0 THEN {id} \cap DOMAIN ns
            ELSE LET above == grow[k - 1]
                 IN  above \cup (UNION {ToSet(ns[h].owned) : h \in above} \cap DOMAIN ns)
    IN  grow[MaxResources]

\* disposable_tree_is_busy, assert_disposable_tree
Busy(ns, id) == \E h \in Tree(ns, id) : ns[h].busy

\* Mutant: parents before their children.
CleanupOrderForward(ns, id) ==
    LET order[k \in 0..MaxResources] ==
          [h \in DOMAIN ns |->
             IF k = 0 THEN << >>
             ELSE LET kids == SelectSeq(Reverse(ns[h].owned),
                                        LAMBDA c : c \in DOMAIN ns)
                  IN  Reverse(ns[h].cleanups)
                      \o FlattenSeq([i \in 1..Len(kids) |-> order[k - 1][kids[i]]])]
    IN  IF id \in DOMAIN ns THEN order[MaxResources][id] ELSE << >>

\* The order in which collect_disposal runs the cleanups of a tree: newest
\* child first, descendants before the parent, newest cleanup first.
CleanupOrder(ns, id) ==
    LET order[k \in 0..MaxResources] ==
          [h \in DOMAIN ns |->
             IF k = 0 THEN << >>
             ELSE LET kids == SelectSeq(Reverse(ns[h].owned),
                                        LAMBDA c : c \in DOMAIN ns)
                  IN  FlattenSeq([i \in 1..Len(kids) |-> order[k - 1][kids[i]]])
                      \o Reverse(ns[h].cleanups)]
    IN  IF id \in DOMAIN ns THEN order[MaxResources][id] ELSE << >>

\* The nodes that are left when the trees under ids are taken out.
Without(ns, ids) ==
    LET gone == UNION {Tree(ns, id) : id \in ids}
    IN  [h \in DOMAIN ns \ gone |->
            [ns[h] EXCEPT !.owned = SelectSeq(@, LAMBDA c : c \notin gone)]]

\* take_node: the slot of a node that is gone returns to free under the next
\* generation, or is retired when there is none.
Recycled(kept) ==
    LET gone == {h[1] : h \in Live \ kept}
        next == {i \in gone : generation[i] < MaxGeneration}
    IN  /\ generation' = [i \in 1..Len(generation) |->
              IF i \in next THEN generation[i] + 1 ELSE generation[i]]
        /\ free' = free \cup next

\* take_ready_deferred_disposal until nothing is ready: state and cleanups after
\* the deferred owners that are no longer busy are gone.
Drained(ns, ds) ==
    LET ready == SelectSeq(ds, LAMBDA o : o \in DOMAIN ns /\ ~Busy(ns, o))
        step[k \in 0..Len(ready)] ==
            IF k = 0 THEN [nodes |-> ns, cleanups |-> << >>]
            ELSE LET before == step[k - 1]
                 IN  [nodes    |-> Without(before.nodes, {ready[k]}),
                      cleanups |-> before.cleanups
                                   \o CleanupOrder(before.nodes, ready[k])]
    IN  step[Len(ready)]

\* A safe boundary: the trees taken out so far left ns and ran the cleanups ran;
\* then the deferred disposals are drained.
Settle(ns, ran, fs) ==
    LET after == Drained(ns, deferred)
    IN  /\ nodes' = after.nodes
        /\ cleaned' = cleaned \o ran \o after.cleanups
        /\ Recycled(DOMAIN after.nodes)
        /\ deferred' = SelectSeq(deferred, LAMBDA o : o \in DOMAIN after.nodes)
        /\ calls' = [i \in 1..Len(fs) |->
              [fs[i] EXCEPT !.owned =
                  SelectSeq(@, LAMBDA c : c \in DOMAIN after.nodes)]]

-----------------------------------------------------------------------------
(* User code: the application, the innermost running computation, or the   *)
(* callback of the innermost Signal::update.                               *)

Alive(o) == nodes[o].kind = "Owner" /\ ~nodes[o].dispose_requested

OwnThrow ==
    /\ ownUnwinding' = TRUE
    /\ UNCHANGED <<nodes, generation, free, calls, deferred, counters, cleaned>>

\* allocate_node: a free slot under its generation, or a new slot.
Allocate(id, kind, owner, ns) ==
    /\ IF free # {}
       THEN /\ id[1] \in free /\ id[2] = generation[id[1]]
            /\ free' = free \ {id[1]}
            /\ UNCHANGED generation
       ELSE /\ id = <<Len(generation) + 1, 0>>
            /\ generation' = Append(generation, 0)
            /\ UNCHANGED free
    /\ uids < MaxResources
    /\ uids' = uids + 1
    /\ issued' = issued \cup {<<id, uids + 1>>}
    /\ nodes' = [h \in DOMAIN ns \cup {id} |->
          IF h = id
          THEN [Node(kind, owner, uids + 1) EXCEPT !.busy = (kind = "Effect")]
          ELSE ns[h]]
    /\ UNCHANGED <<deferred, registered, cleaned>>

Adopting(o, id) == [nodes EXCEPT ![o].owned = Append(@, id)]

\* Effect::install runs the new effect at once.
FirstRun(id, kind, cs) ==
    /\ kind = "Effect" => Len(calls) < MaxCalls
    /\ calls' = IF kind = "Effect" THEN Append(cs, Frame(id, TRUE)) ELSE cs

\* Owner::new
NewOwner(id) ==
    /\ ~ownUnwinding
    /\ Allocate(id, "Owner", None, nodes)
    /\ UNCHANGED <<calls, ownUnwinding>>

\* Owner::child
Child(o, id) ==
    /\ ~ownUnwinding
    /\ Alive(o)
    /\ Allocate(id, "Owner", o, Adopting(o, id))
    /\ UNCHANGED <<calls, ownUnwinding>>

\* Signal::new, Memo::new, Effect::new: owned by the running computation, if any.
NewResource(id, kind) ==
    /\ ~ownUnwinding
    /\ LET a == Ambient
           owned == a # 0 /\ calls[a].id \in Live
       IN  /\ Allocate(id, kind, IF owned THEN calls[a].id ELSE None, nodes)
           /\ FirstRun(id, kind, IF owned THEN [calls EXCEPT ![a].owned = Append(@, id)]
                                 ELSE calls)
    /\ UNCHANGED ownUnwinding

\* Owner::signal, Owner::memo, Owner::effect
OwnedResource(o, id, kind) ==
    /\ ~ownUnwinding
    /\ Alive(o)
    /\ Allocate(id, kind, o, Adopting(o, id))
    /\ FirstRun(id, kind, calls)
    /\ UNCHANGED ownUnwinding

\* Owner::adopt_effect; a running or owned effect is refused.
AdoptEffect(o, id) ==
    /\ ~ownUnwinding
    /\ Alive(o)
    /\ nodes[id].kind = "Effect"
    /\ ~nodes[id].busy
    /\ nodes[id].owner = None
    /\ nodes' = [Adopting(o, id) EXCEPT ![id].owner = o]
    /\ UNCHANGED <<generation, free, calls, deferred, ownUnwinding, counters, cleaned>>

\* on_cleanup in a computation
OnCleanup ==
    /\ ~ownUnwinding
    /\ Ambient # 0
    /\ registered < MaxCleanups
    /\ registered' = registered + 1
    /\ calls' = [calls EXCEPT ![Ambient].cleanups = Append(@, registered + 1)]
    /\ UNCHANGED <<nodes, generation, free, deferred, ownUnwinding, uids, issued, cleaned>>

\* Owner::on_cleanup
OwnerOnCleanup(o) ==
    /\ ~ownUnwinding
    /\ Alive(o)
    /\ registered < MaxCleanups
    /\ registered' = registered + 1
    /\ nodes' = [nodes EXCEPT ![o].cleanups = Append(@, registered + 1)]
    /\ UNCHANGED <<generation, free, calls, deferred, ownUnwinding, uids, issued, cleaned>>

\* Signal::dispose, Memo::dispose, Effect::dispose
OwnDispose(id) ==
    /\ ~ownUnwinding
    /\ nodes[id].kind # "Owner"
    /\ IF Busy(nodes, id) THEN OwnThrow
       ELSE /\ Settle(Without(nodes, {id}), CleanupOrder(nodes, id), calls)
            /\ UNCHANGED <<ownUnwinding, counters>>

\* Owner::dispose; Drop for Owner, also of an owner a panic drops.
DisposeOwner(o) ==
    /\ nodes[o].kind = "Owner"
    /\ IF Busy(nodes, o)
       THEN /\ nodes' = [nodes EXCEPT ![o].dispose_requested = TRUE]
            /\ deferred' = IF nodes[o].dispose_requested THEN deferred
                           ELSE Append(deferred, o)
            /\ UNCHANGED <<generation, free, calls, cleaned>>
       ELSE Settle(Without(nodes, {o}), CleanupOrder(nodes, o), calls)
    /\ UNCHANGED <<ownUnwinding, counters>>

\* ComputationGuard::enter and UpdateGuard::enter
Enter(id, call) ==
    /\ ~ownUnwinding
    /\ Len(calls) < MaxCalls
    /\ IF nodes[id].busy THEN OwnThrow
       ELSE /\ nodes' = [nodes EXCEPT ![id].busy = TRUE]
            /\ calls' = Append(calls, call)
            /\ UNCHANGED <<generation, free, deferred, ownUnwinding, counters, cleaned>>

\* run_computation: a dirty memo is read anywhere, a queued effect is flushed
\* when no batch is open.
Run(id) ==
    /\ nodes[id].kind \in OwnComputations
    /\ nodes[id].kind = "Effect" => calls = << >>
    /\ ~ChildrenPull => \A i \in 1..Len(calls) :
                           calls[i].id \notin Tree(nodes, id) \ {id}
    /\ Enter(id, Frame(id, FALSE))

\* Signal::update up to its callback
OwnBeginUpdate(id) ==
    /\ nodes[id].kind = "Signal"
    /\ Enter(id, OwnUpdateCall(id))

OwnPanic == ~ownUnwinding /\ calls # << >> /\ OwnThrow

-----------------------------------------------------------------------------
(* The runtime.                                                            *)

\* The nodes with the flag of the innermost call cleared.
Released == LET id == Last_(calls).id
            IN  [h \in Live |-> IF h = id THEN [nodes[h] EXCEPT !.busy = FALSE]
                                ELSE nodes[h]]

\* The cleanups of a scope: those of its nodes, newest node first, then its own.
ScopeCleanups(scope) ==
    LET kids == Reverse(scope.owned)
    IN  FlattenSeq([i \in 1..Len(kids) |-> CleanupOrder(nodes, kids[i])])
        \o Reverse(scope.cleanups)

\* ComputationGuard::finish and commit_computation: the frame replaces the
\* previous scope, which is then taken out without asking whether it is busy.
\* A computation that was taken out while it ran ends the process: finish
\* panics, and so does the guard's drop.
OwnCommit ==
    /\ ~ownUnwinding
    /\ calls # << >> /\ Last_(calls).op = "run"
    /\ Last_(calls).id \in Live
    /\ LET frame == Last_(calls)
           old   == nodes[frame.id]
           ns    == [Released EXCEPT ![frame.id].owned = frame.owned,
                                     ![frame.id].cleanups = frame.cleanups]
       IN  Settle(Without(ns, ToSet(old.owned)), ScopeCleanups(old), Front(calls))
    /\ UNCHANGED <<ownUnwinding, counters>>

\* Mutant: what a failed computation created survives it.
RollbackKeeping ==
    /\ ownUnwinding
    /\ calls # << >> /\ Last_(calls).op = "run"
    /\ LET frame == Last_(calls)
           gone  == IF frame.first THEN {frame.id} ELSE {}
       IN  Settle(Without(Released, gone), Reverse(frame.cleanups), Front(calls))
    /\ UNCHANGED <<ownUnwinding, counters>>

\* take_rollback and rollback: what the frame created is taken out, the
\* previous scope stays; an effect that never ran is disposed of (install).
OwnRollback ==
    /\ ownUnwinding
    /\ calls # << >> /\ Last_(calls).op = "run"
    /\ LET frame == Last_(calls)
           gone  == ToSet(frame.owned) \cup (IF frame.first THEN {frame.id} ELSE {})
       IN  Settle(Without(Released, gone), ScopeCleanups(frame), Front(calls))
    /\ UNCHANGED <<ownUnwinding, counters>>

\* The end of Signal::update, after its callback returned or panicked.
OwnEndUpdate ==
    /\ calls # << >> /\ Last_(calls).op = "update"
    /\ Settle(Released, << >>, Front(calls))
    /\ UNCHANGED <<ownUnwinding, counters>>

Caught ==
    /\ ownUnwinding
    /\ calls = << >>
    /\ ownUnwinding' = FALSE
    /\ UNCHANGED <<nodes, generation, free, calls, deferred, counters, cleaned>>

-----------------------------------------------------------------------------

Ids == (1..MaxSlots) \X (0..MaxGeneration)
Kinds == OwnComputations \cup {"Signal"}

OwnNext ==
    \/ \E id \in Ids : NewOwner(id) \/ \E kind \in Kinds : NewResource(id, kind)
    \/ \E o \in Live, id \in Ids :
          Child(o, id) \/ \E kind \in Kinds : OwnedResource(o, id, kind)
    \/ \E o, id \in Live : AdoptEffect(o, id)
    \/ \E id \in Live : \/ OwnerOnCleanup(id) \/ OwnDispose(id) \/ DisposeOwner(id)
                        \/ Run(id) \/ OwnBeginUpdate(id)
    \/ OnCleanup \/ OwnPanic
    \/ OwnCommit \/ OwnRollback \/ OwnEndUpdate \/ Caught

OwnSpec == OwnInit /\ [][OwnNext]_ownVars

-----------------------------------------------------------------------------
(* Properties.                                                             *)

\* A handle names one resource for ever: after disposal it resolves to nothing,
\* although its slot is reused (node, allocate_node, take_node).
HandlesNeverAliased ==
    \A i \in issued : i[1] \in Live => nodes[i[1]].uid = i[2]

\* The scope an owned node belongs to holds it, and is alive: a failed run or
\* a disposed owner leaves no orphan (add_node, commit_computation, rollback).
OwnedByALiveScope ==
    \A h \in Live : nodes[h].owner # None =>
        /\ nodes[h].owner \in Live
        /\ \/ h \in ToSet(nodes[nodes[h].owner].owned)
           \/ \E i \in 1..Len(calls) :
                 calls[i].id = nodes[h].owner /\ h \in ToSet(calls[i].owned)

\* assert_disposable_tree: "cannot dispose a running computation", "cannot
\* dispose a signal during its update".
RunningStaysAlive == \A i \in 1..Len(calls) : calls[i].id \in Live

Held == UNION {ToSet(nodes[h].cleanups) : h \in Live}
        \cup UNION {ToSet(calls[i].cleanups) : i \in 1..Len(calls)}

\* Every cleanup is either still held by exactly one live scope or has run, and
\* none runs twice, whatever is re-run, rolled back, deferred or disposed of
\* (collect_disposal, run_disposal).
CleanupsRunOnce ==
    /\ Held \cap ToSet(cleaned) = {}
    /\ Held \cup ToSet(cleaned) = 1..registered
    /\ Len(cleaned) = Cardinality(ToSet(cleaned))

\* Cleanups of one scope run newest first, those of descendants before: while a
\* step runs several cleanups, none is older than a later one of the same node
\* or belongs to an ancestor of a later one (collect_disposal).
CleanupsRunInnermostFirst ==
    [][\A h \in Live : LET mine == nodes[h].cleanups IN
         \A i, j \in (Len(cleaned) + 1)..Len(cleaned') : i < j =>
            /\ cleaned'[i] \in ToSet(mine) /\ cleaned'[j] \in ToSet(mine) =>
                  cleaned'[i] > cleaned'[j]
            /\ cleaned'[i] \in ToSet(mine) =>
                  cleaned'[j] \notin UNION {ToSet(nodes[d].cleanups) :
                                               d \in Tree(nodes, h) \ {h}}]_ownVars

\* A disposal that was deferred because a descendant was running has happened
\* by the time the outermost call has ended, panicking or not
\* (drain_deferred_disposals).
NothingWaitsBetweenCalls == calls = << >> => deferred = << >>

\* A handle resolves to its own resource or to nothing, every live resource has
\* a live owner, what runs is alive, a cleanup runs once, and nothing is left
\* deferred between calls (take_node, dispose, rollback, drain_deferred_disposals).
OwnerGuarantees ==
    /\ HandlesNeverAliased
    /\ OwnedByALiveScope
    /\ RunningStaysAlive
    /\ CleanupsRunOnce
    /\ NothingWaitsBetweenCalls
=============================================================================
