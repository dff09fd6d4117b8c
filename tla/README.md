# PliegoRS in TLA+

A verification project for PliegoRS, a Rust framework in which a page is the
fold of an event log: typed events are appended to a hash-chained log,
projections fold the log into state, a fine-grained reactive graph carries the
state to effects and the document, and a transaction scheduler keeps them in
step. Around that core stand a request runtime, a static site builder, a
development server and a contract for deployable bundles. The modules here are
translated from the source under `src/crates/`; `PROJECT.json` names, for every
definition that models code, the lines it models.

Contents: [1 The system](#1-the-system) ·
[2 Modules](#2-modules-and-the-code-they-model) ·
[3 Model-checking runs](#3-model-checking-runs) ·
[4 Proofs](#4-proofs) · [5 Findings](#5-where-code-and-documentation-disagree) ·
[6 Not modelled](#6-not-modelled) · [7 Plan](#7-plan)

## 1 The system

### Parts, state, operations

| part | state it keeps | operations | module |
|---|---|---|---|
| causal scheduler (`pliego-fold/src/scheduler.rs`) | phase, active transaction, next id, a ready and a deferred queue | `dispatch`, `enqueue`, `drain`, the transaction steps, the unwind guard | `CausalScheduler` |
| projections and snapshots (`pliego-fold`) | stable state with its cursor, last error, snapshot envelope | `new`, `append`, `settle`, `snapshot`, `restore_bytes` | `ProjectionRestore` |
| event log (`pliego-log`) | the chained events | `append_typed`, `import_raw`, `cursor_at`, `tail`, `verify` | `EventLog` |
| event catalog (`pliego-log`) | kinds, schema versions, observed transforms | `register_*`, `seal`, `decode` | `EventCatalog` |
| hyphae synchronization (`pliego-hyphae`) | outgoing batch, replay cursor and anchors; legacy acknowledgements | append with retry, pull, validate, verify, apply; push, fetch, confirm | `HyphaeSync`, `LegacyJournal` |
| reactive graph (`pliego-reactive`) | colours, edges, frames, batch depth, pending effects | reads, writes, pulls, commits, flushes | `ReactiveGraph` |
| reactive ownership (`pliego-reactive`) | arena, scopes, cleanups, deferred disposals | creation, adoption, re-run, rollback, disposal | `ReactiveOwners` |
| DOM (`pliego-dom`) | the mount's nodes, slots, rows | mount, adopt, update transactions, disposal | `DomMount` |
| adapters (`pliego-adapters/src/runtime-v1.js`) | per root: lifecycle, update queue, teardowns | mount, update, refresh, unmount, observe removal | `AdapterRuntime` |
| request data (`pliego-data`) | idempotency records, sessions, keys, cache entries and fills, loader cells, leases, cleanups | act, load/rotate/revoke, get or fill, invalidate, load, authorize, close | `IdempotentAction`, `SessionStore`, `DataCache`, `RequestContext` |
| request runtime (`pliego-runtime`) | registry, slots, scopes and receipts, response bodies, temporary files | build, admit, dispatch, cancel, drain and close, shutdown, render, decode | `RequestHost`, `RenderStream`, `ActionBodies` |
| router (`pliego-router`) | the sealed graph | add, seal, resolve | `Router` |
| site builder and artifacts (`pliego-ssg`, `pliego-artifact`) | output directory, backups, lock, receipts | capture, reuse, stage, verify, swap, roll back | `SitePublication`, `Artifact` |
| command line (`pliego-cli`) | sources and output, dev generation, build evidence, staging directory, telemetry state | dev loop, verified build, new, doctor, report, upgrade, telemetry | `DevSession`, `BuildInputs`, `ProjectScaffold`, `TrustCommands`, `TelemetryStore` |
| assets and inspection (`pliego-assets`, `pliego-inspect`) | plans, staged files, addressed files, reports | plan, finalize, build rasters; inspect, baseline | `AssetPipeline`, `AssetInspect` |
| component SDK (`pliego-sdk`) | fuel, wall clock, receipts, session | admit, instantiate, transform, effects, messages | `ComponentSdk` |
| content (`pliego-content`) | the collection being loaded | walk, name, check, open, read, diff | `ContentLoader` |
| bundles (`pliego-pboc`, `pliego-cloudflare`) | manifest, directory, releases, worker application | validate, verify, admit, update, roll back; register, seal, serve | `BundleContract` |
| macros, resume, starters | none | code and file generation | – |

### How they interact

`dispatch` queues a typed event and, unless a drain is already running, drains.
A transaction takes the ready queue, appends it to a clone of the log (which
runs the application's serializers), prepares the projection on the clone (which
runs catalog transforms and the reducer), commits the projection and publishes
the clone through a `Signal`. Publishing runs effects, and those may dispatch
again: their events form the next transaction. All of this is one thread; what
interleaves is user code nested in runtime code, plus panics, caught in some
places and unwinding through guards in others. Real threads share only a sealed
catalog. Mounted documents are effects over the graph; adapters are asynchronous
JavaScript, interleaved at every await.

On the server a connection's future dispatches a request through the router,
middleware, body decoders, actions and loaders inside one scope; its deadline
task, shutdown and the response body run beside it. Data structures shared by
requests (cache, sessions, idempotency records) sit behind awaited calls, so
requests interleave between any two of them.

Tools share nothing but the file system: builders, editors, publishers and
operators meet in directories that change between any two system calls.

### What is hard, and what makes each part correct

* **Scheduler.** User code calls back in every phase; each step can fail or panic;
  limits cut feedback loops. Correct: the visible projection is the fold of the
  visible log; receipts chain; tickets are honoured; a transaction is all or
  nothing; a drain ends, and ends quiet.
* **Histories.** Storage and networks lose, repeat, reorder, splice and rewrite;
  processes restart with another release. Correct: what is admitted was appended
  by somebody; a live state is the running release's own fold; a batch lands
  once; what counts as confirmed is durable.
* **Browser.** A lazily settled graph that changes under the walk that settles it;
  slots reused while handles are held; updates whose callbacks fail half way;
  plugins that resolve after their root is gone. Correct: clean means current,
  writes reach effects, cleanups run once and innermost first, nothing running
  is taken away, a failed update leaves the page whole, a plugin is torn down
  once and before the next mount.
* **Requests.** Retries race commits, fills race invalidations, loads race
  rotations, deadlines race completions, shutdown races admission, clients go
  away. Correct: one mutation per key, isolated and swept cache entries, dead
  tokens stay dead, one settled receipt per request, whole documents, no
  orphaned files, no route shadowed but by a catch-all's rivals.
* **Tooling.** Anything read may be different when used; anything may die between
  two renames. Correct: a whole site is always recoverable, reuse is exact, what
  was built is what was observed, addresses are honest, admissions are earned.

`PROJECT.json` lists the individual hazards with the lines where they bite.

## 2 Modules and the code they model

Each module states its abstractions in its header. Bounds appear as constants
and in guards, never as state constraints. History variables are marked as such
where they are declared. Digests and signatures are free terms: the value they
are computed from.

### The causal core

**`CausalScheduler`** — `scheduler.rs`, with `prepare_projection` and
`commit_prepared` of `projection.rs` and the publishing side of `Signal::set`.
A phase in which user code runs is a state; what lies between two such phases is
one step. `Dispatch` and `Drain` start a drain, `TakeTransaction`/`ExceedLimit`/
`ExhaustIds`/`UnsettledPanic`/`EndDrain` are the ways round or out of its loop,
`AppendBatch`, `RejectAppend`, `RejectProjection`, `PrepareUnwinds`,
`CommitAndPublish` and `RecordReceipt` are `execute_transaction`, and `Enqueue`
is user code calling back. The context of a call decides how publication behaves:
at the root it flushes effects inline, in an open batch it only queues them, and
inside a tracked computation the write is refused.

**`CausalLedger`** — what the scheduler promises a client: one append-only history
and one chain of transactions with growing ids, each all or nothing.
`ImplementsLedger` is the refinement: `history` is the fold of the log, `chain` the
decided receipts; a transaction counts as decided when its log is published, one
step before its receipt is recorded.

**`EventLog`** — several logs, the exported history, the storage that edits it, and
the last cursor handed out. A payload in storage has a spelling: canonical, another
one of the same value, or malformed. **`EventCatalog`** — the builder, which keeps
what a failing registration inserted, sealing, and `decode` by several threads over
impure transforms. **`ProjectionRestore`** — a projection's life across processes:
`Restart` runs any release over any older or forked copy of the history,
`DamageSnapshot` changes one field of the stored envelope.

**`HyphaeSync`** — the client of an authority that accepts idempotent batches and
serves pages. The authority and the network are external. **`LegacyJournal`** — the
older seam without idempotence: a push over a tail copied at its start, and browser
fetches whose answers come in any order.

### The page

**`ReactiveGraph`** — nodes, colours, edges, the retry mark, the pending set and an
explicit call stack. The *shape* (who may read and write what) is a constant; within
it user code is free. Values are abstracted to freshness: `fresh[n]` holds the sources
of `n` that have not changed since `n` read them. **`ReactiveOwners`** — arena slots
with generations, scopes, provisional frames, adoption, disposal now or deferred.
`ChildrenPull` says whether a computation may pull the memo that created it.

**`DomMount`** — one root with a dynamic slot or a keyed list, and the transaction its
effect runs: collect, build off document, validate, observe, commit, retire; `DomPlan`
is the keyed reconciliation with its longest increasing subsequence.
**`AdapterRuntime`** — one island root of `runtime-v1.js`; each await is a state.

### Requests

**`IdempotentAction`** — `act_idempotent` with `act`, the commit handle, the permit
and the in-memory store; the external system applies a mutation at any later time,
also after its attempt was interrupted or dropped. **`SessionStore`** — session
manager calls between whose awaits others run, and CSRF proofs with rotating keys.
**`DataCache`** — policies, keys, coalesced fills and the invalidation of tags (in the
policy's namespace and epoch) and of keys; a record remembers whose it is and how many
sweeps its store had seen. **`RequestContext`** — the loader cells,
leases, outbound permits and cleanups of one request, while the host cancels and
closes it. **`RequestHost`** — the sealed builder, connections, the registry and one
scope per request; the scope's locks are taken one per step, so what is read under one
and written under another shows. Routing is four steps (`ReqResolve`, `ReqOpenScope`,
`ReqOpenData`, `ReqRunHandler`), each of which a cancellation may overtake; the cancellers
are the deadline, shutdown, the application and the reader that meets the body's limit. **`RenderStream`** — complete documents, ordered and
boundary bodies; markup is pieces with a size. **`ActionBodies`** — decoders and the
multipart parser with its temporary files: who holds a clone of each changes only where a
handler passes it on or drops it, and `register_cleanup` looks at `closed` one step before
it pushes. **`Router`** — patterns, scopes, `seal`
(which also refuses what was added twice) and resolution as operators.

### Tools

**`Artifact`** and **`SitePublication`** — portable namespaces, evidence, receipts and
verification as operators; builder processes over one project tree and one output.
**`DevSession`** — the rebuild loop, the server threads, a page and its script.
**`BuildInputs`** — what a verified build captures, and the two revalidations around
its commands. **`ProjectScaffold`** — `pliego new` by several processes.
**`TrustCommands`** — doctor, report and upgrade while their project is edited.
**`TelemetryStore`** — commands around one state file, a lock file, staged files and the
directory that holds them, which `disable --delete-local` removes.
**`AssetPipeline`** — plans and their forgeries, inspection, budgets, delivery and
publication under digests.
**`AssetInspect`** — manifests against directories that change. **`ComponentSdk`** —
admission, runs under fuel and a timer thread, the effect broker, tooling sessions.
**`ContentLoader`** — a walk, then opens and reads, of an edited tree.
**`BundleContract`** — validation, verification, admission, transitions, and the worker
application.

The `MC*` modules hold values for constants, and the composition: `MCCausalCore`,
`MCHistory`, `MCBrowser`, `MCRequests`, `MCTooling` and `MCDrains` put components that
share no state into one specification in which a variable `focus` names the one that
moves, so that one run asks a question of a whole layer. Every action of every component
fires in its run; `UnsettledPanic` only in `drains`, the one with tracked callers. The
branches below an action that no passing run takes are the defensive ones: a missing
upcaster after sealing, `complete` and `mark_unknown` on a record that is gone or already
completed, a memo that reads itself or whose source was disposed of, and a capture that
fails its own validation. Every module that has a property also holds mutated definitions (dropped
guards, swapped orders, missing resets), each commented next to the definition it
mutates; they take no part in the specifications and confirm that each property can
fail.

## 3 Model-checking runs

| run | checks | distinct states |
|---|---|---|
| `causal_core` | `TypeOK`, `StateIsFoldOfLog`, `ReceiptContinuity`, `QueueGuarantees`, `LogGuarantees`, `ImplementsLedger` | 1 350 831 |
| `drains` | `WritesReachEffects`, `DrainsEndQuiet`, `CallsReturn`, `DecodeReturns` | 131 719 |
| `history` | `CatalogGuarantees`, `RestoreParity`, `AdmittedSnapshotsAreFolds`, `HypGuarantees`, `LegConfirmedIsDurable` | 1 317 617 |
| `browser` | `GraphGuarantees`, `OwnerGuarantees`, `CleanupsRunInnermostFirst`, `DomGuarantees`, `AdGuarantees` | 2 276 538 |
| `requests` | `OneMutation`, `NoUnprovenRollback`, `CacheGuarantees`, `SessionGuarantees`, `CtxGuarantees`, `ReqGuarantees`, `ReqReceiptsSettle`, `RenDocumentsAreWhole`, `UpFilesAreOwned`, `RouOnlyCatchAllsAreShadowed` | 1 783 227 |
| `tooling` | `PubGuarantees`, `DevQuietIsCurrent`, `InpNothingIsUnobserved`, `AssGuarantees`, `InsCleanReportsHold`, `SdkGuarantees`, `ConGuarantees`, `BunGuarantees`, `ScaDestinationsAreSafe`, `TruGuarantees` | 1 506 896 |
| `causal_tracked` | `CommittedIsPublished` — **violated**, finding 1 | |
| `reactive_panic` | `WritesReachEffects` — **violated**, finding 2 | |
| `reactive_children_pull` | `RunningStaysAlive` — **violated**, finding 3 | |
| `host_disconnect` | `ReqDisconnectsAreCleaned` — **violated**, finding 4 | |
| `dev_failure_page` | `DevFailurePagesRecover` — **violated**, finding 5 | |
| `telemetry_consent` | `TelDisablingStopsCollection` — **violated**, finding 6 | |

A `…Guarantees` property is the conjunction of the named properties that stand before
it in its module, each with the behaviour it is about.

**Why the bounds are enough for these questions.** Two events per transaction is the
least for a batch that fails in its second event; two transactions and three events
per drain make each limit the one that cuts a drain. A log of three gives storage a
first, an inner and a last event to lose, swap or splice; three versions are the least
upcasting chain with an inner step; one remembered result makes every second input
evict; three releases vary reducer and schema alone and let a codec lose state. An
authority's stream of two events and page limits of 1 and 2 give complete and incomplete
pages; with other clients' events and a second authority, overlap, repetition and forks occur; two fetches beside a push are the least for acknowledgements out of
order. The graph shapes contain two paths to an effect, one through another effect's
write, and a budget of 3 is exceeded by their feedback. Three slots with two
generations let a slot be reused and retired while an old handle is held. Three keys
are the least for which a reordering keeps one row and moves another. Two mounts with
an update and two disposals let an obsolete mount resolve after the next one began.
Two calls, attempts or tasks are enough for properties of pairs; the clocks reach
every expiry. One request beside a peer fills the host's single slot, and every scope
lock, the deadline and shutdown interleave with it. Two builders with two edits, one
crash and one tampered output, or two publishers, processes or finalizers, meet at
every system call of the other; two edits of a tree are the least that can undo or
mask each other. In `BundleContract` six releases differ in the one field each
transition or admission rule is about.

**Deadlock** is not checked: an idle scheduler at its last id, a log at its bound, a
disposed root or a finished command legitimately stops.

**Fairness.** `MCDrains` has weak fairness of the kernel's own steps (`DrainStep`), of
the runtime's steps including the return of a computation (`Step`) and of a started
decode: a function call on a thread goes on until it returns, and user code called in
it returns or panics. Nothing assumes that a client calls again. With it, termination
still depends on the limits: without them the properties fail. `ReqFairSpec`, for
finding 4, says that the futures and tasks of a live connection, the deadline and an
ordered shutdown go on; it does not say that clients stay.

**Conditions inside the passing runs.** `StateIsFoldOfLog` and the receipts are checked
for root and batched callers (finding 1); update callbacks in `browser` write but do not
read (section 5); `WritesReachEffects` is checked without panics (finding 2);
`ChildrenPull` is false (finding 3). Attempts of an action end before their record
expires (`Deadline < Retention`): nothing in the code relates the two, and with a shorter
retention a late `complete` acts on the record of the next attempt. `OneMutation` exempts
results over `max_result_bytes`; `ResultCarriesReceipts` the exhaustion of transaction
ids, where the receipts of the drain are lost (`scheduler.rs:424`). `CacheSweepsHold`
speaks of values that were in a store when it was swept: one that is put there later may
still come from a fill that had read before (no read-your-writes across it,
RFC-014:69–72); a cause in the replay window sweeps nothing again. The run makes one sweep, by
tag or by key, under one of two policies of different namespace and epoch. `CtxCleanupsRun` exempts a registration that looked at `closed`
before `close` began and pushed after it: that one is lost (`context.rs:352`).
Publication's properties speak of an output nobody else changed; versions of a source
only grow. `InpNothingIsUnobserved` exempts a file that came after one revalidation and
was gone at the next, which the code cannot see, and packages that the manifests came to
reach after Cargo's metadata was read (`main.rs:1840–1842`). `TruBundlesAreClean` exempts an
edit between the doctor's look and the collector's (section 5).

## 4 Proofs

Checked by TLAPS for all values of the constants that satisfy the named assumptions of
the modules. An inductive invariant is conjoined from named parts, most of them at the
end of the component's module under "What makes … inductive"; each was an invariant of a
TLC run before it was proved. Bounds that only keep TLC finite are numbers without an
upper limit in the proofs.

**`CausalSchedulerProofs`**, from `ContextsAssumption`, `EventsAssumption` and the
assumptions on limits and ids:

* `TypeCorrect`: `Spec => []TypeOK`, for every caller. `TypeOK` includes the limits: both
  queues within the transaction limit, ids within `u64`. It is inductive as it stands.
* `ProjectionIsFoldOfLog` and `ReceiptsChain`: `StateIsFoldOfLog` and
  `ReceiptContinuity`, if no caller dispatches from inside a running memo or effect
  (`UntrackedCallers`) — the condition finding 1 shows to be needed. Neither is
  inductive: that a commit extends the fold by exactly the batch depends on the candidate
  log still being the published log plus the batch, and that a receipt starts where the
  last ended depends on the points captured before user code ran. `KernelInvariant` adds
  these: the locals of the active transaction are current (`LocalsCurrent`), a transaction
  is active exactly in a user phase (`ActiveInPhase`), and decided ids lie below the active
  one and that below the next (`IdsInOrder`).
* `QueueKeepsPromises` (`QueueGuarantees`), under the same condition. `QueueInvariant`
  adds to `KernelInvariant` what a ticket in a queue means, that the batch is the end of
  the log while its effects run (`BatchIsPublished`), and that the running drain holds
  every receipt since it began (`DrainHoldsReceipts`).
* `DrainsLeaveNothingQueued` (`QuietAfterDrain`), for every caller: the safety half of
  `DrainsEndQuiet`, that a step which ends a drain leaves nothing behind. That the drain
  ends is liveness and stays with TLC.
* `KernelImplementsLedger` (`ImplementsLedger`): the refinement of `CausalLedger`. Initial
  states map to initial states; every action maps to a ledger step or a stutter, one lemma
  per action.

**`HistoryProofs`**, from the assumptions of the modules it extends:

* `HistoriesAreGenuine` (`LogGuarantees`): logs verify, nothing is invented by an import,
  a cursor binds its prefix. `LogInvariant` adds that written histories are closed under
  prefixes (`WrittenAreChains`) and that storage has no digest that no append computed. The
  core is `DigestBindsPrefix`: two chains whose heads have one digest are one chain. An
  induction over the length would do it; here it is the least place where the two differ
  (`LeastNatural`), which the provers can follow. From `KindsAssumption` and
  `BoundsAssumption`.
* `RestoredIsRefolded` (`RestoreParity`), `ProjectionFailsClosed` (`FailsClosed`),
  `AdmittedCheckpointsAreFolds` (`AdmittedSnapshotsAreFolds`) and
  `ProjectionMovesToHead` (`MovesToHead`), from `ReleasesAssumption` and
  `MaxLogAssumption`. `RestoreInvariant` conjoins types, the three invariants and
  `CheckpointsReducible`: an intact envelope holds no event its release cannot reduce.
  Without the last, a restore could bring a state into being that `FailsClosed` forbids.
  The steps that matter are `Restore`, by `ReduceConcat`, and `DamageSnapshot`, by
  `DamageIsNoticed` (the digest binds every field).
* `ConfirmedIsDurable` (`LegConfirmedIsDurable`), from no assumption. `LegInvariant` adds
  that an acknowledgement on its way names an entry of the journal (`LegAcksAreDurable`),
  whichever of push and fetch is interrupted.
* `ReplayIsTheStream` (`HypGuarantees`), from `HypAssumption`. `HypReplayInvariant` says
  that a page in hand is a cut of the stream its snapshot commits to (`HypIsCut`) and that
  the window has an anchor for the cursor and none beyond; `HypAppendInvariant` that a
  batch has one answer, that one without an answer is the sender's, and that the stream
  holds exactly the local events with a receipt and those of a batch appended but not yet
  answered (`HypLocalEvents`). Without the last a retry after a lost answer could not be
  told from a second append.
* `CatalogIsSound` (`CatalogGuarantees`), from `CatalogAssumption`. `CatInvariant` adds that
  a running decode is at a version the sealed catalog knows and that what a transform
  returned and is not forgotten is what is remembered.

**`RequestDataProofs`**, from `TimesAssumption`, `SessionAssumption` and `CacheAssumption`:

* `RollbacksAreProven` (`NoUnprovenRollback`) without further condition;
  `PermitIsExclusive` (`OneHolder`), `AtMostOneMutation` (`OneMutation`) and
  `ReplaysAreFaithful` (`ReplaysAgree`) under `TimelyCalls`, attempts that end before
  their record expires. `ActionInvariant` adds what the store's records mean: a holder
  still has its own record (`HoldersOwnTheirRecord`); the record of a sent mutation stays
  until it expires (`MutationsAreGuarded`); the order of two mutations is settled as soon
  as the second attempt holds the key (`NoSecondHolder`); a completed record names its
  scope and input (`CompletedRecordsAgree`). The argument turns on `HolderIsAlone`: while
  an attempt holds a key, every mutation sent under it has outlived its retention.
* `SessionsAreSafe` (`SessionGuarantees`). `SessionInvariant` adds that a call between its
  two awaits holds a session that was alive when it was judged, under the limits of the
  token it was read with (`ReadsAreTimely`), and that the form of an accepted submission is
  not issued anew.
* `CacheHolds` (`CacheGuarantees`). `CacheInvariant` adds that a store entry carries the
  owner of its key and is younger than every sweep of its store that concerns it
  (`CacheEntriesHold`), that an acknowledged invalidation has swept every store
  (`CacheSweepsCover`), that calls wait
  only for fills their host runs for others (`CacheFillsAreLed`), and the order of result
  and notice (`CacheNotices`).

**`RequestProofs`**, from `CtxAssumption`, `ReqAssumption`, `RenDocumentsAssumption`,
`RenInputsAssumption`, `RenOptionsAssumption` and `RouAssumption`:

* `ContextHolds` (`CtxGuarantees`). `CtxInvariant` adds that a cell has one runner and is
  full once its key was loaded, that a permit's trail and budget stay within the policy,
  and where `close` has brought each cleanup (`CtxTaskCleans`, `CtxClosing`).
* `UploadsAreOwned` (`UpFilesAreOwned`). `UpInvariant`: the clones of a temporary file
  that are alive are exactly those that the decoder, the form and the context hold
  (`UpCounts`), and what each of them may hold at each stage of the parse (`UpStages`). From
  the first, a file without a holder is one whose last clone has been dropped, and the drop
  removed it or failed to.
* `HostHolds` (`ReqGuarantees`) and `ReceiptsSettle` (`ReqReceiptsSettle`), both from
  `HostInvariant`: `ReqInvariant` ties the place of a request's future to its lifecycle
  state (`ReqPlaced`), its outcome, status and cleanups (`ReqSettles`) and the
  cancellers to the reason and outcome they set (`ReqCancelling`); a request registered
  after shutdown began is pending, cancelled or draining (`ReqRegisteredRight`).
* `DocumentsAreWhole` (`RenDocumentsAreWhole`). `RenInvariant` says of every queue between
  the tasks and the client what part of the one composed document it holds: the bytes sent,
  in the channel and still to come join to that document, and the bytes counted are theirs.
  It needs what the folds over layers, operations and pieces compute (`FoldLemmas`).
* `OnlyCatchAllsAreShadowed` (`RouOnlyCatchAllsAreShadowed`). The invariant is only that the
  routes are built ones and that a sealed graph has no collision; the work is in the
  operators. `RouMatchesAreOrdered` takes the first place where two patterns that match one
  path differ in shape: a literal of the one stands there against a parameter of the other,
  which the weights then order; or a catch-all does; or there is no such place, and the two
  have a shape key in common. `RouAssumption`: patterns are sequences of segments and the
  case key of a name follows from its NFC.

**`ToolingProofs`**, from `TruAssumption`, `ScaAssumption` and `SdkAssumption`:

* `DiagnosticsAreSound` (`TruGuarantees`). `TruInvariant`: the lockfile a command read is
  on disk or older than what is, so that no later edit brings it back; what a verdict is
  about was on disk together; a doctor that does not know of a client has failed or seen
  none.
* `ScaffoldIsSafe` (`ScaDestinationsAreSafe`). `ScaInvariant`: a staging directory belongs
  to the one command that made it anew, and holds the files up to `next`.
* `ExtensionsAreContained` (`SdkGuarantees`). `SdkInvariant`: a run belongs to the
  admitted manifest, the clock was read after the guest ended, and what the host says of a
  guest was earned in the talk with it.
* `DevIsCurrent` (`DevQuietIsCurrent`), from no assumption. `DevInvariant` says what holds
  at each place of the loop while no edit is unheard: what was captured is what is on disk,
  from the explanation on the output is built from it, and from there to the next wait the
  graph explained last is its graph (`DevBuildIsCurrent`); and that the updates published
  lead to that graph (`DevToldTheGraph`), also after a failed build.

**`BuildProofs`**, from `PubAssumption` (the program is one of its sources), the
`Con…Assumption`s, `InsFilesAssumption`, `InsManifestsAssumption`, `AssAssumption` and
`BunAssumption` (a release id names one release; a digest binds the length of what it
digests, which the builder declares from the same bytes: `verify_bundle`,
`artifact.rs:62–82`, takes the length from the directory entry and does not compare it with
what it read):

* `NothingIsUnobserved` (`InpNothingIsUnobserved`), from `InpAssumption` (paths are
  sequences of names). The project, its packages and their graph, the files and where they
  stand are all constants. `InpInvariant`: a captured version is the one on disk or an older
  one, and what the compiler read lies between the two. Equality of the two captures then
  leaves no room between them, but for files that both find absent.
* `PublicationHolds` (`PubGuarantees`). `PubInvariant` says, while nobody has tampered with
  the output: a receipt is whole if its files are those of a full build of its context
  (`PubWhole`), and the directories at the output and in the backup of the builder that
  holds the lock are verified and whole (`PubKept`, `PubHolding`). A report that was made
  before the inputs were checked for the last time is whole only if nothing was edited
  since its capture (`PubUnedited`); an edit makes some version exceed the captured one
  (`PubCapturedBefore`), so the check before the swap turns the condition into a fact.
  `PubReusedIsExact` is the lemma about reuse: equal contexts, dependencies and producers
  give equal bytes. Stage, swap and backup belong to the one builder past the lock
  (`PubPlace`), which is what makes the history linear.
* `BundlesAreSound` (`BunGuarantees`). `BunInvariant`: every file read so far has the
  declared digest (`BunReadsAreDeclared`), the application carries the admission of its own
  manifest (`BunAppIsAdmitted`), and after a release that is not rollback-safe what is
  active is that release or a newer one whose predecessor was active since
  (`BunChainHolds`), which is what makes `BunUnsafeReleasesStay` inductive.

* `CollectionsAreSound` (`ConGuarantees`). `ConInvariant`: the sizes of the entries read are
  within the bytes counted so far, entries and files still unread are together within the
  limit, and two loads differ where their texts do. The sum over a set of entries is one of
  the sums of `FoldLemmas`.
* `CleanReportsHold` (`InsCleanReportsHold`). `InsInvariant` says what a walk under way has
  established of each file: what was verified had its declared content at that moment, a
  file that is on disk throughout is seen or still ahead. That a saturated total is below a
  budget only if the true one is, is a fold lemma.
* `AssetsAreHonest` (`AssGuarantees`). `AssInvariant` says who may still change what is at a
  destination: only its creator, until it has finished (`AssWritersOk`), so that what was
  compared after that stays (`AssKeeps`). For the budgets: a page picks one variant per
  group, and its sum is at most the sum of the worst of each group, because the choice is an
  injection (`SumInjected`).

**`BrowserProofs`**, from `AdBoundsAssumption` and `DomKeysAssumption` (finitely many keys,
none of them the name of a marker):

* `PluginsAreCleanedUp` (`AdGuarantees`). `AdInvariant` ties each callback on its way to the
  lifecycle it was made in: which of a plugin's hooks are outstanding, taken or run, and that
  the next mount waits for those of the one before it.
* `RowsAreWhole` (`DomGuarantees`), for any set of keys. `DomInvariant` says phase by phase
  what a transaction has computed, which nodes it may have left in the document and how far
  an undisturbed one has come. Documents are compared by the order of their nodes
  (`DomPrecedes`): two without repetition, with the same nodes in the same order, are equal
  (`DomSameOrder`). Half way through the moves `DomPlaced` holds: the rows already placed and
  the rows that stay stand in the new order between the boundaries; each move extends it by
  one row (`DomPlacedMove`), and when all are done, taking the retired rows away gives
  exactly the new page (`DomPlacedEnd`). Of the longest increasing subsequence it is used
  that one exists and that its rows rise, not that it is longest. The checks pass on a mount
  nobody disturbed (`DomVerdictOk` and its like), so every failing branch starts from a
  disturbed one, which is why an undisturbed update commits.

**`FoldLemmas`** has what these proofs share. The library's induction theorems take an
operator, which the provers cannot instantiate; the same is got from `WFMin`, which takes a
set: a least counterexample (`Least`), from it induction to a bound (`UpTo`) and over the
subsets of a finite set (`FiniteInduction`). With these, folds, sums and recursive functions
are shown to be defined, which is what makes their recursion usable in a proof.

`FailsClosed`, `MovesToHead`, `OneHolder` and `ReplaysAgree` are settled
by their theorems and not part of a run.

**Only model-checked.** Liveness (`DrainsEndQuiet`, `CallsReturn`, `DecodeReturns`,
`ReqDisconnectsAreCleaned`): the prover does neither fairness nor `ENABLED`.
`GraphGuarantees` and `WritesReachEffects` hold of the program shapes that are checked and
not of every one: a memo that writes, a callback that reads what it updates and a panic each
break them (finding 2 and the first two items below it), and no condition on shapes that the
code states would exclude exactly these. `OwnerGuarantees` and `CleanupsRunInnermostFirst`
rest on what the recursive walks of `ReactiveOwners` (`Tree`, `CleanupOrder`, `Drained`)
compute for every tree; they have no proof here. `Artifact`'s verification of a whole
tree is used by `PublicationHolds` only through what its callers check.

## 5 Where code and documentation disagree

Each is a run in which the stated property is violated; quotations are in `PROJECT.json`.

1. **`causal_tracked`.** A dispatch from inside a running memo or effect commits the
   projection; publishing the log is then refused by the check that a computation may not
   write one of its sources. The refusal is taken for an effect's panic, the receipt says
   Committed, the log lacks the events and the next drain panics.
2. **`reactive_panic`.** A memo panics while an effect settles. The effect's other memos
   stay dirty without the retry mark, so a later write to their source stops at the dirty
   colour and the effect is not run again.
3. **`reactive_children_pull`.** Committing a re-run disposes of the previous scope without
   asking whether something in it runs; a memo that reads the memo that created it is taken
   out of the arena while it is running.
4. **`host_disconnect`.** When a client goes away its handler's future is dropped; the
   deadline or a shutdown may cancel the scope later, but nothing drains it, so it stays in
   the registry and its cleanups never run.
5. **`dev_failure_page`.** A save that repairs a failed build by going back to the last good
   sources changes no artifact; the update is of kind none, and the failure page, which
   promises to reload, keeps polling.
6. **`telemetry_consent`.** A stale lock is removed in a second step. When two commands find
   the lock of a dead one stale, the second removes the lock the first has just taken, and a
   record writes the enabled state back after a disable returned.

Met while modelling and not made into runs:

* Permission to write a signal is asked when `Signal::update` starts
  (`pliego-reactive/src/lib.rs:1464`). If the callback then reads, tracked, a memo of that
  signal, the surrounding effect commits as clean on a source that has changed.
* A memo read outside a batch can mark a `Check` node clean although a flush nested in the
  pull changed a source it had already checked (`lib.rs:918`; needs a memo that writes, or
  an earlier budget abort).
* In a batched context the effects of a transaction run after the drain, with no active
  transaction: what they enqueue waits for the next drain, and their panics are in no receipt.
* `IdempotencyPermit::complete` abandons the key when the result is too large
  (`idempotency.rs:362`), although the action has committed.
* Between the two renames of a publication the output path is absent; a crash there leaves
  the old site in a backup directory (`pliego-ssg/src/lib.rs:712–747`). `FRAMEWORK.md:43–44`
  and `docs/14` call the commit atomic; `PubRecoverable` is what holds.
* `report --bundle` looks whether its output exists before it collects and replaces whatever
  is there when it renames; `docs/36` says it refuses to overwrite an existing path. The
  doctor's report is bundled without the payload check, so an edit between the two can leave
  a quoted private line in it (`docs/35:60`). A missing lockfile is an error of `upgrade`,
  where `docs/36` says `blocked`.
* A baseline adds the totals of its targets with a plain sum, which wraps in a release build,
  while `inspect` saturates (`pliego-inspect/src/lib.rs:787`).
* A cleanup registered while `close` begins can be pushed after the list was taken
  (`pliego-data/src/context.rs:352`).
* `seal` accepts `/a/*r`, `/a/:x` and `/a/:x/*y` together, whose shapes differ; in match order
  the second and third come first and leave no request to the first
  (`pliego-router/src/lib.rs:1021–1037`, `1197–1204`).
* A publisher takes a destination whose content already hashes as expected for published,
  also while its creator is still copying and may remove it when its sync fails
  (`pliego-assets/src/lib.rs:442–486`); `AssAddressesAreHonest` exempts exactly these.
* Edits between the first build of `pliego dev` and the installation of its watcher, and
  those lost with a watcher error, are not heard of until the next one (`main.rs:3229`, `3241`,
  `3373`).
* A staged project whose destination fails the second check is left behind, unnamed in the
  message (`main.rs:1099–1107`).

## 6 Not modelled

`PROJECT.json` lists every part with its status. Not modelled at all: macros, resume and
starters, which turn an input into text. Within the modelled parts:

* **Text and bytes.** Canonical JSON, the snapshot envelope, HTML, Markdown, multipart, WIT,
  media files and identifiers are modelled by what they bind, normalize or are checked for.
  The HTML writer and its parser-context validation (`pliego-dom/src/lib.rs`) are left out.
* **External.** The browser, the network, hyper, the file system's internals, the WebAssembly
  engine, encoders, cargo. Their faults are actions where the code handles them.
* **`ReactiveGraph`**: `untrack`, panics in destructors. **`ReactiveOwners`**: cleanups that
  panic or call the runtime.
* **`IdempotentAction`**: receipts, the action policy's builder. **`DataCache`**: replicas are
  independent but for the acknowledgement, so the run has one host. **`ActionBodies`**: the validity of
  content types. **`RequestHost`**: logging, process signals.
* **`DomMount`**: focus restoration, dynamic text and attribute cells, the bounded error
  queue; re-entry of `begin_update` is unreachable. **`AdapterRuntime`**: several roots (its
  state is per root) and the generated registry.
* **`SitePublication`**: page generation, the product registry, tampering between the last
  check and the rename. **`Router`**: the graph's digest.
* **`DevSession`**: worker queues and the busy answer, file lookup, removed files.
  A `pliego build` by hand beside the session is one step (`DevOtherBuild`): that a rebuild
  of the session lands between the last verification of the build by hand and its rename, and
  is then overwritten, is left out. **`BuildInputs`**: long paths on Windows, the evidence of
  wasm-bindgen.
* **`AssetPipeline`**: reading an artifact twice (validate, hash), a crash in
  the middle of a copy, GLB parsing. Inspecting the staged work is one step, so an artifact
  that changes during it (`changed-during-inspection`) is one staged again before or after.
  An edited plan keeps the recipe's budget profiles: `validate_plan` cannot tell other valid
  profiles from the recipe's, and `AssBudgetsBound` is about plans that keep them. **`AssetInspect`**: asset roots that are links; one counter
  stands for the four. **`ComponentSdk`**: the bytes' digest is not checked again at
  instantiation, receipts of a run that hit its deadline, the compatibility matrix. **`ContentLoader`**: the root is a directory that can be
  opened; the errors of `open_confined_root` are left out.
  **`BundleContract`**: textual checks (`sound`); links and special files, which
  `verify_bundle` refuses, are not among the modelled directory's entries, and its listing is
  one step; that a static route's pattern matches its
  asset's request path is not checked by the code either.
* **`TrustCommands`**: an edit that restores the same bytes. **`TelemetryStore`**: live commands
  hold the lock for less than the thirty seconds after which it counts as stale.

## 7 Plan

1. Proofs: `OwnerGuarantees` for `ReactiveOwners` when no child pulls its parent, with the
   lemmas on trees it needs.
2. Models: memos that write and update callbacks that read in `ReactiveGraph`, which the two
   hazards without a property need; receipts and cache invalidation of actions composed with
   `DataCache`; several requests in `RequestHost`; the product registry.
