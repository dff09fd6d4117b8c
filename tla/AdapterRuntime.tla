----------------------------- MODULE AdapterRuntime -----------------------------
(***************************************************************************)
(* The browser adapter runtime (runtime-v1.js), for one island root: every *)
(* state it keeps is per root.  Mounts await an earlier teardown, an import*)
(* and the plugin; updates queue behind each other and behind a mount;     *)
(* cleanups may return promises.  Between any two awaits the page may      *)
(* unmount, refresh, move or remove the root, or call mount and update.    *)
(***************************************************************************)
EXTENDS Naturals, Sequences, FiniteSets, SequencesExt

CONSTANTS
    AdMounts,    \* bound: mounts of the root, numbered from 1
    AdUpdates,   \* bound: calls of update, numbered from 1, and removals of the
                 \* root from the document, together
    AdDisposals  \* bound: calls of unmount and refresh

ASSUME AdBoundsAssumption == {AdMounts, AdUpdates, AdDisposals} \subseteq Nat

VARIABLES
    ad,       \* what the runtime's maps hold for the root
    adLives,  \* per mount: its record and lifecycle
    adUps,    \* per update: where performUpdate is
    adRan     \* history: cleanup callbacks that finished

adVars == <<ad, adLives, adUps, adRan>>

AdNoLife ==
    [at |-> "none", gen |-> 0, aborted |-> FALSE, prior |-> {}, life |-> FALSE,
     returned |-> "none", regs |-> <<>>, taken |-> {}, queue |-> <<>>, update |-> FALSE,
     late |-> FALSE]

AdInit ==
    /\ ad = [gen |-> 0, epoch |-> 0, loading |-> FALSE, connected |-> TRUE, removed |-> FALSE,
             scheduled |-> FALSE, pending |-> 0, task |-> 0, life |-> 0, tail |-> 0,
             mounts |-> 0, calls |-> 0, removals |-> 0, disposals |-> 0]
    /\ adLives = [m \in 1..AdMounts |-> AdNoLife]
    /\ adUps = [u \in 1..AdUpdates |-> [at |-> "none", epoch |-> 0, after |-> 0, on |-> 0]]
    /\ adRan = [m \in 1..AdMounts |-> <<>>]

\* Callbacks taken for cleanup that have not finished.
AdOutstanding(lives) == UNION {ToSet(lives[m].queue) : m \in DOMAIN lives}

-----------------------------------------------------------------------------
(* Cleanup and disposal.                                                   *)

\* cleanupLifecycle: what was not taken yet is queued behind what still runs:
\* the unmount hook, the returned cleanup, the registered ones last in first out.
AdCleanup(m, l) ==
    [l EXCEPT !.queue = @ \o (IF "unmount" \in l.taken THEN <<>> ELSE <<<<m, "unmount">>>>)
                  \o (IF l.returned = "fn" THEN <<<<m, "returned">>>> ELSE <<>>)
                  \o [i \in DOMAIN l.regs |-> <<m, l.regs[Len(l.regs) + 1 - i]>>],
              !.taken = @ \cup {"unmount"}, !.returned = "none", !.regs = <<>>]

AdAbort(m, l) == [l EXCEPT !.aborted = TRUE]

\* dispose on the lifecycles: the pending record and the mounted lifecycle are
\* aborted and, if their plugin was reached, cleaned up.
AdDisposed(a, lives) ==
    [m \in DOMAIN lives |->
        IF m \notin {a.pending, a.life} THEN lives[m]
        ELSE IF lives[m].life THEN AdCleanup(m, AdAbort(m, lives[m])) ELSE AdAbort(m, lives[m])]

\* dispose on the maps.
AdForget(a, invalidate) ==
    [a EXCEPT !.gen = @ + 1, !.epoch = IF invalidate THEN @ + 1 ELSE @, !.loading = FALSE,
              !.scheduled = FALSE, !.pending = 0, !.task = 0, !.life = 0,
              !.tail = IF invalidate THEN 0 ELSE @]

\* mount on the maps and on its record: refused while mounted or mounting.
AdMayMount(a) == a.life = 0 /\ a.task = 0 /\ a.mounts < AdMounts
AdMountMaps(a) ==
    [a EXCEPT !.scheduled = FALSE, !.loading = TRUE, !.gen = @ + 1, !.mounts = @ + 1,
              !.pending = a.mounts + 1, !.task = a.mounts + 1]

\* Mutant: a mount does not wait for the teardown in progress.
AdMountLivesAtOnce(a, lives) ==
    [lives EXCEPT ![a.mounts + 1] = [@ EXCEPT !.at = "waiting", !.gen = a.gen + 1]]

\* What a mount that was disposed of while its plugin mounted returned later is
\* cleaned up by that mount, and is not among the root's teardowns.
AdLate(lives) == {<<m, "returned">> : m \in {n \in DOMAIN lives : lives[n].late}}

AdMountLives(a, lives) ==
    [lives EXCEPT ![a.mounts + 1] =
        [@ EXCEPT !.at = "waiting", !.gen = a.gen + 1, !.prior = AdOutstanding(lives) \ AdLate(lives)]]

\* unmount, and everything that calls it: pagehide, scope disposal, a lost root.
AdUnmount ==
    /\ ad.disposals < AdDisposals
    /\ ad' = [AdForget(ad, TRUE) EXCEPT !.disposals = @ + 1]
    /\ adLives' = AdDisposed(ad, adLives)
    /\ UNCHANGED <<adUps, adRan>>

\* refresh: unmount, then schedule again.
AdRefresh ==
    /\ ad.disposals < AdDisposals
    /\ ad' = [AdForget(ad, TRUE) EXCEPT !.scheduled = TRUE, !.disposals = @ + 1]
    /\ adLives' = AdDisposed(ad, adLives)
    /\ UNCHANGED <<adUps, adRan>>

\* A callback finishes; its promise, if it returned one, has settled.
AdCleanupRuns ==
    /\ \E m \in DOMAIN adLives :
          /\ adLives[m].queue /= <<>>
          /\ adLives' = [adLives EXCEPT ![m].queue = Tail(@)]
          /\ adRan' = [adRan EXCEPT ![m] = Append(@, Head(adLives[m].queue))]
    /\ UNCHANGED <<ad, adUps>>

-----------------------------------------------------------------------------
(* Scheduling and the document.                                            *)

AdMayHold == ad.connected /\ ad.life = 0 /\ ~ad.scheduled /\ ~ad.loading

AdSchedule ==
    /\ AdMayHold
    /\ ad' = [ad EXCEPT !.scheduled = TRUE, !.loading = FALSE]
    /\ UNCHANGED <<adLives, adUps, adRan>>

\* A trigger fires, or mount is called.
AdMount ==
    /\ AdMayMount(ad)
    /\ ad' = AdMountMaps(ad)
    /\ adLives' = AdMountLives(ad, adLives)
    /\ UNCHANGED <<adUps, adRan>>

\* The page removes the root, and may put it back; the observer looks later.
AdRemoveRoot ==
    /\ ad.connected /\ ad.mounts > 0 /\ ~ad.removed /\ ad.calls + ad.removals < AdUpdates
    /\ ad' = [ad EXCEPT !.connected = FALSE, !.removed = TRUE, !.removals = @ + 1]
    /\ UNCHANGED <<adLives, adUps, adRan>>

\* The scan of added nodes schedules a root that is neither held nor loading.
AdReturnRoot ==
    /\ ~ad.connected
    /\ ad' = IF ad.life = 0 /\ ~ad.scheduled /\ ~ad.loading
             THEN [ad EXCEPT !.connected = TRUE, !.scheduled = TRUE, !.loading = FALSE]
             ELSE [ad EXCEPT !.connected = TRUE]
    /\ UNCHANGED <<adLives, adUps, adRan>>

AdObserveRemoval ==
    /\ ad.removed
    /\ IF ad.connected THEN ad' = [ad EXCEPT !.removed = FALSE] /\ UNCHANGED adLives
       ELSE /\ ad' = [AdForget(ad, TRUE) EXCEPT !.removed = FALSE]
            /\ adLives' = AdDisposed(ad, adLives)
    /\ UNCHANGED <<adUps, adRan>>

-----------------------------------------------------------------------------
(* mountInternal.                                                          *)

AdCurrent(m) == ad.pending = m /\ ad.gen = adLives[m].gen /\ ~adLives[m].aborted

\* The task of a mount settles: the maps forget it if they still hold it.
AdSettled(a, m) ==
    [a EXCEPT !.pending = IF @ = m THEN 0 ELSE @, !.task = IF @ = m THEN 0 ELSE @]
AdSettle(m, l, a) ==
    /\ adLives' = [adLives EXCEPT ![m] = [l EXCEPT !.at = "settled", !.prior = {}]]
    /\ ad' = AdSettled(a, m)

\* What the checks of the root's attributes answer: API, module path, tier, data
\* and motion policy, props.  The page may hold any of them.
AdChecks == {"allowed", "refused"}

\* After the teardown: a mount that is still current makes its checks, and
\* imports; one that is refused is skipped or reported.
AdBegin(m) ==
    /\ adLives[m].at = "waiting"
    /\ adLives[m].prior \cap AdOutstanding(adLives) = {}
    /\ \/ /\ ~AdCurrent(m) \/ ~ad.connected
          /\ AdSettle(m, adLives[m], ad)
       \/ /\ AdCurrent(m) /\ ad.connected
          /\ \E answer \in AdChecks :
                IF answer = "allowed"
                THEN /\ adLives' = [adLives EXCEPT ![m] =
                                      [@ EXCEPT !.at = "importing", !.prior = {}]]
                     /\ UNCHANGED ad
                ELSE AdSettle(m, AdAbort(m, adLives[m]), [ad EXCEPT !.loading = FALSE])
    /\ UNCHANGED <<adUps, adRan>>

\* The import settles: a mount that is still current calls the plugin, with a
\* provisional lifecycle in its record.
AdImported(m) ==
    /\ adLives[m].at = "importing"
    /\ \/ /\ ~AdCurrent(m) \/ ~ad.connected
          /\ AdSettle(m, adLives[m], ad)
       \/ /\ AdCurrent(m) /\ ad.connected
          /\ \E update \in BOOLEAN :
                adLives' = [adLives EXCEPT ![m] = [@ EXCEPT !.at = "mounting", !.life = TRUE,
                                                           !.update = update]]
          /\ UNCHANGED ad
       \/ AdSettle(m, AdAbort(m, adLives[m]),
                   IF AdCurrent(m) THEN [ad EXCEPT !.loading = FALSE] ELSE ad)
    /\ UNCHANGED <<adUps, adRan>>

\* onCleanup: a callback registered after the abort runs at once.
AdRegister(m) ==
    LET l == adLives[m] IN
    /\ l.life /\ l.regs = <<>> /\ "cleanup" \notin l.taken
    /\ adLives' = [adLives EXCEPT ![m] =
          IF l.aborted THEN [l EXCEPT !.taken = @ \cup {"cleanup"}]
          ELSE [l EXCEPT !.regs = Append(@, "cleanup"), !.taken = @ \cup {"cleanup"}]]
    /\ adRan' = IF l.aborted THEN [adRan EXCEPT ![m] = Append(@, <<m, "cleanup">>)] ELSE adRan
    /\ UNCHANGED <<ad, adUps>>

\* The plugin's mount returned, with or without a cleanup: an obsolete mount
\* is cleaned up, a current one becomes the root's lifecycle.
AdReturned(m, l) ==
    IF AdCurrent(m) /\ ad.connected
    THEN AdSettle(m, l, [ad EXCEPT !.life = m, !.loading = FALSE])
    ELSE /\ adLives' = [adLives EXCEPT ![m] = [AdCleanup(m, [l EXCEPT !.late = l.aborted]) EXCEPT
                                                   !.at = "abandoned"]]
         /\ UNCHANGED ad

AdPluginReturns(m) ==
    /\ adLives[m].at = "mounting"
    /\ \E r \in {"none", "fn"} : AdReturned(m, [adLives[m] EXCEPT !.returned = r])
    /\ UNCHANGED <<adUps, adRan>>

\* It threw or rejected.
AdPluginFails(m) ==
    /\ adLives[m].at = "mounting"
    /\ adLives' = [adLives EXCEPT ![m] = [AdCleanup(m, AdAbort(m, @))
            EXCEPT !.at = IF AdCurrent(m) THEN "failed" ELSE "abandoned"]]
    /\ UNCHANGED <<ad, adUps, adRan>>

\* Its cleanup was awaited; a failed mount is then reported, whatever has
\* become of the root in the meantime.
AdCleaned(m) ==
    /\ adLives[m].at \in {"failed", "abandoned"} /\ adLives[m].queue = <<>>
    /\ AdSettle(m, adLives[m], IF adLives[m].at = "failed" THEN [ad EXCEPT !.loading = FALSE] ELSE ad)
    /\ UNCHANGED <<adUps, adRan>>

-----------------------------------------------------------------------------
(* update.                                                                 *)

AdUpdate ==
    /\ ad.calls + ad.removals < AdUpdates
    /\ adUps' = [adUps EXCEPT ![ad.calls + 1] =
                    [at |-> "start", epoch |-> ad.epoch, after |-> ad.tail, on |-> 0]]
    /\ ad' = [ad EXCEPT !.calls = @ + 1, !.tail = ad.calls + 1]
    /\ UNCHANGED <<adLives, adRan>>

AdUpdateDone(u) ==
    adUps' = [adUps EXCEPT ![u] = [at |-> "done", epoch |-> 0, after |-> 0, on |-> 0]]
AdUpdateAwaits(u, at, m) == adUps' = [adUps EXCEPT ![u] = [@ EXCEPT !.at = at, !.on = m]]
AdAwaited(u) == adUps[u].on /= 0 => adLives[adUps[u].on].at = "settled"
AdStale(u) == ad.epoch /= adUps[u].epoch

\* performUpdate begins behind its predecessor and awaits a mount in progress.
AdUpdateBegins(u) ==
    /\ adUps[u].at = "start" /\ (adUps[u].after /= 0 => adUps[adUps[u].after].at = "done")
    /\ AdUpdateAwaits(u, "awaiting", ad.task)
    /\ UNCHANGED <<ad, adLives, adRan>>

\* An unmounted root is mounted first, once.
AdUpdateMounts(u) ==
    /\ adUps[u].at = "awaiting" /\ AdAwaited(u)
    /\ ~AdStale(u) /\ ad.life = 0 /\ AdMayMount(ad)
    /\ ad' = AdMountMaps(ad)
    /\ adLives' = AdMountLives(ad, adLives)
    /\ AdUpdateAwaits(u, "mounting", ad.mounts + 1)
    /\ UNCHANGED adRan

\* The plugin's update is called; one without is disposed and mounted anew,
\* which leaves the queued updates valid.  Props that do not parse are reported.
AdUpdateRuns(u) ==
    /\ adUps[u].at \in {"awaiting", "mounting"}
    /\ AdAwaited(u)
    /\ ~AdStale(u) /\ ad.life /= 0
    /\ \/ /\ adLives[ad.life].update
          /\ AdUpdateAwaits(u, "running", ad.life) /\ UNCHANGED <<ad, adLives>>
       \/ /\ ~adLives[ad.life].update
          /\ LET a == AdForget(ad, FALSE)
                 lives == AdDisposed(ad, adLives)
             IN IF AdMayMount(a)
                THEN /\ ad' = AdMountMaps(a) /\ adLives' = AdMountLives(a, lives)
                     /\ AdUpdateAwaits(u, "remounting", a.mounts + 1)
                ELSE /\ ad' = a /\ adLives' = lives /\ AdUpdateDone(u)
       \/ /\ ad' = [ad EXCEPT !.loading = FALSE]
          /\ AdUpdateDone(u) /\ UNCHANGED adLives
    /\ UNCHANGED adRan

\* The queue was invalidated, or there is still no lifecycle.
AdUpdateGivesUp(u) ==
    /\ \/ adUps[u].at \in {"awaiting", "mounting"} /\ AdStale(u)
       \/ adUps[u].at = "mounting" /\ ad.life = 0
       \/ adUps[u].at = "awaiting" /\ ad.life = 0 /\ ~AdMayMount(ad)
       \/ adUps[u].at = "remounting"
    /\ AdAwaited(u)
    /\ AdUpdateDone(u)
    /\ UNCHANGED <<ad, adLives, adRan>>

\* The plugin's update settles: it counts if the lifecycle is still the root's.
AdUpdateEnds(u) ==
    /\ adUps[u].at = "running"
    /\ ad' = [ad EXCEPT !.loading = @ /\ (ad.life /= adUps[u].on \/ AdStale(u))]
    /\ AdUpdateDone(u)
    /\ UNCHANGED <<adLives, adRan>>

AdNext ==
    \/ AdUnmount \/ AdRefresh \/ AdCleanupRuns \/ AdSchedule \/ AdMount
    \/ AdRemoveRoot \/ AdReturnRoot \/ AdObserveRemoval \/ AdUpdate
    \/ \E m \in 1..AdMounts : \/ AdBegin(m) \/ AdImported(m) \/ AdRegister(m)
                              \/ AdPluginReturns(m) \/ AdPluginFails(m) \/ AdCleaned(m)
    \/ \E u \in 1..AdUpdates : \/ AdUpdateBegins(u) \/ AdUpdateMounts(u) \/ AdUpdateRuns(u)
                               \/ AdUpdateGivesUp(u) \/ AdUpdateEnds(u)

AdSpec == AdInit /\ [][AdNext]_adVars

-----------------------------------------------------------------------------
(* Properties.                                                             *)

\* Whatever was mounted, half mounted or abandoned: no cleanup callback runs
\* twice or while its lifecycle is the root's, and once a plugin that was
\* reached is no longer the root's and its mount has settled, its unmount hook
\* and its returned cleanup have been taken, and so have its registered
\* cleanups if it was aborted (runtime-v1.js dispose, cleanupLifecycle,
\* mountInternal after the await).
AdCleansUpOnce ==
    /\ \A m \in DOMAIN adLives :
          /\ IsInjective(adRan[m])
          /\ ad.life = m => adLives[m].queue = <<>> /\ adRan[m] = <<>>
          /\ adLives[m].at = "settled" /\ adLives[m].life /\ ad.life /= m =>
                /\ "unmount" \in adLives[m].taken /\ adLives[m].returned = "none"
                /\ adLives[m].aborted => adLives[m].regs = <<>>

\* A plugin is mounted over no teardown: while one is mounting or mounted, no
\* unmount hook or registered cleanup of an earlier mount is waiting to run;
\* only the cleanup an obsolete mount returned later may still come
\* (teardowns, awaited by mountInternal before the import).
AdTeardownFirst ==
    \A m, n \in DOMAIN adLives :
        m < n /\ (ad.life = n \/ adLives[n].at = "mounting") =>
            {<<m, "unmount">>, <<m, "cleanup">>} \cap AdOutstanding(adLives) = {}

\* A mounted plugin is cleaned up once, and before the next mount of its root
\* (mount, update, dispose, cleanupLifecycle).
AdGuarantees ==
    /\ AdCleansUpOnce
    /\ AdTeardownFirst

-----------------------------------------------------------------------------
(* What makes AdGuarantees inductive.                                      *)

AdMapFields == {"gen", "epoch", "loading", "connected", "removed", "scheduled", "pending", "task",
                "life", "tail", "mounts", "calls", "removals", "disposals"}
AdLifeFields == {"at", "gen", "aborted", "prior", "life", "returned", "regs", "taken", "queue", "update",
                 "late"}
AdBefore == {"none", "waiting", "importing"}
AdUnsettled == {"waiting", "importing", "mounting", "failed", "abandoned"}
AdCallbacks(m) == {<<m, "unmount">>, <<m, "returned">>, <<m, "cleanup">>}

\* The maps hold the last mount, pending or mounted, or none.
AdMapsHold(a) ==
    /\ DOMAIN a = AdMapFields /\ a.mounts \in 0..AdMounts
    /\ a.pending = a.task /\ a.pending \in {0, a.mounts} /\ a.life \in {0, a.mounts}
    /\ a.life /= 0 => a.pending = 0

\* A mount's callbacks are its own; l is its record, r what ran of it.
AdShape(m, l, r) ==
    /\ DOMAIN l = AdLifeFields /\ l.at \in AdBefore \cup AdUnsettled \cup {"settled"}
    /\ l.regs \in {<<>>, <<"cleanup">>} /\ l.returned \in {"none", "fn"}
    /\ l.queue \in Seq(AdCallbacks(m)) /\ r \in Seq(AdCallbacks(m))

\* A callback is still to be taken, or waits in the queue, or ran.
AdUsed(l, r) == ToSet(l.queue) \cup ToSet(r)
AdOnce(m, l, r) ==
    /\ IsInjective(l.queue) /\ IsInjective(r) /\ ToSet(l.queue) \cap ToSet(r) = {}
    /\ <<m, "unmount">> \in AdUsed(l, r) => "unmount" \in l.taken
    /\ <<m, "cleanup">> \in AdUsed(l, r) => "cleanup" \in l.taken /\ l.regs = <<>>
    /\ <<m, "returned">> \in AdUsed(l, r) => l.returned = "none"
    /\ l.regs /= <<>> => "cleanup" \in l.taken

\* Nothing of a mount was cleaned up.
AdUntouched(l, r) == "unmount" \notin l.taken /\ l.queue = <<>> /\ r = <<>>

\* What a mount has behind it at each place of mountInternal.
AdProgress(a, m, l, r) ==
    /\ m > a.mounts <=> l.at = "none"
    /\ l.at = "none" => l = AdNoLife
    /\ l.at \in AdBefore => ~l.life
    /\ ~l.life => l.taken = {} /\ l.regs = <<>> /\ l.returned = "none" /\ AdUntouched(l, r)
    /\ l.at \in {"mounting", "failed", "abandoned"} => l.life
    /\ l.at \in AdUnsettled => a.pending = m \/ l.aborted
    /\ l.at = "mounting" => l.returned = "none" /\ <<m, "returned">> \notin AdUsed(l, r)
    /\ l.at = "mounting" /\ ~l.aborted => AdUntouched(l, r)
    /\ l.at \in {"failed", "abandoned"} => "unmount" \in l.taken /\ l.returned = "none"
    /\ l.aborted => l.regs = <<>> /\ (l.life => "unmount" \in l.taken)
    /\ a.life = m => l.at = "settled" /\ l.life /\ ~l.aborted /\ AdUntouched(l, r)
    /\ l.at = "settled" => a.pending /= m
    /\ l.at = "settled" /\ l.life /\ a.life /= m => "unmount" \in l.taken /\ l.returned = "none"

AdFine(a, m, l, r) == AdShape(m, l, r) /\ AdOnce(m, l, r) /\ AdProgress(a, m, l, r)

\* What is left in the queue of mount m, mount n with record l waits for.
AdWaits(a, m, queue, n, l) ==
    \A x \in {"unmount", "cleanup"} :
        <<m, x>> \in ToSet(queue) =>
            /\ l.at = "waiting" => <<m, x>> \in l.prior
            /\ l.at \notin {"importing", "mounting"} /\ a.life /= n

AdSound(a, lives, ran) ==
    /\ AdMapsHold(a)
    /\ lives = [m \in 1..AdMounts |-> lives[m]] /\ ran = [m \in 1..AdMounts |-> ran[m]]
    /\ \A m \in 1..AdMounts : AdFine(a, m, lives[m], ran[m])
    /\ \A m, n \in 1..AdMounts : m < n => AdWaits(a, m, lives[m].queue, n, lives[n])

AdInvariant == AdSound(ad, adLives, adRan)
=============================================================================
