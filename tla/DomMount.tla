------------------------------ MODULE DomMount ------------------------------
(***************************************************************************)
(* A mounted root with one dynamic slot or one keyed list, and the         *)
(* transaction its render effect runs on every update: collect, build off  *)
(* document, validate, observe, commit, retire.  User code runs between    *)
(* the steps (builders, observers, custom-element reactions, cleanups) and *)
(* may dispose the root or disturb the document.                           *)
(*                                                                         *)
(* A row, or the child of a dynamic slot, is one node <<key, generation>>: *)
(* its markers and content move together, and its scope is live exactly    *)
(* while the slot lists it.  `domTree' is the mount's part of the          *)
(* document, `domOwned' the layout the root scope has registered.          *)
(***************************************************************************)
EXTENDS Integers, Sequences, FiniteSets, SequencesExt

CONSTANTS
    DomKeys,        \* the keys a keyed collection may produce
    DomRuns,        \* bound: runs of the slot's render effect
    DomTampers      \* bound: disturbances of the document by foreign code

\* A key is never the name of a marker, and there are finitely many.
ASSUME DomKeysAssumption ==
    IsFiniteSet(DomKeys) /\ DomKeys \cap {"root", "slot", "foreign", "view"} = {}

VARIABLES domKind, domNested, domAdopt, domTree, domOwned, domSlot, domRoot,
          domRun, domGen, domTouched, domMixed

domVars == <<domKind, domNested, domAdopt, domTree, domOwned, domSlot, domRoot,
             domRun, domGen, domTouched, domMixed>>

-----------------------------------------------------------------------------
(* Nodes and layouts.                                                      *)

DomFrame == {<<"root", 0>>, <<"root", 1>>, <<"slot", 0>>, <<"slot", 1>>}
DomForeign == <<"foreign", 0>>

\* The children of the mount's parent when the slot shows `rows'.
DomPage(rows) == <<<<"root", 0>>, <<"slot", 0>>>> \o rows
                     \o <<<<"slot", 1>>, <<"root", 1>>>>

\* The nodes of `tree' that are in a set, and the ones that are not, in order.
DomOnly(tree, nodes) ==
    FoldLeft(LAMBDA kept, n : IF n \in nodes THEN Append(kept, n) ELSE kept, <<>>, tree)

DomWithout(tree, nodes) == DomOnly(tree, Range(tree) \ nodes)

\* insert_before: moves `node' in front of `anchor', which must be attached.
DomInsert(tree, node, anchor) ==
    LET rest == DomWithout(tree, {node})
    IN  InsertAt(rest, CHOOSE i \in DOMAIN rest : rest[i] = anchor, node)

\* validate_dynamic_layout, validate_keyed_layout: between the slot's two
\* boundaries there are exactly `rows', in this order.
DomLayout(tree, rows) ==
    \E i \in DOMAIN tree :
        /\ i + Len(rows) + 1 <= Len(tree)
        /\ SubSeq(tree, i, i + Len(rows) + 1)
             = <<<<"slot", 0>>>> \o rows \o <<<<"slot", 1>>>>

\* after_retire of a topology plan: the registered layout with `rows' between
\* the slot's boundaries.
DomTopology(owned, rows) ==
    LET at(n) == CHOOSE i \in DOMAIN owned : owned[i] = n
    IN  SubSeq(owned, 1, at(<<"slot", 0>>)) \o rows
            \o SubSeq(owned, at(<<"slot", 1>>), Len(owned))

\* commit_after_retire: the layout the root has registered once the slot shows
\* `rows'; a root that is still mounting registers its own at the end.
DomRegistered(rows) ==
    IF domRoot = "mounting" THEN domOwned ELSE DomTopology(domOwned, rows)

\* validate_if_attached for the root: a slot inside an element is invisible to
\* the root's own top-level layout, and a root still mounting has none.
DomRootIntact(tree, owned) == domNested \/ domRoot = "mounting" \/ tree = owned

\* The checks a transaction repeats after every callback: the root is active,
\* the current rows are whole, the root's layout and the slot's layout hold.
\* "corrupted" is what the code calls stable_corrupted: the old rows cannot be
\* kept either.  The second check of a keyed update asks the root first.
DomVerdict(rootFirst) ==
    LET rows == domSlot.rows
        missing == \E i \in DOMAIN rows : rows[i] \notin Range(domTree)
        mixed == \E i \in DOMAIN rows : rows[i] \in domMixed
        intact == DomRootIntact(domTree, domOwned)
    IN  IF domRoot = "retiring" \/ (rootFirst /\ ~intact) THEN "failed"
        ELSE IF missing THEN "corrupted"
        ELSE IF mixed \/ ~intact THEN "failed"
        ELSE IF ~DomLayout(domTree, rows)
             THEN IF domKind = "keyed" THEN "corrupted" ELSE "failed"
        ELSE "ok"

DomKeysOf(rows) == [i \in DOMAIN rows |-> rows[i][1]]

\* What a collection may produce: try_keyed refuses a key that appears twice.
DomCollections ==
    UNION {{s \in [1 .. n -> DomKeys] : IsInjective(s)} : n \in 0 .. Cardinality(DomKeys)}

\* keyed_lis: a longest set of target positions whose rows already stand in
\* increasing old order; these rows are not touched.
DomKeep(plan, rows) ==
    LET old(n) == CHOOSE j \in DOMAIN rows : rows[j] = n
        kept == {i \in DOMAIN plan : plan[i] \in Range(rows)}
        rising == {S \in SUBSET kept :
                     \A i, j \in S : i < j => old(plan[i]) < old(plan[j])}
    IN  CHOOSE S \in rising : \A T \in rising : Cardinality(T) <= Cardinality(S)

-----------------------------------------------------------------------------
(* Mounting and adoption.                                                  *)

DomIdle == [pc |-> "idle", number |-> 0, want |-> <<>>, plan |-> <<>>, at |-> 0,
            hard |-> FALSE, old |-> {}, before |-> <<>>, disturbed |-> TRUE]

\* The server's seed of an adopted root, or an empty slot of a fresh one.
DomSeeds(kind, adopt) ==
    IF ~adopt THEN {<<>>}
    ELSE IF kind = "dynamic" THEN {<<<<"view", 1>>>>}
    ELSE {[i \in DOMAIN s |-> <<s[i], 1>>] : s \in DomCollections}

DomInit ==
    /\ domKind \in {"keyed", "dynamic"}
    /\ domNested \in BOOLEAN
    /\ domAdopt \in BOOLEAN
    /\ \E rows \in DomSeeds(domKind, domAdopt) :
         /\ domTree = DomPage(rows)
         /\ domSlot = [status |-> "Ready", rows |-> rows]
    /\ domOwned = domTree
    /\ domRoot = IF domAdopt THEN "seed" ELSE "mounting"
    /\ domRun = DomIdle
    /\ domGen = 2
    /\ domTouched = 0
    /\ domMixed = {}

\* preflight_view: the whole seed is compared with the view before anything is
\* committed; a mismatch leaves the server's markup as it was.
DomPreflight ==
    /\ domRoot = "seed"
    /\ domRoot' \in {"mounting", "refused"}
    /\ UNCHANGED <<domKind, domNested, domAdopt, domTree, domOwned, domSlot,
                   domRun, domGen, domTouched, domMixed>>

-----------------------------------------------------------------------------
(* How a run of the render effect ends.                                    *)

\* The disposal of a root: every registered node leaves the document, wherever
\* it is now.  The scopes of the slot go with the effect that holds them.
DomDisposed(tree) == DomWithout(tree, DomFrame \cup {n \in Range(tree) : n /= DomForeign})

\* The effect returns.  A failed first run fails the mount, or rolls an
\* adoption back; a disposal asked for during the run happens now.  `result'
\* tells a failure of the user's callback from one the slot found itself.
DomReturn(tree, owned, slot, result) ==
    /\ domRun' = [domRun EXCEPT !.pc = "idle", !.disturbed = @ \/ result = "callback"]
    /\ IF domRoot = "retiring" \/ (domRoot = "mounting" /\ result /= "committed")
       THEN /\ domTree' = DomDisposed(tree)
            /\ domOwned' = <<>>
            /\ domSlot' = [slot EXCEPT !.rows = <<>>]
            /\ domRoot' = "gone"
       ELSE /\ domTree' = tree
            /\ domOwned' = IF domRoot = "mounting" THEN tree ELSE owned
            /\ domSlot' = slot
            /\ domRoot' = "live"
    /\ UNCHANGED <<domKind, domNested, domAdopt, domGen, domTouched, domMixed>>

\* Whether a failure retires the slot: a keyed list that was touched or whose
\* rows are corrupt, a dynamic slot whose child is corrupt.
DomRetires(hard, corrupted) == corrupted \/ (domKind = "keyed" /\ hard)

\* The error path: staged rows are dropped with their nodes; the slot is
\* poisoned and retired with its boundaries, or poisoned with its child left in
\* place, or Ready again with its old rows.
DomFail(result, tree, owned, rows, hard, corrupted) ==
    LET retires == DomRetires(hard, corrupted)
        staged == {domRun.plan[i] : i \in DOMAIN domRun.plan} \ Range(rows)
        dropped == staged \cup
            (IF retires THEN Range(rows) \cup {<<"slot", 0>>, <<"slot", 1>>} ELSE {})
    IN  DomReturn(DomWithout(tree, dropped),
                  IF retires THEN DomWithout(owned, dropped \cup Range(domSlot.rows))
                             ELSE owned,
                  [status |-> IF retires \/ (domKind = "dynamic" /\ hard)
                              THEN "Poisoned" ELSE "Ready",
                   rows |-> IF retires THEN <<>> ELSE rows],
                  result)

\* Continue when the checks hold, fail with the old rows otherwise.
DomChecked(verdict, go) ==
    IF verdict = "ok" THEN go
    ELSE DomFail("checks", domTree, domOwned, domSlot.rows, FALSE, verdict = "corrupted")

-----------------------------------------------------------------------------
(* The transaction.                                                        *)

\* begin_update: a poisoned slot does nothing any more.
DomBegin ==
    /\ domRun.pc = "idle"
    /\ domRoot = "live" \/ (domRoot = "mounting" /\ domRun.number = 0)
    /\ domSlot.status = "Ready"
    /\ domRun.number < DomRuns
    /\ domRun' = [DomIdle EXCEPT !.pc = "collect", !.number = domRun.number + 1,
                                 !.before = domSlot.rows, !.disturbed = domTouched > 0]
    /\ UNCHANGED <<domKind, domNested, domAdopt, domTree, domOwned, domSlot,
                   domRoot, domGen, domTouched, domMixed>>

\* The state of a transaction goes on to `pc' with the fields it computed.
DomGoOn(run) ==
    /\ domRun' = run
    /\ UNCHANGED <<domKind, domNested, domAdopt, domTree, domOwned, domSlot,
                   domRoot, domTouched, domMixed>>

\* A callback of the application fails: a collection, a key, a row, a view.
DomCallbackFails ==
    /\ domRun.pc \in {"collect", "build"}
    /\ DomFail("callback", domTree, domOwned, domSlot.rows, FALSE, FALSE)

\* spec.collect answers, and everything is checked again after it.  An adopted
\* list must collect the seed's keys.
DomCollectKeys ==
    /\ domRun.pc = "collect" /\ domKind = "keyed"
    /\ \E want \in DomCollections :
         IF domRoot = "mounting" /\ domAdopt /\ want /= DomKeysOf(domSlot.rows)
         THEN DomFail("callback", domTree, domOwned, domSlot.rows, FALSE, FALSE)
         ELSE DomChecked(DomVerdict(FALSE),
                DomGoOn([domRun EXCEPT !.pc = "build", !.want = want]) /\ UNCHANGED domGen)

\* The view of a dynamic slot answers.  An adopted child is only compared with
\* it: the server's nodes stay.
DomCallView ==
    /\ domRun.pc = "collect" /\ domKind = "dynamic"
    /\ DomChecked(DomVerdict(FALSE),
         IF domRoot = "mounting" /\ domAdopt
         THEN DomReturn(domTree, domOwned, domSlot, "committed")
         ELSE DomGoOn([domRun EXCEPT !.pc = "build", !.want = <<"view">>])
                /\ UNCHANGED domGen)

\* Mutant: every row is built again.
DomPlanAnew == [i \in DOMAIN domRun.want |-> <<domRun.want[i], domGen>>]

\* The rows of the new collection: a key the list already shows keeps its row.
DomPlan ==
    [i \in DOMAIN domRun.want |->
        LET held == {n \in Range(domSlot.rows) : n[1] = domRun.want[i]}
        IN  IF held /= {} THEN CHOOSE n \in held : TRUE ELSE <<domRun.want[i], domGen>>]

\* stage_view for the new rows, off the document; then every check again.
DomBuildRows ==
    /\ domRun.pc = "build" /\ domKind = "keyed"
    /\ DomChecked(DomVerdict(TRUE),
         DomGoOn([domRun EXCEPT !.pc = "observe", !.plan = DomPlan]) /\ domGen' = domGen + 1)

\* validate_boundary_range, before the child in place is looked at again.
DomChildVerdict ==
    IF {<<"slot", 0>>, <<"slot", 1>>} \subseteq Range(domTree) THEN DomVerdict(FALSE) ELSE "failed"

\* A dynamic slot always stages a new child.
DomStageChild ==
    /\ domRun.pc = "build" /\ domKind = "dynamic"
    /\ DomChecked(DomChildVerdict,
         DomGoOn([domRun EXCEPT !.pc = "observe", !.plan = <<<<"view", domGen>>>>])
           /\ domGen' = domGen + 1)

\* before_dom_commit has told the observer: a root it disposed is left alone.
DomObserved ==
    /\ domRun.pc = "observe" /\ domKind = "keyed"
    /\ IF domRoot = "retiring"
       THEN DomFail("checks", domTree, domOwned, domSlot.rows, FALSE, FALSE)
       ELSE DomGoOn([domRun EXCEPT !.pc = "move", !.at = Len(domRun.plan)])
              /\ UNCHANGED domGen

\* The new child of a dynamic slot is inserted behind the current one.
DomInsertChild ==
    /\ domRun.pc = "observe" /\ domKind = "dynamic"
    /\ IF domRoot = "retiring" \/ <<"slot", 1>> \notin Range(domTree)
       THEN DomFail("checks", domTree, domOwned, domSlot.rows, FALSE, FALSE)
       ELSE /\ domTree' = DomInsert(domTree, domRun.plan[1], <<"slot", 1>>)
            /\ domRun' = [domRun EXCEPT !.pc = "replace"]
            /\ UNCHANGED <<domKind, domNested, domAdopt, domOwned, domSlot, domRoot,
                           domGen, domTouched, domMixed>>

\* The rows are placed from the last to the first, each in front of the one
\* behind it; an insertion fails when that one has been taken away.
DomMove ==
    /\ domRun.pc = "move"
    /\ domRun.at > 0
    /\ LET row == domRun.plan[domRun.at]
           anchor == IF domRun.at = Len(domRun.plan) THEN <<"slot", 1>>
                     ELSE domRun.plan[domRun.at + 1]
       IN  IF domRun.at \in DomKeep(domRun.plan, domSlot.rows)
           THEN DomGoOn([domRun EXCEPT !.at = @ - 1]) /\ UNCHANGED domGen
           ELSE IF anchor \notin Range(domTree)
           THEN DomFail("checks", domTree, domOwned, domSlot.rows, TRUE, FALSE)
           ELSE /\ domTree' = DomInsert(domTree, row, anchor)
                /\ domRun' = [domRun EXCEPT !.at = @ - 1, !.hard = TRUE]
                /\ UNCHANGED <<domKind, domNested, domAdopt, domOwned, domSlot,
                               domRoot, domGen, domTouched, domMixed>>

\* The rows no longer wanted leave the document, the result is validated, the
\* root's layout is committed and the slot takes the new rows.
DomSettle ==
    /\ domRun.pc = "move"
    /\ domRun.at = 0
    /\ LET rows == domRun.plan
           retired == Range(domSlot.rows) \ Range(rows)
           tree == DomWithout(domTree, retired)
           hard == domRun.hard \/ retired /= {}
           owned == DomRegistered(rows)
       IN  IF domRoot = "retiring" \/ ~DomLayout(tree, rows)
           THEN DomFail("checks", tree, domOwned, domSlot.rows, hard, FALSE)
           ELSE IF ~DomRootIntact(tree, owned)
           THEN DomFail("checks", tree, owned, domSlot.rows, hard, FALSE)
           ELSE /\ domTree' = tree
                /\ domOwned' = owned
                /\ domSlot' = [domSlot EXCEPT !.rows = rows]
                /\ domRun' = [domRun EXCEPT !.pc = "retire", !.hard = hard, !.old = retired]
                /\ UNCHANGED <<domKind, domNested, domAdopt, domRoot, domGen,
                               domTouched, domMixed>>

\* replace_candidate: from here on the old child is gone.
DomReplace ==
    /\ domRun.pc = "replace"
    /\ LET candidate == domRun.plan[1]
           before == DomRegistered(domSlot.rows \o <<candidate>>)
       IN  IF \/ domRoot = "retiring"
              \/ candidate \in domMixed
              \/ ~DomLayout(domTree, domSlot.rows \o <<candidate>>)
              \/ ~DomRootIntact(domTree, before)
           THEN DomFail("checks", domTree, domOwned, domSlot.rows, FALSE, FALSE)
           ELSE /\ domSlot' = [domSlot EXCEPT !.rows = <<candidate>>]
                /\ domRun' = [domRun EXCEPT !.pc = "retire", !.hard = TRUE,
                                            !.old = Range(domSlot.rows)]
                /\ UNCHANGED <<domKind, domNested, domAdopt, domTree, domOwned,
                               domRoot, domGen, domTouched, domMixed>>

\* The retired scopes are dropped: their cleanups run, their nodes go, and a
\* cleanup that does not converge is terminal.
DomTerminals == {FALSE, domRun.old /= {}}

DomRetireRows ==
    /\ domRun.pc = "retire" /\ domKind = "keyed"
    /\ LET tree == DomWithout(domTree, domRun.old)
       IN \E terminal \in DomTerminals :
            IF terminal
            THEN DomFail("callback", tree, domOwned, domSlot.rows, domRun.hard, FALSE)
            ELSE DomReturn(tree, domOwned, domSlot, "committed")

\* A dynamic slot is validated once more, because the cleanups may have moved
\* what is left; the root's layout is committed whatever the outcome.
DomRetireChild ==
    /\ domRun.pc = "retire" /\ domKind = "dynamic"
    /\ LET tree == DomWithout(domTree, domRun.old)
           rows == domSlot.rows
           owned == DomRegistered(rows)
           whole == Range(rows) \cap domMixed = {} /\ DomLayout(tree, rows)
       IN \E terminal \in DomTerminals :
            IF ~whole THEN DomFail("checks", tree, owned, rows, TRUE, TRUE)
            ELSE IF terminal THEN DomFail("callback", tree, owned, rows, TRUE, FALSE)
            ELSE IF domRoot = "retiring"
            THEN DomFail("checks", tree, domOwned, rows, TRUE, FALSE)
            ELSE IF ~DomRootIntact(tree, owned)
            THEN DomFail("checks", tree, owned, rows, TRUE, TRUE)
            ELSE DomReturn(tree, owned, domSlot, "committed")

-----------------------------------------------------------------------------
(* The application and the page.                                           *)

\* MountScope::dispose: at once, or at the end of the run it was called in.
DomDispose ==
    /\ domRoot = "live"
    /\ IF domRun.pc = "idle"
       THEN /\ domRoot' = "gone"
            /\ domTree' = DomDisposed(domTree)
            /\ domOwned' = <<>>
            /\ domSlot' = [domSlot EXCEPT !.rows = <<>>]
            /\ UNCHANGED domRun
       ELSE /\ domRoot' = "retiring"
            /\ domRun' = [domRun EXCEPT !.disturbed = TRUE]
            /\ UNCHANGED <<domTree, domOwned, domSlot>>
    /\ UNCHANGED <<domKind, domNested, domAdopt, domGen, domTouched, domMixed>>

\* Code that does not own the mount inserts a node between the rows or inside
\* one, takes a row away or takes a boundary away.  A fresh root is out of its
\* reach until it is mounted.
DomTamper ==
    /\ domRoot \in {"live", "retiring"} \/ (domRoot = "mounting" /\ domAdopt)
    /\ domTouched < DomTampers
    /\ domTouched' = domTouched + 1
    /\ \/ /\ <<"slot", 1>> \in Range(domTree)
          /\ DomForeign \notin Range(domTree)
          /\ domTree' = DomInsert(domTree, DomForeign, <<"slot", 1>>)
          /\ UNCHANGED domMixed
       \/ \E n \in Range(domTree) \ (DomFrame \cup {DomForeign}) :
            \/ domMixed' = domMixed \cup {n} /\ UNCHANGED domTree
            \/ domTree' = DomWithout(domTree, {n}) /\ UNCHANGED domMixed
       \/ /\ <<"slot", 1>> \in Range(domTree)
          /\ domTree' = DomWithout(domTree, {<<"slot", 1>>})
          /\ UNCHANGED domMixed
    /\ domRun' = [domRun EXCEPT !.disturbed = TRUE]
    /\ UNCHANGED <<domKind, domNested, domAdopt, domOwned, domSlot, domRoot, domGen>>

DomNext ==
    \/ DomPreflight \/ DomBegin \/ DomCallbackFails
    \/ DomCollectKeys \/ DomBuildRows \/ DomObserved \/ DomMove \/ DomSettle \/ DomRetireRows
    \/ DomCallView \/ DomStageChild \/ DomInsertChild \/ DomReplace \/ DomRetireChild
    \/ DomDispose \/ DomTamper

DomSpec == DomInit /\ [][DomNext]_domVars

-----------------------------------------------------------------------------
(* Properties.                                                             *)

\* Between updates no row is in the document that the slot does not own, a
\* disposed or failed root leaves none of its nodes behind, and a Ready slot
\* shows its rows in order, all of them and nothing else if nobody tampered
\* with it: a failed update has changed nothing or taken the whole slot out
\* (irreversible, fail_update, poison_and_retire_keyed).
DomNoResidue ==
    domRun.pc = "idle" =>
        /\ domRoot \in {"mounting", "live"} =>
             Range(domTree) \subseteq
                 DomFrame \cup {DomForeign} \cup Range(domSlot.rows)
        /\ domRoot = "gone" => Range(domTree) \subseteq {DomForeign}
        /\ (domRoot = "live" /\ domSlot.status = "Ready") =>
             /\ domTouched = 0 => domTree = DomPage(domSlot.rows)
             /\ DomOnly(domTree, Range(domSlot.rows)) = DomOnly(domSlot.rows, Range(domTree))

\* An update of an untampered page that nothing disturbed and whose callbacks
\* all succeeded commits: the list shows the collected keys in order, and every
\* key that was already shown keeps the node, and so the scope and state, it had.
DomUpdatesCommit ==
    (domRun.pc = "idle" /\ ~domRun.disturbed /\ domRoot = "live") =>
        /\ domSlot.status = "Ready"
        /\ domKind = "keyed" =>
             /\ DomKeysOf(domSlot.rows) = domRun.want
             /\ \A i \in DOMAIN domRun.before, j \in DOMAIN domSlot.rows :
                  domRun.before[i][1] = domSlot.rows[j][1]
                      => domRun.before[i] = domSlot.rows[j]

\* A failed or disposed mount leaves nothing behind, and an update that is
\* reported as done is in the document (install_keyed_view_effect, install_dynamic_view_effect).
DomGuarantees ==
    /\ DomNoResidue
    /\ DomUpdatesCommit
-----------------------------------------------------------------------------
(* The invariant the guarantees rest on.                                   *)

\* The nodes a slot of this kind has made before generation `gen'.
DomRowNodes(kind, gen) ==
    (IF kind = "keyed" THEN DomKeys ELSE {"view"}) \X (1 .. (gen - 1))

DomNodes(kind, gen) == DomFrame \cup {DomForeign} \cup DomRowNodes(kind, gen)

\* Rows: no two with the same key.
DomIsRows(kind, gen, rows) ==
    /\ rows \in Seq(DomRowNodes(kind, gen))
    /\ IsInjective(DomKeysOf(rows))

DomPrecedes(s, x, y) == \E i, j \in DOMAIN s : i < j /\ s[i] = x /\ s[j] = y

\* The rows that are in the document stand in their order.
DomOrdered(tree, rows) ==
    \A x, y \in Range(tree) : DomPrecedes(rows, x, y) => DomPrecedes(tree, x, y)

DomTypes ==
    /\ domKind \in {"keyed", "dynamic"} /\ domNested \in BOOLEAN /\ domAdopt \in BOOLEAN
    /\ domRoot \in {"seed", "mounting", "refused", "live", "retiring", "gone"}
    /\ domGen \in Nat /\ domGen >= 2 /\ domTouched \in Nat
    /\ domTouched = 0 => domMixed = {}
    /\ domTree \in Seq(DomNodes(domKind, domGen)) /\ IsInjective(domTree)
    /\ DOMAIN domSlot = {"status", "rows"} /\ domSlot.status \in {"Ready", "Poisoned"}
    /\ DomIsRows(domKind, domGen, domSlot.rows)
    /\ DOMAIN domRun = {"pc", "number", "want", "plan", "at", "hard", "old", "before",
                        "disturbed"}
    /\ domRun.pc \in {"idle", "collect", "build", "observe", "retire"} \cup
         (IF domKind = "keyed" THEN {"move"} ELSE {"replace"})
    /\ domRun.hard \in BOOLEAN /\ domRun.disturbed \in BOOLEAN

\* What a transaction has computed so far, phase by phase.
DomPhases ==
    LET run == domRun
        rows == domSlot.rows
    IN  /\ run.pc /= "idle" =>
             domSlot.status = "Ready" /\ domRoot \in {"mounting", "live", "retiring"}
        /\ run.pc \in {"collect", "build"} => run.plan = <<>>
        /\ run.pc \in {"collect", "build", "observe"} => ~run.hard
        /\ run.pc = "build" /\ domKind = "keyed" => run.want \in DomCollections
        /\ run.pc \in {"observe", "move", "replace", "retire"} =>
             DomIsRows(domKind, domGen, run.plan)
        /\ run.pc = "move" => run.at \in 0 .. Len(run.plan)
        /\ domKind = "dynamic" /\ run.pc \in {"observe", "replace", "retire"} =>
             Len(run.plan) = 1
        /\ domKind = "dynamic" /\ run.pc \in {"observe", "replace"} =>
             run.plan[1] \notin Range(rows)
        /\ run.pc = "retire" => rows = run.plan

\* Where a transaction has left nodes, and the order of the rows that are shown.
DomResidue ==
    LET run == domRun
        staged == IF run.pc = "replace" \/ (run.pc = "move" /\ run.hard) THEN Range(run.plan)
                  ELSE IF run.pc = "retire" /\ domKind = "dynamic" THEN run.old ELSE {}
    IN  /\ Range(domTree) \subseteq
             DomFrame \cup {DomForeign} \cup Range(domSlot.rows) \cup staged
        /\ domRoot = "gone" => Range(domTree) \subseteq {DomForeign}
        /\ ~(run.pc = "move" /\ run.hard) => DomOrdered(domTree, domSlot.rows)

\* Half way through the moves: the rows already placed, and the ones that stay,
\* stand in the new order between the slot's boundaries.
DomPlaced(tree, rows, plan, at) ==
    LET placed == {i \in DOMAIN plan : i > at}
        done == placed \cup DomKeep(plan, rows)
        shown == Range(rows) \cup {plan[i] : i \in placed}
    IN  /\ Range(tree) = DomFrame \cup shown
        /\ DomPrecedes(tree, <<"root", 0>>, <<"slot", 0>>)
        /\ DomPrecedes(tree, <<"slot", 0>>, <<"slot", 1>>)
        /\ DomPrecedes(tree, <<"slot", 1>>, <<"root", 1>>)
        /\ \A x \in shown : /\ DomPrecedes(tree, <<"slot", 0>>, x)
                            /\ DomPrecedes(tree, x, <<"slot", 1>>)
        /\ \A i, j \in done : i < j => DomPrecedes(tree, plan[i], plan[j])

\* The document and the registered layout of a mount nobody has tampered with.
DomUntouched ==
    LET run == domRun
        rows == domSlot.rows
    IN  (domTouched = 0 /\ domRoot \in {"seed", "mounting", "live"} /\ domSlot.status = "Ready")
        => /\ run.pc /= "retire" => domOwned = DomPage(rows)
           /\ run.pc \in {"idle", "collect", "build", "observe"} => domTree = DomPage(rows)
           /\ run.pc = "move" => DomPlaced(domTree, rows, run.plan, run.at)
           /\ run.pc = "replace" => domTree = DomPage(rows \o run.plan)
           /\ run.pc = "retire" =>
                /\ DomWithout(domTree, run.old) = DomPage(rows)
                /\ domRoot = "live" =>
                     /\ DomTopology(domOwned, rows) = DomPage(rows)
                     /\ domKind = "keyed" => domOwned = DomPage(rows)

\* Rows with the same key are the same row.
DomContinues(before, rows) ==
    \A i \in DOMAIN before, j \in DOMAIN rows :
        before[i][1] = rows[j][1] => before[i] = rows[j]

\* How far an update has come that has met no obstacle.
DomProgress ==
    LET run == domRun
        rows == domSlot.rows
    IN  /\ run.pc /= "idle" /\ ~run.disturbed =>
             domTouched = 0 /\ domRoot \in {"mounting", "live"}
        /\ run.pc \notin {"idle", "retire"} => run.before = rows
        /\ domKind = "keyed" /\ run.pc \in {"observe", "move", "retire"} =>
             DomKeysOf(run.plan) = run.want /\ DomContinues(run.before, run.plan)
        /\ run.pc = "idle" /\ ~run.disturbed /\ domRoot = "live" =>
             /\ domSlot.status = "Ready"
             /\ domKind = "keyed" =>
                  DomKeysOf(rows) = run.want /\ DomContinues(run.before, rows)

DomInvariant == DomTypes /\ DomPhases /\ DomResidue /\ DomUntouched /\ DomProgress
=============================================================================
