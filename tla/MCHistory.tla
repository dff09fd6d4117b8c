------------------------------ MODULE MCHistory ------------------------------
(***************************************************************************)
(* TLC instances of the components that decode, replay and exchange        *)
(* histories.  They share no state, so a behaviour moves one of them and   *)
(* leaves the others in their initial state.                               *)
(***************************************************************************)
EXTENDS EventCatalog, ProjectionRestore, HyphaeSync, LegacyJournal, TLC

VARIABLE focus   \* the component that moves

\* The first release, one with a new reducer revision that rejects event b, and
\* one with a new schema set and a codec that loses state.
MCReleases ==
    {[schema |-> "s1", reducer |-> "r1", codec |-> "c1"],
     [schema |-> "s1", reducer |-> "r2", codec |-> "c1"],
     [schema |-> "s2", reducer |-> "r1", codec |-> "c2"]}

MCIrreducible == {<<"r2", "b">>}

\* One event waits to be sent.
MCOutbox == <<"l1">>

\* Two events push_pending may send, around one only append_remote may.
MCLegacyLog ==
    <<[kind |-> "app", fits |-> TRUE], [kind |-> "bare", fits |-> TRUE], [kind |-> "app", fits |-> TRUE]>>

MCInit ==
    /\ focus \in {"catalog", "projection", "hyphae", "legacy"}
    /\ CatInit /\ Init /\ HypInit /\ LegInit
    /\ focus = "projection" \/ contract = CHOOSE r \in Releases : TRUE

MCNext ==
    \/ focus = "catalog"    /\ CatNext /\ UNCHANGED <<focus, vars, hypVars, legVars>>
    \/ focus = "projection" /\ Next    /\ UNCHANGED <<focus, catVars, hypVars, legVars>>
    \/ focus = "hyphae"     /\ HypNext /\ UNCHANGED <<focus, catVars, vars, legVars>>
    \/ focus = "legacy"     /\ LegNext /\ UNCHANGED <<focus, catVars, vars, hypVars>>
=============================================================================
