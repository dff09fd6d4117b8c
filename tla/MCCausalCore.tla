----------------------------- MODULE MCCausalCore -----------------------------
(***************************************************************************)
(* TLC instances of the causal scheduler and of the event log whose        *)
(* histories it commits.  They are checked side by side: a behaviour moves *)
(* one of them and leaves the other in its initial state.                  *)
(***************************************************************************)
EXTENDS CausalScheduler, EventLog

VARIABLE focus   \* the component that moves

\* A fresh scheduler, and one restored over one verified event.
MCHistories == {<< >>, <<"good">>}

MCInit ==
    /\ focus \in {"scheduler", "log"}
    /\ Init /\ LogInit
    /\ focus = "scheduler" \/ log = << >>

MCNext ==
    \/ focus = "scheduler" /\ Next    /\ UNCHANGED <<focus, logVars>>
    \/ focus = "log"       /\ LogNext /\ UNCHANGED <<focus, vars>>
=============================================================================
