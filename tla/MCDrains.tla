------------------------------- MODULE MCDrains -------------------------------
(***************************************************************************)
(* TLC instances of the three loops that run application code until it     *)
(* stops producing work: a causal drain, the flush of the effects and an   *)
(* upcast.  A behaviour moves one of them and leaves the others idle.      *)
(***************************************************************************)
EXTENDS CausalScheduler, ReactiveGraph, EventCatalog

VARIABLE focus   \* the component that moves

\* A fresh scheduler only.
FreshHistory == {<< >>}

\* s -> m -> n -> e; e writes t, and f reads t and writes s: effects that keep
\* invalidating each other.
FeedbackRead == [c \in Nodes |->
    CASE c = "m" -> {"s"} [] c = "n" -> {"m"} [] c = "e" -> {"n"}
      [] c = "f" -> {"t"} [] OTHER -> {}]
FeedbackWrite == [c \in Nodes |->
    CASE c = "e" -> {"t"} [] c = "f" -> {"s"} [] OTHER -> {}]

\* s -> m -> e <- n <- t
ForkRead == [c \in Nodes |->
    CASE c = "m" -> {"s"} [] c = "n" -> {"t"} [] c = "e" -> {"m", "n"} [] OTHER -> {}]
ForkWrite == [c \in Nodes |-> IF c = "s" THEN {"t"} ELSE {}]

MCInit ==
    /\ focus \in {"scheduler", "graph", "catalog"}
    /\ Init /\ RxInit /\ CatInit

MCNext ==
    \/ focus = "scheduler" /\ Next    /\ UNCHANGED <<focus, rxVars, catVars>>
    \/ focus = "graph"     /\ RxNext  /\ UNCHANGED <<focus, vars, catVars>>
    \/ focus = "catalog"   /\ CatNext /\ UNCHANGED <<focus, vars, rxVars>>

mcVars == <<focus, vars, rxVars, catVars>>

\* One of the three alone, without fairness.
SchedulerSpec == MCInit /\ focus = "scheduler" /\ [][MCNext]_mcVars
GraphSpec == MCInit /\ focus = "graph" /\ [][MCNext]_mcVars

\* A drain, a flush and a decode are calls: nobody has to make one, and one that
\* was made goes on until it returns.
MCSpec ==
    /\ MCInit /\ [][MCNext]_mcVars
    /\ WF_vars(DrainStep)
    /\ WF_rxVars(Step)
    /\ \A t \in Threads : WF_catVars(Refuse(t) \/ \E out \in Payloads : ApplyTransform(t, out))
=============================================================================
