------------------------------ MODULE MCBrowser ------------------------------
(***************************************************************************)
(* TLC instances of what runs in a page: the reactive graph, the owners of *)
(* its nodes, mounted documents and adapted components.  A behaviour moves *)
(* one of them and leaves the others in one of their initial states.       *)
(***************************************************************************)
EXTENDS ReactiveGraph, ReactiveOwners, DomMount, AdapterRuntime

VARIABLE focus   \* the component that moves

\* s -> m -> n -> e and t -> n; f reads m and writes t, so e runs after f.
ChainRead == [c \in Nodes |->
    CASE c = "m" -> {"s"} [] c = "n" -> {"m", "t"} [] c = "e" -> {"n"}
      [] c = "f" -> {"m"} [] OTHER -> {}]
ChainWrite == [c \in Nodes |->
    CASE c = "f" -> {"t"} [] c = "s" -> {"t"} [] OTHER -> {}]

DomPinned ==
    /\ domKind = "keyed" /\ ~domNested /\ ~domAdopt
    /\ domSlot.rows = CHOOSE rows \in DomSeeds(domKind, domAdopt) : TRUE

MCInit ==
    /\ focus \in {"graph", "owners", "dom", "adapter"}
    /\ RxInit /\ OwnInit /\ DomInit /\ AdInit
    /\ focus = "dom" \/ DomPinned

MCNext ==
    \/ focus = "graph"   /\ RxNext  /\ UNCHANGED <<focus, ownVars, domVars, adVars>>
    \/ focus = "owners"  /\ OwnNext /\ UNCHANGED <<focus, rxVars, domVars, adVars>>
    \/ focus = "dom"     /\ DomNext /\ UNCHANGED <<focus, rxVars, ownVars, adVars>>
    \/ focus = "adapter" /\ AdNext  /\ UNCHANGED <<focus, rxVars, ownVars, domVars>>

MCSpec == MCInit /\ [][MCNext]_<<focus, rxVars, ownVars, domVars, adVars>>
=============================================================================
