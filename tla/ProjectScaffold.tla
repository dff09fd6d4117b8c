---------------------------- MODULE ProjectScaffold ----------------------------
(***************************************************************************)
(* `pliego new` (pliego-cli): a project is written to a staging directory  *)
(* named after the package and the process id, and renamed over an absent  *)
(* or empty destination, while other commands do the same and a user works *)
(* in the same directory.  A process id may come back after a crash.       *)
(***************************************************************************)
EXTENDS Naturals, Sequences, SequencesExt, FiniteSets

CONSTANTS
    ScaProcs,      \* commands
    ScaPid,        \* command -> process id
    ScaDests,      \* destination -> package name, "" when none can be made
    ScaTemplates,  \* template -> sequence of [path, key, portable, mode, token]
    ScaUses        \* bound: what the user does at the destinations

\* Every template is a list of files; "mine" is what the user writes.
ASSUME ScaAssumption ==
    \A t \in DOMAIN ScaTemplates :
        ScaTemplates[t] \in Seq([path : STRING \ {"mine"}, key : Seq(STRING), portable : BOOLEAN,
                                mode : STRING, token : STRING])

VARIABLES
    scaDest,       \* destination -> node
    scaStage,      \* <<package, pid>> -> node
    scaProc,       \* command -> its state
    scaMine,       \* history: the destinations the user put something in
    scaLeft        \* the user's steps left

scaVars == <<scaDest, scaStage, scaProc, scaMine, scaLeft>>

-----------------------------------------------------------------------------

ScaAbsent == [kind |-> "none", files |-> {}]
ScaDir(files) == [kind |-> "dir", files |-> files]

\* The three files every template has.
ScaReserved == {"cargo.toml", "pliego.toml", ".gitignore"}

\* validate_template: portable paths, none of which equals another, or lies
\* under it, when case is folded; `key` is the folded path as a sequence.
ScaTemplateOk(t) ==
    \A i \in DOMAIN t :
        /\ t[i].portable
        /\ \A k \in {<<r>> : r \in ScaReserved} \cup {t[j].key : j \in DOMAIN t \ {i}} :
             ~IsPrefix(k, t[i].key) /\ ~IsPrefix(t[i].key, k)

\* Everything a project of template t holds.
ScaWhole(t) == ScaReserved \cup {t[i].path : i \in DOMAIN t}

\* validate_template_path: only names, none of them reserved by a system.
ScaPortable(name) == name \notin {"..", "nul", "a:b", "dot."}

\* customize_template_file: a text has the package and the display name
\* filled in, a copy keeps every token.
ScaCustomized(file) ==
    IF file.mode /= "Copy" /\ file.token = "name" THEN "none" ELSE file.token

\* reject_unresolved_tokens.
ScaResolved(file) == ScaCustomized(file) = "none"

ScaKey(p) == <<ScaDests[scaProc[p].dest], ScaPid[p]>>

ScaIdle(pc) == [pc |-> pc, dest |-> "", template |-> "", next |-> 1]

ScaEnds(p) == scaProc' = [scaProc EXCEPT ![p] = ScaIdle("done")]

ScaInit ==
    /\ scaDest = [d \in DOMAIN ScaDests |-> ScaAbsent]
    /\ scaStage = [k \in {ScaDests[d] : d \in DOMAIN ScaDests} \X {ScaPid[p] : p \in ScaProcs} |-> ScaAbsent]
    /\ scaProc = [p \in ScaProcs |-> ScaIdle("start")]
    /\ scaMine = {} /\ scaLeft = ScaUses

\* parse_new_options and the head of create_project: the destination is
\* absent (a dangling link counts as absent) or an empty directory, and it
\* names a package.
ScaStart(p) ==
    /\ scaProc[p].pc = "start"
    /\ \E d \in DOMAIN ScaDests, t \in DOMAIN ScaTemplates, parsed \in BOOLEAN :
         IF /\ parsed /\ ScaDests[d] /= ""
            /\ scaDest[d].kind \in {"none", "dangling", "dir"} /\ scaDest[d].files = {}
         THEN scaProc' = [scaProc EXCEPT ![p] = [pc |-> "stage", dest |-> d, template |-> t, next |-> 1]]
         ELSE ScaEnds(p)
    /\ UNCHANGED <<scaDest, scaStage, scaMine, scaLeft>>

\* exists and create_dir: the staging directory is made or the command fails.
ScaStageFree(p) == scaStage[ScaKey(p)].kind = "none"

\* scaffold_project: the template is validated and the staging directory made.
ScaStaged(p) ==
    /\ scaProc[p].pc = "stage"
    /\ IF ScaTemplateOk(ScaTemplates[scaProc[p].template]) /\ ScaStageFree(p)
       THEN /\ scaStage' = [scaStage EXCEPT ![ScaKey(p)] = ScaDir(@.files)]
            /\ scaProc' = [scaProc EXCEPT ![p].pc = "write"]
       ELSE ScaEnds(p) /\ UNCHANGED scaStage
    /\ UNCHANGED <<scaDest, scaMine, scaLeft>>

\* write_scaffold_file: the files are created anew.
ScaCreates(p, files) == files \cap scaStage[ScaKey(p)].files = {}

\* scaffold_project: the reserved files first (next = 1), then the
\* template's; a failure removes the staging directory.
ScaWrite(p) ==
    LET t == ScaTemplates[scaProc[p].template]
        n == scaProc[p].next
        adds == IF n = 1 THEN ScaReserved ELSE {t[n - 1].path}
    IN  /\ scaProc[p].pc = "write" /\ n =< Len(t) + 1
        /\ \E written \in BOOLEAN :
             IF /\ written
                /\ n > 1 => ScaResolved(t[n - 1])
                /\ ScaCreates(p, adds)
             THEN /\ scaStage' = [scaStage EXCEPT ![ScaKey(p)].files = @ \cup adds]
                  /\ scaProc' = [scaProc EXCEPT ![p].next = n + 1]
             ELSE scaStage' = [scaStage EXCEPT ![ScaKey(p)] = ScaAbsent] /\ ScaEnds(p)
        /\ UNCHANGED <<scaDest, scaMine, scaLeft>>

\* scaffold_project: the destination is looked at again; what is not a
\* directory leaves the staged project behind.
ScaRecheck(p) ==
    /\ scaProc[p].pc = "write" /\ scaProc[p].next = Len(ScaTemplates[scaProc[p].template]) + 2
    /\ LET kind == scaDest[scaProc[p].dest].kind
       IN  IF kind = "file" THEN ScaEnds(p)
           ELSE scaProc' = [scaProc EXCEPT ![p].pc = IF kind = "dir" THEN "clear" ELSE "rename"]
    /\ UNCHANGED <<scaDest, scaStage, scaMine, scaLeft>>

\* Mutant: the directory is removed with what is in it.
ScaRemovableAll(node) == node.kind = "dir"

\* fs::remove_dir.
ScaRemovable(node) == node.kind = "dir" /\ node.files = {}

\* scaffold_project: an empty directory makes way.
ScaClear(p) ==
    /\ scaProc[p].pc = "clear"
    /\ IF ScaRemovable(scaDest[scaProc[p].dest])
       THEN /\ scaDest' = [scaDest EXCEPT ![scaProc[p].dest] = ScaAbsent]
            /\ scaProc' = [scaProc EXCEPT ![p].pc = "rename"]
       ELSE ScaEnds(p) /\ UNCHANGED scaDest
    /\ UNCHANGED <<scaStage, scaMine, scaLeft>>

\* fs::rename of a directory: over nothing or an empty directory.
ScaRename(p) ==
    /\ scaProc[p].pc = "rename"
    /\ IF scaDest[scaProc[p].dest] \in {ScaAbsent, ScaDir({})}
       THEN /\ scaDest' = [scaDest EXCEPT ![scaProc[p].dest] = scaStage[ScaKey(p)]]
            /\ scaStage' = [scaStage EXCEPT ![ScaKey(p)] = ScaAbsent]
       ELSE UNCHANGED <<scaDest, scaStage>>
    /\ ScaEnds(p)
    /\ UNCHANGED <<scaMine, scaLeft>>

\* A command dies wherever it is.
ScaCrash(p) ==
    /\ scaProc[p].pc \notin {"start", "done"}
    /\ ScaEnds(p)
    /\ UNCHANGED <<scaDest, scaStage, scaMine, scaLeft>>

\* The user makes a directory, a link or a file, or adds a file.
ScaUse(d) ==
    /\ scaLeft > 0 /\ scaLeft' = scaLeft - 1
    /\ \/ /\ scaDest[d] = ScaAbsent
          /\ \E node \in {ScaDir({}), [kind |-> "file", files |-> {"mine"}], [kind |-> "dangling", files |-> {}]} :
               /\ scaDest' = [scaDest EXCEPT ![d] = node]
               /\ scaMine' = IF node.kind = "file" THEN scaMine \cup {d} ELSE scaMine
       \/ /\ scaDest[d].kind = "dir"
          /\ scaDest' = [scaDest EXCEPT ![d].files = @ \cup {"mine"}]
          /\ scaMine' = scaMine \cup {d}
    /\ UNCHANGED <<scaStage, scaProc>>

ScaNext ==
    \/ \E p \in ScaProcs : \/ ScaStart(p) \/ ScaStaged(p) \/ ScaWrite(p) \/ ScaRecheck(p)
                           \/ ScaClear(p) \/ ScaRename(p) \/ ScaCrash(p)
    \/ \E d \in DOMAIN ScaDests : ScaUse(d)

ScaSpec == ScaInit /\ [][ScaNext]_scaVars

-----------------------------------------------------------------------------

\* Whatever the commands and the user interleave, and wherever a command
\* dies, a destination holds no part of a project or one whole project, and
\* what the user put there is still there.
ScaDestinationsAreSafe ==
    \A d \in DOMAIN scaDest :
        /\ d \in scaMine => "mine" \in scaDest[d].files
        /\ scaDest[d].files \ {"mine"} = {}
           \/ \E t \in DOMAIN ScaTemplates : scaDest[d].files \ {"mine"} = ScaWhole(ScaTemplates[t])

-----------------------------------------------------------------------------
(* The inductive invariant.                                                *)

ScaNames == {"mine"} \cup UNION {ScaWhole(ScaTemplates[t]) : t \in DOMAIN ScaTemplates}
ScaNodes ==
    {node \in [kind : {"none", "dir", "file", "dangling"}, files : SUBSET ScaNames] :
        node.kind = "none" => node.files = {}}
ScaKeys == {ScaDests[d] : d \in DOMAIN ScaDests} \X {ScaPid[p] : p \in ScaProcs}
ScaStates ==
    [pc : {"start", "stage", "write", "clear", "rename", "done"}, dest : DOMAIN ScaDests \cup {""},
     template : DOMAIN ScaTemplates \cup {""}, next : Nat]
ScaRecords ==
    {r \in ScaStates :
        /\ r.next > 0
        /\ r.pc \notin {"start", "done"} => r.dest \in DOMAIN ScaDests /\ r.template \in DOMAIN ScaTemplates
        /\ r.pc = "stage" => r.next = 1}

ScaTyped ==
    /\ scaDest \in [DOMAIN ScaDests -> ScaNodes]
    /\ scaStage \in [ScaKeys -> ScaNodes]
    /\ scaProc \in [ScaProcs -> ScaRecords]

\* The commands that have a staging directory, and what it holds when one has
\* come as far as r: before the rename, a whole project.
ScaWriting == {p \in ScaProcs : scaProc[p].pc \in {"write", "clear", "rename"}}
ScaHolds(r, node) ==
    LET t == ScaTemplates[r.template]
    IN  /\ node.kind = "dir"
        /\ r.next <= Len(t) + 2
        /\ r.pc \in {"clear", "rename"} => r.next = Len(t) + 2
        /\ node.files = IF r.next = 1 THEN {} ELSE ScaReserved \cup {t[i].path : i \in 1..(r.next - 2)}

\* A staging directory is the one of a single command, and holds what that
\* command has written so far.
ScaStagesAreOwned ==
    \A p \in ScaWriting :
        /\ ScaHolds(scaProc[p], scaStage[ScaKey(p)])
        /\ \A q \in ScaWriting : ScaKey(q) = ScaKey(p) => q = p

ScaInvariant == ScaTyped /\ ScaStagesAreOwned /\ ScaDestinationsAreSafe
=============================================================================
