----------------------------- MODULE TelemetryStore -----------------------------
(***************************************************************************)
(* The voluntary telemetry of the command line: a state file below the     *)
(* user's home, written by every pliego command that runs, under a lock    *)
(* file.  Commands run concurrently and may die; a lock that is older than *)
(* thirty seconds is taken for one whose owner died.  Commands that live   *)
(* are assumed to hold it for less than that.  The directory itself is     *)
(* made by whoever needs it and removed by disable --delete-local.  The    *)
(* file system is a Unix one: a rename replaces its target.                *)
(***************************************************************************)
EXTENDS Naturals, Sequences, FiniteSets

CONSTANTS
    TelProcs,     \* processes that run a command, or several
    TelCommands,  \* bound: commands started
    TelCrashes,   \* bound: commands that die
    TelMaxEvents  \* MAX_EVENTS

VARIABLES
    telState,   \* <<>> or <<the state file>>
    telDir,     \* the directory: whether it is there, the staged files in it
    telLock,    \* "none" or the process that created the lock file
    telProc,    \* the commands in progress
    telOff,     \* history: a disable returned and no enable began since
    telLeft     \* commands and crashes left

telVars == <<telState, telDir, telLock, telProc, telOff, telLeft>>

TelOps == {"enable", "record", "disable", "delete"}

\* State::default.
TelDefault == [enabled |-> FALSE, next |-> 1, events |-> <<>>]

\* validate_state.
TelValid(state) ==
    /\ Len(state.events) <= TelMaxEvents
    /\ \A k \in DOMAIN state.events : /\ state.events[k] < state.next
                                      /\ k > 1 => state.events[k - 1] < state.events[k]

\* append_event: the oldest is dropped at the bound.
TelAppend(state) ==
    LET events == Append(state.events, state.next) IN
    [state EXCEPT !.next = @ + 1, !.events = IF Len(events) > TelMaxEvents THEN Tail(events) ELSE events]

TelDead == {p \in TelProcs : telProc[p].at = "dead"}

TelIdle == [at |-> "idle", op |-> "none", new |-> TelDefault]

\* A command ends.  Disabling has stopped collection, unless someone is enabling.
TelReturns(op) ==
    telOff' = (telOff \/ (op \in {"disable", "delete"} /\ \A q \in TelProcs : telProc[q].op /= "enable"))

\* A command starts: without a state file there is nothing to record or disable.
TelBegin(p, op) ==
    /\ telProc[p].at = "idle" /\ telLeft.commands > 0
    /\ telLeft' = [telLeft EXCEPT !.commands = @ - 1]
    /\ IF telState = <<>> /\ op /= "enable"
       THEN TelReturns(op) /\ UNCHANGED telProc
       ELSE /\ telProc' = [telProc EXCEPT ![p] = [TelIdle EXCEPT !.at = "ensure", !.op = op]]
            /\ telOff' = (telOff /\ op /= "enable")
    /\ UNCHANGED <<telState, telDir, telLock>>

TelStep(p, at) == telProc' = [telProc EXCEPT ![p].at = at] /\ UNCHANGED <<telOff, telLeft>>

\* Store::ensure_directory, which Store::lock calls before anything else.
TelEnsure(p) ==
    /\ telProc[p].at = "ensure"
    /\ telDir' = [telDir EXCEPT !.there = TRUE]
    /\ TelStep(p, "lock") /\ UNCHANGED <<telState, telLock>>

\* Store::lock: create_new succeeds.
TelTake(p) ==
    /\ telProc[p].at = "lock" /\ telLock = "none" /\ telDir.there
    /\ telLock' = p
    /\ TelStep(p, IF telProc[p].op = "delete" THEN "remove" ELSE "load")
    /\ UNCHANGED <<telState, telDir>>

\* lock_is_stale: the owner died more than thirty seconds ago.
TelFindStale(p) ==
    /\ telProc[p].at = "lock" /\ telLock \in TelDead
    /\ TelStep(p, "unlink") /\ UNCHANGED <<telState, telDir, telLock>>

\* Whatever is at the lock's path is removed.
TelUnlink(p) ==
    /\ telProc[p].at = "unlink"
    /\ telLock' = "none"
    /\ TelStep(p, "lock") /\ UNCHANGED <<telState, telDir>>

\* The command fails to lock: the attempts are used up, the lock that was in
\* the way is gone when its age is asked for, or the directory is gone.
TelBusy(p) ==
    /\ telProc[p].at = "lock" /\ (telLock /= "none" \/ ~telDir.there)
    /\ telProc' = [telProc EXCEPT ![p] = TelIdle]
    /\ UNCHANGED <<telState, telDir, telLock, telOff, telLeft>>

\* The early returns of enable and record.
TelChanges(state, op) ==
    CASE op = "enable" -> ~state.enabled [] op = "record" -> state.enabled [] op = "disable" -> TRUE

TelEdited(state, op) ==
    CASE op = "enable" -> TelAppend([state EXCEPT !.enabled = TRUE])
      [] op = "record" -> TelAppend(state)
      [] op = "disable" -> [state EXCEPT !.enabled = FALSE]

\* Store::load and the command's edit, under the lock.
TelLoad(p) ==
    /\ telProc[p].at = "load"
    /\ LET state == IF telState = <<>> THEN TelDefault ELSE telState[1]
           op == telProc[p].op
       IN  /\ TelValid(state)
           /\ telProc' = [telProc EXCEPT ![p].at = IF TelChanges(state, op) THEN "stage" ELSE "unlock",
                                         ![p].new = IF TelChanges(state, op) THEN TelEdited(state, op) ELSE @]
    /\ UNCHANGED <<telState, telDir, telLock, telOff, telLeft>>

\* Store::save: validated and staged in a file of its own, which fails when the
\* directory is gone.
TelStage(p) ==
    /\ telProc[p].at = "stage" /\ TelValid(telProc[p].new)
    /\ IF telDir.there
       THEN /\ telDir' = [telDir EXCEPT !.staged = @ \cup {p}]
            /\ telProc' = [telProc EXCEPT ![p].at = "rename"]
       ELSE /\ telProc' = [telProc EXCEPT ![p].at = "unlock", ![p].op = "failed"]
            /\ UNCHANGED telDir
    /\ UNCHANGED <<telState, telLock, telOff, telLeft>>

\* The staged file takes the place of the state file.
TelSave(p) ==
    /\ telProc[p].at = "rename"
    /\ telState' = <<telProc[p].new>>
    /\ telDir' = [telDir EXCEPT !.staged = @ \ {p}]
    /\ TelStep(p, "unlock") /\ UNCHANGED telLock

\* disable --delete-local: the state file is removed under the lock, an error
\* if it is gone.
TelRemove(p) ==
    /\ telProc[p].at = "remove"
    /\ telState' = <<>>
    /\ telProc' = [telProc EXCEPT ![p].at = "unlock", ![p].op = IF telState = <<>> THEN "failed" ELSE @]
    /\ UNCHANGED <<telDir, telLock, telOff, telLeft>>

\* StoreLock::drop removes the lock file by its path; disable --delete-local
\* has one step left.
TelUnlock(p) ==
    /\ telProc[p].at = "unlock"
    /\ telLock' = "none"
    /\ IF telProc[p].op = "delete"
       THEN TelStep(p, "rmdir")
       ELSE /\ telProc' = [telProc EXCEPT ![p] = TelIdle]
            /\ TelReturns(telProc[p].op)
            /\ UNCHANGED telLeft
    /\ UNCHANGED <<telState, telDir>>

\* fs::remove_dir, without the lock: a directory that is gone will do, one with
\* a file in it is an error and the command does not return as a success.
TelRemoveDir(p) ==
    /\ telProc[p].at = "rmdir"
    /\ LET empty == telState = <<>> /\ telLock = "none" /\ telDir.staged = {}
       IN  /\ telDir' = [telDir EXCEPT !.there = @ /\ ~empty]
           /\ IF telDir.there => empty THEN TelReturns("delete") ELSE UNCHANGED telOff
    /\ telProc' = [telProc EXCEPT ![p] = TelIdle]
    /\ UNCHANGED <<telState, telLock, telLeft>>

\* The command is killed; a lock file or a staged file of its own stays.
TelCrash(p) ==
    /\ telProc[p].at \notin {"idle", "dead"} /\ telLeft.crashes > 0
    /\ telProc' = [telProc EXCEPT ![p] = [TelIdle EXCEPT !.at = "dead"]]
    /\ telLeft' = [telLeft EXCEPT !.crashes = @ - 1]
    /\ UNCHANGED <<telState, telDir, telLock, telOff>>

TelInit ==
    /\ telState = <<>> /\ telDir = [there |-> FALSE, staged |-> {}] /\ telLock = "none" /\ telOff = FALSE
    /\ telProc = [p \in TelProcs |-> TelIdle]
    /\ telLeft = [commands |-> TelCommands, crashes |-> TelCrashes]

TelNext ==
    \E p \in TelProcs :
        \/ \E op \in TelOps : TelBegin(p, op)
        \/ TelEnsure(p) \/ TelTake(p) \/ TelFindStale(p) \/ TelUnlink(p) \/ TelBusy(p)
        \/ TelLoad(p) \/ TelStage(p) \/ TelSave(p) \/ TelRemove(p) \/ TelUnlock(p)
        \/ TelRemoveDir(p) \/ TelCrash(p)

TelSpec == TelInit /\ [][TelNext]_telVars

-----------------------------------------------------------------------------
(* Properties.                                                             *)

\* Once a disable has returned, collection stays off until another enable
\* begins, whatever other commands were under way.
TelDisablingStopsCollection == telOff => telState = <<>> \/ ~telState[1].enabled
================================================================================
