---------------------------- MODULE UndoActions ----------------------------
(***************************************************************************)
(* The composition: the AI engine, the undo service, the file manager and  *)
(* the user acting on the same files and the same settings, with the audit *)
(* ledger and the undo log between them.                                   *)
(***************************************************************************)
EXTENDS UndoFiles, UndoSettings

vars == <<callVars, fileVars, setVars>>

Init ==
    /\ CallsInit
    /\ FilesInit
    /\ SettingsInit

(* Somebody asks for an action or for an undo.                             *)
Ask ==
    /\ \/ \E o \in Ops, task \in FileTasks \union SetTasks : Execute(o, task)
       \/ \E o \in Ops, task \in UiTasks : FilesOp(o, task)
       \/ \E c \in Calls, o \in Ops, home \in Homes : Undo(c, o, home)
    /\ UNCHANGED <<fileVars, setVars>>

PressCtrlZ == \E c \in Calls : CtrlZ(c) /\ UNCHANGED setVars

(* One step of the program that runs worker w.                             *)
Step(w) ==
    \/ (LookupState(w) \/ LookupEntry(w) \/ Audit(w)) /\ UNCHANGED <<fileVars, setVars>>
    \/ (Submit(w) \/ Mark(w)) /\ UNCHANGED <<fileVars, setVars>>
    \/ FileStep(w) /\ UNCHANGED setVars
    \/ SetStep(w) /\ UNCHANGED fileVars

Emptying ==
    /\ (\E s \in Slots : SweepPayload(s)) \/ SweepSidecar
    /\ UNCHANGED setVars

User ==
    \/ (\E p \in Paths, f \in UserFiles : UserSaves(p, f)) /\ UNCHANGED setVars
    \/ (\E k \in Keys : UserSets(k)) /\ UNCHANGED fileVars

Crash(home) == Dies(home) /\ StackDropped(home) /\ PensDropped(home)

Next ==
    \/ Ask
    \/ PressCtrlZ
    \/ \E w \in Workers : Step(w)
    \/ Emptying
    \/ User
    \/ \E home \in Homes : Crash(home)

Spec == Init /\ [][Next]_vars

-----------------------------------------------------------------------------
TypeOK ==
    /\ \A w \in Workers : work[w].home \in Homes \union {None}
    /\ \A o \in Ops : log[o].state \in {"absent", "live", "over"}
    /\ FilesTypeOK
    /\ SettingsTypeOK

(* No daemon changes a file or a setting unless the ledger has an entry of *)
(* it, however the ledger fails and whoever dies (iface.rs enact,          *)
(* agent_iface.rs dispatch_nongraph_inverse, the executors' S13 steps).    *)
ChangesAreAudited == touched \subseteq ledger

(* An entry the log calls undone is never replayed by a call that comes    *)
(* after that, nor does the ledger say that it was: the state is asked     *)
(* before anything else (agent_iface.rs run_compensate, iface.rs enact).   *)
UndoneIsNotReplayed == stale \intersect (touched \union ledger) = {}

(* Undo takes back: when one action was done and undone and nobody else    *)
(* changed, deleted or died, every file is where it was, the trash lists   *)
(* nothing and the settings read as before (undo_enact.rs:421, "capture -> *)
(* perform -> enact restores the pre-action state"), also when the undo    *)
(* was asked for twice, here and there, in any order.                      *)
RoundTrip ==
    /\ \A w \in Workers : ~Running(w)
    /\ \E o \in Ops : {x \in Ops : At(x, "done")} = {o}
    /\ Calls \intersect touched # {}
    /\ edits = 0 /\ crashes = 0 /\ sweeps = 0 /\ ~met
    => fs = FirstFiles /\ info = {} /\ inode[target] = FirstText

=============================================================================
