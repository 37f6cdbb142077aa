----------------------------- MODULE UndoCalls -----------------------------
(***************************************************************************)
(* Acting and undoing: who asks for an action or for its reversal, and in  *)
(* which order the audit ledger, the world and the signed undo log hear of *)
(* it.                                                                     *)
(*                                                                         *)
(* An operation runs in the AI engine (file_executor.rs and                *)
(* settings_executor.rs: audit, act, submit the inverse) or in the file    *)
(* manager (lib.rs files_op: act, remember for Ctrl+Z, journal the         *)
(* inverse).  An undo call runs in the undo service (iface.rs enact), in   *)
(* the engine (agent_iface.rs run_compensate and                           *)
(* dispatch_nongraph_inverse) or in the file manager (Ctrl+Z).  Each is a  *)
(* worker with a stage; "act" is the stage from which UndoFiles and        *)
(* UndoSettings take over, and they hand the worker back with Acted, or    *)
(* end it.                                                                 *)
(*                                                                         *)
(* The ledger and the signer are seen as their clients see them: a request *)
(* is answered, or it fails with or without having taken effect (every     *)
(* client call has a deadline).  What they do inside is AuditLedger and    *)
(* UndoSigner.                                                             *)
(***************************************************************************)
EXTENDS Naturals, Sequences, FiniteSets

CONSTANTS
    Ops,          \* operation ids: each is minted for one operation
    Calls,        \* undo calls
    None,         \* no value
    MaxAsked,     \* bound on the operations and calls that are asked for
    MaxCrashes,   \* bound on the processes that die
    MaxEdits      \* bound on the user's own changes

VARIABLES
    work,         \* [Ops \union Calls -> worker]
    log,          \* [Ops -> what the signed undo log holds of the operation]
    ledger,       \* the workers whose audit entry was acknowledged
    crashes,      \* processes that have died so far
    edits,        \* changes the user has made so far
    touched,      \* history: the workers that changed files or settings
    stale         \* history: the calls made once the log said "undone"

ASSUME CallsAssumption ==
    /\ Ops \intersect Calls = {}
    /\ None \notin Ops \union Calls

callVars == <<work, log, ledger, crashes, edits, touched, stale>>

Workers == Ops \union Calls
Homes == {"engine", "service", "files"}

(* A worker: its stage, the process it runs in, the operation it is about, *)
(* what it is to do, the inverse it captured, and the notes of the file    *)
(* steps (the trash slot, the names tried, what it saw at its target).     *)
Unborn ==
    [at |-> "idle", home |-> None, op |-> None, task |-> None, inv |-> None,
     slot |-> None, tried |-> {}, saw |-> None]

NotLogged == [state |-> "absent", inv |-> None]

CallsInit ==
    /\ work = [w \in Workers |-> Unborn]
    /\ log = [o \in Ops |-> NotLogged]
    /\ ledger = {}
    /\ crashes = 0
    /\ edits = 0
    /\ touched = {}
    /\ stale = {}

At(w, stage) == work[w].at = stage
Goes(w, stage) == work' = [work EXCEPT ![w].at = stage]
Over == [Unborn EXCEPT !.at = "done"]
Ends(w) == work' = [work EXCEPT ![w] = Over]
Running(w) == work[w].at \notin {"idle", "done"}
Fresh(w) == At(w, "idle") /\ Cardinality({x \in Workers : ~At(x, "idle")}) < MaxAsked

-----------------------------------------------------------------------------
(* An operation begins in the engine with its audit entry, in the file     *)
(* manager at once.                                                        *)
Execute(o, task) ==
    /\ Fresh(o)
    /\ work' = [work EXCEPT ![o] = [Unborn EXCEPT !.at = "audit",
                    !.home = "engine", !.op = o, !.task = task]]
    /\ UNCHANGED <<log, ledger, crashes, edits, touched, stale>>

FilesOp(o, task) ==
    /\ Fresh(o)
    /\ work' = [work EXCEPT ![o] = [Unborn EXCEPT !.at = "act",
                    !.home = "files", !.op = o, !.task = task]]
    /\ UNCHANGED <<log, ledger, crashes, edits, touched, stale>>

(* enact and compensate begin by asking for the state of the entry.        *)
Undo(c, o, home) ==
    /\ Fresh(c)
    /\ home \in {"service", "engine"}
    /\ work' = [work EXCEPT ![c] = [Unborn EXCEPT !.at = "state",
                    !.home = home, !.op = o]]
    /\ stale' = IF log[o].state = "over" THEN stale \union {c} ELSE stale
    /\ UNCHANGED <<log, ledger, crashes, edits, touched>>

(* An absent entry, a terminal one, a corrupt chain and an unreachable     *)
(* signer all end the call.                                                *)
LookupStateLetsTerminalPass(c) ==
    /\ At(c, "state")
    /\ \/ log[work[c].op].state # "absent" /\ Goes(c, "entry")
       \/ Ends(c)
    /\ UNCHANGED <<log, ledger, crashes, edits, touched, stale>>

LookupState(c) ==
    /\ At(c, "state")
    /\ \/ log[work[c].op].state = "live" /\ Goes(c, "entry")
       \/ Ends(c)
    /\ UNCHANGED <<log, ledger, crashes, edits, touched, stale>>

(* The service looks for the entry among the live ones (fetch_live), the   *)
(* engine asks for it by id (lookup_entry), which also returns an entry    *)
(* that has meanwhile become terminal.                                     *)
LookupEntry(c) ==
    LET entry == log[work[c].op]
    IN  /\ At(c, "entry")
        /\ \/ /\ IF work[c].home = "service" THEN entry.state = "live"
                                            ELSE entry.state # "absent"
              /\ work' = [work EXCEPT ![c].at = "audit", ![c].task = entry.inv]
           \/ Ends(c)
        /\ UNCHANGED <<log, ledger, crashes, edits, touched, stale>>

(* Audit before the act; a submission that is not acknowledged ends the    *)
(* worker.                                                                 *)
AuditBestEffort(w) ==
    /\ At(w, "audit")
    /\ ledger' \in {ledger, ledger \union {w}}
    /\ Goes(w, "act")
    /\ UNCHANGED <<log, crashes, edits, touched, stale>>

Audit(w) ==
    /\ At(w, "audit")
    /\ \/ ledger' = ledger \union {w} /\ Goes(w, "act")
       \/ UNCHANGED ledger /\ Ends(w)
    /\ UNCHANGED <<log, crashes, edits, touched, stale>>

(* Changes to files or settings made by a daemon are remembered.           *)
Touches(w) ==
    touched' = IF work[w].home = "files" THEN touched ELSE touched \union {w}

(* What follows the act.  An operation submits its inverse; in the file    *)
(* manager a task submits it while the operation is recorded for Ctrl+Z,   *)
(* so either may come first.  An undo in the engine marks the entry, in    *)
(* the service and in the file manager it is over.                         *)
AfterActing(w) ==
    CASE w \in Ops -> IF work[w].home = "files" THEN "both" ELSE "submit"
      [] w \in Calls /\ work[w].home = "engine" -> "mark"
      [] OTHER -> "done"

(* The worker has done what it came for.                                   *)
Acted(w, inv) ==
    work' = [work EXCEPT ![w] =
               IF AfterActing(w) = "done" THEN Over
               ELSE [Unborn EXCEPT !.at = AfterActing(w), !.home = work[w].home,
                                   !.op = work[w].op, !.inv = inv]]

(* Best effort: the entry is sealed or not, nobody looks at the answer.    *)
Submit(o) ==
    /\ At(o, "submit") \/ At(o, "both")
    /\ \/ log' = [log EXCEPT ![o] = [state |-> "live", inv |-> work[o].inv]]
       \/ UNCHANGED log
    /\ IF At(o, "both") THEN Goes(o, "record") ELSE Ends(o)
    /\ UNCHANGED <<ledger, crashes, edits, touched, stale>>

(* Superseded, best effort; a terminal entry refuses it and stays terminal.*)
Mark(c) ==
    /\ At(c, "mark")
    /\ \/ log' = [log EXCEPT ![work[c].op].state = "over"]
       \/ UNCHANGED log
    /\ Ends(c)
    /\ UNCHANGED <<ledger, crashes, edits, touched, stale>>

(* The user changes something.                                             *)
Edits ==
    /\ edits < MaxEdits
    /\ edits' = edits + 1
    /\ UNCHANGED <<work, log, ledger, crashes, touched, stale>>

(* A process dies: its workers stop where they are.                        *)
Dies(home) ==
    /\ crashes < MaxCrashes
    /\ \E w \in Workers : Running(w) /\ work[w].home = home
    /\ crashes' = crashes + 1
    /\ work' = [w \in Workers |->
                  IF Running(w) /\ work[w].home = home
                    THEN Over ELSE work[w]]
    /\ UNCHANGED <<log, ledger, edits, touched, stale>>

=============================================================================
