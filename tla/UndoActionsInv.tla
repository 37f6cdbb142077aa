--------------------------- MODULE UndoActionsInv ---------------------------
(***************************************************************************)
(* The inductive invariant of UndoActions, and what keeps the parts of it, *)
(* for any number of operations, calls, places, slots, documents and       *)
(* settings.                                                               *)
(*                                                                         *)
(* The inductive invariant has one part per concern.  WorkInv says what a  *)
(* worker at a given stage has been asked to do and that every receipt, in *)
(* a worker, in the log or on the stack, names places of the right kind.   *)
(* AuditInv and StaleInv are about the order of audit, act and mark,       *)
(* FileInv about documents, SlotInv about who holds a trash slot, SetInv   *)
(* about who holds the temporary settings file.                            *)
(***************************************************************************)
EXTENDS UndoActions, TLAPS

ActStages ==
    {"act", "written", "matched", "put", "drop", "next", "sidecar", "looked",
     "picked", "rollback", "rollback2", "open", "write", "rename", "unlink"}
TaskStages == ActStages \union {"audit"}
SetStages == {"open", "write", "rename", "unlink"}
SlotStages == {"put", "drop", "next", "picked", "rollback", "rollback2"}
Stages == TaskStages \union {"idle", "state", "entry", "submit", "both", "record", "mark", "done"}
Backward == {"path", "untrash", "delete", "value", "restore"}
Kinds == Backward \union {"move", "trash", "create", "set", "rename", "discard"}
Fields == {"at", "home", "op", "task", "inv", "slot", "tried", "saw"}

(* The slots that a program may ever have filled: a payload that was there *)
(* before is not touched until the trash is emptied.                       *)
Usable == {s \in Slots : sweeps = 0 => FirstFiles[s] = None}

(* A task or a receipt names places of the right kind, slots among S.      *)
Sound(t, S) ==
    /\ t.kind \in Kinds
    /\ t.kind \in {"move", "path", "rename"} => t.a \in Paths /\ t.b \in Paths
    /\ t.kind \in {"trash", "discard", "create", "delete"} => t.a \in Paths
    /\ t.kind \in {"untrash", "restore"} => t.a \in S /\ t.b \in Paths
    /\ t.kind \in {"set", "value"} => t.a \in Keys \ Lasting /\ t.b \in Values

(* The stage tells what the worker was asked to do.                        *)
Suits(r) ==
    /\ r.at = "written" => r.task.kind = "create"
    /\ r.at = "matched" => r.task.kind = "delete"
    /\ r.at = "put" => r.task.kind \in {"trash", "discard"}
    /\ r.at \in {"drop", "next"} => r.task.kind = "trash"
    /\ r.at = "sidecar" => r.task.kind \in {"untrash", "restore"}
    /\ r.at = "looked" => r.task.kind \in {"rename", "restore"}
    /\ r.at \in {"picked", "rollback", "rollback2"} => r.task.kind = "discard"
    /\ r.at \in SetStages => r.task.kind \in {"set", "value"}

(* A worker with a task: inverses are enacted by calls only, and the file  *)
(* manager does no engine's work.                                          *)
Tasked(w, r, S) ==
    /\ Sound(r.task, S)
    /\ r.task.kind \in Backward => w \in Calls
    /\ r.home = "files" => r.task.kind \in {"rename", "discard", "restore"}
    /\ Suits(r)
    /\ r.task.kind = "set" /\ (r.inv # None \/ r.at \in SetStages) =>
         Sound(r.inv, S) /\ r.inv.kind = "value"
    /\ r.at \in SlotStages => r.slot \in Slots
    /\ r.at \in SlotStages /\ r.task.kind = "discard" => r.slot \in S

Sane(w, r, S) ==
    /\ DOMAIN r = Fields
    /\ r.at \in Stages
    /\ r.home \in Homes \union {None}
    /\ r.at \in TaskStages => Tasked(w, r, S)
    /\ r.at \in {"submit", "both", "record"} =>
         w \in Ops /\ Sound(r.inv, S) /\ r.inv.kind \in Backward \ {"restore"}
    /\ r.at \in {"both", "record"} => r.inv.kind \in {"path", "untrash"}
    /\ r.at \in {"state", "entry", "mark"} => w \in Calls /\ r.home # "files"
    /\ w \in Calls /\ r.home # "files" /\ r.at \notin {"idle", "done"} => r.op \in Ops
    /\ r.at = "matched" => r.saw = r.task.b
    /\ r.at # "matched" => r.saw = None

WorkInv ==
    /\ DOMAIN work = Workers
    /\ \A w \in Workers : Sane(w, work[w], Usable)

LogInv ==
    /\ DOMAIN log = Ops
    /\ \A o \in Ops :
         /\ DOMAIN log[o] = {"state", "inv"}
         /\ log[o].state \in {"absent", "live", "over"}
         /\ log[o].state # "absent" =>
              Sound(log[o].inv, Usable) /\ log[o].inv.kind \in Backward \ {"restore"}

StackInv ==
    /\ stack \in Seq([kind : {"rename", "restore"}, a : Places, b : Paths])
    /\ \A i \in 1..Len(stack) : Sound(stack[i], Usable)

(* Past its audit, a worker of a daemon is in the ledger.                  *)
AuditInv ==
    /\ touched \subseteq ledger
    /\ \A w \in Workers :
         work[w].at \in ActStages /\ work[w].home # "files" => w \in ledger

(* An operation is logged once, at its end; a call that has looked has     *)
(* found something; a call that came after "over" gets nowhere.            *)
StaleInv ==
    /\ \A o \in Ops : log[o].state # "absent" => work[o].at \in {"record", "done"}
    /\ \A c \in Calls :
         work[c].at \notin {"idle", "state", "done"} /\ work[c].home # "files"
           => log[work[c].op].state # "absent"
    /\ \A w \in Workers : work[w].at = "idle" => w \notin touched \union ledger
    /\ \A c \in stale :
         /\ c \in Calls
         /\ c \notin touched \union ledger
         /\ work[c].at = "done" \/ (work[c].at = "state" /\ log[work[c].op].state = "over")

FileInv ==
    /\ FilesTypeOK
    /\ OnlyOvertakenFilesAreLost

(* Who has a claim on slot s: whoever reserved it and has not filled it,   *)
(* and whoever emptied it and has not removed the sidecar.                 *)
Holds(r, s) ==
    \/ r.at \in {"put", "drop", "next", "rollback"} /\ r.slot = s
    \/ r.at = "sidecar" /\ r.task.a = s

SlotInv ==
    /\ sweeps \in Nat
    /\ sweeps = 0 =>
         /\ sweep = None
         /\ \A s \in Slots \ Usable : fs[s] = FirstFiles[s]
         /\ \A s \in Usable : ~Free(s) => s \in info
         /\ \A s \in Slots, w \in Workers : Holds(work[w], s) =>
              /\ s \in info
              /\ s \in Usable => Free(s)
              /\ \A x \in Workers : Holds(work[x], s) => x = w

Inodes == Workers \union {Disk}

(* A text that was not cut off and not mixed with another.                 *)
Whole(text) == \A k \in Lasting : text[k] \notin {Absent, Garbled}

(* Nobody has named an inode for a writer that has not opened its file.    *)
BeforeOpen == (TaskStages \union {"idle", "state", "entry"}) \ {"write", "rename", "unlink"}

PenTypes ==
    /\ inode \in [Inodes -> Texts]
    /\ target \in Inodes
    /\ tmp \in Inodes \union {None}
    /\ tmp # target
    /\ kept \subseteq Keys
    /\ met \in BOOLEAN
    /\ pen \in [Workers -> [text : Texts \union {None}, file : Inodes \union {None}]]
    /\ \A w \in Workers :
         /\ work[w].at \notin SetStages => pen[w] = NoPen
         /\ work[w].at \in SetStages => pen[w].text \in Texts
         /\ work[w].at = "open" => pen[w].file = None
         /\ work[w].at \in {"write", "rename"} => pen[w].file # None
         /\ work[w].at \in BeforeOpen => target # w /\ tmp # w

(* As long as writers do not meet, the temporary file belongs to the one   *)
(* writer that has it open, and no text misses what the user has set.      *)
Alone ==
    /\ \A w \in Workers : pen[w].file # None =>
         /\ pen[w].file = tmp
         /\ \A x \in Workers : pen[x].file # None => x = w
    /\ \A w \in Workers :
         /\ work[w].at = "write" => inode[pen[w].file] = Empty
         /\ work[w].at = "rename" => inode[pen[w].file] = pen[w].text

TextsInv ==
    /\ Whole(inode[target])
    /\ \A k \in kept : inode[target][k] = Mine
    /\ \A w \in Workers : work[w].at \in SetStages =>
         /\ Whole(pen[w].text)
         /\ \A k \in kept \ {work[w].task.a} : pen[w].text[k] = Mine

SetInv == PenTypes /\ (~met => Alone /\ TextsInv)

IInv ==
    /\ WorkInv
    /\ LogInv
    /\ StackInv
    /\ AuditInv
    /\ StaleInv
    /\ FileInv
    /\ SlotInv
    /\ SetInv

-----------------------------------------------------------------------------
(* How a step moves its worker and leaves the others alone.                *)

OnlyMoves(w) ==
    /\ DOMAIN work' = Workers
    /\ \A x \in Workers : x # w => work'[x] = work[x]

KeepsErrand(w) ==
    /\ DOMAIN work'[w] = Fields
    /\ work'[w].home = work[w].home
    /\ work'[w].op = work[w].op

(* A worker that is past its audit goes on, or is over.                    *)
Proceeds(w) ==
    /\ OnlyMoves(w)
    /\ \/ work'[w] = Over
       \/ /\ KeepsErrand(w)
          /\ work'[w].at \in ActStages \union {"submit", "both", "mark"}

(* Goes changes the stage alone.                                           *)
LEMMA Going ==
    ASSUME WorkInv, NEW w \in Workers, NEW stage, Goes(w, stage)
    PROVE  /\ OnlyMoves(w)
           /\ KeepsErrand(w)
           /\ work'[w].at = stage
           /\ work'[w].task = work[w].task
           /\ work'[w].inv = work[w].inv
           /\ work'[w].slot = work[w].slot
           /\ work'[w].saw = work[w].saw
<1>1. DOMAIN work = Workers /\ DOMAIN work[w] = Fields
  BY Zenon DEF WorkInv, Sane
<1> QED BY <1>1 DEF Goes, OnlyMoves, KeepsErrand, Fields

(* A worker that is over has nothing left.                                 *)
LEMMA OverIs ==
    /\ DOMAIN Over = Fields
    /\ Over.at = "done"
    /\ Over.home = None
    /\ Over.saw = None
BY DEF Over, Unborn, Fields

LEMMA Ending ==
    ASSUME WorkInv, NEW w \in Workers, Ends(w)
    PROVE  OnlyMoves(w) /\ work'[w] = Over
BY DEF WorkInv, Ends, OnlyMoves

(* Acted hands on the errand and the receipt, or ends the worker.          *)
LEMMA ActedMoves ==
    ASSUME WorkInv, NEW w \in Workers, NEW inv, Acted(w, inv)
    PROVE  /\ OnlyMoves(w)
           /\ \/ work'[w] = Over
              \/ /\ KeepsErrand(w)
                 /\ work'[w].inv = inv
                 /\ work'[w].saw = None
                 /\ \/ w \in Ops /\ work[w].home = "files" /\ work'[w].at = "both"
                    \/ w \in Ops /\ work[w].home # "files" /\ work'[w].at = "submit"
                    \/ w \in Calls /\ work[w].home = "engine" /\ work'[w].at = "mark"
<1>1. DOMAIN work = Workers
  BY Zenon DEF WorkInv
<1>2. OnlyMoves(w)
  BY <1>1 DEF Acted, OnlyMoves
<1>3. CASE AfterActing(w) = "done"
  BY <1>1, <1>2, <1>3 DEF Acted
<1>4. CASE AfterActing(w) # "done"
  <2>1. work'[w] = [Unborn EXCEPT !.at = AfterActing(w), !.home = work[w].home,
                                  !.op = work[w].op, !.inv = inv]
    BY <1>1, <1>4 DEF Acted
  <2>2. /\ KeepsErrand(w)
        /\ work'[w].inv = inv
        /\ work'[w].saw = None
        /\ work'[w].at = AfterActing(w)
    BY <2>1 DEF KeepsErrand, Unborn, Fields
  <2>3. \/ w \in Ops /\ work[w].home = "files" /\ AfterActing(w) = "both"
        \/ w \in Ops /\ work[w].home # "files" /\ AfterActing(w) = "submit"
        \/ w \in Calls /\ work[w].home = "engine" /\ AfterActing(w) = "mark"
    BY <1>4 DEF AfterActing, Workers
  <2> QED BY <1>2, <2>2, <2>3
<1> QED BY <1>3, <1>4

(* What is sound stays so when more slots have been in use.                *)
LEMMA SoundWider ==
    ASSUME NEW t, NEW S, NEW T, S \subseteq T, Sound(t, S)
    PROVE  Sound(t, T)
BY Zenon DEF Sound

LEMMA SaneWider ==
    ASSUME NEW w, NEW r, NEW S, NEW T, S \subseteq T, Sane(w, r, S)
    PROVE  Sane(w, r, T)
<1>1. \A t : Sound(t, S) => Sound(t, T)
  BY SoundWider
<1>2. Tasked(w, r, S) => Tasked(w, r, T)
  BY <1>1, Zenon DEF Tasked
<1> QED BY <1>1, <1>2, Zenon DEF Sane

LEMMA SaneOver ==
    ASSUME NEW w, NEW S
    PROVE  Sane(w, Over, S)
BY OverIs, Zenon DEF Sane, TaskStages, ActStages, Stages

(* The slots in use only grow, when the trash is first emptied.            *)
LEMMA UsableGrows ==
    ASSUME sweeps \in Nat, sweeps' \in {sweeps, sweeps + 1}
    PROVE  /\ Usable \subseteq Usable'
           /\ sweeps' = sweeps => Usable' = Usable
           /\ Usable' \subseteq Slots
BY DEF Usable

LEMMA OneSane ==
    ASSUME WorkInv, NEW w \in Workers, OnlyMoves(w), Usable' = Usable,
           Sane(w, work'[w], Usable)
    PROVE  WorkInv'
BY Zenon DEF WorkInv, OnlyMoves, Workers

LEMMA EndSane ==
    ASSUME WorkInv, NEW w \in Workers, Ends(w), Usable' = Usable
    PROVE  WorkInv' /\ Proceeds(w)
<1>1. OnlyMoves(w) /\ work'[w] = Over
  BY Ending
<1>2. Sane(w, work'[w], Usable)
  BY <1>1, SaneOver
<1> QED BY <1>1, <1>2, OneSane, Zenon DEF Proceeds

(* A worker that goes on with its task stays sane if the new stage suits.  *)
LEMMA GoSane ==
    ASSUME WorkInv, NEW w \in Workers, NEW stage \in ActStages \ {"matched"},
           Goes(w, stage), Usable' = Usable,
           work[w].at \in TaskStages, work[w].saw = None,
           Suits(work'[w]),
           stage \in SlotStages => work[w].at \in SlotStages,
           stage \in SetStages /\ work[w].task.kind = "set" =>
             work[w].inv # None \/ work[w].at \in SetStages
    PROVE  WorkInv' /\ Proceeds(w)
<1>1. /\ OnlyMoves(w)
      /\ KeepsErrand(w)
      /\ work'[w].at = stage
      /\ work'[w].task = work[w].task
      /\ work'[w].inv = work[w].inv
      /\ work'[w].slot = work[w].slot
      /\ work'[w].saw = work[w].saw
  BY Going
<1>2. Sane(w, work[w], Usable) /\ Tasked(w, work[w], Usable)
  BY Zenon DEF WorkInv, Sane
<1>3. Tasked(w, work'[w], Usable)
  BY <1>1, <1>2, Zenon DEF Tasked, KeepsErrand
<1>4. stage \in Stages \ {"idle", "state", "entry", "submit", "both", "record", "mark", "done"}
  BY DEF ActStages, Stages, TaskStages
<1>5. work[w].at \notin {"idle", "done"}
  BY DEF ActStages, TaskStages
<1>6. Sane(w, work'[w], Usable)
  BY <1>1, <1>2, <1>3, <1>4, <1>5, Zenon DEF Sane, KeepsErrand
<1>7. WorkInv'
  BY <1>1, <1>6, OneSane
<1> QED BY <1>1, <1>7, Zenon DEF Proceeds

(* A worker that has acted stays sane if an operation has a sound receipt. *)
LEMMA ActSane ==
    ASSUME WorkInv, NEW w \in Workers, NEW inv, Acted(w, inv), Usable' = Usable,
           work[w].at \in TaskStages,
           w \in Ops => /\ Sound(inv, Usable)
                        /\ inv.kind \in Backward \ {"restore"}
                        /\ work[w].home = "files" => inv.kind \in {"path", "untrash"}
    PROVE  WorkInv' /\ Proceeds(w)
<1>1. /\ OnlyMoves(w)
      /\ \/ work'[w] = Over
         \/ /\ KeepsErrand(w)
            /\ work'[w].inv = inv
            /\ work'[w].saw = None
            /\ \/ w \in Ops /\ work[w].home = "files" /\ work'[w].at = "both"
               \/ w \in Ops /\ work[w].home # "files" /\ work'[w].at = "submit"
               \/ w \in Calls /\ work[w].home = "engine" /\ work'[w].at = "mark"
  BY ActedMoves
<1>2. Sane(w, work[w], Usable)
  BY Zenon DEF WorkInv
<1>3. work[w].at \notin {"idle", "done"}
  BY DEF ActStages, TaskStages
<1>4. {"submit", "both", "mark"} \subseteq Stages \ TaskStages
  BY DEF ActStages, TaskStages, Stages
<1>5. Ops \intersect Calls = {}
  BY Zenon, CallsAssumption
<1>6. Sane(w, work'[w], Usable)
  <2>1. CASE work'[w] = Over
    BY <2>1, SaneOver
  <2>2. CASE /\ KeepsErrand(w)
             /\ work'[w].inv = inv
             /\ work'[w].saw = None
             /\ w \in Ops /\ work[w].home = "files" /\ work'[w].at = "both"
    BY <1>2, <1>4, <1>5, <2>2, Zenon DEF Sane, KeepsErrand
  <2>3. CASE /\ KeepsErrand(w)
             /\ work'[w].inv = inv
             /\ work'[w].saw = None
             /\ w \in Ops /\ work[w].home # "files" /\ work'[w].at = "submit"
    BY <1>2, <1>4, <1>5, <2>3, Zenon DEF Sane, KeepsErrand
  <2>4. CASE /\ KeepsErrand(w)
             /\ work'[w].inv = inv
             /\ work'[w].saw = None
             /\ w \in Calls /\ work[w].home = "engine" /\ work'[w].at = "mark"
    BY <1>2, <1>3, <1>4, <1>5, <2>4, Zenon DEF Sane, KeepsErrand
  <2> QED BY <1>1, <2>1, <2>2, <2>3, <2>4, Zenon
<1>7. WorkInv'
  BY <1>1, <1>6, OneSane
<1> QED BY <1>1, <1>7, Zenon DEF Proceeds

(* The receipts that file operations write are sound.                      *)
LEMMA PathSound ==
    ASSUME NEW a \in Paths, NEW b \in Paths, NEW content, NEW S
    PROVE  /\ Sound(InverseReceipt("path", a, b, content), S)
           /\ InverseReceipt("path", a, b, content).kind = "path"
BY DEF InverseReceipt, Sound, Kinds, Backward

LEMMA DeleteSound ==
    ASSUME NEW a \in Paths, NEW b, NEW content, NEW S
    PROVE  /\ Sound(InverseReceipt("delete", a, b, content), S)
           /\ InverseReceipt("delete", a, b, content).kind = "delete"
BY DEF InverseReceipt, Sound, Kinds, Backward

LEMMA UntrashSound ==
    ASSUME NEW S, NEW a \in S, NEW b \in Paths, NEW content
    PROVE  /\ Sound(InverseReceipt("untrash", a, b, content), S)
           /\ InverseReceipt("untrash", a, b, content).kind = "untrash"
BY DEF InverseReceipt, Sound, Kinds, Backward

(* What a worker at a stage of its task is known to be.                    *)
LEMMA TaskedAt ==
    ASSUME WorkInv, NEW w \in Workers, work[w].at \in TaskStages
    PROVE  /\ Tasked(w, work[w], Usable)
           /\ work[w].at # "matched" => work[w].saw = None
           /\ work[w].task.kind \in Backward => w \notin Ops
           /\ work[w].home \in Homes \union {None}
<1>1. Sane(w, work[w], Usable)
  BY Zenon DEF WorkInv
<1> QED BY <1>1, CallsAssumption, Zenon DEF Sane, Tasked

LEMMA StageKinds ==
    /\ ActStages \subseteq TaskStages
    /\ SetStages \subseteq ActStages
    /\ SlotStages \subseteq ActStages
BY DEF ActStages, TaskStages, SetStages, SlotStages

-----------------------------------------------------------------------------
(* The file steps.                                                         *)

(* A file step leaves the log, the ledger and the emptying alone.          *)
LEMMA FileFrame ==
    ASSUME NEW w \in Workers, FileStep(w)
    PROVE  /\ UNCHANGED <<log, ledger, stale, sweep, sweeps, spent>>
           /\ touched' = touched \/ (touched' = touched \union {w} /\ work[w].home # "files")
<1> USE DEF quietCalls, quietTrash, fileVars, Touches
<1>1. CASE Relocate(w)  BY <1>1, Zenon DEF Relocate
<1>2. CASE CreateNew(w)  BY <1>2, Zenon DEF CreateNew
<1>3. CASE CaptureCreated(w)  BY <1>3, Zenon DEF CaptureCreated
<1>4. CASE CreateFails(w)  BY <1>4, Zenon DEF CreateFails
<1>5. CASE MatchFingerprint(w)  BY <1>5, Zenon DEF MatchFingerprint
<1>6. CASE RemoveCreated(w)  BY <1>6, Zenon DEF RemoveCreated
<1>7. CASE TrashReserve(w)  BY <1>7, Zenon DEF TrashReserve
<1>8. CASE TrashPut(w)  BY <1>8, Zenon DEF TrashPut
<1>9. CASE TrashDrop(w)  BY <1>9, Zenon DEF TrashDrop
<1>10. CASE Untrash(w)  BY <1>10, Zenon DEF Untrash
<1>11. CASE RemoveSidecar(w)  BY <1>11, Zenon DEF RemoveSidecar
<1>12. CASE Record(w)  BY <1>12, Zenon DEF Record
<1>13. CASE RenameLook(w)  BY <1>13, Zenon DEF RenameLook
<1>14. CASE RenameEntry(w)  BY <1>14, Zenon DEF RenameEntry
<1>15. CASE PickTrashName(w)  BY <1>15, Zenon DEF PickTrashName
<1>16. CASE ReserveTrashName(w)  BY <1>16, Zenon DEF ReserveTrashName
<1>17. CASE DiscardPut(w)  BY <1>17, Zenon DEF DiscardPut
<1>18. CASE DiscardRollback(w)  BY <1>18, Zenon DEF DiscardRollback
<1>19. CASE RestoreLook(w)  BY <1>19, Zenon DEF RestoreLook
<1>20. CASE RestoreEntry(w)  BY <1>20, Zenon DEF RestoreEntry
<1> QED
  BY <1>1, <1>2, <1>3, <1>4, <1>5, <1>6, <1>7, <1>8, <1>9, <1>10, <1>11, <1>12, <1>13,
     <1>14, <1>15, <1>16, <1>17, <1>18, <1>19, <1>20, Zenon DEF FileStep

(* Where a worker stands when it takes a file step.                        *)
LEMMA FileStepAt ==
    ASSUME NEW w \in Workers, FileStep(w)
    PROVE  work[w].at \in ActStages \/ Record(w)
<1> USE DEF At, Doing, ActStages
<1>1. CASE Relocate(w)  BY <1>1, Zenon DEF Relocate
<1>2. CASE CreateNew(w)  BY <1>2, Zenon DEF CreateNew
<1>3. CASE CaptureCreated(w)  BY <1>3, Zenon DEF CaptureCreated
<1>4. CASE CreateFails(w)  BY <1>4, Zenon DEF CreateFails
<1>5. CASE MatchFingerprint(w)  BY <1>5, Zenon DEF MatchFingerprint
<1>6. CASE RemoveCreated(w)  BY <1>6, Zenon DEF RemoveCreated
<1>7. CASE TrashReserve(w)  BY <1>7, Zenon DEF TrashReserve
<1>8. CASE TrashPut(w)  BY <1>8, Zenon DEF TrashPut
<1>9. CASE TrashDrop(w)  BY <1>9, Zenon DEF TrashDrop
<1>10. CASE Untrash(w)  BY <1>10, Zenon DEF Untrash
<1>11. CASE RemoveSidecar(w)  BY <1>11, Zenon DEF RemoveSidecar
<1>13. CASE RenameLook(w)  BY <1>13, Zenon DEF RenameLook
<1>14. CASE RenameEntry(w)  BY <1>14, Zenon DEF RenameEntry
<1>15. CASE PickTrashName(w)  BY <1>15, Zenon DEF PickTrashName
<1>16. CASE ReserveTrashName(w)  BY <1>16, Zenon DEF ReserveTrashName
<1>17. CASE DiscardPut(w)  BY <1>17, Zenon DEF DiscardPut
<1>18. CASE DiscardRollback(w)  BY <1>18, Zenon DEF DiscardRollback
<1>19. CASE RestoreLook(w)  BY <1>19, Zenon DEF RestoreLook
<1>20. CASE RestoreEntry(w)  BY <1>20, Zenon DEF RestoreEntry
<1> QED
  BY <1>1, <1>2, <1>3, <1>4, <1>5, <1>6, <1>7, <1>8, <1>9, <1>10, <1>11, <1>13,
     <1>14, <1>15, <1>16, <1>17, <1>18, <1>19, <1>20, Zenon DEF FileStep

(* A free slot is one that programs use.                                   *)
LEMMA FreeIsUsable ==
    ASSUME SlotInv, NEW s \in Slots, Free(s)
    PROVE  s \in Usable
BY Zenon DEF SlotInv, Usable, Free

LEMMA MoveSane ==
    ASSUME WorkInv, NEW w \in Workers, Usable' = Usable, work[w].at \in ActStages,
           Relocate(w) \/ CaptureCreated(w) \/ CreateFails(w) \/ RemoveCreated(w)
                       \/ RenameEntry(w) \/ RemoveSidecar(w)
    PROVE  WorkInv' /\ Proceeds(w)
<1>1. /\ Tasked(w, work[w], Usable)
      /\ work[w].task.kind \in Backward => w \notin Ops
      /\ work[w].at \in TaskStages
  BY TaskedAt, StageKinds, Zenon
<1>2. CASE Ends(w)
  BY <1>2, EndSane, Zenon
<1>3. CASE Relocate(w) /\ ~Ends(w)
  <2>1. Acted(w, InverseReceipt("path", To(w), From(w), fs[From(w)]))
    BY <1>3, Zenon DEF Relocate
  <2>2. work[w].task.kind \in {"move", "path"} /\ From(w) \in Paths /\ To(w) \in Paths
    BY <1>1, <1>3, Zenon DEF Relocate, Doing, Tasked, Sound, From, To
  <2>3. /\ Sound(InverseReceipt("path", To(w), From(w), fs[From(w)]), Usable)
        /\ InverseReceipt("path", To(w), From(w), fs[From(w)]).kind = "path"
    BY <2>2, PathSound, Zenon
  <2> QED BY <1>1, <2>1, <2>3, ActSane, Zenon DEF Backward
<1>4. CASE CaptureCreated(w) /\ ~Ends(w)
  <2>1. Acted(w, InverseReceipt("delete", From(w), fs[From(w)], Made))
    BY <1>4, Zenon DEF CaptureCreated
  <2>2. work[w].task.kind = "create" /\ From(w) \in Paths /\ work[w].home # "files"
    BY <1>1, <1>4, Zenon DEF CaptureCreated, At, Tasked, Suits, Sound, From
  <2>3. /\ Sound(InverseReceipt("delete", From(w), fs[From(w)], Made), Usable)
        /\ InverseReceipt("delete", From(w), fs[From(w)], Made).kind = "delete"
    BY <2>2, DeleteSound, Zenon
  <2> QED BY <1>1, <2>1, <2>2, <2>3, ActSane, Zenon DEF Backward
<1>5. CASE CreateFails(w)
  BY <1>2, <1>5, Zenon DEF CreateFails
<1>6. CASE RemoveCreated(w) /\ ~Ends(w)
  <2>1. Acted(w, None) /\ w \notin Ops
    BY <1>1, <1>6, Zenon DEF RemoveCreated, At, Tasked, Suits, Backward
  <2> QED BY <1>1, <2>1, ActSane, Zenon
<1>7. CASE RenameEntry(w) /\ ~Ends(w)
  <2>1. Acted(w, InverseReceipt("path", To(w), From(w), fs[From(w)]))
    BY <1>7, Zenon DEF RenameEntry
  <2>2. From(w) \in Paths /\ To(w) \in Paths
    BY <1>1, <1>7, Zenon DEF RenameEntry, Doing, Tasked, Sound, From, To
  <2>3. /\ Sound(InverseReceipt("path", To(w), From(w), fs[From(w)]), Usable)
        /\ InverseReceipt("path", To(w), From(w), fs[From(w)]).kind = "path"
    BY <2>2, PathSound, Zenon
  <2> QED BY <1>1, <2>1, <2>3, ActSane, Zenon DEF Backward
<1>8. CASE RemoveSidecar(w)
  <2>1. Acted(w, None) /\ w \notin Ops
    BY <1>1, <1>8, Zenon DEF RemoveSidecar, At, Tasked, Suits, Backward
  <2> QED BY <1>1, <2>1, ActSane, Zenon
<1> QED BY <1>2, <1>3, <1>4, <1>5, <1>6, <1>7, <1>8, Zenon

LEMMA LookSane ==
    ASSUME WorkInv, NEW w \in Workers, Usable' = Usable, work[w].at \in ActStages,
           CreateNew(w) \/ Untrash(w) \/ RestoreLook(w) \/ RestoreEntry(w)
    PROVE  WorkInv' /\ Proceeds(w)
<1>1. /\ Tasked(w, work[w], Usable)
      /\ work[w].at # "matched" => work[w].saw = None
      /\ work[w].at \in TaskStages
  BY TaskedAt, StageKinds, Zenon
<1>2. CASE Ends(w)
  BY <1>2, EndSane, Zenon
<1>3. CASE ~Ends(w)
  <2>1. \/ CreateNew(w) /\ Goes(w, "written") /\ work[w].task.kind = "create"
        \/ Untrash(w) /\ Goes(w, "sidecar") /\ work[w].task.kind = "untrash"
        \/ RestoreLook(w) /\ Goes(w, "looked") /\ work[w].task.kind = "restore"
        \/ RestoreEntry(w) /\ Goes(w, "sidecar") /\ work[w].task.kind = "restore"
    BY <1>3, Zenon DEF CreateNew, Untrash, RestoreLook, RestoreEntry, Doing
  <2>2. work[w].at \in {"act", "looked"}
    BY Zenon DEF CreateNew, Untrash, RestoreLook, RestoreEntry, Doing, At
  <2>3. PICK stage \in {"written", "sidecar", "looked"} :
          /\ Goes(w, stage)
          /\ stage = "written" => work[w].task.kind = "create"
          /\ stage = "sidecar" => work[w].task.kind \in {"untrash", "restore"}
          /\ stage = "looked" => work[w].task.kind = "restore"
    BY <2>1, Zenon
  <2>4. work'[w].at = stage /\ work'[w].task = work[w].task
    BY <2>3, Going, Zenon
  <2>5. Suits(work'[w])
    BY <2>3, <2>4, Zenon DEF Suits, SetStages
  <2>6. stage \in ActStages \ {"matched"} /\ stage \notin SlotStages /\ stage \notin SetStages
    BY <2>3, Zenon DEF ActStages, SlotStages, SetStages
  <2> QED BY <1>1, <2>2, <2>3, <2>5, <2>6, GoSane, Zenon
<1> QED BY <1>2, <1>3, Zenon

(* Taking a slot: the stage, the slot and the names tried change.          *)
LEMMA TakesSlot ==
    ASSUME WorkInv, NEW w \in Workers, NEW stage, NEW s,
           work' = [work EXCEPT ![w].at = stage, ![w].slot = s,
                                ![w].tried = @ \union {s}]
    PROVE  /\ OnlyMoves(w)
           /\ KeepsErrand(w)
           /\ work'[w].at = stage
           /\ work'[w].slot = s
           /\ work'[w].task = work[w].task
           /\ work'[w].inv = work[w].inv
           /\ work'[w].saw = work[w].saw
<1>1. DOMAIN work = Workers /\ DOMAIN work[w] = Fields
  BY Zenon DEF WorkInv, Sane
<1> QED BY <1>1 DEF OnlyMoves, KeepsErrand, Fields

(* A worker that changed its notes is sane if they fit its new stage.      *)
LEMMA NotesSane ==
    ASSUME WorkInv, NEW w \in Workers, Usable' = Usable,
           work[w].at \in ActStages, work'[w].at \in ActStages \ SetStages,
           OnlyMoves(w), KeepsErrand(w),
           work'[w].task = work[w].task, work'[w].inv = work[w].inv,
           work'[w].saw = (IF work'[w].at = "matched" THEN work[w].task.b ELSE None),
           Suits(work'[w]),
           work'[w].at \in SlotStages => work'[w].slot \in Slots,
           work'[w].at \in SlotStages /\ work[w].task.kind = "discard"
             => work'[w].slot \in Usable
    PROVE  WorkInv' /\ Proceeds(w)
<1>2. Sane(w, work[w], Usable) /\ Tasked(w, work[w], Usable)
  BY StageKinds, Zenon DEF WorkInv, Sane
<1>3. Tasked(w, work'[w], Usable)
  BY <1>2, Zenon DEF Tasked, KeepsErrand
<1>4. work'[w].at \in Stages \ {"idle", "state", "entry", "submit", "both", "record", "mark", "done"}
  BY DEF ActStages, Stages, TaskStages
<1>5. work[w].at \notin {"idle", "done"}
  BY DEF ActStages
<1>6. Sane(w, work'[w], Usable)
  BY <1>2, <1>3, <1>4, <1>5, Zenon DEF Sane, KeepsErrand
<1>7. WorkInv'
  BY <1>6, OneSane
<1> QED BY <1>7, Zenon DEF Proceeds

LEMMA NoteSane ==
    ASSUME WorkInv, SlotInv, NEW w \in Workers, Usable' = Usable, work[w].at \in ActStages,
           \/ MatchFingerprint(w) \/ RenameLook(w) \/ TrashReserve(w) \/ PickTrashName(w)
    PROVE  WorkInv' /\ Proceeds(w)
<1>0. DOMAIN work = Workers /\ DOMAIN work[w] = Fields
  BY Zenon DEF WorkInv, Sane
<1>1. /\ Tasked(w, work[w], Usable)
      /\ work[w].at \in TaskStages
      /\ work[w].at # "matched" => work[w].saw = None
  BY TaskedAt, StageKinds, Zenon
<1>2. CASE Ends(w)
  BY <1>2, EndSane, Zenon
<1>3. CASE MatchFingerprint(w) /\ ~Ends(w)
  <2>1. /\ work' = [work EXCEPT ![w].at = "matched", ![w].saw = fs[From(w)]]
        /\ fs[From(w)] = work[w].task.b
        /\ work[w].task.kind = "delete"
    BY <1>3, Zenon DEF MatchFingerprint, Doing, To
  <2>2. /\ OnlyMoves(w)
        /\ KeepsErrand(w)
        /\ work'[w].at = "matched"
        /\ work'[w].saw = fs[From(w)]
        /\ work'[w].task = work[w].task
        /\ work'[w].inv = work[w].inv
    BY <1>0, <2>1 DEF OnlyMoves, KeepsErrand, Fields
  <2>3. Suits(work'[w]) /\ "matched" \in ActStages \ SetStages /\ "matched" \notin SlotStages
    BY <2>1, <2>2, Zenon DEF Suits, SetStages, ActStages, SlotStages
  <2> QED BY <2>1, <2>2, <2>3, NotesSane, Zenon
<1>4. CASE RenameLook(w) /\ ~Ends(w)
  <2>1. /\ work' = [work EXCEPT ![w].at = "looked", ![w].saw = None]
        /\ work[w].task.kind = "rename"
    BY <1>4, Zenon DEF RenameLook, Doing
  <2>2. /\ OnlyMoves(w)
        /\ KeepsErrand(w)
        /\ work'[w].at = "looked"
        /\ work'[w].saw = None
        /\ work'[w].task = work[w].task
        /\ work'[w].inv = work[w].inv
    BY <1>0, <2>1 DEF OnlyMoves, KeepsErrand, Fields
  <2>3. Suits(work'[w]) /\ "looked" \in ActStages \ SetStages /\ "looked" \notin SlotStages
    BY <2>1, <2>2, Zenon DEF Suits, SetStages, ActStages, SlotStages
  <2> QED BY <2>1, <2>2, <2>3, NotesSane, Zenon
<1>5. CASE TrashReserve(w) /\ ~Ends(w)
  <2>1. PICK s \in Slots, stage \in {"put", "drop"} :
          work' = [work EXCEPT ![w].at = stage, ![w].slot = s, ![w].tried = @ \union {s}]
    BY <1>5, Zenon DEF TrashReserve
  <2>2. work[w].task.kind = "trash" /\ work[w].at = "act"
    BY <1>5, Zenon DEF TrashReserve, Doing, At
  <2>3. /\ OnlyMoves(w)
        /\ KeepsErrand(w)
        /\ work'[w].at = stage
        /\ work'[w].slot = s
        /\ work'[w].task = work[w].task
        /\ work'[w].inv = work[w].inv
        /\ work'[w].saw = work[w].saw
    BY <2>1, TakesSlot, Zenon
  <2>4. Suits(work'[w]) /\ stage \in ActStages \ SetStages /\ stage # "matched"
    BY <2>1, <2>2, <2>3, Zenon DEF Suits, SetStages, ActStages
  <2> QED BY <1>1, <2>2, <2>3, <2>4, NotesSane, Zenon
<1>6. CASE PickTrashName(w) /\ ~Ends(w)
  <2>1. PICK s \in Slots :
          /\ Free(s)
          /\ work' = [work EXCEPT ![w].at = "picked", ![w].slot = s,
                                  ![w].tried = @ \union {s}]
    BY <1>6, Zenon DEF PickTrashName
  <2>2. work[w].task.kind = "discard" /\ work[w].at = "act"
    BY <1>6, Zenon DEF PickTrashName, Doing, At
  <2>3. /\ OnlyMoves(w)
        /\ KeepsErrand(w)
        /\ work'[w].at = "picked"
        /\ work'[w].slot = s
        /\ work'[w].task = work[w].task
        /\ work'[w].inv = work[w].inv
        /\ work'[w].saw = work[w].saw
    BY <2>1, TakesSlot, Zenon
  <2>4. Suits(work'[w]) /\ "picked" \in ActStages \ SetStages
    BY <2>2, <2>3, Zenon DEF Suits, SetStages, ActStages
  <2>5. s \in Usable
    BY <2>1, FreeIsUsable
  <2> QED BY <1>1, <2>2, <2>3, <2>4, <2>5, NotesSane, Zenon
<1> QED BY <1>2, <1>3, <1>4, <1>5, <1>6, Zenon

LEMMA TrashSane ==
    ASSUME WorkInv, SlotInv, NEW w \in Workers, Usable' = Usable, work[w].at \in ActStages,
           \/ TrashPut(w) \/ TrashDrop(w) \/ ReserveTrashName(w) \/ DiscardPut(w)
           \/ DiscardRollback(w)
    PROVE  WorkInv' /\ Proceeds(w)
<1>1. /\ Tasked(w, work[w], Usable)
      /\ work[w].at \in TaskStages
      /\ work[w].at # "matched" => work[w].saw = None
      /\ work[w].task.kind \in Backward => w \notin Ops
  BY TaskedAt, StageKinds, Zenon
<1>2. work[w].at \in {"put", "drop", "next", "picked", "rollback", "rollback2"}
  BY Zenon DEF TrashPut, TrashDrop, ReserveTrashName, DiscardPut, DiscardRollback, Doing, At
<1>3. work[w].at \in SlotStages /\ work[w].at # "matched"
  BY <1>2, Zenon DEF SlotStages
<1>4. /\ work[w].slot \in Slots
      /\ work[w].task.kind = "discard" => work[w].slot \in Usable
      /\ work[w].task.kind \in {"trash", "discard"} /\ From(w) \in Paths
  BY <1>1, <1>2, <1>3, Zenon DEF Tasked, Suits, Sound, From
<1>5. CASE Ends(w)
  BY <1>5, EndSane, Zenon
<1>6. CASE /\ ~Ends(w)
           /\ \/ TrashPut(w) /\ ~Goes(w, "next") /\ ~Goes(w, "drop")
              \/ DiscardPut(w) /\ ~Goes(w, "rollback")
  <2>1. Acted(w, InverseReceipt("untrash", work[w].slot, From(w), fs[From(w)]))
    BY <1>6, Zenon DEF TrashPut, DiscardPut
  <2>2. work[w].slot \in Usable
    BY <1>4, <1>6, FreeIsUsable, Zenon DEF TrashPut, DiscardPut, Doing
  <2>3. /\ Sound(InverseReceipt("untrash", work[w].slot, From(w), fs[From(w)]), Usable)
        /\ InverseReceipt("untrash", work[w].slot, From(w), fs[From(w)]).kind = "untrash"
    BY <1>4, <2>2, UntrashSound, ZenonT(30)
  <2> QED BY <1>1, <2>1, <2>3, ActSane, Zenon DEF Backward
<1>7. CASE /\ ~Ends(w)
           /\ \/ TrashPut(w) /\ (Goes(w, "next") \/ Goes(w, "drop"))
              \/ TrashDrop(w)
              \/ ReserveTrashName(w)
              \/ DiscardPut(w) /\ Goes(w, "rollback")
              \/ DiscardRollback(w)
  <2>1. PICK stage \in {"next", "drop", "act", "put", "rollback", "rollback2"} :
          /\ Goes(w, stage)
          /\ stage \in {"next", "drop"} => work[w].task.kind = "trash"
          /\ stage \in {"put", "rollback", "rollback2"} => work[w].task.kind = "discard"
    <3>1. CASE TrashPut(w) /\ (Goes(w, "next") \/ Goes(w, "drop"))
      BY <3>1, Zenon DEF TrashPut, Doing
    <3>2. CASE TrashDrop(w)
      BY <1>7, <3>2, Zenon DEF TrashDrop
    <3>3. CASE ReserveTrashName(w)
      BY <1>1, <1>7, <3>3, Zenon DEF ReserveTrashName, At, Tasked, Suits
    <3>4. CASE DiscardPut(w) /\ Goes(w, "rollback")
      BY <3>4, Zenon DEF DiscardPut, Doing
    <3>5. CASE DiscardRollback(w)
      BY <1>1, <1>7, <3>5, Zenon DEF DiscardRollback, At, Tasked, Suits
    <3> QED BY <1>7, <3>1, <3>2, <3>3, <3>4, <3>5, Zenon
  <2>2. work'[w].at = stage /\ work'[w].task = work[w].task
    BY <2>1, Going, Zenon
  <2>3. Suits(work'[w])
    BY <2>1, <2>2, Zenon DEF Suits, SetStages
  <2>4. stage \in ActStages \ {"matched"} /\ stage \notin SetStages
    BY <2>1, Zenon DEF ActStages, SetStages
  <2> QED BY <1>1, <1>3, <2>1, <2>3, <2>4, GoSane, Zenon
<1> QED BY <1>5, <1>6, <1>7, Zenon

(* Recording an operation for Ctrl+Z leaves its receipt as it is.          *)
LEMMA RecordSane ==
    ASSUME WorkInv, NEW w \in Workers, Usable' = Usable, Record(w)
    PROVE  WorkInv' /\ Proceeds(w) /\ w \in Ops /\ work[w].at \in {"record", "both"}
<1>1. Sane(w, work[w], Usable) /\ work[w].at \in {"record", "both"}
  BY Zenon DEF WorkInv, Record, At
<1>2. w \in Ops
  BY <1>1, Zenon DEF Sane
<1>3. CASE Ends(w)
  BY <1>1, <1>2, <1>3, EndSane, Zenon
<1>4. CASE Goes(w, "submit") /\ work[w].at = "both"
  <2>1. /\ OnlyMoves(w)
        /\ KeepsErrand(w)
        /\ work'[w].at = "submit"
        /\ work'[w].inv = work[w].inv
        /\ work'[w].saw = work[w].saw
    BY <1>4, Going, Zenon
  <2>2. "submit" \in Stages \ TaskStages
    BY DEF Stages, TaskStages, ActStages
  <2>3. w \notin Calls
    BY <1>2, CallsAssumption, Zenon
  <2>4. Sane(w, work'[w], Usable)
    BY <1>1, <1>2, <1>4, <2>1, <2>2, <2>3, Zenon DEF Sane, KeepsErrand
  <2>5. WorkInv'
    BY <2>1, <2>4, OneSane
  <2> QED BY <1>1, <1>2, <2>1, <2>5, Zenon DEF Proceeds
<1> QED BY <1>3, <1>4, Zenon DEF Record, At

(* Every file step keeps the workers sane.                                 *)
LEMMA FileStepSane ==
    ASSUME WorkInv, SlotInv, NEW w \in Workers, FileStep(w)
    PROVE  /\ WorkInv' /\ Proceeds(w) /\ Usable' = Usable
           /\ \/ work[w].at \in ActStages
              \/ Record(w) /\ w \in Ops /\ work[w].at \in {"record", "both"}
<1>1. Usable' = Usable
  BY FileFrame, Zenon DEF Usable
<1>2. CASE Record(w)
  BY <1>1, <1>2, RecordSane, Zenon
<1>3. CASE work[w].at \in ActStages /\ ~Record(w)
  BY <1>1, <1>3, MoveSane, LookSane, NoteSane, TrashSane, Zenon DEF FileStep
<1> QED BY <1>2, <1>3, FileStepAt, Zenon

-----------------------------------------------------------------------------
(* The settings steps.                                                     *)

LEMMA SetFrame ==
    ASSUME NEW w \in Workers, SetStep(w)
    PROVE  /\ UNCHANGED <<log, ledger, stale>>
           /\ touched' = touched \/ (touched' = touched \union {w} /\ work[w].home # "files")
           /\ work[w].at \in ActStages
           /\ work[w].task.kind \in {"set", "value"}
<1> USE DEF setCalls, Touches, ActStages, At, Setting
<1>1. CASE CapturePrior(w)  BY <1>1, Zenon DEF CapturePrior
<1>2. CASE ReadAndEdit(w)  BY <1>2, Zenon DEF ReadAndEdit
<1>3. CASE OpenTmp(w)  BY <1>3, Zenon DEF OpenTmp
<1>4. CASE WriteTmp(w)  BY <1>4, Zenon DEF WriteTmp
<1>5. CASE RenameTmp(w)  BY <1>5, Zenon DEF RenameTmp
<1>6. CASE UnlinkTmp(w)  BY <1>6, Zenon DEF UnlinkTmp
<1> QED BY <1>1, <1>2, <1>3, <1>4, <1>5, <1>6, Zenon DEF SetStep

(* The receipt of a setting is sound.                                      *)
LEMMA CaptureSane ==
    ASSUME WorkInv, PenTypes, NEW w \in Workers, Usable' = Usable,
           CapturePrior(w), ~Ends(w)
    PROVE  /\ WorkInv' /\ Proceeds(w)
           /\ work'[w].at = "act"
           /\ work'[w].task = work[w].task
<1> DEFINE inv == [kind |-> "value", a |-> Key(w), b |-> inode[target][Key(w)], of |-> None]
<1>1. DOMAIN work = Workers /\ DOMAIN work[w] = Fields /\ Sane(w, work[w], Usable)
  BY Zenon DEF WorkInv, Sane
<1>2. /\ work' = [work EXCEPT ![w].inv = inv]
      /\ work[w].at = "act"
      /\ work[w].task.kind = "set"
  BY Zenon DEF CapturePrior, At
<1>3. Tasked(w, work[w], Usable)
  BY <1>1, <1>2, Zenon DEF Sane, TaskStages, ActStages
<1>4. Key(w) \in Keys \ Lasting
  BY <1>2, <1>3, Zenon DEF Tasked, Sound, Key
<1>5. inode[target][Key(w)] \in Values
  <2>1. inode[target] \in Texts
    BY Zenon DEF PenTypes
  <2> QED BY <1>4, <2>1 DEF Texts
<1>6. inv.kind = "value" /\ inv.a = Key(w) /\ inv.b = inode[target][Key(w)]
  OBVIOUS
<1> HIDE DEF inv
<1>7. Sound(inv, Usable) /\ inv.kind = "value"
  BY <1>4, <1>5, <1>6, Zenon DEF Sound, Kinds, Backward
<1>8. /\ OnlyMoves(w)
      /\ KeepsErrand(w)
      /\ work'[w].at = "act"
      /\ work'[w].task = work[w].task
      /\ work'[w].inv = inv
      /\ work'[w].saw = work[w].saw
  BY <1>1, <1>2 DEF OnlyMoves, KeepsErrand, Fields
<1>9. "act" \notin SlotStages /\ "act" \in ActStages
  BY DEF SlotStages, ActStages
<1>10. Tasked(w, work'[w], Usable)
  BY <1>2, <1>3, <1>7, <1>8, <1>9, Zenon DEF Tasked, Suits, KeepsErrand
<1>11. Sane(w, work'[w], Usable)
  BY <1>1, <1>2, <1>8, <1>10, Zenon DEF Sane, KeepsErrand
<1>12. WorkInv'
  BY <1>8, <1>11, OneSane
<1> QED BY <1>8, <1>9, <1>12, Zenon DEF Proceeds

LEMMA SetStepSane ==
    ASSUME WorkInv, PenTypes, NEW w \in Workers, SetStep(w), UNCHANGED fileVars
    PROVE  WorkInv' /\ Proceeds(w) /\ Usable' = Usable
<1>1. Usable' = Usable
  BY Zenon DEF Usable, fileVars
<1>2. /\ Tasked(w, work[w], Usable)
      /\ work[w].at \in TaskStages
      /\ work[w].at # "matched" => work[w].saw = None
      /\ work[w].task.kind \in Backward => w \notin Ops
  BY SetFrame, TaskedAt, StageKinds, Zenon
<1>3. CASE Ends(w)
  BY <1>1, <1>3, EndSane, Zenon
<1>4. CASE CapturePrior(w) /\ ~Ends(w)
  BY <1>1, <1>4, CaptureSane, Zenon
<1>5. CASE RenameTmp(w) /\ ~Goes(w, "unlink")
  <2>1. Acted(w, work[w].inv) /\ work[w].at = "rename" /\ work[w].task.kind \in {"set", "value"}
    BY <1>5, Zenon DEF RenameTmp, Setting, At
  <2>2. work[w].task.kind = "set" => Sound(work[w].inv, Usable) /\ work[w].inv.kind = "value"
    BY <1>2, <2>1, Zenon DEF Tasked, SetStages
  <2>3. work[w].home # "files"
    BY <1>2, <2>1, Zenon DEF Tasked
  <2> QED BY <1>1, <1>2, <2>1, <2>2, <2>3, ActSane, Zenon DEF Backward
<1>6. CASE ~Ends(w) /\ ~CapturePrior(w) /\ ~(RenameTmp(w) /\ ~Goes(w, "unlink"))
  <2>1. PICK stage \in SetStages : Goes(w, stage)
    BY <1>6, Zenon DEF SetStep, ReadAndEdit, OpenTmp, WriteTmp, RenameTmp, UnlinkTmp, SetStages
  <2>2. /\ work[w].at \in {"act", "open", "write", "rename", "unlink"}
        /\ work[w].task.kind \in {"set", "value"}
        /\ work[w].task.kind = "set" => work[w].inv # None \/ work[w].at \in SetStages
    BY <1>6, Zenon DEF SetStep, ReadAndEdit, OpenTmp, WriteTmp, RenameTmp, UnlinkTmp, SetStages,
                       Setting, At
  <2>3. work'[w].at = stage /\ work'[w].task = work[w].task
    BY <2>1, Going, Zenon
  <2>4. stage \in ActStages \ {"matched"} /\ stage \notin SlotStages
    BY <2>1, Zenon DEF ActStages, SetStages, SlotStages
  <2>5. Suits(work'[w])
    BY <2>1, <2>2, <2>3, Zenon DEF Suits, SetStages
  <2> QED BY <1>1, <1>2, <2>1, <2>2, <2>4, <2>5, GoSane, Zenon
<1> QED BY <1>3, <1>4, <1>5, <1>6, Zenon

-----------------------------------------------------------------------------
(* Births, calls and crashes.                                              *)

(* A worker that is born has its stage, home, operation and task.          *)
LEMMA BornSane ==
    ASSUME WorkInv, NEW w \in Workers, Usable' = Usable,
           OnlyMoves(w), DOMAIN work'[w] = Fields,
           work'[w].inv = None, work'[w].saw = None,
           \/ /\ work'[w].at = "audit" /\ w \in Ops /\ work'[w].home = "engine"
              /\ work'[w].task \in FileTasks \union SetTasks
           \/ /\ work'[w].at = "act" /\ w \in Ops /\ work'[w].home = "files"
              /\ work'[w].task \in UiTasks
           \/ /\ work'[w].at = "state" /\ w \in Calls /\ work'[w].home \in {"service", "engine"}
              /\ work'[w].op \in Ops
           \/ /\ work'[w].at = "act" /\ w \in Calls /\ work'[w].home = "files"
              /\ Sound(work'[w].task, Usable) /\ work'[w].task.kind \in {"rename", "restore"}
    PROVE  WorkInv'
<1>1. /\ {"audit", "act"} \subseteq (TaskStages \intersect Stages) \ (SlotStages \union SetStages)
      /\ "state" \in Stages \ TaskStages
  BY DEF TaskStages, Stages, ActStages, SlotStages, SetStages
<1>2. /\ \A t \in FileTasks \union UiTasks : Sound(t, Usable)
      /\ \A t \in FileTasks : t.kind \in {"move", "trash", "create"}
      /\ \A t \in UiTasks : t.kind \in {"rename", "discard"}
  BY FilesAssumption, Zenon DEF Sound, Kinds
<1>3. \A t \in SetTasks : Sound(t, Usable) /\ t.kind = "set"
  <2>1. ASSUME NEW t \in SetTasks
        PROVE  t.kind = "set" /\ t.a \in Keys \ Lasting /\ t.b \in Values
    BY SettingsAssumption, Zenon DEF Lasting, Values
  <2> QED BY <2>1, Zenon DEF Sound, Kinds
<1>4. w \in Ops => w \notin Calls
  BY CallsAssumption, Zenon
<1>5. CASE work'[w].at \in {"audit", "act"} /\ w \in Ops
  <2>1. /\ Sound(work'[w].task, Usable)
        /\ work'[w].task.kind \in {"move", "trash", "create", "set", "rename", "discard"}
        /\ work'[w].home = "files" => work'[w].task.kind \in {"rename", "discard"}
        /\ work'[w].home \in Homes
    BY <1>2, <1>3, <1>4, <1>5, Zenon DEF Homes
  <2>2. Tasked(w, work'[w], Usable)
    BY <1>1, <1>5, <2>1, Zenon DEF Tasked, Suits, Backward
  <2>3. Sane(w, work'[w], Usable)
    BY <1>1, <1>4, <1>5, <2>1, <2>2, Zenon DEF Sane
  <2> QED BY <2>3, OneSane
<1>6. CASE work'[w].at = "state"
  <2>1. Sane(w, work'[w], Usable)
    BY <1>1, <1>4, <1>6, Zenon DEF Sane, Homes
  <2> QED BY <2>1, OneSane
<1>7. CASE work'[w].at = "act" /\ w \in Calls
  <2>1. Tasked(w, work'[w], Usable)
    BY <1>1, <1>4, <1>7, Zenon DEF Tasked, Suits
  <2>2. Sane(w, work'[w], Usable)
    BY <1>1, <1>4, <1>7, <2>1, Zenon DEF Sane, Homes
  <2> QED BY <2>2, OneSane
<1> QED BY <1>5, <1>6, <1>7, Zenon

(* A call that finds the entry takes the receipt from it.                  *)
LEMMA LookupSane ==
    ASSUME WorkInv, LogInv, NEW w \in Workers, Usable' = Usable,
           LookupState(w) \/ LookupEntry(w), ~Ends(w)
    PROVE  /\ WorkInv' /\ OnlyMoves(w) /\ KeepsErrand(w)
           /\ w \in Calls /\ work[w].op \in Ops
           /\ work[w].home # "files"
           /\ log[work[w].op].state # "absent"
           /\ \/ LookupState(w) /\ work[w].at = "state" /\ work'[w].at = "entry"
              \/ LookupEntry(w) /\ work[w].at = "entry" /\ work'[w].at = "audit"
<1>1. DOMAIN work = Workers /\ DOMAIN work[w] = Fields /\ Sane(w, work[w], Usable)
  BY Zenon DEF WorkInv, Sane
<1>2. work[w].at \in {"state", "entry"}
  BY Zenon DEF LookupState, LookupEntry, At
<1>3. w \in Calls /\ work[w].op \in Ops /\ work[w].home # "files"
  BY <1>1, <1>2, Zenon DEF Sane
<1>4. CASE LookupState(w)
  <2>1. Goes(w, "entry") /\ work[w].at = "state" /\ log[work[w].op].state = "live"
    BY <1>4, Zenon DEF LookupState, At
  <2>2. /\ OnlyMoves(w)
        /\ KeepsErrand(w)
        /\ work'[w].at = "entry"
        /\ work'[w].saw = work[w].saw
    BY <2>1, Going, Zenon
  <2>3. "entry" \in Stages \ TaskStages
    BY DEF Stages, TaskStages, ActStages
  <2>4. Sane(w, work'[w], Usable)
    BY <1>1, <1>3, <2>1, <2>2, <2>3, Zenon DEF Sane, KeepsErrand
  <2>5. WorkInv'
    BY <2>2, <2>4, OneSane
  <2> QED BY <1>3, <1>4, <2>1, <2>2, <2>5, Zenon
<1>5. CASE LookupEntry(w)
  <2> DEFINE inv == log[work[w].op].inv
  <2>1. /\ work' = [work EXCEPT ![w].at = "audit", ![w].task = inv]
        /\ work[w].at = "entry"
        /\ log[work[w].op].state # "absent"
    BY <1>5, Zenon DEF LookupEntry, At
  <2>2. Sound(inv, Usable) /\ inv.kind \in Backward \ {"restore"}
    BY <1>3, <2>1, Zenon DEF LogInv
  <2> HIDE DEF inv
  <2>3. /\ OnlyMoves(w)
        /\ KeepsErrand(w)
        /\ work'[w].at = "audit"
        /\ work'[w].task = inv
        /\ work'[w].saw = work[w].saw
    BY <1>1, <2>1 DEF OnlyMoves, KeepsErrand, Fields
  <2>4. "audit" \in (Stages \intersect TaskStages) \ (SlotStages \union SetStages)
    BY DEF Stages, TaskStages, ActStages, SlotStages, SetStages
  <2>5. Tasked(w, work'[w], Usable)
    BY <1>3, <2>2, <2>3, <2>4, Zenon DEF Tasked, Suits, KeepsErrand, Backward
  <2>6. Sane(w, work'[w], Usable)
    BY <1>1, <1>3, <2>1, <2>3, <2>4, <2>5, Zenon DEF Sane, KeepsErrand
  <2>7. WorkInv'
    BY <2>3, <2>6, OneSane
  <2> QED BY <1>3, <1>5, <2>1, <2>3, <2>7, Zenon
<1> QED BY <1>4, <1>5, Zenon

(* Submitting is an operation's last act but the record.                   *)
LEMMA SubmitSane ==
    ASSUME WorkInv, LogInv, NEW w \in Workers, Usable' = Usable, Submit(w)
    PROVE  /\ WorkInv' /\ LogInv' /\ OnlyMoves(w)
           /\ w \in Ops /\ work[w].at \in {"submit", "both"}
           /\ work'[w] = Over \/ (KeepsErrand(w) /\ work'[w].at = "record")
           /\ \A o \in Ops : o # w => log'[o] = log[o]
<1>1. Sane(w, work[w], Usable) /\ work[w].at \in {"submit", "both"}
  BY Zenon DEF WorkInv, Submit, At
<1>2. w \in Ops /\ Sound(work[w].inv, Usable)
  BY <1>1, Zenon DEF Sane
<1>3. w \notin Calls
  BY <1>2, CallsAssumption, Zenon
<1>4. work[w].inv.kind \in Backward \ {"restore"}
  BY <1>1, Zenon DEF Sane
<1>5. LogInv' /\ \A o \in Ops : o # w => log'[o] = log[o]
  <2>1. CASE UNCHANGED log
    BY <2>1, Zenon DEF LogInv
  <2>2. CASE log' = [log EXCEPT ![w] = [state |-> "live", inv |-> work[w].inv]]
    <3>1. /\ DOMAIN log' = Ops
          /\ \A o \in Ops : o # w => log'[o] = log[o]
          /\ log'[w] = [state |-> "live", inv |-> work[w].inv]
      BY <1>2, <2>2 DEF LogInv
    <3>2. /\ DOMAIN log'[w] = {"state", "inv"}
          /\ log'[w].state = "live"
          /\ log'[w].inv = work[w].inv
      BY <3>1
    <3> QED BY <1>2, <1>4, <3>1, <3>2, Zenon DEF LogInv
  <2> QED BY <2>1, <2>2, Zenon DEF Submit
<1>6. CASE Ends(w)
  BY <1>1, <1>2, <1>5, <1>6, EndSane, Ending, Zenon
<1>7. CASE Goes(w, "record") /\ work[w].at = "both"
  <2>1. /\ OnlyMoves(w)
        /\ KeepsErrand(w)
        /\ work'[w].at = "record"
        /\ work'[w].inv = work[w].inv
        /\ work'[w].saw = work[w].saw
    BY <1>7, Going, Zenon
  <2>2. "record" \in Stages \ TaskStages
    BY DEF Stages, TaskStages, ActStages
  <2>3. Sane(w, work'[w], Usable)
    BY <1>1, <1>2, <1>3, <1>7, <2>1, <2>2, Zenon DEF Sane, KeepsErrand
  <2>4. WorkInv'
    BY <2>1, <2>3, OneSane
  <2> QED BY <1>1, <1>2, <1>5, <2>1, <2>4, Zenon
<1> QED BY <1>6, <1>7, Zenon DEF Submit, At

(* Marking ends a call on an operation that is in the log.                 *)
LEMMA MarkSane ==
    ASSUME WorkInv, LogInv, StaleInv, NEW w \in Workers, Usable' = Usable, Mark(w)
    PROVE  /\ WorkInv' /\ LogInv' /\ OnlyMoves(w) /\ work'[w] = Over
           /\ w \in Calls /\ work[w].at = "mark" /\ work[w].op \in Ops
           /\ log[work[w].op].state # "absent"
           /\ \A o \in Ops : \/ log'[o] = log[o]
                             \/ o = work[w].op /\ log'[o].state = "over"
<1>1. Sane(w, work[w], Usable) /\ work[w].at = "mark" /\ Ends(w)
  BY Zenon DEF WorkInv, Mark, At
<1>2. w \in Calls /\ work[w].op \in Ops /\ work[w].home # "files"
  BY <1>1, Zenon DEF Sane
<1>3. log[work[w].op].state # "absent"
  BY <1>1, <1>2, Zenon DEF StaleInv
<1>4. WorkInv' /\ OnlyMoves(w) /\ work'[w] = Over
  BY <1>1, EndSane, Ending, Zenon
<1>5. CASE UNCHANGED log
  BY <1>1, <1>2, <1>3, <1>4, <1>5, Zenon DEF LogInv
<1>6. CASE log' = [log EXCEPT ![work[w].op].state = "over"]
  <2>1. DOMAIN log = Ops /\ DOMAIN log[work[w].op] = {"state", "inv"}
    BY <1>2, Zenon DEF LogInv
  <2>2. /\ DOMAIN log' = Ops
        /\ \A o \in Ops : o # work[w].op => log'[o] = log[o]
        /\ DOMAIN log'[work[w].op] = {"state", "inv"}
        /\ log'[work[w].op].state = "over"
        /\ log'[work[w].op].inv = log[work[w].op].inv
    BY <1>2, <1>6, <2>1
  <2>3. LogInv'
    BY <1>2, <1>3, <2>2, Zenon DEF LogInv
  <2> QED BY <1>1, <1>2, <1>3, <1>4, <2>2, <2>3, Zenon
<1> QED BY <1>5, <1>6, Zenon DEF Mark

(* What the steps of one worker must do for the audit to come first.       *)
LEMMA AuditKeeps ==
    ASSUME AuditInv, NEW w \in Workers, OnlyMoves(w), ledger \subseteq ledger',
           touched' = touched \/ (touched' = touched \union {w} /\ w \in ledger),
           work'[w].at \in ActStages /\ work'[w].home # "files" => w \in ledger'
    PROVE  AuditInv'
BY Zenon DEF AuditInv, OnlyMoves

(* And for a stale call to get nowhere.                                    *)
LEMMA StaleKeeps ==
    ASSUME StaleInv, NEW w \in Workers, OnlyMoves(w), UNCHANGED <<log, stale>>,
           touched \union ledger \subseteq touched' \union ledger',
           touched' \union ledger' \subseteq touched \union ledger \union {w},
           w \in stale => work'[w].at = "done" /\ touched' \union ledger' = touched \union ledger,
           w \in Ops /\ log[w].state # "absent" => work'[w].at \in {"record", "done"},
           w \in Calls /\ work'[w].at \notin {"idle", "state", "done"} /\ work'[w].home # "files"
             => log[work'[w].op].state # "absent",
           work'[w].at # "idle"
    PROVE  StaleInv'
<1>0. log' = log /\ stale' = stale
  BY Zenon
<1>1. ASSUME NEW o \in Ops, log'[o].state # "absent"
      PROVE  work'[o].at \in {"record", "done"}
  <2>1. work[o].at \in {"record", "done"} /\ o \in Workers /\ log[o].state # "absent"
    BY <1>0, <1>1, Zenon DEF StaleInv, Workers
  <2> QED BY <2>1 DEF OnlyMoves
<1>2. ASSUME NEW c \in Calls, work'[c].at \notin {"idle", "state", "done"}, work'[c].home # "files"
      PROVE  log'[work'[c].op].state # "absent"
  <2>1. CASE c = w
    BY <1>0, <1>2, <2>1, Zenon
  <2>2. CASE c # w
    <3>1. work'[c] = work[c]
      BY <2>2, Zenon DEF OnlyMoves, Workers
    <3>2. log[work[c].op].state # "absent"
      BY <1>2, <3>1 DEF StaleInv
    <3> QED BY <1>0, <3>1, <3>2
  <2> QED BY <2>1, <2>2
<1>3. ASSUME NEW x \in Workers, work'[x].at = "idle"
      PROVE  x \notin touched' \union ledger'
  <2>1. x # w
    BY <1>3, Zenon
  <2>2. work'[x] = work[x]
    BY <2>1, Zenon DEF OnlyMoves
  <2> QED BY <1>3, <2>1, <2>2, Zenon DEF StaleInv
<1>4. ASSUME NEW c \in stale'
      PROVE  /\ c \in Calls
             /\ c \notin touched' \union ledger'
             /\ work'[c].at = "done" \/ (work'[c].at = "state" /\ log'[work'[c].op].state = "over")
  <2>1. c \in stale /\ c \in Calls /\ c \in Workers /\ c \notin touched \union ledger
    BY <1>0, <1>4, Zenon DEF StaleInv, Workers
  <2>2. CASE c = w
    <3>1. work'[w].at = "done" /\ touched' \union ledger' = touched \union ledger
      BY <2>1, <2>2, Zenon
    <3>2. c \notin touched' \union ledger'
      BY <2>1, <3>1, Zenon
    <3> QED BY <2>1, <2>2, <3>1, <3>2, Zenon
  <2>3. CASE c # w
    <3>1. work'[c] = work[c]
      BY <2>1, <2>3, Zenon DEF OnlyMoves
    <3>2. c \notin touched' \union ledger'
      BY <2>1, <2>3, Zenon
    <3>3. work[c].at = "done" \/ (work[c].at = "state" /\ log[work[c].op].state = "over")
      BY <2>1, Zenon DEF StaleInv
    <3> QED BY <1>0, <2>1, <3>1, <3>2, <3>3
  <2> QED BY <2>2, <2>3, Zenon
<1> QED BY <1>1, <1>2, <1>3, <1>4, Zenon DEF StaleInv

(* A worker that is acting changes nothing in log and ledger.              *)
LEMMA ActingKeeps ==
    ASSUME WorkInv, LogInv, AuditInv, StaleInv, NEW w \in Workers, Proceeds(w),
           Usable' = Usable, UNCHANGED <<log, ledger, stale>>,
           \/ /\ work[w].at \in ActStages
              /\ touched' = touched \/ (touched' = touched \union {w} /\ work[w].home # "files")
           \/ /\ w \in Ops /\ work[w].at \in {"record", "both"}
              /\ touched' = touched
              /\ work'[w] = Over \/ (work[w].at = "both" /\ work'[w].at = "submit")
    PROVE  LogInv' /\ AuditInv' /\ StaleInv'
<1>1. LogInv'
  BY Zenon DEF LogInv
<1>2. /\ OnlyMoves(w)
      /\ work'[w].at = "done" \/ (work'[w].home = work[w].home /\ work'[w].op = work[w].op)
      /\ work'[w].at # "idle"
  BY OverIs, Zenon DEF Proceeds, KeepsErrand, ActStages
<1>3. w \notin stale /\ {"done", "submit", "record", "both"} \intersect ActStages = {}
  <2>1. work[w].at \notin {"done", "state"}
    BY DEF ActStages
  <2> QED BY <2>1, Zenon DEF StaleInv, ActStages
<1>4. CASE /\ work[w].at \in ActStages
           /\ touched' = touched \/ (touched' = touched \union {w} /\ work[w].home # "files")
  <2>1. work[w].home # "files" => w \in ledger
    BY <1>4, Zenon DEF AuditInv
  <2>2. AuditInv'
    BY <1>2, <1>3, <1>4, <2>1, AuditKeeps, Zenon
  <2>3. w \in Ops => log[w].state = "absent"
    BY <1>3, <1>4, Zenon DEF StaleInv, ActStages
  <2>4. w \in Calls /\ work[w].home # "files" => log[work[w].op].state # "absent"
    BY <1>4, Zenon DEF StaleInv, ActStages
  <2>5. /\ touched \union ledger \subseteq touched' \union ledger'
        /\ touched' \union ledger' \subseteq touched \union ledger \union {w}
    BY <1>4, Zenon
  <2>6. StaleInv'
    BY <1>2, <1>3, <2>3, <2>4, <2>5, StaleKeeps, Zenon
  <2> QED BY <1>1, <2>2, <2>6
<1>5. CASE /\ w \in Ops /\ work[w].at \in {"record", "both"}
           /\ touched' = touched
           /\ work'[w] = Over \/ (work[w].at = "both" /\ work'[w].at = "submit")
  <2>1. work'[w].at \in {"done", "submit"} /\ (work'[w].at = "submit" => work[w].at = "both")
    BY <1>5, OverIs, Zenon
  <2>2. AuditInv'
    BY <1>2, <1>3, <1>5, <2>1, AuditKeeps, Zenon
  <2>3. w \notin Calls
    BY <1>5, CallsAssumption, Zenon
  <2>4. log[w].state # "absent" => work'[w].at \in {"record", "done"}
    BY <1>5, <2>1, Zenon DEF StaleInv
  <2>5. StaleInv'
    BY <1>2, <1>3, <1>5, <2>3, <2>4, StaleKeeps, Zenon
  <2> QED BY <1>1, <2>2, <2>5
<1> QED BY <1>4, <1>5, Zenon

LEMMA FileCalls ==
    ASSUME WorkInv, LogInv, AuditInv, StaleInv, SlotInv, NEW w \in Workers, FileStep(w)
    PROVE  LogInv' /\ AuditInv' /\ StaleInv'
<1>1. /\ WorkInv' /\ Proceeds(w) /\ Usable' = Usable
      /\ \/ work[w].at \in ActStages
         \/ Record(w) /\ w \in Ops /\ work[w].at \in {"record", "both"}
  BY FileStepSane, Zenon
<1>2. /\ UNCHANGED <<log, ledger, stale>>
      /\ touched' = touched \/ (touched' = touched \union {w} /\ work[w].home # "files")
  BY FileFrame, Zenon
<1>3. CASE work[w].at \in ActStages
  BY <1>1, <1>2, <1>3, ActingKeeps, Zenon
<1>4. CASE Record(w) /\ w \in Ops /\ work[w].at \in {"record", "both"}
  <2>1. touched' = touched
    BY <1>4, Zenon DEF Record
  <2>2. work'[w] = Over \/ (work[w].at = "both" /\ work'[w].at = "submit")
    BY <1>4, Going, Ending, Zenon DEF Record, At
  <2> QED BY <1>1, <1>2, <1>4, <2>1, <2>2, ActingKeeps, Zenon
<1> QED BY <1>1, <1>3, <1>4

LEMMA SetCalls ==
    ASSUME WorkInv, LogInv, AuditInv, StaleInv, PenTypes, NEW w \in Workers, SetStep(w),
           UNCHANGED fileVars
    PROVE  LogInv' /\ AuditInv' /\ StaleInv'
<1>1. WorkInv' /\ Proceeds(w) /\ Usable' = Usable
  BY SetStepSane, Zenon
<1>2. /\ UNCHANGED <<log, ledger, stale>>
      /\ touched' = touched \/ (touched' = touched \union {w} /\ work[w].home # "files")
      /\ work[w].at \in ActStages
  BY SetFrame, Zenon
<1> QED BY <1>1, <1>2, ActingKeeps, Zenon

(* Looking up and auditing.                                                *)
LEMMA LookupCalls ==
    ASSUME WorkInv, LogInv, AuditInv, StaleInv, NEW w \in Workers, Usable' = Usable,
           LookupState(w) \/ LookupEntry(w) \/ Audit(w)
    PROVE  WorkInv' /\ LogInv' /\ AuditInv' /\ StaleInv'
<1>1. /\ UNCHANGED <<log, touched, stale>> /\ log' = log
      /\ ledger' = ledger \/ (ledger' = ledger \union {w} /\ Audit(w))
  BY Zenon DEF LookupState, LookupEntry, Audit
<1>2. LogInv'
  BY <1>1, Zenon DEF LogInv
<1>3. work[w].at \in {"state", "entry", "audit"}
  BY Zenon DEF LookupState, LookupEntry, Audit, At
<1>4. "done" \notin ActStages /\ "entry" \notin ActStages /\ "audit" \notin ActStages
  BY DEF ActStages
<1>5. w \in Ops => log[w].state = "absent"
  BY <1>3, Zenon DEF StaleInv
<1>6. CASE Ends(w) /\ ledger' = ledger
  <2>1. OnlyMoves(w) /\ work'[w].at = "done" /\ WorkInv'
    BY <1>6, Ending, EndSane, OverIs, Zenon
  <2>2. AuditInv'
    BY <1>1, <1>4, <1>6, <2>1, AuditKeeps, Zenon
  <2>3. StaleInv'
    BY <1>1, <1>5, <1>6, <2>1, StaleKeeps, Zenon
  <2> QED BY <1>2, <2>1, <2>2, <2>3
<1>7. CASE (LookupState(w) \/ LookupEntry(w)) /\ ~Ends(w)
  <2>1. /\ WorkInv' /\ OnlyMoves(w) /\ KeepsErrand(w)
        /\ w \in Calls /\ work[w].op \in Ops
        /\ log[work[w].op].state # "absent"
        /\ \/ LookupState(w) /\ work[w].at = "state" /\ work'[w].at = "entry"
           \/ LookupEntry(w) /\ work[w].at = "entry" /\ work'[w].at = "audit"
    BY <1>7, LookupSane, Zenon
  <2>2. ledger' = ledger
    BY <1>7, Zenon DEF LookupState, LookupEntry
  <2>3. AuditInv'
    BY <1>1, <1>4, <2>1, <2>2, AuditKeeps, Zenon
  <2>4. w \notin stale
    BY <1>7, <2>1, Zenon DEF StaleInv, LookupState
  <2>5. StaleInv'
    BY <1>1, <1>5, <2>1, <2>2, <2>4, StaleKeeps, Zenon DEF KeepsErrand
  <2> QED BY <1>2, <2>1, <2>3, <2>5
<1>8. CASE Audit(w) /\ Goes(w, "act") /\ ledger' = ledger \union {w}
  <2>1. work[w].at = "audit" /\ "audit" \in TaskStages /\ "act" \in ActStages
    BY <1>8, Zenon DEF Audit, At, TaskStages, ActStages
  <2>2. Tasked(w, work[w], Usable) /\ work[w].saw = None
    BY <2>1, TaskedAt, Zenon
  <2>3. /\ OnlyMoves(w)
        /\ KeepsErrand(w)
        /\ work'[w].at = "act"
    BY <1>8, Going, Zenon
  <2>4. /\ Suits(work'[w])
        /\ "act" \notin SlotStages /\ "act" \notin SetStages /\ "act" # "matched"
    BY <2>3, Zenon DEF Suits, SlotStages, SetStages
  <2>5. WorkInv'
    BY <1>8, <2>1, <2>2, <2>4, GoSane, Zenon
  <2>6. AuditInv'
    BY <1>1, <1>8, <2>3, AuditKeeps, Zenon
  <2>7. w \notin stale
    BY <2>1, Zenon DEF StaleInv
  <2>8. w \in Calls /\ work'[w].home # "files" => log[work'[w].op].state # "absent"
    <3>1. w \in Calls /\ work[w].home # "files" => log[work[w].op].state # "absent"
      BY <2>1, Zenon DEF StaleInv
    <3> QED BY <2>3, <3>1 DEF KeepsErrand
  <2>9. /\ touched \union ledger \subseteq touched' \union ledger'
        /\ touched' \union ledger' \subseteq touched \union ledger \union {w}
    BY <1>1, <1>8, Zenon
  <2>10. StaleInv'
    BY <1>1, <1>5, <2>3, <2>7, <2>8, <2>9, StaleKeeps, Zenon
  <2> QED BY <1>2, <2>5, <2>6, <2>10
<1> QED BY <1>1, <1>6, <1>7, <1>8, Zenon DEF LookupState, LookupEntry, Audit

(* Submitting.                                                             *)
LEMMA SubmitCalls ==
    ASSUME WorkInv, LogInv, AuditInv, StaleInv, NEW w \in Workers, Usable' = Usable, Submit(w)
    PROVE  WorkInv' /\ LogInv' /\ AuditInv' /\ StaleInv'
<1>1. /\ WorkInv' /\ LogInv' /\ OnlyMoves(w)
      /\ w \in Ops /\ work[w].at \in {"submit", "both"}
      /\ work'[w] = Over \/ (KeepsErrand(w) /\ work'[w].at = "record")
      /\ \A o \in Ops : o # w => log'[o] = log[o]
  BY SubmitSane, Zenon
<1>2. ledger' = ledger /\ touched' = touched /\ stale' = stale
  BY Zenon DEF Submit
<1>3. work'[w].at \in {"record", "done"}
  BY <1>1, OverIs, Zenon
<1>4. "record" \notin ActStages /\ "done" \notin ActStages
  BY DEF ActStages
<1>5. AuditInv'
  BY <1>1, <1>2, <1>3, <1>4, AuditKeeps, Zenon
<1>6. log[w].state = "absent" /\ w \notin Calls
  BY <1>1, CallsAssumption, Zenon DEF StaleInv
<1>7. \A o \in Ops : log'[o].state # "absent" => work'[o].at \in {"record", "done"}
  BY <1>1, <1>3, Zenon DEF StaleInv, OnlyMoves, Workers
<1>8. \A c \in Calls : work'[c] = work[c]
  BY <1>1, <1>6, Zenon DEF OnlyMoves, Workers
<1>9. ASSUME NEW c \in Calls, work[c].at \notin {"idle", "done"}, work[c].home # "files"
      PROVE  work[c].op \in Ops
  BY <1>9, Zenon DEF WorkInv, Sane, Workers
<1>10. ASSUME NEW c \in Calls, work'[c].at \notin {"idle", "state", "done"}, work'[c].home # "files"
       PROVE  log'[work'[c].op].state # "absent"
  <2>1. work'[c] = work[c]
    BY <1>8, <1>10
  <2>2. work[c].op \in Ops
    BY <1>9, <1>10, <2>1
  <2>3. log[work[c].op].state # "absent"
    BY <1>10, <2>1 DEF StaleInv
  <2>4. log'[work[c].op] = log[work[c].op]
    BY <1>1, <1>6, <2>2, <2>3
  <2> QED BY <2>1, <2>3, <2>4
<1>11. ASSUME NEW x \in Workers, work'[x].at = "idle"
       PROVE  x \notin touched' \union ledger'
  <2>1. x # w
    BY <1>3, <1>11
  <2>2. work[x].at = "idle"
    BY <1>1, <1>11, <2>1, Zenon DEF OnlyMoves
  <2> QED BY <1>2, <2>2, Zenon DEF StaleInv
<1>12. ASSUME NEW c \in stale'
       PROVE  /\ c \in Calls
              /\ c \notin touched' \union ledger'
              /\ work'[c].at = "done" \/ (work'[c].at = "state" /\ log'[work'[c].op].state = "over")
  <2>1. /\ c \in Calls /\ c \notin touched \union ledger
        /\ work[c].at = "done" \/ (work[c].at = "state" /\ log[work[c].op].state = "over")
    BY <1>2, <1>12, Zenon DEF StaleInv
  <2>2. work[c].at = "state" => work[c].op \in Ops
    BY <2>1, Zenon DEF WorkInv, Sane, Workers
  <2>3. work[c].at = "state" => log'[work[c].op] = log[work[c].op]
    BY <1>1, <1>6, <2>1, <2>2, Zenon
  <2> QED BY <1>2, <1>8, <2>1, <2>3, Zenon
<1> QED BY <1>1, <1>5, <1>7, <1>10, <1>11, <1>12, Zenon DEF StaleInv

(* Marking: a stale call still finds its entry over.                       *)
LEMMA MarkCalls ==
    ASSUME WorkInv, LogInv, AuditInv, StaleInv, NEW w \in Workers, Usable' = Usable, Mark(w)
    PROVE  WorkInv' /\ LogInv' /\ AuditInv' /\ StaleInv'
<1>1. /\ WorkInv' /\ LogInv' /\ OnlyMoves(w) /\ work'[w] = Over
      /\ w \in Calls /\ work[w].at = "mark" /\ work[w].op \in Ops
      /\ log[work[w].op].state # "absent"
      /\ \A o \in Ops : log'[o] = log[o] \/ (o = work[w].op /\ log'[o].state = "over")
  BY MarkSane, Zenon
<1>2. ledger' = ledger /\ touched' = touched /\ stale' = stale
  BY Zenon DEF Mark
<1>3. work'[w].at = "done" /\ w \notin Ops
  BY <1>1, OverIs, CallsAssumption, Zenon
<1>4. AuditInv'
  <2>1. "done" \notin ActStages
    BY DEF ActStages
  <2> QED BY <1>1, <1>2, <1>3, <2>1, AuditKeeps, Zenon
<1>5. \A o \in Ops : log[o].state # "absent" <=> log'[o].state # "absent"
  BY <1>1, Zenon
<1>6. \A o \in Ops : log[o].state = "over" => log'[o].state = "over"
  BY <1>1, Zenon
<1>7. ASSUME NEW o \in Ops, log'[o].state # "absent"
      PROVE  work'[o].at \in {"record", "done"}
  <2>1. work[o].at \in {"record", "done"}
    BY <1>5, <1>7, Zenon DEF StaleInv
  <2>2. work'[o] = work[o]
    BY <1>1, <1>3, <1>7, Zenon DEF OnlyMoves, Workers
  <2> QED BY <2>1, <2>2
<1>8. ASSUME NEW c \in Calls, work[c].at \notin {"idle", "done"}, work[c].home # "files"
      PROVE  work[c].op \in Ops
  BY <1>8, Zenon DEF WorkInv, Sane, Workers
<1>9. ASSUME NEW c \in Calls, work'[c].at \notin {"idle", "state", "done"}, work'[c].home # "files"
      PROVE  log'[work'[c].op].state # "absent"
  <2>1. work'[c] = work[c]
    BY <1>1, <1>3, <1>9, Zenon DEF OnlyMoves, Workers
  <2>2. work[c].op \in Ops
    BY <1>8, <1>9, <2>1
  <2>3. log[work[c].op].state # "absent"
    BY <1>9, <2>1 DEF StaleInv
  <2> QED BY <1>5, <2>1, <2>2, <2>3
<1>10. ASSUME NEW x \in Workers, work'[x].at = "idle"
       PROVE  x \notin touched' \union ledger'
  <2>1. x # w /\ work'[x] = work[x]
    BY <1>1, <1>3, <1>10, Zenon DEF OnlyMoves
  <2> QED BY <1>2, <1>10, <2>1, Zenon DEF StaleInv
<1>11. ASSUME NEW c \in stale'
       PROVE  /\ c \in Calls
              /\ c \notin touched' \union ledger'
              /\ work'[c].at = "done" \/ (work'[c].at = "state" /\ log'[work'[c].op].state = "over")
  <2>1. /\ c \in Calls /\ c \notin touched \union ledger
        /\ work[c].at = "done" \/ (work[c].at = "state" /\ log[work[c].op].state = "over")
    BY <1>2, <1>11, Zenon DEF StaleInv
  <2>2. work[c].at = "state" => work[c].op \in Ops
    BY <2>1, Zenon DEF WorkInv, Sane, Workers
  <2>3. c # w /\ work'[c] = work[c]
    BY <1>1, <2>1, Zenon DEF OnlyMoves, Workers
  <2> QED BY <1>2, <1>6, <2>1, <2>2, <2>3, Zenon
<1> QED BY <1>1, <1>4, <1>7, <1>9, <1>10, <1>11, Zenon DEF StaleInv

(* Who is asked or asks.                                                   *)
LEMMA BirthFacts ==
    ASSUME WorkInv, NEW w \in Workers, NEW r, DOMAIN r = Fields,
           work' = [work EXCEPT ![w] = r]
    PROVE  OnlyMoves(w) /\ work'[w] = r
BY DEF WorkInv, OnlyMoves

LEMMA AskCalls ==
    ASSUME WorkInv, LogInv, AuditInv, StaleInv, Ask
    PROVE  /\ WorkInv' /\ LogInv' /\ AuditInv' /\ StaleInv'
           /\ \E w \in Workers : /\ OnlyMoves(w) /\ work[w].at = "idle"
                                 /\ work'[w].at \in {"audit", "act", "state"}
<1>1. Usable' = Usable
  BY Zenon DEF Ask, Usable, fileVars
<1>2. /\ "audit" \notin ActStages /\ "state" \notin ActStages
  BY DEF ActStages
<1>3. ASSUME NEW o \in Ops, NEW task \in FileTasks \union SetTasks, Execute(o, task)
      PROVE  /\ WorkInv' /\ LogInv' /\ AuditInv' /\ StaleInv'
             /\ OnlyMoves(o) /\ work[o].at = "idle" /\ work'[o].at = "audit"
  <2> DEFINE r == [Unborn EXCEPT !.at = "audit", !.home = "engine", !.op = o, !.task = task]
  <2>1. /\ DOMAIN r = Fields /\ r.at = "audit" /\ r.home = "engine" /\ r.task = task
        /\ r.inv = None /\ r.saw = None
    BY DEF Unborn, Fields
  <2>2. work' = [work EXCEPT ![o] = r] /\ work[o].at = "idle" /\ o \in Workers
    BY <1>3, Zenon DEF Execute, Fresh, At, Workers
  <2>3. UNCHANGED <<log, stale>> /\ ledger' = ledger /\ touched' = touched
    BY <1>3, Zenon DEF Execute
  <2> HIDE DEF r
  <2>4. OnlyMoves(o) /\ work'[o] = r
    BY <2>1, <2>2, BirthFacts, Zenon
  <2>5. WorkInv'
    BY <1>1, <2>1, <2>2, <2>4, BornSane, Zenon
  <2>6. AuditInv'
    BY <1>2, <2>1, <2>2, <2>3, <2>4, AuditKeeps, Zenon
  <2>7. o \notin stale /\ log[o].state = "absent" /\ o \notin Calls
    BY <2>2, CallsAssumption, Zenon DEF StaleInv
  <2>8. StaleInv'
    BY <2>1, <2>2, <2>3, <2>4, <2>7, StaleKeeps, Zenon
  <2>9. LogInv'
    BY <1>1, <2>3, Zenon DEF LogInv
  <2> QED BY <2>1, <2>2, <2>4, <2>5, <2>6, <2>8, <2>9, Zenon
<1>4. ASSUME NEW o \in Ops, NEW task \in UiTasks, FilesOp(o, task)
      PROVE  /\ WorkInv' /\ LogInv' /\ AuditInv' /\ StaleInv'
             /\ OnlyMoves(o) /\ work[o].at = "idle" /\ work'[o].at = "act"
  <2> DEFINE r == [Unborn EXCEPT !.at = "act", !.home = "files", !.op = o, !.task = task]
  <2>1. /\ DOMAIN r = Fields /\ r.at = "act" /\ r.home = "files" /\ r.task = task
        /\ r.inv = None /\ r.saw = None
    BY DEF Unborn, Fields
  <2>2. work' = [work EXCEPT ![o] = r] /\ work[o].at = "idle" /\ o \in Workers
    BY <1>4, Zenon DEF FilesOp, Fresh, At, Workers
  <2>3. UNCHANGED <<log, stale>> /\ ledger' = ledger /\ touched' = touched
    BY <1>4, Zenon DEF FilesOp
  <2> HIDE DEF r
  <2>4. OnlyMoves(o) /\ work'[o] = r
    BY <2>1, <2>2, BirthFacts, Zenon
  <2>5. WorkInv'
    BY <1>1, <2>1, <2>2, <2>4, BornSane, Zenon
  <2>6. AuditInv'
    BY <2>1, <2>2, <2>3, <2>4, AuditKeeps, Zenon
  <2>7. o \notin stale /\ log[o].state = "absent" /\ o \notin Calls
    BY <2>2, CallsAssumption, Zenon DEF StaleInv
  <2>8. StaleInv'
    BY <2>1, <2>2, <2>3, <2>4, <2>7, StaleKeeps, Zenon
  <2>9. LogInv'
    BY <1>1, <2>3, Zenon DEF LogInv
  <2> QED BY <2>1, <2>2, <2>4, <2>5, <2>6, <2>8, <2>9, Zenon
<1>5. ASSUME NEW c \in Calls, NEW o \in Ops, NEW home \in Homes, Undo(c, o, home)
      PROVE  /\ WorkInv' /\ LogInv' /\ AuditInv' /\ StaleInv'
             /\ OnlyMoves(c) /\ work[c].at = "idle" /\ work'[c].at = "state"
  <2> DEFINE r == [Unborn EXCEPT !.at = "state", !.home = home, !.op = o]
  <2>1. /\ DOMAIN r = Fields /\ r.at = "state" /\ r.home = home /\ r.op = o
        /\ r.inv = None /\ r.saw = None
    BY DEF Unborn, Fields
  <2>2. /\ work' = [work EXCEPT ![c] = r] /\ work[c].at = "idle" /\ c \in Workers
        /\ home \in {"service", "engine"}
    BY <1>5, Zenon DEF Undo, Fresh, At, Workers
  <2>3. /\ log' = log /\ ledger' = ledger /\ touched' = touched
        /\ stale' = stale \/ (stale' = stale \union {c} /\ log[o].state = "over")
    BY <1>5, Zenon DEF Undo
  <2> HIDE DEF r
  <2>4. OnlyMoves(c) /\ work'[c] = r
    BY <2>1, <2>2, BirthFacts, Zenon
  <2>5. WorkInv'
    BY <1>1, <2>1, <2>2, <2>4, BornSane, Zenon
  <2>6. AuditInv'
    BY <1>2, <2>1, <2>2, <2>3, <2>4, AuditKeeps, Zenon
  <2>7. c \notin stale /\ c \notin touched \union ledger /\ c \notin Ops
    BY <2>2, CallsAssumption, Zenon DEF StaleInv
  <2>8. StaleInv'
    <3>1. ASSUME NEW x \in Ops, log'[x].state # "absent"
          PROVE  work'[x].at \in {"record", "done"}
      <4>1. work[x].at \in {"record", "done"}
        BY <2>3, <3>1, Zenon DEF StaleInv
      <4>2. work'[x] = work[x]
        BY <2>4, <2>7, Zenon DEF OnlyMoves, Workers
      <4> QED BY <4>1, <4>2
    <3>2. ASSUME NEW x \in Calls, work'[x].at \notin {"idle", "state", "done"},
                 work'[x].home # "files"
          PROVE  log'[work'[x].op].state # "absent"
      <4>1. work'[x] = work[x]
        BY <2>1, <2>4, <3>2, Zenon DEF OnlyMoves, Workers
      <4>2. log[work[x].op].state # "absent"
        BY <3>2, <4>1 DEF StaleInv
      <4> QED BY <2>3, <4>1, <4>2
    <3>3. ASSUME NEW x \in Workers, work'[x].at = "idle"
          PROVE  x \notin touched' \union ledger'
      <4>1. CASE x = c
        BY <2>3, <2>7, <4>1, Zenon
      <4>2. CASE x # c
        <5>1. work[x].at = "idle"
          BY <2>4, <3>3, <4>2 DEF OnlyMoves
        <5> QED BY <2>3, <5>1, Zenon DEF StaleInv
      <4> QED BY <4>1, <4>2
    <3>4. ASSUME NEW x \in stale'
          PROVE  /\ x \in Calls
                 /\ x \notin touched' \union ledger'
                 /\ work'[x].at = "done" \/ (work'[x].at = "state" /\ log'[work'[x].op].state = "over")
      <4>1. CASE x = c
        <5>1. log[o].state = "over"
          BY <2>3, <2>7, <3>4, <4>1, Zenon
        <5> QED BY <2>1, <2>3, <2>4, <2>7, <4>1, <5>1
      <4>2. CASE x # c
        <5>1. /\ x \in Calls /\ x \notin touched \union ledger
              /\ work[x].at = "done" \/ (work[x].at = "state" /\ log[work[x].op].state = "over")
          <6>1. x \in stale
            BY <2>3, <3>4, <4>2, Zenon
          <6> QED BY <6>1, Zenon DEF StaleInv
        <5>2. work'[x] = work[x]
          BY <2>4, <4>2, <5>1, Zenon DEF OnlyMoves, Workers
        <5> QED BY <2>3, <5>1, <5>2
      <4> QED BY <4>1, <4>2
    <3> QED BY <3>1, <3>2, <3>3, <3>4, Zenon DEF StaleInv
  <2>9. LogInv'
    BY <1>1, <2>3, Zenon DEF LogInv
  <2> QED BY <2>1, <2>2, <2>4, <2>5, <2>6, <2>8, <2>9, Zenon
<1> QED BY <1>3, <1>4, <1>5, Zenon DEF Ask, Workers

(* The front of a sequence.                                                *)
LEMMA SeqFront ==
    ASSUME NEW S, NEW q, NEW n \in Nat, \A i \in 1..n : q[i] \in S
    PROVE  /\ SubSeq(q, 1, n) \in Seq(S)
           /\ Len(SubSeq(q, 1, n)) = n
           /\ \A i \in 1..n : SubSeq(q, 1, n)[i] = q[i]
OBVIOUS

(* Taking the last element of a sequence.                                  *)
LEMMA SeqPop ==
    ASSUME NEW T, NEW q \in Seq(T), q # <<>>
    PROVE  /\ Len(q) \in 1..Len(q)
           /\ q[Len(q)] \in T
           /\ SubSeq(q, 1, Len(q) - 1) \in Seq(T)
           /\ Len(SubSeq(q, 1, Len(q) - 1)) = Len(q) - 1
           /\ \A i \in 1..(Len(q) - 1) :
                SubSeq(q, 1, Len(q) - 1)[i] = q[i] /\ i \in 1..Len(q)
<1>1. Len(q) \in Nat /\ Len(q) # 0
  OBVIOUS
<1>2. Len(q) \in 1..Len(q) /\ q[Len(q)] \in T
  BY <1>1
<1>3. \A i \in 1..(Len(q) - 1) : q[i] \in T /\ i \in 1..Len(q)
  BY <1>1
<1>4. Len(q) - 1 \in Nat
  BY <1>1
<1> DEFINE n == Len(q) - 1
<1> HIDE DEF n
<1>5. /\ SubSeq(q, 1, n) \in Seq(T)
      /\ Len(SubSeq(q, 1, n)) = n
      /\ \A i \in 1..n : SubSeq(q, 1, n)[i] = q[i]
  <2>1. n \in Nat /\ \A i \in 1..n : q[i] \in T
    BY <1>3, <1>4 DEF n
  <2> QED BY <2>1, SeqFront
<1> QED BY <1>2, <1>3, <1>5, Zenon DEF n

(* Ctrl+Z takes a sound receipt from the stack.                            *)
LEMMA CtrlZCalls ==
    ASSUME WorkInv, LogInv, StackInv, AuditInv, StaleInv, NEW c \in Calls, CtrlZ(c)
    PROVE  /\ WorkInv' /\ LogInv' /\ StackInv' /\ AuditInv' /\ StaleInv'
           /\ OnlyMoves(c) /\ work[c].at = "idle" /\ work'[c].at = "act"
<1>1. Usable' = Usable
  BY Zenon DEF CtrlZ, Usable
<1> DEFINE T == [kind : {"rename", "restore"}, a : Places, b : Paths]
           t == stack[Len(stack)]
           r == [Unborn EXCEPT !.at = "act", !.home = "files", !.task = t]
<1>2. stack \in Seq(T) /\ stack # <<>>
  BY Zenon DEF StackInv, CtrlZ
<1> HIDE DEF T
<1>3. Len(stack) \in 1..Len(stack) /\ t \in T
  BY <1>2, SeqPop
<1>4. Sound(t, Usable)
  BY <1>3, Zenon DEF StackInv
<1>5. t.kind \in {"rename", "restore"}
  BY <1>3 DEF T
<1>6. StackInv'
  <2>1. stack' = SubSeq(stack, 1, Len(stack) - 1)
    BY Zenon DEF CtrlZ
  <2>2. /\ stack' \in Seq(T)
        /\ Len(stack') = Len(stack) - 1
        /\ \A i \in 1..Len(stack') : stack'[i] = stack[i] /\ i \in 1..Len(stack)
    BY <1>2, <2>1, SeqPop
  <2> QED BY <1>1, <2>2, Zenon DEF StackInv, T
<1>7. /\ DOMAIN r = Fields /\ r.at = "act" /\ r.home = "files" /\ r.task = t
      /\ r.inv = None /\ r.saw = None
  BY DEF Unborn, Fields
<1>8. work' = [work EXCEPT ![c] = r] /\ work[c].at = "idle" /\ c \in Workers
  BY Zenon DEF CtrlZ, Fresh, At, Workers
<1>9. UNCHANGED <<log, stale>> /\ ledger' = ledger /\ touched' = touched
  BY Zenon DEF CtrlZ, quietCalls
<1> HIDE DEF r, t
<1>10. OnlyMoves(c) /\ work'[c] = r
  <2>1. DOMAIN work = Workers
    BY Zenon DEF WorkInv
  <2> QED BY <1>8, <2>1 DEF OnlyMoves
<1>11. WorkInv'
  BY <1>1, <1>4, <1>5, <1>7, <1>8, <1>10, BornSane, Zenon
<1>12. AuditInv'
  BY <1>7, <1>8, <1>9, <1>10, AuditKeeps, Zenon
<1>13. c \notin stale /\ c \notin Ops
  BY <1>8, CallsAssumption, Zenon DEF StaleInv
<1>14. StaleInv'
  BY <1>7, <1>8, <1>9, <1>10, <1>13, StaleKeeps, Zenon
<1>15. LogInv'
  BY <1>1, <1>9, Zenon DEF LogInv
<1> QED BY <1>6, <1>7, <1>8, <1>10, <1>11, <1>12, <1>14, <1>15, Zenon

(* Recording pushes a sound receipt.                                       *)
LEMMA StackStep ==
    ASSUME WorkInv, StackInv, SlotInv, NEW w \in Workers, FileStep(w)
    PROVE  StackInv'
<1>1. Usable' = Usable /\ (Record(w) => w \in Ops /\ work[w].at \in {"record", "both"})
  <2>1. Usable' = Usable
    BY FileStepSane, Zenon
  <2> QED BY <2>1, RecordSane, Zenon
<1>2. CASE UNCHANGED stack
  BY <1>1, <1>2, Zenon DEF StackInv
<1>3. CASE Record(w)
  <2> DEFINE T == [kind : {"rename", "restore"}, a : Places, b : Paths]
             t == BackInFiles(work[w].inv)
  <2>1. Sound(work[w].inv, Usable) /\ work[w].inv.kind \in {"path", "untrash"}
    BY <1>1, <1>3, Zenon DEF WorkInv, Sane
  <2>2. /\ t.kind = IF work[w].inv.kind = "path" THEN "rename" ELSE "restore"
        /\ t.a = work[w].inv.a
        /\ t.b = work[w].inv.b
        /\ t = [kind |-> t.kind, a |-> t.a, b |-> t.b]
    BY DEF BackInFiles
  <2> HIDE DEF t
  <2>3. Sound(t, Usable) /\ t.a \in Paths \union Usable /\ t.b \in Paths
        /\ t.kind \in {"rename", "restore"}
    BY <2>1, <2>2, Zenon DEF Sound, Kinds, Backward
  <2>4. t \in T
    BY <2>2, <2>3 DEF Places, Usable
  <2>5. stack \in Seq(T) /\ stack' = Append(stack, t)
    BY <1>3, Zenon DEF StackInv, Record, t
  <2> HIDE DEF T
  <2>6. /\ stack' \in Seq(T)
        /\ Len(stack') = Len(stack) + 1
        /\ \A i \in 1..Len(stack') : \/ stack'[i] = t
                                     \/ stack'[i] = stack[i] /\ i \in 1..Len(stack)
    BY <2>4, <2>5
  <2> QED BY <1>1, <2>3, <2>6, Zenon DEF StackInv, T
<1> QED
  BY <1>2, <1>3, Zenon
     DEF FileStep, Relocate, CreateNew, CaptureCreated, CreateFails, MatchFingerprint,
         RemoveCreated, TrashReserve, TrashPut, TrashDrop, Untrash, RemoveSidecar, RenameLook,
         RenameEntry, PickTrashName, ReserveTrashName, DiscardPut, DiscardRollback, RestoreLook,
         RestoreEntry, quietTrash, fileVars

(* A crash ends workers and forgets the stack.                             *)
LEMMA CrashCalls ==
    ASSUME WorkInv, LogInv, StackInv, AuditInv, StaleInv, NEW home \in Homes,
           Dies(home), StackDropped(home)
    PROVE  /\ WorkInv' /\ LogInv' /\ StackInv' /\ AuditInv' /\ StaleInv'
           /\ \A w \in Workers : work'[w] = work[w] \/ (work'[w] = Over /\ Running(w))
<1>1. Usable' = Usable
  BY Zenon DEF StackDropped, Usable
<1>2. /\ log' = log /\ ledger' = ledger /\ touched' = touched /\ stale' = stale
      /\ work' = [w \in Workers |-> IF Running(w) /\ work[w].home = home THEN Over ELSE work[w]]
  BY Zenon DEF Dies
<1>3. /\ DOMAIN work' = Workers
      /\ \A w \in Workers : work'[w] = work[w] \/ (work'[w] = Over /\ Running(w))
  BY <1>2
<1>4. WorkInv'
  BY <1>1, <1>3, SaneOver, Zenon DEF WorkInv
<1>5. LogInv'
  BY <1>1, <1>2, Zenon DEF LogInv
<1>6. StackInv'
  <2>1. CASE stack' = stack
    BY <1>1, <2>1, Zenon DEF StackInv
  <2>2. CASE stack' = <<>>
    <3>1. \A T : <<>> \in Seq(T)
      OBVIOUS
    <3>2. \A i \in 1..Len(<<>>) : FALSE
      OBVIOUS
    <3> QED BY <2>2, <3>1, <3>2, Zenon DEF StackInv
  <2> QED BY <2>1, <2>2, Zenon DEF StackDropped
<1>7. AuditInv'
  <2>1. "done" \notin ActStages
    BY DEF ActStages
  <2> QED BY <1>2, <1>3, <2>1, OverIs, Zenon DEF AuditInv
<1>8. StaleInv'
  <2>1. \A w \in Workers : work'[w] = work[w] \/ (work'[w].at = "done" /\ work[w].at # "idle")
    BY <1>3, OverIs, Zenon DEF Running
  <2>2. ASSUME NEW o \in Ops, log'[o].state # "absent"
        PROVE  work'[o].at \in {"record", "done"}
    <3>1. work[o].at \in {"record", "done"} /\ o \in Workers
      BY <1>2, <2>2, Zenon DEF StaleInv, Workers
    <3> QED BY <2>1, <3>1, Zenon
  <2>3. ASSUME NEW c \in Calls, work'[c].at \notin {"idle", "state", "done"},
               work'[c].home # "files"
        PROVE  log'[work'[c].op].state # "absent"
    <3>1. work'[c] = work[c]
      BY <2>1, <2>3, Zenon DEF Workers
    <3>2. log[work[c].op].state # "absent"
      BY <2>3, <3>1 DEF StaleInv
    <3> QED BY <1>2, <3>1, <3>2
  <2>4. ASSUME NEW w \in Workers, work'[w].at = "idle"
        PROVE  w \notin touched' \union ledger'
    <3>1. work[w].at = "idle"
      BY <2>1, <2>4
    <3> QED BY <1>2, <3>1, Zenon DEF StaleInv
  <2>5. ASSUME NEW c \in stale'
        PROVE  /\ c \in Calls
               /\ c \notin touched' \union ledger'
               /\ work'[c].at = "done" \/ (work'[c].at = "state" /\ log'[work'[c].op].state = "over")
    <3>1. /\ c \in Calls /\ c \notin touched \union ledger /\ c \in Workers
          /\ work[c].at = "done" \/ (work[c].at = "state" /\ log[work[c].op].state = "over")
      BY <1>2, <2>5, Zenon DEF StaleInv, Workers
    <3>2. work'[c] = work[c] \/ work'[c].at = "done"
      BY <2>1, <3>1, Zenon
    <3> QED BY <1>2, <3>1, <3>2
  <2> QED BY <2>2, <2>3, <2>4, <2>5, Zenon DEF StaleInv
<1> QED BY <1>3, <1>4, <1>5, <1>6, <1>7, <1>8, Zenon

(* Whoever empties the trash, saves or sets disturbs no worker.            *)
LEMMA QuietCalls ==
    ASSUME WorkInv, LogInv, StackInv, AuditInv, StaleInv,
           UNCHANGED <<work, log, ledger, touched, stale, stack>>,
           Usable \subseteq Usable'
    PROVE  WorkInv' /\ LogInv' /\ StackInv' /\ AuditInv' /\ StaleInv'
<1>1. \A t : Sound(t, Usable) => Sound(t, Usable')
  BY SoundWider, Zenon
<1>2. /\ work' = work /\ log' = log /\ ledger' = ledger /\ touched' = touched
      /\ stale' = stale /\ stack' = stack
  BY Zenon
<1>3. WorkInv'
  <2>1. \A w \in Workers : Sane(w, work[w], Usable')
    BY SaneWider, Zenon DEF WorkInv
  <2> QED BY <1>2, <2>1, Zenon DEF WorkInv
<1>4. LogInv'
  BY <1>1, <1>2, Zenon DEF LogInv
<1>5. StackInv'
  BY <1>1, <1>2, Zenon DEF StackInv
<1>6. AuditInv' /\ StaleInv'
  BY <1>2, Zenon DEF AuditInv, StaleInv
<1> QED BY <1>3, <1>4, <1>5, <1>6

-----------------------------------------------------------------------------
(* The user's documents.                                                   *)

Contents == UserFiles \union {Made, None}

(* What one step may do to the files: move one to a free place, replace or *)
(* remove one and say so, or make one.                                     *)
FileEffect(w) ==
    \/ fs' = fs /\ lost' = lost
    \/ \E from, to \in Places :
         /\ fs' = Moved(from, to)
         /\ \/ Free(to) /\ lost' = lost
            \/ Destroys(w, to, FALSE) /\ work[w].saw = None
    \/ \E p \in Places :
         /\ fs' = [fs EXCEPT ![p] = None]
         /\ \/ Destroys(w, p, FALSE) /\ work[w].saw = None
            \/ Destroys(w, p, work[w].saw # Made)
    \/ \E p \in Places :
         /\ Free(p)
         /\ fs' = [fs EXCEPT ![p] = Made]
         /\ lost' = lost

(* Nothing leaves the accounts.                                            *)
LEMMA Accounts ==
    ASSUME FileInv, fs' \in [Places -> Contents], info' \subseteq Slots,
           sweep' \in Slots \union {None}, spent \subseteq spent', spent' \subseteq UserFiles,
           lost \subseteq lost',
           \A q \in Places : fs[q] \in UserFiles =>
             \/ fs[q] \in spent'
             \/ \E p \in Places : fs'[p] = fs[q]
             \/ \E l \in lost' : l.file = fs[q],
           \A l \in lost' : l \in lost \/ (l.seen => l.late)
    PROVE  FileInv'
<1>1. FilesTypeOK'
  BY Zenon DEF FilesTypeOK, Contents
<1>2. \A l \in lost' : l.seen => l.late
  BY Zenon DEF FileInv, OnlyOvertakenFilesAreLost
<1>3. ASSUME NEW f \in UserFiles, \E p \in Places : FirstFiles[p] = f
      PROVE  \/ f \in spent'
             \/ \E p \in Places : fs'[p] = f
             \/ \E l \in lost' : l.file = f
  <2>1. \/ f \in spent
        \/ \E p \in Places : fs[p] = f
        \/ \E l \in lost : l.file = f
    BY <1>3, Zenon DEF FileInv, OnlyOvertakenFilesAreLost
  <2>2. CASE \E p \in Places : fs[p] = f
    BY <2>2, Zenon
  <2> QED BY <2>1, <2>2, Zenon
<1> QED BY <1>1, <1>2, <1>3, Zenon DEF FileInv, OnlyOvertakenFilesAreLost

(* What is destroyed is in the list of losses.                             *)
LEMMA DestroysSays ==
    ASSUME NEW w \in Workers, NEW p \in Places, NEW late \in BOOLEAN, Destroys(w, p, late),
           fs[p] \in UserFiles /\ work[w].saw = fs[p] => late
    PROVE  /\ lost \subseteq lost'
           /\ fs[p] \in UserFiles => \E l \in lost' : l.file = fs[p]
           /\ \A l \in lost' : l \in lost \/ (l.seen => l.late)
<1> DEFINE r == [file |-> fs[p], seen |-> work[w].saw = fs[p], late |-> late]
<1>1. r.file = fs[p] /\ (r.seen = (work[w].saw = fs[p])) /\ (r.late = late)
  OBVIOUS
<1> HIDE DEF r
<1>2. lost' = IF fs[p] \in UserFiles THEN lost \union {r} ELSE lost
  BY Zenon DEF Destroys, r
<1> QED BY <1>1, <1>2, Zenon

LEMMA EffectKeeps ==
    ASSUME FileInv, NEW w \in Workers, FileEffect(w), info' \subseteq Slots,
           UNCHANGED <<sweep, spent>>
    PROVE  FileInv'
<1>1. /\ fs \in [Places -> Contents] /\ sweep' \in Slots \union {None}
      /\ spent \subseteq spent' /\ spent' \subseteq UserFiles
  BY Zenon DEF FileInv, FilesTypeOK, Contents
<1>2. /\ None \notin UserFiles /\ None \in Contents /\ Made \in Contents /\ Made \notin UserFiles
  BY FilesAssumption, Zenon DEF Contents
<1>3. CASE fs' = fs /\ lost' = lost
  BY <1>1, <1>3, Accounts, Zenon
<1>4. ASSUME NEW from \in Places, NEW to \in Places, fs' = Moved(from, to),
             \/ Free(to) /\ lost' = lost
             \/ Destroys(w, to, FALSE) /\ work[w].saw = None
      PROVE  FileInv'
  <2>1. /\ fs' \in [Places -> Contents]
        /\ fs'[to] = fs[from]
        /\ \A q \in Places : q # from /\ q # to => fs'[q] = fs[q]
    BY <1>1, <1>2, <1>4 DEF Moved
  <2>2. /\ lost \subseteq lost'
        /\ fs[to] \in UserFiles => \E l \in lost' : l.file = fs[to]
        /\ \A l \in lost' : l \in lost \/ (l.seen => l.late)
    <3>1. CASE Free(to) /\ lost' = lost
      BY <1>2, <3>1, Zenon DEF Free
    <3>2. CASE Destroys(w, to, FALSE) /\ work[w].saw = None
      BY <1>2, <3>2, DestroysSays, Zenon
    <3> QED BY <1>4, <3>1, <3>2, Zenon
  <2>3. \A q \in Places : fs[q] \in UserFiles =>
             \/ \E p \in Places : fs'[p] = fs[q]
             \/ \E l \in lost' : l.file = fs[q]
    BY <2>1, <2>2, Zenon
  <2> QED BY <1>1, <2>1, <2>2, <2>3, Accounts, Zenon
<1>5. ASSUME NEW p \in Places, fs' = [fs EXCEPT ![p] = None],
             \/ Destroys(w, p, FALSE) /\ work[w].saw = None
             \/ Destroys(w, p, work[w].saw # Made)
      PROVE  FileInv'
  <2>1. /\ fs' \in [Places -> Contents]
        /\ \A q \in Places : q # p => fs'[q] = fs[q]
    BY <1>1, <1>2, <1>5
  <2>2. /\ lost \subseteq lost'
        /\ fs[p] \in UserFiles => \E l \in lost' : l.file = fs[p]
        /\ \A l \in lost' : l \in lost \/ (l.seen => l.late)
    <3>1. CASE Destroys(w, p, FALSE) /\ work[w].saw = None
      BY <1>2, <3>1, DestroysSays, Zenon
    <3>2. CASE Destroys(w, p, work[w].saw # Made)
      <4>1. fs[p] \in UserFiles /\ work[w].saw = fs[p] => work[w].saw # Made
        BY <1>2, Zenon
      <4>2. (work[w].saw # Made) \in BOOLEAN
        BY Zenon
      <4> QED BY <3>2, <4>1, <4>2, DestroysSays, Zenon
    <3> QED BY <1>5, <3>1, <3>2, Zenon
  <2>3. \A q \in Places : fs[q] \in UserFiles =>
             \/ \E x \in Places : fs'[x] = fs[q]
             \/ \E l \in lost' : l.file = fs[q]
    BY <2>1, <2>2, Zenon
  <2> QED BY <1>1, <2>1, <2>2, <2>3, Accounts, Zenon
<1>6. ASSUME NEW p \in Places, Free(p), fs' = [fs EXCEPT ![p] = Made], lost' = lost
      PROVE  FileInv'
  <2>1. /\ fs' \in [Places -> Contents]
        /\ \A q \in Places : q # p => fs'[q] = fs[q]
    BY <1>1, <1>2, <1>6
  <2>2. \A q \in Places : fs[q] \in UserFiles => \E x \in Places : fs'[x] = fs[q]
    BY <1>2, <1>6, <2>1, Zenon DEF Free
  <2> QED BY <1>1, <1>6, <2>1, <2>2, Accounts, Zenon
<1> QED BY <1>3, <1>4, <1>5, <1>6, Zenon DEF FileEffect

(* Where the worker's places are.                                          *)
LEMMA PlacesOf ==
    ASSUME WorkInv, NEW w \in Workers, work[w].at \in ActStages
    PROVE  /\ work[w].task.kind \notin {"set", "value"} => From(w) \in Places
           /\ work[w].task.kind \in {"move", "path", "rename", "untrash", "restore"} => To(w) \in Places
           /\ work[w].at \in SlotStages => work[w].slot \in Places /\ work[w].slot \in Slots
           /\ work[w].at # "matched" => work[w].saw = None
           /\ work[w].at = "matched" => work[w].saw = To(w)
           /\ Suits(work[w])
<1>1. Tasked(w, work[w], Usable) /\ Sane(w, work[w], Usable)
  BY TaskedAt, StageKinds, Zenon DEF WorkInv
<1>2. Usable \subseteq Slots
  BY DEF Usable
<1>3. /\ work[w].task.kind \notin {"set", "value"} => From(w) \in Places
      /\ work[w].task.kind \in {"move", "path", "rename", "untrash", "restore"} => To(w) \in Places
  BY <1>1, <1>2, Zenon DEF Tasked, Sound, From, To, Places, Kinds, Backward
<1>4. Suits(work[w]) /\ (work[w].at \in SlotStages => work[w].slot \in Slots)
  BY <1>1, Zenon DEF Tasked
<1>5. /\ work[w].at # "matched" => work[w].saw = None
      /\ work[w].at = "matched" => work[w].saw = To(w)
  BY <1>1, Zenon DEF Sane, To
<1> QED BY <1>3, <1>4, <1>5, Zenon DEF Places

LEMMA FileEffects ==
    ASSUME WorkInv, SlotInv, FileInv, NEW w \in Workers, FileStep(w)
    PROVE  FileEffect(w) /\ info' \subseteq Slots
<1>1. info \subseteq Slots
  BY Zenon DEF FileInv, FilesTypeOK
<1>2. CASE Record(w)
  BY <1>1, <1>2, Zenon DEF Record, FileEffect
<1>3. CASE ~Record(w)
  <2>1. work[w].at \in ActStages
    BY <1>3, FileStepAt, Zenon
  <2>2. /\ work[w].task.kind \notin {"set", "value"} => From(w) \in Places
        /\ work[w].task.kind \in {"move", "path", "rename", "untrash", "restore"} => To(w) \in Places
        /\ work[w].at \in SlotStages => work[w].slot \in Places /\ work[w].slot \in Slots
        /\ work[w].at # "matched" => work[w].saw = None
        /\ work[w].at = "matched" => work[w].saw = To(w)
        /\ Suits(work[w])
    BY <2>1, PlacesOf, Zenon
  <2>3. {"put", "drop", "next", "picked", "rollback", "rollback2"} = SlotStages
    BY DEF SlotStages
  <2> USE DEF Doing, At, quietTrash, fileVars
  <2>4. CASE Relocate(w)
    <3>1. From(w) \in Places /\ To(w) \in Places
      BY <2>2, <2>4, Zenon DEF Relocate
    <3> QED BY <1>1, <2>4, <3>1, Zenon DEF Relocate, FileEffect
  <2>5. CASE CreateNew(w)
    <3>1. From(w) \in Places
      BY <2>2, <2>5, Zenon DEF CreateNew
    <3> QED BY <1>1, <2>5, <3>1, Zenon DEF CreateNew, FileEffect
  <2>6. CASE CreateFails(w)
    <3>1. From(w) \in Places /\ work[w].saw = None
      BY <2>2, <2>6, Zenon DEF CreateFails, Suits
    <3> QED BY <1>1, <2>6, <3>1, Zenon DEF CreateFails, FileEffect
  <2>7. CASE RemoveCreated(w)
    <3>1. From(w) \in Places /\ work[w].saw = To(w)
      BY <2>2, <2>7, Zenon DEF RemoveCreated, Suits
    <3>2. CASE Destroys(w, From(w), To(w) # Made) /\ fs' = [fs EXCEPT ![From(w)] = None]
      <4>1. Destroys(w, From(w), work[w].saw # Made)
        BY <3>1, <3>2, Zenon
      <4> QED BY <1>1, <2>7, <3>1, <3>2, <4>1, Zenon DEF RemoveCreated, FileEffect
    <3> QED BY <1>1, <2>7, <3>2, Zenon DEF RemoveCreated, FileEffect
  <2>8. CASE TrashReserve(w)
    BY <1>1, <2>8, Zenon DEF TrashReserve, FileEffect
  <2>9. CASE TrashPut(w)
    <3>1. From(w) \in Places /\ work[w].slot \in Places
      BY <2>2, <2>3, <2>9, Zenon DEF TrashPut
    <3> QED BY <1>1, <2>9, <3>1, Zenon DEF TrashPut, FileEffect
  <2>10. CASE TrashDrop(w)
    BY <1>1, <2>10, Zenon DEF TrashDrop, FileEffect
  <2>11. CASE Untrash(w)
    <3>1. From(w) \in Places /\ To(w) \in Places
      BY <2>2, <2>11, Zenon DEF Untrash
    <3> QED BY <1>1, <2>11, <3>1, Zenon DEF Untrash, FileEffect
  <2>12. CASE RemoveSidecar(w)
    BY <1>1, <2>12, Zenon DEF RemoveSidecar, FileEffect
  <2>13. CASE RenameEntry(w)
    <3>1. From(w) \in Places /\ To(w) \in Places /\ work[w].saw = None
      BY <2>2, <2>13, Zenon DEF RenameEntry
    <3> QED BY <1>1, <2>13, <3>1, Zenon DEF RenameEntry, FileEffect
  <2>14. CASE ReserveTrashName(w)
    <3>1. work[w].slot \in Slots
      BY <2>2, <2>3, <2>14, Zenon DEF ReserveTrashName
    <3> QED BY <1>1, <2>14, <3>1, Zenon DEF ReserveTrashName, FileEffect
  <2>15. CASE DiscardPut(w)
    <3>1. From(w) \in Places /\ work[w].slot \in Places /\ work[w].saw = None
      BY <2>2, <2>3, <2>15, Zenon DEF DiscardPut
    <3> QED BY <1>1, <2>15, <3>1, Zenon DEF DiscardPut, FileEffect
  <2>16. CASE DiscardRollback(w)
    <3>1. work[w].slot \in Places /\ work[w].saw = None
      BY <2>2, <2>3, <2>16, Zenon DEF DiscardRollback
    <3> QED BY <1>1, <2>16, <3>1, Zenon DEF DiscardRollback, FileEffect
  <2>17. CASE RestoreEntry(w)
    <3>1. From(w) \in Places /\ To(w) \in Places /\ work[w].saw = None
      BY <2>2, <2>17, Zenon DEF RestoreEntry
    <3> QED BY <1>1, <2>17, <3>1, Zenon DEF RestoreEntry, FileEffect
  <2>18. CASE \/ CaptureCreated(w) \/ MatchFingerprint(w) \/ RenameLook(w)
              \/ PickTrashName(w) \/ RestoreLook(w)
    BY <1>1, <2>18, Zenon DEF CaptureCreated, MatchFingerprint, RenameLook, PickTrashName,
                              RestoreLook, FileEffect
  <2> QED
    BY <1>3, <2>4, <2>5, <2>6, <2>7, <2>8, <2>9, <2>10, <2>11, <2>12, <2>13, <2>14, <2>15,
       <2>16, <2>17, <2>18, Zenon DEF FileStep
<1> QED BY <1>2, <1>3

LEMMA FileStepFiles ==
    ASSUME WorkInv, SlotInv, FileInv, NEW w \in Workers, FileStep(w)
    PROVE  FileInv'
BY FileEffects, EffectKeeps, FileFrame, Zenon

-----------------------------------------------------------------------------
(* The trash slots.                                                        *)

(* A step that concerns slot t alone needs to answer for t alone.          *)
LEMMA SlotKeeps ==
    ASSUME SlotInv, NEW w \in Workers, NEW t, OnlyMoves(w), UNCHANGED <<sweep, sweeps>>,
           \A s \in Slots : s # t => fs'[s] = fs[s] /\ (s \in info' <=> s \in info),
           \A s \in Slots : Holds(work'[w], s) => s = t \/ Holds(work[w], s),
           sweeps = 0 /\ t \in Slots =>
             /\ t \notin Usable => fs'[t] = fs[t]
             /\ t \in Usable /\ fs'[t] # None => t \in info'
             /\ \A x \in Workers : Holds(work'[x], t) =>
                  /\ t \in info'
                  /\ t \in Usable => fs'[t] = None
                  /\ \A y \in Workers : Holds(work'[y], t) => y = x
    PROVE  SlotInv'
<1>1. Usable' = Usable /\ sweeps' = sweeps /\ sweep' = sweep
  BY Zenon DEF Usable
<1>2. SUFFICES ASSUME sweeps = 0
               PROVE  /\ \A s \in Slots \ Usable : fs'[s] = FirstFiles[s]
                      /\ \A s \in Usable : fs'[s] # None => s \in info'
                      /\ \A s \in Slots, x \in Workers : Holds(work'[x], s) =>
                           /\ s \in info'
                           /\ s \in Usable => fs'[s] = None
                           /\ \A y \in Workers : Holds(work'[y], s) => y = x
  BY <1>1, Zenon DEF SlotInv, Free
<1>3. /\ \A s \in Slots \ Usable : fs[s] = FirstFiles[s]
      /\ \A s \in Usable : fs[s] # None => s \in info
      /\ \A s \in Slots, x \in Workers : Holds(work[x], s) =>
           /\ s \in info
           /\ s \in Usable => fs[s] = None
           /\ \A y \in Workers : Holds(work[y], s) => y = x
  BY <1>2, Zenon DEF SlotInv, Free
<1>4. Usable \subseteq Slots
  BY DEF Usable
<1>5. \A s \in Slots \ Usable : fs'[s] = FirstFiles[s]
  BY <1>2, <1>3, Zenon
<1>6. \A s \in Usable : fs'[s] # None => s \in info'
  BY <1>2, <1>3, <1>4, Zenon
<1>7. ASSUME NEW s \in Slots, s # t, NEW x \in Workers, Holds(work'[x], s)
      PROVE  Holds(work[x], s)
  BY <1>7, Zenon DEF OnlyMoves
<1>8. ASSUME NEW s \in Slots, NEW x \in Workers, Holds(work'[x], s)
      PROVE  /\ s \in info'
             /\ s \in Usable => fs'[s] = None
             /\ \A y \in Workers : Holds(work'[y], s) => y = x
  <2>1. CASE s = t
    BY <1>2, <1>8, <2>1
  <2>2. CASE s # t
    BY <1>3, <1>7, <1>8, <2>2, Zenon
  <2> QED BY <2>1, <2>2
<1> QED BY <1>5, <1>6, <1>8

(* Nothing about slots.                                                    *)
LEMMA SlotsAside ==
    ASSUME SlotInv, NEW w \in Workers, OnlyMoves(w), UNCHANGED <<sweep, sweeps>>,
           \A s \in Slots : fs'[s] = fs[s] /\ (s \in info' <=> s \in info),
           \/ work'[w].at \notin {"put", "drop", "next", "rollback", "sidecar"}
           \/ /\ work[w].at \in {"put", "drop", "next", "rollback"}
              /\ work'[w].at \in {"put", "drop", "next", "rollback"}
              /\ work'[w].slot = work[w].slot
    PROVE  SlotInv'
<1>1. \A s \in Slots : Holds(work'[w], s) => Holds(work[w], s)
  BY Zenon DEF Holds
<1>2. None \notin Slots
  BY FilesAssumption, Zenon
<1> QED BY <1>1, <1>2, SlotKeeps, Zenon

(* What holding and not being listed mean.                                 *)
LEMMA HeldSlot ==
    ASSUME SlotInv, sweeps = 0, NEW w \in Workers, NEW t \in Slots, Holds(work[w], t)
    PROVE  /\ t \in info
           /\ t \in Usable => fs[t] = None
           /\ \A x \in Workers : x # w => ~Holds(work[x], t)
BY Zenon DEF SlotInv, Free

LEMMA UnheldSlot ==
    ASSUME SlotInv, sweeps = 0, NEW t \in Slots,
           t \notin info \/ (t \in Usable /\ fs[t] # None)
    PROVE  /\ \A x \in Workers : ~Holds(work[x], t)
           /\ t \in Usable /\ fs[t] # None => t \in info
           /\ t \notin info /\ t \in Usable => fs[t] = None
BY Zenon DEF SlotInv, Free

(* Taking hold of a slot that nobody holds, or letting one go.             *)
LEMMA TakeSlot ==
    ASSUME SlotInv, NEW w \in Workers, NEW t \in Slots, OnlyMoves(w), UNCHANGED <<sweep, sweeps>>,
           \A s \in Slots : s # t => fs'[s] = fs[s] /\ (s \in info' <=> s \in info),
           \A s \in Slots : Holds(work'[w], s) => s = t,
           t \in info',
           sweeps = 0 => \/ t \notin info /\ fs'[t] = fs[t]
                         \/ t \in Usable /\ fs[t] # None /\ fs'[t] = None
    PROVE  SlotInv'
<1>1. ASSUME sweeps = 0
      PROVE  /\ t \notin Usable => fs'[t] = fs[t]
             /\ t \in Usable => fs'[t] = None
             /\ \A x \in Workers : Holds(work'[x], t) =>
                  \A y \in Workers : Holds(work'[y], t) => y = x
  <2>1. /\ \A x \in Workers : ~Holds(work[x], t)
        /\ t \notin info /\ t \in Usable => fs[t] = None
    BY <1>1, UnheldSlot, Zenon
  <2>2. \A x \in Workers : Holds(work'[x], t) => x = w
    BY <2>1, Zenon DEF OnlyMoves
  <2>3. t \in Usable => fs'[t] = None
    BY <1>1, <2>1, Zenon
  <2>4. t \notin Usable => fs'[t] = fs[t]
    BY <1>1, Zenon
  <2> QED BY <2>2, <2>3, <2>4, Zenon
<1>2. \A s \in Slots : Holds(work'[w], s) => s = t \/ Holds(work[w], s)
  BY Zenon
<1> QED BY <1>1, <1>2, SlotKeeps, Zenon

LEMMA LeaveSlot ==
    ASSUME SlotInv, NEW w \in Workers, NEW t \in Slots, OnlyMoves(w), UNCHANGED <<sweep, sweeps>>,
           Holds(work[w], t),
           \A s \in Slots : ~Holds(work'[w], s),
           \A s \in Slots : s # t => fs'[s] = fs[s] /\ (s \in info' <=> s \in info),
           sweeps = 0 => \/ fs'[t] = fs[t]
                         \/ t \in Usable /\ (t \in info => t \in info')
    PROVE  SlotInv'
<1>1. ASSUME sweeps = 0
      PROVE  /\ t \notin Usable => fs'[t] = fs[t]
             /\ t \in Usable /\ fs'[t] # None => t \in info'
             /\ \A x \in Workers : ~Holds(work'[x], t)
  <2>1. /\ t \in info
        /\ t \in Usable => fs[t] = None
        /\ \A x \in Workers : x # w => ~Holds(work[x], t)
    BY <1>1, HeldSlot, Zenon
  <2>2. \A x \in Workers : ~Holds(work'[x], t)
    BY <2>1, Zenon DEF OnlyMoves
  <2>3. t \in Usable /\ fs'[t] # None => t \in info'
    BY <1>1, <2>1, Zenon
  <2>4. t \notin Usable => fs'[t] = fs[t]
    BY <1>1, Zenon
  <2> QED BY <2>2, <2>3, <2>4, Zenon
<1>2. \A s \in Slots : Holds(work'[w], s) => s = t \/ Holds(work[w], s)
  BY Zenon
<1> QED BY <1>1, <1>2, SlotKeeps, Zenon

(* A worker that is over or has acted holds nothing.                       *)
LEMMA DoneHolds ==
    ASSUME WorkInv, NEW w \in Workers, NEW inv, Ends(w) \/ Acted(w, inv)
    PROVE  /\ OnlyMoves(w)
           /\ work'[w].at \in {"done", "submit", "both", "mark"}
           /\ \A s \in Slots : ~Holds(work'[w], s)
<1>1. OnlyMoves(w) /\ work'[w].at \in {"done", "submit", "both", "mark"}
  BY Ending, ActedMoves, OverIs, Zenon
<1> QED BY <1>1, Zenon DEF Holds

LEMMA MovedFiles ==
    ASSUME FileInv, NEW from \in Places, NEW to \in Places, fs' = Moved(from, to)
    PROVE  /\ fs'[to] = fs[from]
           /\ from # to => fs'[from] = None
           /\ \A q \in Places : q # from /\ q # to => fs'[q] = fs[q]
<1>1. fs \in [Places -> Contents]
  BY Zenon DEF FileInv, FilesTypeOK, Contents
<1> QED BY <1>1 DEF Moved

LEMMA PathsAside ==
    /\ Paths \intersect Slots = {}
    /\ Paths \subseteq Places
    /\ Slots \subseteq Places
BY FilesAssumption, Zenon DEF Places

(* The sound places of a worker by what it was asked.                      *)
LEMMA TaskPlaces ==
    ASSUME WorkInv, NEW w \in Workers, work[w].at \in ActStages
    PROVE  /\ work[w].task.kind \in {"move", "path", "rename", "trash", "discard", "create", "delete"}
                => From(w) \in Paths
           /\ work[w].task.kind \in {"move", "path", "rename", "untrash", "restore"} => To(w) \in Paths
           /\ work[w].task.kind \in {"untrash", "restore"} => From(w) \in Usable
           /\ work[w].at \in SlotStages => work[w].slot \in Slots
           /\ work[w].at \in SlotStages /\ work[w].task.kind = "discard" => work[w].slot \in Usable
           /\ Suits(work[w])
<1>1. Tasked(w, work[w], Usable)
  BY TaskedAt, StageKinds, Zenon
<1>2. Sound(work[w].task, Usable)
  BY <1>1, Zenon DEF Tasked
<1>3. /\ work[w].task.kind \in {"move", "path", "rename", "trash", "discard", "create", "delete"}
                => From(w) \in Paths
      /\ work[w].task.kind \in {"move", "path", "rename", "untrash", "restore"} => To(w) \in Paths
      /\ work[w].task.kind \in {"untrash", "restore"} => From(w) \in Usable
  BY <1>2, Zenon DEF Sound, From, To
<1> QED BY <1>1, <1>3, Zenon DEF Tasked

(* Steps that touch folders only.                                          *)
LEMMA FolderSlots ==
    ASSUME WorkInv, SlotInv, FileInv, NEW w \in Workers, OnlyMoves(w),
           UNCHANGED <<sweep, sweeps>>, work[w].at \in ActStages,
           \/ Relocate(w) \/ CreateNew(w) \/ CaptureCreated(w) \/ CreateFails(w)
           \/ MatchFingerprint(w) \/ RemoveCreated(w) \/ RenameLook(w) \/ RenameEntry(w)
           \/ PickTrashName(w) \/ RestoreLook(w)
    PROVE  SlotInv'
<1> USE DEF quietTrash, fileVars, Doing, At
<1>1. /\ DOMAIN work = Workers /\ DOMAIN work[w] = Fields
      /\ fs \in [Places -> Contents]
  BY Zenon DEF WorkInv, Sane, FileInv, FilesTypeOK, Contents
<1>2. info' = info
  BY Zenon DEF Relocate, CreateNew, CaptureCreated, CreateFails, MatchFingerprint, RemoveCreated,
               RenameLook, RenameEntry, PickTrashName, RestoreLook
<1>3. /\ work[w].task.kind \in {"move", "path", "rename", "trash", "discard", "create", "delete"}
           => From(w) \in Paths
      /\ work[w].task.kind \in {"move", "path", "rename", "untrash", "restore"} => To(w) \in Paths
      /\ Suits(work[w])
  BY TaskPlaces, Zenon
<1>4. \A s \in Slots : fs'[s] = fs[s]
  <2>1. CASE fs' = fs
    BY <2>1, Zenon
  <2>2. CASE (Relocate(w) \/ RenameEntry(w)) /\ fs' = Moved(From(w), To(w))
    <3>1. From(w) \in Paths /\ To(w) \in Paths
      BY <1>3, <2>2, Zenon DEF Relocate, RenameEntry
    <3> QED BY <2>2, <3>1, MovedFiles, PathsAside, Zenon
  <2>3. CASE (CreateNew(w) \/ CreateFails(w) \/ RemoveCreated(w)) /\ fs' # fs
    <3>1. From(w) \in Paths
      BY <1>3, <2>3, Zenon DEF CreateNew, CreateFails, RemoveCreated, Suits
    <3>2. fs' = [fs EXCEPT ![From(w)] = Made] \/ fs' = [fs EXCEPT ![From(w)] = None]
      BY <2>3, Zenon DEF CreateNew, CreateFails, RemoveCreated
    <3>3. \A s \in Slots : s \in Places /\ s # From(w)
      BY <3>1, PathsAside, Zenon
    <3> QED BY <1>1, <3>2, <3>3
  <2> QED
    BY <2>1, <2>2, <2>3, Zenon
       DEF Relocate, CreateNew, CaptureCreated, CreateFails, MatchFingerprint, RemoveCreated,
           RenameLook, RenameEntry, PickTrashName, RestoreLook
<1>5. work'[w].at \notin {"put", "drop", "next", "rollback", "sidecar"}
  <2>1. CASE Ends(w)
    BY <2>1, DoneHolds, Zenon
  <2>2. CASE \E inv : Acted(w, inv)
    BY <2>2, DoneHolds, Zenon
  <2>3. CASE \E stage \in {"written", "looked"} : Goes(w, stage)
    BY <2>3, Going, Zenon
  <2>4. CASE MatchFingerprint(w) /\ ~Ends(w)
    <3>1. work' = [work EXCEPT ![w].at = "matched", ![w].saw = fs[From(w)]]
      BY <2>4, Zenon DEF MatchFingerprint
    <3>2. work'[w].at = "matched"
      BY <1>1, <3>1 DEF Fields
    <3> QED BY <3>2
  <2>5. CASE RenameLook(w) /\ ~Ends(w)
    <3>1. work' = [work EXCEPT ![w].at = "looked", ![w].saw = None]
      BY <2>5, Zenon DEF RenameLook
    <3>2. work'[w].at = "looked"
      BY <1>1, <3>1 DEF Fields
    <3> QED BY <3>2
  <2>6. CASE PickTrashName(w) /\ ~Ends(w)
    <3>1. PICK s \in Slots : work' = [work EXCEPT ![w].at = "picked", ![w].slot = s,
                                                  ![w].tried = @ \union {s}]
      BY <2>6, Zenon DEF PickTrashName
    <3>2. work'[w].at = "picked"
      BY <3>1, TakesSlot, Zenon
    <3> QED BY <3>2
  <2> QED
    BY <2>1, <2>2, <2>3, <2>4, <2>5, <2>6, Zenon
       DEF Relocate, CreateNew, CaptureCreated, CreateFails, RemoveCreated,
           RenameEntry, RestoreLook
<1> QED BY <1>2, <1>4, <1>5, SlotsAside, Zenon

(* Steps that take, fill, empty or give up a slot.                         *)
LEMMA TrashSlots ==
    ASSUME WorkInv, SlotInv, FileInv, NEW w \in Workers, OnlyMoves(w),
           UNCHANGED <<sweep, sweeps>>, work[w].at \in ActStages,
           TrashReserve(w) \/ TrashPut(w) \/ TrashDrop(w)
    PROVE  SlotInv'
<1> USE DEF quietTrash, Doing, At
<1>0. DOMAIN work = Workers /\ DOMAIN work[w] = Fields
  BY Zenon DEF WorkInv, Sane
<1>1. /\ work[w].task.kind = "trash" => From(w) \in Paths
      /\ work[w].at \in SlotStages => work[w].slot \in Slots
  BY TaskPlaces, Zenon
<1>2. {"put", "drop", "next"} \subseteq SlotStages
  BY DEF SlotStages
<1>3. CASE TrashReserve(w) /\ Ends(w)
  <2>1. work'[w].at = "done"
    BY <1>3, Ending, OverIs, Zenon
  <2>2. info' = info /\ fs' = fs
    <3>1. ASSUME NEW s, NEW stage \in {"put", "drop"},
                 work' = [work EXCEPT ![w].at = stage, ![w].slot = s,
                                      ![w].tried = @ \union {s}]
          PROVE  FALSE
      <4>1. work'[w].at = stage
        BY <1>0, <3>1 DEF Fields
      <4> QED BY <2>1, <4>1
    <3> QED BY <1>3, <3>1, Zenon DEF TrashReserve
  <2> QED BY <2>1, <2>2, SlotsAside, Zenon
<1>4. CASE TrashReserve(w) /\ ~Ends(w)
  <2>1. PICK s \in Slots \ info, stage \in {"put", "drop"} :
          /\ info' = info \union {s}
          /\ work' = [work EXCEPT ![w].at = stage, ![w].slot = s, ![w].tried = @ \union {s}]
    BY <1>4, Zenon DEF TrashReserve
  <2>2. fs' = fs
    BY <1>4, Zenon DEF TrashReserve
  <2>3. work'[w].at = stage /\ work'[w].slot = s
    BY <1>0, <2>1 DEF Fields
  <2>4. \A x \in Slots : Holds(work'[w], x) => x = s
    BY <2>1, <2>3, Zenon DEF Holds
  <2> QED BY <2>1, <2>2, <2>4, TakeSlot, Zenon
<1>5. CASE TrashPut(w) /\ (Goes(w, "next") \/ Goes(w, "drop"))
  <2>1. work[w].at = "put" /\ info' = info
    BY <1>5, Zenon DEF TrashPut
  <2>2. work'[w].at \in {"next", "drop"} /\ work'[w].slot = work[w].slot
    BY <1>5, Going, Zenon
  <2>3. fs' = fs
    <3>1. CASE \E inv : Acted(w, inv)
      BY <2>2, <3>1, DoneHolds, Zenon
    <3> QED BY <1>5, <3>1, Zenon DEF TrashPut
  <2> QED BY <2>1, <2>2, <2>3, SlotsAside, Zenon
<1>6. CASE TrashPut(w) /\ ~(Goes(w, "next") \/ Goes(w, "drop"))
  <2> DEFINE t == work[w].slot
  <2>1. /\ work[w].at = "put" /\ work[w].task.kind = "trash" /\ info' = info
        /\ Free(t) /\ fs' = Moved(From(w), t)
        /\ \E inv : Acted(w, inv)
    BY <1>6, Zenon DEF TrashPut
  <2>2. From(w) \in Paths /\ t \in Slots
    BY <1>1, <1>2, <2>1, Zenon
  <2>3. \A s \in Slots : s # t => fs'[s] = fs[s]
    <3>1. From(w) \in Places /\ t \in Places /\ \A s \in Slots : s \in Places /\ s # From(w)
      BY <2>2, PathsAside, Zenon
    <3>2. \A q \in Places : q # From(w) /\ q # t => fs'[q] = fs[q]
      BY <2>1, <3>1, MovedFiles
    <3> QED BY <3>1, <3>2, Zenon
  <2>4. Holds(work[w], t) /\ t \in Usable
    BY <2>1, <2>2, FreeIsUsable, Zenon DEF Holds
  <2>5. \A s \in Slots : ~Holds(work'[w], s)
    BY <2>1, DoneHolds, Zenon
  <2> QED BY <2>1, <2>2, <2>3, <2>4, <2>5, LeaveSlot, Zenon
<1>7. CASE TrashDrop(w)
  <2> DEFINE t == work[w].slot
  <2>1. work[w].at \in {"drop", "next"} /\ info' = info \ {t} /\ fs' = fs
    BY <1>7, Zenon DEF TrashDrop
  <2>2. t \in Slots /\ Holds(work[w], t)
    BY <1>1, <1>2, <2>1, Zenon DEF Holds
  <2>3. work'[w].at \in {"done", "act"}
    BY <1>7, Going, Ending, OverIs, Zenon DEF TrashDrop
  <2>4. \A s \in Slots : ~Holds(work'[w], s)
    BY <2>3, Zenon DEF Holds
  <2>5. \A s \in Slots : s # t => fs'[s] = fs[s] /\ (s \in info' <=> s \in info)
    BY <2>1, Zenon
  <2> QED BY <2>1, <2>2, <2>4, <2>5, LeaveSlot, Zenon
<1> QED BY <1>3, <1>4, <1>5, <1>6, <1>7, Zenon

LEMMA RestoreSlots ==
    ASSUME WorkInv, SlotInv, FileInv, NEW w \in Workers, OnlyMoves(w),
           UNCHANGED <<sweep, sweeps>>, work[w].at \in ActStages,
           Untrash(w) \/ RestoreEntry(w) \/ RemoveSidecar(w)
    PROVE  SlotInv'
<1> USE DEF quietTrash, Doing, At
<1> DEFINE t == From(w)
<1>1. t \in Usable /\ t \in Slots
  <2>1. work[w].task.kind \in {"untrash", "restore"}
    BY TaskPlaces, Zenon DEF Untrash, RestoreEntry, RemoveSidecar, Suits
  <2>2. t \in Usable
    BY <2>1, TaskPlaces, Zenon
  <2> QED BY <2>2 DEF Usable
<1>2. CASE ~RemoveSidecar(w) /\ Ends(w)
  <2>1. work'[w].at = "done" /\ info' = info
    BY <1>2, Ending, OverIs, Zenon DEF Untrash, RestoreEntry
  <2>2. fs' = fs
    <3>1. CASE Goes(w, "sidecar")
      BY <2>1, <3>1, Going
    <3> QED BY <1>2, <3>1, Zenon DEF Untrash, RestoreEntry
  <2> QED BY <2>1, <2>2, SlotsAside, Zenon
<1>3. CASE ~RemoveSidecar(w) /\ ~Ends(w)
  <2>1. /\ ~Free(t) /\ fs' = Moved(t, To(w)) /\ Goes(w, "sidecar") /\ info' = info
        /\ work[w].task.kind \in {"untrash", "restore"}
    BY <1>3, Zenon DEF Untrash, RestoreEntry
  <2>2. To(w) \in Paths
    BY <2>1, TaskPlaces, Zenon
  <2>3. /\ fs'[t] = None
        /\ \A s \in Slots : s # t => fs'[s] = fs[s]
    <3>1. /\ t \in Places /\ To(w) \in Places /\ t # To(w)
          /\ \A s \in Slots : s \in Places /\ s # To(w)
      BY <1>1, <2>2, PathsAside, Zenon
    <3>2. fs'[t] = None /\ \A q \in Places : q # t /\ q # To(w) => fs'[q] = fs[q]
      BY <2>1, <3>1, MovedFiles
    <3> QED BY <3>1, <3>2, Zenon
  <2>4. work'[w].at = "sidecar" /\ work'[w].task = work[w].task
    BY <2>1, Going, Zenon
  <2>5. \A s \in Slots : Holds(work'[w], s) => s = t
    BY <2>4, Zenon DEF Holds, From
  <2>6. CASE sweeps = 0
    <3>1. t \in info
      BY <1>1, <2>1, <2>6, UnheldSlot, Zenon DEF Free
    <3> QED BY <1>1, <2>1, <2>3, <2>5, <3>1, TakeSlot, Zenon DEF Free
  <2>7. CASE sweeps # 0
    BY <2>7, Zenon DEF SlotInv
  <2> QED BY <2>6, <2>7
<1>4. CASE RemoveSidecar(w)
  <2>1. work[w].at = "sidecar" /\ info' = info \ {t} /\ Acted(w, None) /\ fs' = fs
    BY <1>4, Zenon DEF RemoveSidecar
  <2>2. Holds(work[w], t)
    BY <2>1, Zenon DEF Holds, From
  <2>3. \A s \in Slots : ~Holds(work'[w], s)
    BY <2>1, DoneHolds, Zenon
  <2>4. \A s \in Slots : s # t => fs'[s] = fs[s] /\ (s \in info' <=> s \in info)
    BY <2>1, Zenon
  <2> QED BY <1>1, <2>1, <2>2, <2>3, <2>4, LeaveSlot, Zenon
<1> QED BY <1>2, <1>3, <1>4, Zenon

LEMMA DiscardSlots ==
    ASSUME WorkInv, SlotInv, FileInv, NEW w \in Workers, OnlyMoves(w),
           UNCHANGED <<sweep, sweeps>>, work[w].at \in ActStages,
           ReserveTrashName(w) \/ DiscardPut(w) \/ DiscardRollback(w)
    PROVE  SlotInv'
<1> USE DEF quietTrash, Doing, At
<1> DEFINE t == work[w].slot
<1>1. /\ t \in Usable /\ t \in Slots
      /\ work[w].task.kind = "discard" => From(w) \in Paths
  <2>1. work[w].at \in SlotStages
    BY Zenon DEF ReserveTrashName, DiscardPut, DiscardRollback, SlotStages
  <2>2. work[w].task.kind = "discard"
    BY TaskPlaces, Zenon DEF ReserveTrashName, DiscardPut, DiscardRollback, Suits
  <2> QED BY <2>1, <2>2, TaskPlaces, Zenon
<1>2. CASE ReserveTrashName(w) /\ t \in info
  <2>1. info' = info \union {t} /\ fs' = fs /\ Goes(w, "act")
    BY <1>2, Zenon DEF ReserveTrashName
  <2>2. work'[w].at = "act"
    BY <2>1, Going, Zenon
  <2>3. \A s \in Slots : s \in info' <=> s \in info
    BY <1>2, <2>1, Zenon
  <2> QED BY <2>1, <2>2, <2>3, SlotsAside, Zenon
<1>3. CASE ReserveTrashName(w) /\ t \notin info
  <2>1. info' = info \union {t} /\ fs' = fs /\ (Goes(w, "put") \/ Ends(w))
    BY <1>3, Zenon DEF ReserveTrashName
  <2>2. \/ work'[w].at = "put" /\ work'[w].slot = t
        \/ work'[w].at = "done"
    BY <2>1, Going, Ending, OverIs, Zenon
  <2>3. \A s \in Slots : Holds(work'[w], s) => s = t
    BY <2>2, Zenon DEF Holds
  <2>4. /\ t \in info'
        /\ \A s \in Slots : s # t => fs'[s] = fs[s] /\ (s \in info' <=> s \in info)
    BY <2>1, Zenon
  <2> QED BY <1>1, <1>3, <2>1, <2>3, <2>4, TakeSlot, Zenon
<1>4. CASE DiscardPut(w) /\ Goes(w, "rollback")
  <2>1. work[w].at = "put" /\ info' = info
    BY <1>4, Zenon DEF DiscardPut
  <2>2. work'[w].at = "rollback" /\ work'[w].slot = t
    BY <1>4, Going, Zenon
  <2>3. fs' = fs
    <3>1. CASE \E inv : Acted(w, inv)
      <4>1. work'[w].at \in {"done", "submit", "both", "mark"}
        BY <3>1, DoneHolds, Zenon
      <4> QED BY <2>2, <4>1
    <3> QED BY <1>4, <3>1, Zenon DEF DiscardPut
  <2> QED BY <2>1, <2>2, <2>3, SlotsAside, Zenon
<1>5. CASE DiscardPut(w) /\ ~Goes(w, "rollback")
  <2>1. /\ work[w].at = "put" /\ work[w].task.kind = "discard" /\ info' = info
        /\ fs' = Moved(From(w), t)
        /\ \E inv : Acted(w, inv)
    BY <1>5, Zenon DEF DiscardPut
  <2>2. \A s \in Slots : s # t => fs'[s] = fs[s]
    <3>1. From(w) \in Places /\ t \in Places /\ \A s \in Slots : s \in Places /\ s # From(w)
      BY <1>1, <2>1, PathsAside, Zenon
    <3>2. \A q \in Places : q # From(w) /\ q # t => fs'[q] = fs[q]
      BY <2>1, <3>1, MovedFiles
    <3> QED BY <3>1, <3>2, Zenon
  <2>3. Holds(work[w], t)
    BY <2>1, Zenon DEF Holds
  <2>4. \A s \in Slots : ~Holds(work'[w], s)
    BY <2>1, DoneHolds, Zenon
  <2> QED BY <1>1, <2>1, <2>2, <2>3, <2>4, LeaveSlot, Zenon
<1>6. CASE DiscardRollback(w) /\ work[w].at = "rollback"
  <2>1. info' = info \ {t} /\ fs' = fs /\ Goes(w, "rollback2")
    BY <1>6, Zenon DEF DiscardRollback
  <2>2. Holds(work[w], t)
    BY <1>6, Zenon DEF Holds
  <2>3. work'[w].at = "rollback2"
    BY <2>1, Going, Zenon
  <2>4. \A s \in Slots : ~Holds(work'[w], s)
    BY <2>3, Zenon DEF Holds
  <2>5. \A s \in Slots : s # t => fs'[s] = fs[s] /\ (s \in info' <=> s \in info)
    BY <2>1, Zenon
  <2> QED BY <1>1, <2>1, <2>2, <2>4, <2>5, LeaveSlot, Zenon
<1>7. CASE DiscardRollback(w) /\ work[w].at = "rollback2"
  <2>1. info' = info /\ fs' = [fs EXCEPT ![t] = None] /\ Ends(w)
    BY <1>7, Zenon DEF DiscardRollback
  <2>2. \A s \in Slots : ~Holds(work'[w], s)
    BY <2>1, DoneHolds, Zenon
  <2>3. fs'[t] = None /\ \A s \in Slots : s # t => fs'[s] = fs[s]
    <3>1. fs \in [Places -> Contents] /\ t \in Places /\ Slots \subseteq Places
      BY <1>1, PathsAside, Zenon DEF FileInv, FilesTypeOK, Contents
    <3> QED BY <2>1, <3>1
  <2>4. \A x \in Workers : Holds(work'[x], t) => Holds(work[x], t)
    BY <1>1, <2>2, Zenon DEF OnlyMoves
  <2>5. sweeps = 0 => \A x \in Workers : Holds(work[x], t) =>
            /\ t \in info
            /\ \A y \in Workers : Holds(work[y], t) => y = x
    BY <1>1, Zenon DEF SlotInv
  <2>6. \A s \in Slots : s # t => fs'[s] = fs[s] /\ (s \in info' <=> s \in info)
    BY <2>1, <2>3, Zenon
  <2>7. sweeps = 0 => \A x \in Workers : Holds(work'[x], t) =>
            /\ t \in info'
            /\ fs'[t] = None
            /\ \A y \in Workers : Holds(work'[y], t) => y = x
    BY <2>1, <2>3, <2>4, <2>5, Zenon
  <2> HIDE DEF t
  <2> QED BY <1>1, <2>2, <2>3, <2>6, <2>7, SlotKeeps, Zenon
<1> QED BY <1>2, <1>3, <1>4, <1>5, <1>6, <1>7, Zenon DEF DiscardRollback

LEMMA FileStepSlots ==
    ASSUME WorkInv, SlotInv, FileInv, NEW w \in Workers, FileStep(w)
    PROVE  SlotInv'
<1>1. OnlyMoves(w)
  BY FileStepSane, Zenon DEF Proceeds
<1>2. UNCHANGED <<sweep, sweeps>>
  BY FileFrame, Zenon
<1>3. CASE Record(w)
  <2>1. fs' = fs /\ info' = info
    BY <1>3, Zenon DEF Record
  <2>2. work'[w].at \in {"submit", "done"}
    BY <1>3, Going, Ending, OverIs, Zenon DEF Record
  <2> QED BY <1>1, <1>2, <2>1, <2>2, SlotsAside, Zenon
<1>4. CASE ~Record(w)
  <2>1. work[w].at \in ActStages
    BY <1>4, FileStepAt, Zenon
  <2> QED BY <1>1, <1>2, <1>4, <2>1, FolderSlots, TrashSlots, RestoreSlots, DiscardSlots, Zenon
             DEF FileStep
<1> QED BY <1>3, <1>4

(* A crash lets slots go and takes none.                                   *)
LEMMA CrashSlots ==
    ASSUME SlotInv, NEW home \in Homes, StackDropped(home), DOMAIN work' = Workers,
           \A w \in Workers : work'[w] = work[w] \/ (work'[w] = Over /\ Running(w))
    PROVE  SlotInv'
<1>1. /\ fs' = fs /\ info' = info /\ sweeps' = sweeps /\ (sweep' = sweep \/ sweep' = None)
      /\ Usable' = Usable
  BY Zenon DEF StackDropped, Usable
<1>2. \A w \in Workers, s \in Slots : Holds(work'[w], s) => Holds(work[w], s)
  BY OverIs, Zenon DEF Holds
<1>3. SUFFICES ASSUME sweeps = 0
               PROVE  /\ sweep = None
                      /\ \A s \in Slots \ Usable : fs[s] = FirstFiles[s]
                      /\ \A s \in Usable : fs[s] # None => s \in info
                      /\ \A s \in Slots, x \in Workers : Holds(work'[x], s) =>
                           /\ s \in info
                           /\ s \in Usable => fs[s] = None
                           /\ \A y \in Workers : Holds(work'[y], s) => y = x
  BY <1>1, Zenon DEF SlotInv, Free
<1>4. /\ sweep = None
      /\ \A s \in Slots \ Usable : fs[s] = FirstFiles[s]
      /\ \A s \in Usable : fs[s] # None => s \in info
      /\ \A s \in Slots, x \in Workers : Holds(work[x], s) =>
           /\ s \in info
           /\ s \in Usable => fs[s] = None
           /\ \A y \in Workers : Holds(work[y], s) => y = x
  BY <1>3, Zenon DEF SlotInv, Free
<1> QED BY <1>2, <1>4, Zenon

(* Emptying the trash and saving a document account for what they remove.  *)
LEMMA EmptyingFiles ==
    ASSUME FileInv, SlotInv, Emptying
    PROVE  /\ FileInv' /\ SlotInv' /\ Usable \subseteq Usable'
           /\ UNCHANGED <<work, log, ledger, touched, stale, stack>>
<1>0. UNCHANGED <<work, log, ledger, touched, stale, stack>>
  BY Zenon DEF Emptying, SweepPayload, SweepSidecar, callVars
<1>1. /\ fs \in [Places -> Contents] /\ info \subseteq Slots /\ spent \subseteq UserFiles
      /\ sweep \in Slots \union {None}
  BY Zenon DEF FileInv, FilesTypeOK, Contents
<1>2. sweeps \in Nat
  BY Zenon DEF SlotInv
<1>3. ASSUME NEW s \in Slots, SweepPayload(s)
      PROVE  FileInv' /\ SlotInv' /\ Usable \subseteq Usable'
  <2>1. /\ fs' = [fs EXCEPT ![s] = None]
        /\ spent' = spent \union ({fs[s]} \intersect UserFiles)
        /\ sweep' = s /\ sweeps' = sweeps + 1 /\ lost' = lost /\ info' = info
    BY <1>3, Zenon DEF SweepPayload
  <2>2. /\ fs' \in [Places -> Contents]
        /\ \A q \in Places : q # s => fs'[q] = fs[q]
    <3>1. s \in Places /\ None \in Contents
      BY PathsAside, Zenon DEF Contents
    <3> QED BY <1>1, <2>1, <3>1
  <2>3. /\ spent \subseteq spent' /\ spent' \subseteq UserFiles
        /\ fs[s] \in UserFiles => fs[s] \in spent'
    BY <1>1, <2>1, Zenon
  <2>4. \A q \in Places : fs[q] \in UserFiles => fs[q] \in spent' \/ \E p \in Places : fs'[p] = fs[q]
    BY <2>2, <2>3, Zenon
  <2>5. FileInv'
    <3>1. info' \subseteq Slots /\ sweep' \in Slots \union {None} /\ lost \subseteq lost'
      BY <1>1, <2>1, Zenon
    <3>2. \A l \in lost' : l \in lost
      BY <2>1, Zenon
    <3> QED BY <2>2, <2>3, <2>4, <3>1, <3>2, Accounts, Zenon
  <2>6. sweeps' \in Nat /\ sweeps' # 0 /\ sweeps' \in {sweeps, sweeps + 1}
    BY <1>2, <2>1
  <2>7. Usable \subseteq Usable'
    BY <1>2, <2>6, UsableGrows, Zenon
  <2> QED BY <2>5, <2>6, <2>7, Zenon DEF SlotInv
<1>4. CASE SweepSidecar
  <2>1. /\ sweep # None /\ sweep' = None /\ info' = info \ {sweep}
        /\ fs' = fs /\ spent' = spent /\ lost' = lost /\ sweeps' = sweeps
    BY <1>4, Zenon DEF SweepSidecar
  <2>2. sweeps # 0
    BY <2>1, Zenon DEF SlotInv
  <2>3. SlotInv'
    BY <1>2, <2>1, <2>2, Zenon DEF SlotInv
  <2>4. info' \subseteq Slots
    BY <1>1, <2>1, Zenon
  <2>5. FileInv'
    BY <2>1, <2>4, Zenon DEF FileInv, FilesTypeOK, OnlyOvertakenFilesAreLost
  <2>6. Usable' = Usable
    BY <2>1, Zenon DEF Usable
  <2> QED BY <1>0, <2>3, <2>5, <2>6, Zenon
<1> QED BY <1>0, <1>3, <1>4, Zenon DEF Emptying

LEMMA SavingFiles ==
    ASSUME FileInv, SlotInv, NEW p \in Paths, NEW f \in UserFiles, UserSaves(p, f)
    PROVE  /\ FileInv' /\ SlotInv' /\ Usable' = Usable
           /\ UNCHANGED <<work, log, ledger, touched, stale, stack>>
<1>1. /\ fs \in [Places -> Contents] /\ info \subseteq Slots /\ spent \subseteq UserFiles
      /\ sweep \in Slots \union {None}
  BY Zenon DEF FileInv, FilesTypeOK, Contents
<1>2. /\ fs' = [fs EXCEPT ![p] = f]
      /\ spent' = spent \union ({fs[p]} \intersect UserFiles)
      /\ sweep' = sweep /\ sweeps' = sweeps /\ lost' = lost /\ info' = info
      /\ UNCHANGED <<work, log, ledger, touched, stale, stack>> /\ work' = work
  BY Zenon DEF UserSaves, Edits
<1>3. Usable' = Usable
  BY <1>2, Zenon DEF Usable
<1>4. /\ fs' \in [Places -> Contents]
      /\ \A q \in Places : q # p => fs'[q] = fs[q]
  <2>1. p \in Places /\ f \in Contents
    BY PathsAside, Zenon DEF Contents
  <2> QED BY <1>1, <1>2, <2>1
<1>5. /\ spent \subseteq spent' /\ spent' \subseteq UserFiles
      /\ fs[p] \in UserFiles => fs[p] \in spent'
  BY <1>1, <1>2, Zenon
<1>6. \A q \in Places : fs[q] \in UserFiles => fs[q] \in spent' \/ \E x \in Places : fs'[x] = fs[q]
  BY <1>4, <1>5, Zenon
<1>7. FileInv'
  <2>1. info' \subseteq Slots /\ sweep' \in Slots \union {None} /\ lost \subseteq lost'
    BY <1>1, <1>2, Zenon
  <2>2. \A l \in lost' : l \in lost
    BY <1>2, Zenon
  <2> QED BY <1>4, <1>5, <1>6, <2>1, <2>2, Accounts, Zenon
<1>8. \A s \in Slots : fs'[s] = fs[s]
  BY <1>4, PathsAside, Zenon
<1>9. SlotInv'
  <2>1. Usable \subseteq Slots
    BY DEF Usable
  <2> QED BY <1>2, <1>3, <1>8, <2>1, Zenon DEF SlotInv, Free
<1> QED BY <1>2, <1>3, <1>7, <1>9

-----------------------------------------------------------------------------
(* The settings file.                                                      *)

LEMMA TextFacts ==
    /\ Empty \in Texts /\ Garbage \in Texts
    /\ ~Whole(Empty) /\ ~Whole(Garbage)
    /\ Whole(FirstText)
    /\ Lasting \subseteq Keys
    /\ Mine \in Values
<1>1. Lasting # {} /\ Lasting \subseteq Keys
  BY SettingsAssumption, Zenon DEF Lasting
<1>2. Absent \in Values /\ Garbled \in Values /\ Mine \in Values
  BY Zenon DEF Values
<1>3. Empty \in Texts /\ Garbage \in Texts
  BY <1>2 DEF Empty, Garbage, Texts
<1>4. PICK k \in Lasting : k \in Keys
  BY <1>1, Zenon
<1>5. Empty[k] = Absent /\ Garbage[k] = Garbled
  BY <1>4 DEF Empty, Garbage
<1>6. ~Whole(Empty) /\ ~Whole(Garbage)
  BY <1>4, <1>5, Zenon DEF Whole
<1>7. Whole(FirstText)
  BY Zenon DEF Whole, Lasting
<1> QED BY <1>1, <1>2, <1>3, <1>6, <1>7

LEMMA NamesApart ==
    /\ None \notin Inodes
    /\ Disk \notin Workers
    /\ Workers \subseteq Inodes
    /\ None \notin Texts
BY CallsAssumption, SettingsAssumption, Zenon DEF Inodes, Workers

LEMMA NoPenIs ==
    /\ NoPen.text = None /\ NoPen.file = None
    /\ NoPen \in [text : Texts \union {None}, file : Inodes \union {None}]
BY DEF NoPen

LEMMA PenStages ==
    /\ SetStages \intersect {"idle", "done", "act"} = {}
    /\ {"write", "rename", "open", "unlink"} \subseteq SetStages
    /\ {"act", "open"} \subseteq BeforeOpen
    /\ BeforeOpen \intersect {"write", "rename", "unlink", "submit", "both", "record", "mark", "done"} = {}
    /\ {"idle", "state", "entry"} \subseteq BeforeOpen
    /\ ActStages \ SetStages \subseteq BeforeOpen
    /\ "audit" \in BeforeOpen
BY DEF SetStages, BeforeOpen, TaskStages, ActStages

(* A step that is no worker's.                                             *)
LEMMA PensSame ==
    ASSUME SetInv, work' = work, UNCHANGED setVars
    PROVE  SetInv'
<1>1. /\ inode' = inode /\ target' = target /\ tmp' = tmp /\ pen' = pen /\ kept' = kept
      /\ met' = met
  BY Zenon DEF setVars
<1>2. PenTypes'
  BY <1>1, Zenon DEF SetInv, PenTypes
<1>3. Alone => Alone'
  BY <1>1, Zenon DEF Alone
<1>4. TextsInv => TextsInv'
  BY <1>1, Zenon DEF TextsInv, Whole
<1> QED BY <1>1, <1>2, <1>3, <1>4, Zenon DEF SetInv

(* A step of a worker that is not writing settings.                        *)
LEMMA PensAside ==
    ASSUME SetInv, NEW w \in Workers, OnlyMoves(w), UNCHANGED setVars,
           work[w].at \notin SetStages, work'[w].at \notin SetStages,
           work'[w].at \in BeforeOpen => work[w].at \in BeforeOpen
    PROVE  SetInv'
<1>1. /\ inode' = inode /\ target' = target /\ tmp' = tmp /\ pen' = pen /\ kept' = kept
      /\ met' = met
  BY Zenon DEF setVars
<1>2. /\ "write" \in SetStages /\ "rename" \in SetStages /\ "open" \in SetStages
  BY PenStages, Zenon
<1>3. \A x \in Workers : work'[x].at \in SetStages => x # w /\ work'[x] = work[x]
  BY Zenon DEF OnlyMoves
<1>4. PenTypes'
  <2>1. ASSUME NEW x \in Workers
        PROVE  /\ work'[x].at \notin SetStages => pen[x] = NoPen
               /\ work'[x].at \in SetStages => pen[x].text \in Texts
               /\ work'[x].at = "open" => pen[x].file = None
               /\ work'[x].at \in {"write", "rename"} => pen[x].file # None
               /\ work'[x].at \in BeforeOpen => target # x /\ tmp # x
    <3>1. CASE x = w
      BY <1>2, <3>1, Zenon DEF SetInv, PenTypes
    <3>2. CASE x # w
      BY <3>2, Zenon DEF SetInv, PenTypes, OnlyMoves
    <3> QED BY <3>1, <3>2
  <2> QED BY <1>1, <2>1, Zenon DEF SetInv, PenTypes
<1>5. ASSUME ~met
      PROVE  Alone' /\ TextsInv'
  <2>1. Alone /\ TextsInv
    BY <1>5, Zenon DEF SetInv
  <2>2. \A x \in Workers : /\ work'[x].at = "write" => inode[pen[x].file] = Empty
                           /\ work'[x].at = "rename" => inode[pen[x].file] = pen[x].text
    BY <1>2, <1>3, <2>1, Zenon DEF Alone
  <2>3. Alone'
    BY <1>1, <2>1, <2>2, Zenon DEF Alone
  <2>4. ASSUME NEW x \in Workers, work'[x].at \in SetStages
        PROVE  Whole(pen[x].text) /\ \A k \in kept \ {work'[x].task.a} : pen[x].text[k] = Mine
    <3>1. work'[x] = work[x]
      BY <1>3, <2>4, Zenon
    <3> QED BY <2>1, <2>4, <3>1 DEF TextsInv
  <2>5. TextsInv'
    BY <1>1, <2>1, <2>4, Zenon DEF TextsInv, Whole
  <2> QED BY <2>3, <2>5
<1> QED BY <1>1, <1>4, <1>5, Zenon DEF SetInv

(* No file step leads to or from the writing of settings.                  *)
LEMMA FilePens ==
    ASSUME WorkInv, SetInv, SlotInv, NEW w \in Workers, FileStep(w), UNCHANGED setVars
    PROVE  SetInv'
<1> DEFINE Elsewhere == work[w].at \notin SetStages /\ work'[w].at \notin SetStages
<1>1. DOMAIN work = Workers /\ DOMAIN work[w] = Fields
  BY Zenon DEF WorkInv, Sane
<1>2. ASSUME NEW stage \in {"written", "next", "drop", "act", "sidecar", "submit", "looked", "put",
                            "rollback", "rollback2"},
             Goes(w, stage)
      PROVE  work'[w].at \notin SetStages
  <2>1. work'[w].at = stage
    BY <1>2, Going, Zenon
  <2> QED BY <1>2, <2>1 DEF SetStages
<1>3. ASSUME Ends(w) \/ \E inv : Acted(w, inv)
      PROVE  work'[w].at \notin SetStages
  <2>1. work'[w].at \in {"done", "submit", "both", "mark"}
    BY <1>3, DoneHolds, Zenon
  <2> QED BY <2>1 DEF SetStages
<1>4. ASSUME NEW stage \in {"put", "drop", "picked"}, NEW s,
             work' = [work EXCEPT ![w].at = stage, ![w].slot = s, ![w].tried = @ \union {s}]
      PROVE  work'[w].at \notin SetStages
  <2>1. work'[w].at = stage
    BY <1>1, <1>4 DEF Fields
  <2> QED BY <1>4, <2>1 DEF SetStages
<1>5. ASSUME NEW stage \in {"matched", "looked"}, NEW s,
             work' = [work EXCEPT ![w].at = stage, ![w].saw = s]
      PROVE  work'[w].at \notin SetStages
  <2>1. work'[w].at = stage
    BY <1>1, <1>5 DEF Fields
  <2> QED BY <1>5, <2>1 DEF SetStages
<1>6. Elsewhere
  <2> USE DEF Doing, At
  <2>1. work[w].at \notin SetStages
    BY Zenon DEF FileStep, Relocate, CreateNew, CaptureCreated, CreateFails, MatchFingerprint,
         RemoveCreated, TrashReserve, TrashPut, TrashDrop, Untrash, RemoveSidecar, RenameLook,
         RenameEntry, PickTrashName, ReserveTrashName, DiscardPut, DiscardRollback, RestoreLook,
         RestoreEntry, Record, SetStages
  <2>2. CASE \/ Relocate(w) \/ CreateNew(w) \/ CaptureCreated(w) \/ CreateFails(w)
             \/ RemoveCreated(w) \/ TrashPut(w) \/ Untrash(w)
    BY <1>2, <1>3, <2>1, <2>2, Zenon
       DEF Relocate, CreateNew, CaptureCreated, CreateFails, RemoveCreated, TrashPut, Untrash
  <2>3. CASE \/ TrashDrop(w) \/ RemoveSidecar(w) \/ Record(w) \/ RenameEntry(w)
             \/ ReserveTrashName(w) \/ DiscardPut(w) \/ DiscardRollback(w)
             \/ RestoreLook(w) \/ RestoreEntry(w)
    BY <1>2, <1>3, <2>1, <2>3, Zenon
       DEF TrashDrop, RemoveSidecar, Record, RenameEntry, ReserveTrashName, DiscardPut,
           DiscardRollback, RestoreLook, RestoreEntry
  <2>4. CASE TrashReserve(w) \/ PickTrashName(w)
    BY <1>3, <1>4, <2>1, <2>4, Zenon DEF TrashReserve, PickTrashName
  <2>5. CASE MatchFingerprint(w) \/ RenameLook(w)
    BY <1>3, <1>5, <2>1, <2>5, Zenon DEF MatchFingerprint, RenameLook
  <2> QED BY <2>2, <2>3, <2>4, <2>5, Zenon DEF FileStep
<1>7. OnlyMoves(w)
  BY FileStepSane, Zenon DEF Proceeds
<1>8. work'[w].at \in BeforeOpen => work[w].at \in BeforeOpen
  <2>1. CASE work[w].at \in ActStages
    BY <1>6, <2>1, PenStages, Zenon
  <2>2. CASE Record(w)
    <3>1. work'[w].at \in {"submit", "done"}
      BY <2>2, Going, Ending, OverIs, Zenon DEF Record
    <3> QED BY <3>1, PenStages, Zenon
  <2> QED BY <2>1, <2>2, FileStepAt, Zenon
<1> QED BY <1>6, <1>7, <1>8, PensAside, Zenon

(* A step of a writer answers for that writer alone.                       *)
LEMMA PenStep ==
    ASSUME PenTypes, NEW w \in Workers, OnlyMoves(w),
           inode' \in [Inodes -> Texts], target' \in Inodes, tmp' \in Inodes \union {None},
           tmp' # target', kept' \subseteq Keys, met' \in BOOLEAN,
           pen' \in [Workers -> [text : Texts \union {None}, file : Inodes \union {None}]],
           \A x \in Workers : x # w => pen'[x] = pen[x],
           target' \in {target, tmp}, tmp' \in {None, tmp, w},
           work'[w].at \notin SetStages => pen'[w] = NoPen,
           work'[w].at \in SetStages => pen'[w].text \in Texts,
           work'[w].at = "open" => pen'[w].file = None,
           work'[w].at \in {"write", "rename"} => pen'[w].file # None,
           work'[w].at \in BeforeOpen => target' # w /\ tmp' # w
    PROVE  PenTypes'
<1>1. \A x \in Workers : x # None
  BY NamesApart, Zenon
<1>2. ASSUME NEW x \in Workers
      PROVE  /\ work'[x].at \notin SetStages => pen'[x] = NoPen
             /\ work'[x].at \in SetStages => pen'[x].text \in Texts
             /\ work'[x].at = "open" => pen'[x].file = None
             /\ work'[x].at \in {"write", "rename"} => pen'[x].file # None
             /\ work'[x].at \in BeforeOpen => target' # x /\ tmp' # x
  <2>1. CASE x = w
    BY <2>1, Zenon
  <2>2. CASE x # w
    <3>1. work'[x] = work[x] /\ pen'[x] = pen[x]
      BY <2>2, Zenon DEF OnlyMoves
    <3>2. /\ work[x].at \notin SetStages => pen[x] = NoPen
          /\ work[x].at \in SetStages => pen[x].text \in Texts
          /\ work[x].at = "open" => pen[x].file = None
          /\ work[x].at \in {"write", "rename"} => pen[x].file # None
          /\ work[x].at \in BeforeOpen => target # x /\ tmp # x
      BY Zenon DEF PenTypes
    <3>3. work[x].at \in BeforeOpen => target' # x /\ tmp' # x
      BY <1>1, <2>2, <3>2, Zenon
    <3> QED BY <3>1, <3>2, <3>3, Zenon
  <2> QED BY <2>1, <2>2
<1> QED BY <1>2, Zenon DEF PenTypes

(* Whoever has a file open is writing settings.                            *)
LEMMA HolderRuns ==
    ASSUME PenTypes, NEW x \in Workers, pen[x].file # None
    PROVE  Running(x) /\ work[x].at \in SetStages
BY NoPenIs, PenStages, Zenon DEF PenTypes, Running

(* The task of a writer: it never sets a lasting key.                      *)
LEMMA WriterTask ==
    ASSUME WorkInv, NEW w \in Workers, SetStep(w)
    PROVE  /\ Key(w) \in Keys /\ Key(w) \notin Lasting
           /\ Value(w) \in Values
<1>1. work[w].at \in ActStages /\ work[w].task.kind \in {"set", "value"}
  BY SetFrame, Zenon
<1>2. Tasked(w, work[w], Usable)
  BY <1>1, TaskedAt, StageKinds, ZenonT(30)
<1> QED BY <1>1, <1>2, Zenon DEF Tasked, Sound, Key, Value

(* The parts of Alone and TextsInv that a step of w leaves to w.           *)
LEMMA TextStep ==
    ASSUME SetInv, ~met, NEW w \in Workers, OnlyMoves(w),
           \A x \in Workers : x # w => pen'[x] = pen[x] /\ pen[x].file = None,
           pen'[w].file # None => pen'[w].file = tmp',
           work'[w].at = "write" => inode'[pen'[w].file] = Empty,
           work'[w].at = "rename" => inode'[pen'[w].file] = pen'[w].text,
           Whole(inode'[target']),
           \A k \in kept' : inode'[target'][k] = Mine,
           kept' \subseteq kept,
           work'[w].at \in SetStages =>
             /\ Whole(pen'[w].text)
             /\ \A k \in kept' \ {work'[w].task.a} : pen'[w].text[k] = Mine
    PROVE  Alone' /\ TextsInv'
<1>1. PenTypes /\ TextsInv
  BY Zenon DEF SetInv
<1>2. \A x \in Workers : x # w => work[x].at \notin {"write", "rename"} /\ work'[x] = work[x]
  BY <1>1, Zenon DEF PenTypes, OnlyMoves
<1>3. Alone'
  <2>1. \A x \in Workers : pen'[x].file # None => x = w
    BY Zenon
  <2>2. \A x \in Workers : work'[x].at \in {"write", "rename"} => x = w
    BY <1>2, Zenon
  <2> QED BY <2>1, <2>2, Zenon DEF Alone
<1>4. ASSUME NEW x \in Workers, x # w, work'[x].at \in SetStages
      PROVE  Whole(pen'[x].text) /\ \A k \in kept' \ {work'[x].task.a} : pen'[x].text[k] = Mine
  <2>1. work'[x] = work[x] /\ pen'[x] = pen[x]
    BY <1>2, <1>4, Zenon
  <2>2. Whole(pen[x].text) /\ \A k \in kept \ {work[x].task.a} : pen[x].text[k] = Mine
    BY <1>1, <1>4, <2>1 DEF TextsInv
  <2>3. \A k \in kept' \ {work[x].task.a} : k \in kept \ {work[x].task.a}
    BY Zenon
  <2> QED BY <2>1, <2>2, <2>3
<1>5. TextsInv'
  <2>1. \A x \in Workers : work'[x].at \in SetStages =>
           /\ Whole(pen'[x].text)
           /\ \A k \in kept' \ {work'[x].task.a} : pen'[x].text[k] = Mine
    BY <1>4, Zenon
  <2> QED BY <2>1, Zenon DEF TextsInv, Whole
<1> QED BY <1>3, <1>5

(* Reading the file and editing one key of the text.                       *)
LEMMA ReadPens ==
    ASSUME WorkInv, SetInv, NEW w \in Workers, ReadAndEdit(w), OnlyMoves(w), ~Ends(w)
    PROVE  SetInv'
<1> DEFINE text == inode[target]
           new == Edited(text, Key(w), Value(w))
<1>1. /\ pen' = [pen EXCEPT ![w].text = new] /\ Goes(w, "open") /\ work[w].at = "act"
      /\ inode' = inode /\ target' = target /\ tmp' = tmp /\ kept' = kept /\ met' = met
  BY Zenon DEF ReadAndEdit, Setting, At
<1>2. /\ Key(w) \in Keys /\ Key(w) \notin Lasting /\ Value(w) \in Values
  BY WriterTask, Zenon DEF SetStep
<1>3. /\ PenTypes /\ text \in Texts /\ pen[w] = NoPen /\ target # w /\ tmp # w
      /\ pen \in [Workers -> [text : Texts \union {None}, file : Inodes \union {None}]]
  BY <1>1, PenStages, Zenon DEF SetInv, PenTypes
<1>4. /\ new \in Texts
      /\ \A k \in Keys : k # Key(w) => new[k] = text[k]
  BY <1>2, <1>3 DEF Edited, Texts
<1> HIDE DEF new
<1>5. /\ pen' \in [Workers -> [text : Texts \union {None}, file : Inodes \union {None}]]
      /\ pen'[w].text = new /\ pen'[w].file = pen[w].file
      /\ \A x \in Workers : x # w => pen'[x] = pen[x]
  BY <1>1, <1>3, <1>4
<1>6. work'[w].at = "open" /\ work'[w].task = work[w].task
  BY <1>1, Going, Zenon
<1>7. pen'[w].file = None
  BY <1>3, <1>5, NoPenIs, Zenon
<1>8. PenTypes'
  <2>1. "open" \in SetStages /\ "open" # "write" /\ "open" # "rename"
    BY PenStages, Zenon
  <2>2. /\ inode' \in [Inodes -> Texts] /\ target' \in Inodes /\ tmp' \in Inodes \union {None}
        /\ tmp' # target' /\ kept' \subseteq Keys /\ met' \in BOOLEAN
    BY <1>1, <1>3, Zenon DEF PenTypes
  <2> QED BY <1>1, <1>3, <1>4, <1>5, <1>6, <1>7, <2>1, <2>2, PenStep, Zenon
<1>9. ASSUME ~met
      PROVE  Alone' /\ TextsInv'
  <2>1. Alone /\ TextsInv
    BY <1>9, Zenon DEF SetInv
  <2>2. Alone'
    <3>1. \A x \in Workers : pen'[x].file = pen[x].file
      BY <1>5, Zenon
    <3>2. \A x \in Workers : work'[x].at \in {"write", "rename"} =>
             x # w /\ work'[x] = work[x] /\ pen'[x] = pen[x]
      BY <1>5, <1>6, Zenon DEF OnlyMoves
    <3>3. /\ \A x \in Workers : work'[x].at = "write" => inode[pen[x].file] = Empty
          /\ \A x \in Workers : work'[x].at = "rename" => inode[pen[x].file] = pen[x].text
      BY <2>1, <3>2, Zenon DEF Alone
    <3>4. /\ \A x \in Workers : work'[x].at = "write" => inode'[pen'[x].file] = Empty
          /\ \A x \in Workers : work'[x].at = "rename" => inode'[pen'[x].file] = pen'[x].text
      BY SMTT(20), <1>1, <3>2, <3>3
    <3> QED BY <1>1, <2>1, <3>1, <3>4, Zenon DEF Alone
  <2>3. Whole(new)
    <3>1. Whole(text)
      BY <2>1, Zenon DEF TextsInv
    <3>2. \A k \in Lasting : new[k] = text[k]
      BY <1>2, <1>4, TextFacts, Zenon
    <3> QED BY <3>1, <3>2 DEF Whole
  <2>4. \A k \in kept \ {Key(w)} : new[k] = Mine
    <3>1. \A k \in kept : k \in Keys /\ text[k] = Mine
      BY <1>3, <2>1, Zenon DEF TextsInv, PenTypes
    <3> QED BY <1>4, <3>1
  <2>5. ASSUME NEW x \in Workers, work'[x].at \in SetStages
        PROVE  Whole(pen'[x].text) /\ \A k \in kept \ {work'[x].task.a} : pen'[x].text[k] = Mine
    <3>1. CASE x = w
      BY SMTT(20), <1>5, <1>6, <2>3, <2>4, <3>1 DEF Key
    <3>2. CASE x # w
      <4>1. work'[x] = work[x] /\ pen'[x] = pen[x]
        BY <1>5, <3>2, Zenon DEF OnlyMoves
      <4> QED BY <2>1, <2>5, <4>1 DEF TextsInv
    <3> QED BY SMTT(20), <3>1, <3>2
  <2>6. TextsInv'
    BY <1>1, <2>1, <2>5, Zenon DEF TextsInv, Whole
  <2> QED BY <2>2, <2>6
<1> QED BY <1>1, <1>8, <1>9, Zenon DEF SetInv

(* Opening the temporary file.                                             *)
LEMMA OpenPens ==
    ASSUME WorkInv, SetInv, NEW w \in Workers, OpenTmp(w), OnlyMoves(w), ~Goes(w, "unlink")
    PROVE  SetInv'
<1> DEFINE i == IF tmp = None THEN w ELSE tmp
<1>1. /\ tmp' = i /\ inode' = [inode EXCEPT ![i] = Empty] /\ pen' = [pen EXCEPT ![w].file = i]
      /\ met' = (met \/ InUse(i, w)) /\ Goes(w, "write") /\ work[w].at = "open"
      /\ target' = target /\ kept' = kept
  BY Zenon DEF OpenTmp, Setting, At
<1>2. /\ PenTypes /\ pen[w].file = None /\ pen[w].text \in Texts /\ target # w /\ tmp # w
      /\ inode \in [Inodes -> Texts] /\ target \in Inodes /\ kept \subseteq Keys
      /\ pen \in [Workers -> [text : Texts \union {None}, file : Inodes \union {None}]]
  BY <1>1, PenStages, Zenon DEF SetInv, PenTypes
<1>3. /\ i \in Inodes /\ i # target /\ i # None /\ i \in {tmp, w}
  BY <1>2, NamesApart, Zenon DEF SetInv, PenTypes
<1> HIDE DEF i
<1>4. /\ pen' \in [Workers -> [text : Texts \union {None}, file : Inodes \union {None}]]
      /\ pen'[w].text = pen[w].text /\ pen'[w].file = i
      /\ \A x \in Workers : x # w => pen'[x] = pen[x]
  BY <1>1, <1>2, <1>3
<1>5. /\ inode' \in [Inodes -> Texts] /\ inode'[i] = Empty /\ inode'[target] = inode[target]
  BY <1>1, <1>2, <1>3, TextFacts
<1>6. work'[w].at = "write" /\ work'[w].task = work[w].task
  BY <1>1, Going, Zenon
<1>7. met' \in BOOLEAN
  BY <1>1
<1>8. PenTypes'
  <2>1. "write" \in SetStages /\ "write" # "open" /\ "write" \notin BeforeOpen
    BY PenStages, Zenon
  <2>2. /\ target' \in Inodes /\ tmp' \in Inodes \union {None} /\ tmp' # target'
        /\ kept' \subseteq Keys /\ target' \in {target, tmp} /\ tmp' \in {None, tmp, w}
    BY <1>1, <1>2, <1>3, Zenon
  <2> QED BY <1>2, <1>3, <1>4, <1>5, <1>6, <1>7, <2>1, <2>2, PenStep, Zenon
<1>9. ASSUME ~met'
      PROVE  Alone' /\ TextsInv'
  <2>1. ~met /\ ~InUse(i, w)
    BY <1>1, <1>9, Zenon
  <2>2. Alone /\ TextsInv
    BY <2>1, Zenon DEF SetInv
  <2>3. ASSUME NEW x \in Workers, x # w
        PROVE  pen[x].file = None
    <3>1. SUFFICES ASSUME pen[x].file # None
                   PROVE  FALSE
      OBVIOUS
    <3>2. pen[x].file = tmp
      BY <2>2, <3>1, Zenon DEF Alone
    <3>3. Running(x)
      BY <1>2, <3>1, HolderRuns, Zenon
    <3>4. i = tmp
      BY <3>1, <3>2 DEF i
    <3> QED BY <2>1, <2>3, <3>2, <3>3, <3>4, Zenon DEF InUse
  <2>4. Whole(inode'[target']) /\ \A k \in kept' : inode'[target'][k] = Mine
    <3>1. Whole(inode[target]) /\ \A k \in kept : inode[target][k] = Mine
      BY <2>2, Zenon DEF TextsInv
    <3> QED BY <1>1, <1>5, <3>1
  <2>5. /\ Whole(pen'[w].text)
        /\ \A k \in kept' \ {work'[w].task.a} : pen'[w].text[k] = Mine
    <3>1. Whole(pen[w].text) /\ \A k \in kept \ {work[w].task.a} : pen[w].text[k] = Mine
      BY <1>1, <2>2, PenStages, Zenon DEF TextsInv
    <3> QED BY <1>1, <1>4, <1>6, <3>1
  <2>6. /\ pen'[w].file = tmp' /\ inode'[pen'[w].file] = Empty /\ kept' \subseteq kept
        /\ work'[w].at # "rename"
    BY <1>1, <1>4, <1>5, <1>6
  <2> QED BY <1>4, <2>1, <2>3, <2>4, <2>5, <2>6, TextStep, Zenon
<1> QED BY <1>8, <1>9, Zenon DEF SetInv

(* Giving up before or after the temporary file was opened.                *)
LEMMA UnlinkNext ==
    ASSUME WorkInv, SetInv, NEW w \in Workers, work[w].at \in SetStages,
           Goes(w, "unlink"), UNCHANGED setVars
    PROVE  SetInv'
<1>1. /\ inode' = inode /\ target' = target /\ tmp' = tmp /\ pen' = pen /\ kept' = kept
      /\ met' = met
  BY Zenon DEF setVars
<1>2. OnlyMoves(w) /\ work'[w].at = "unlink" /\ work'[w].task = work[w].task
  BY Going, Zenon
<1>3. /\ "unlink" \in SetStages /\ "unlink" \notin BeforeOpen
      /\ "unlink" \notin {"open", "write", "rename"}
  BY PenStages, Zenon
<1>4. PenTypes'
  <2>1. ASSUME NEW x \in Workers
        PROVE  /\ work'[x].at \notin SetStages => pen[x] = NoPen
               /\ work'[x].at \in SetStages => pen[x].text \in Texts
               /\ work'[x].at = "open" => pen[x].file = None
               /\ work'[x].at \in {"write", "rename"} => pen[x].file # None
               /\ work'[x].at \in BeforeOpen => target # x /\ tmp # x
    <3>1. CASE x = w
      BY <1>2, <1>3, <3>1, Zenon DEF SetInv, PenTypes
    <3>2. CASE x # w
      BY <1>2, <3>2, Zenon DEF SetInv, PenTypes, OnlyMoves
    <3> QED BY <3>1, <3>2
  <2> QED BY <1>1, <2>1, Zenon DEF SetInv, PenTypes
<1>5. ASSUME ~met
      PROVE  Alone' /\ TextsInv'
  <2>1. Alone /\ TextsInv
    BY <1>5, Zenon DEF SetInv
  <2>2. \A x \in Workers : /\ work'[x].at = "write" => inode[pen[x].file] = Empty
                           /\ work'[x].at = "rename" => inode[pen[x].file] = pen[x].text
    BY <1>2, <1>3, <2>1, Zenon DEF Alone, OnlyMoves
  <2>3. Alone'
    BY <1>1, <2>1, <2>2, Zenon DEF Alone
  <2>4. ASSUME NEW x \in Workers, work'[x].at \in SetStages
        PROVE  Whole(pen[x].text) /\ \A k \in kept \ {work'[x].task.a} : pen[x].text[k] = Mine
    <3>1. work'[x].task = work[x].task /\ work[x].at \in SetStages
      BY <1>2, <2>4, Zenon DEF OnlyMoves
    <3> QED BY <2>1, <3>1 DEF TextsInv
  <2>5. TextsInv'
    BY <1>1, <2>1, <2>4, Zenon DEF TextsInv, Whole
  <2> QED BY <2>3, <2>5
<1> QED BY <1>1, <1>4, <1>5, Zenon DEF SetInv

(* Writing the temporary file.                                             *)
LEMMA WritePens ==
    ASSUME WorkInv, SetInv, NEW w \in Workers, WriteTmp(w), OnlyMoves(w), ~Goes(w, "unlink")
    PROVE  SetInv'
<1> DEFINE i == pen[w].file
<1>1. /\ \/ inode' = [inode EXCEPT ![i] = pen[w].text]
         \/ inode[i] # Empty /\ inode' = [inode EXCEPT ![i] = Garbage]
      /\ Goes(w, "rename") /\ work[w].at = "write"
      /\ target' = target /\ tmp' = tmp /\ pen' = pen /\ kept' = kept /\ met' = met
  BY Zenon DEF WriteTmp, Setting, At
<1>2. /\ PenTypes /\ i # None /\ i \in Inodes /\ pen[w].text \in Texts
      /\ inode \in [Inodes -> Texts] /\ target \in Inodes /\ tmp # target
  <2>1. /\ PenTypes /\ i # None /\ pen[w].text \in Texts
        /\ inode \in [Inodes -> Texts] /\ target \in Inodes /\ tmp # target
        /\ pen \in [Workers -> [text : Texts \union {None}, file : Inodes \union {None}]]
    BY <1>1, PenStages, ZenonT(30) DEF SetInv, PenTypes
  <2>2. i \in Inodes \union {None}
    BY <2>1
  <2> QED BY <2>1, <2>2
<1>3. work'[w].at = "rename" /\ work'[w].task = work[w].task
  BY <1>1, Going, Zenon
<1> HIDE DEF i
<1>4. inode' \in [Inodes -> Texts] /\ \A j \in Inodes : j # i => inode'[j] = inode[j]
  BY <1>1, <1>2, TextFacts
<1>5. PenTypes'
  <2>1. "rename" \in SetStages /\ "rename" # "open" /\ "rename" \notin BeforeOpen
    BY PenStages, Zenon
  <2>2. /\ target' \in Inodes /\ tmp' \in Inodes \union {None} /\ tmp' # target'
        /\ kept' \subseteq Keys /\ target' \in {target, tmp} /\ tmp' \in {None, tmp, w}
        /\ met' \in BOOLEAN
        /\ pen' \in [Workers -> [text : Texts \union {None}, file : Inodes \union {None}]]
    BY <1>1, <1>2, Zenon DEF PenTypes
  <2>3. pen'[w].text \in Texts /\ pen'[w].file # None /\ \A x \in Workers : pen'[x] = pen[x]
    BY <1>1, <1>2, Zenon DEF i
  <2> QED BY <1>2, <1>3, <1>4, <2>1, <2>2, <2>3, PenStep, Zenon
<1>6. ASSUME ~met
      PROVE  Alone' /\ TextsInv'
  <2>1. Alone /\ TextsInv
    BY <1>6, Zenon DEF SetInv
  <2>2. i = tmp /\ inode[i] = Empty /\ \A x \in Workers : x # w => pen[x].file = None
    BY <1>1, <1>2, <2>1, Zenon DEF Alone, i
  <2>3. inode'[i] = pen[w].text /\ inode'[target] = inode[target]
    <3>1. inode' = [inode EXCEPT ![i] = pen[w].text]
      BY <1>1, <2>2, Zenon
    <3> QED BY <1>2, <2>2, <3>1
  <2>4. Whole(inode'[target']) /\ \A k \in kept' : inode'[target'][k] = Mine
    <3>1. Whole(inode[target]) /\ \A k \in kept : inode[target][k] = Mine
      BY <2>1, Zenon DEF TextsInv
    <3> QED BY SMTT(20), <1>1, <2>3, <3>1
  <2>5. /\ Whole(pen'[w].text)
        /\ \A k \in kept' \ {work'[w].task.a} : pen'[w].text[k] = Mine
    <3>1. Whole(pen[w].text) /\ \A k \in kept \ {work[w].task.a} : pen[w].text[k] = Mine
      BY <1>1, <2>1, PenStages, Zenon DEF TextsInv
    <3> QED BY <1>1, <1>3, <3>1
  <2>6. /\ pen'[w].file = tmp' /\ inode'[pen'[w].file] = pen'[w].text /\ kept' \subseteq kept
        /\ work'[w].at # "write" /\ \A x \in Workers : pen'[x] = pen[x]
    BY <1>1, <1>3, <2>2, <2>3 DEF i
  <2> QED BY <1>6, <2>2, <2>4, <2>5, <2>6, TextStep, Zenon
<1> QED BY <1>1, <1>5, <1>6, Zenon DEF SetInv

(* What a sweep of unnamed inodes leaves.                                  *)
LEMMA CollectedIs ==
    ASSUME inode \in [Inodes -> Texts], NEW names, NEW pens, inode' = Collected(inode, names, pens)
    PROVE  /\ inode' \in [Inodes -> Texts]
           /\ \A j \in Inodes : j \in names => inode'[j] = inode[j]
           /\ \A j \in Inodes, x \in Workers : pens[x].file = j => inode'[j] = inode[j]
BY TextFacts DEF Collected, Reachable

(* The writer's name is off the books.                                     *)
LEMMA PenDown ==
    ASSUME PenTypes, NEW w \in Workers, pen' = [pen EXCEPT ![w] = NoPen]
    PROVE  /\ pen' \in [Workers -> [text : Texts \union {None}, file : Inodes \union {None}]]
           /\ pen'[w] = NoPen /\ pen'[w].file = None
           /\ \A x \in Workers : x # w => pen'[x] = pen[x]
<1>1. pen \in [Workers -> [text : Texts \union {None}, file : Inodes \union {None}]]
  BY Zenon DEF PenTypes
<1> QED BY <1>1, NoPenIs

(* Renaming the temporary file over the settings.                          *)
LEMMA RenamePens ==
    ASSUME WorkInv, SetInv, NEW w \in Workers, RenameTmp(w), OnlyMoves(w), ~Goes(w, "unlink")
    PROVE  SetInv'
<1> DEFINE pens == [pen EXCEPT ![w] = NoPen]
<1>1. /\ tmp # None /\ target' = tmp /\ tmp' = None /\ pen' = pens
      /\ inode' = Collected(inode, {tmp}, pens) /\ kept' = kept \ {Key(w)}
      /\ Acted(w, work[w].inv) /\ met' = (met \/ InUse(tmp, w)) /\ work[w].at = "rename"
  BY Zenon DEF RenameTmp, Setting, At
<1>2. /\ PenTypes /\ inode \in [Inodes -> Texts] /\ tmp \in Inodes /\ kept \subseteq Keys
  BY <1>1, Zenon DEF SetInv, PenTypes
<1>3. /\ pen' \in [Workers -> [text : Texts \union {None}, file : Inodes \union {None}]]
      /\ pen'[w] = NoPen /\ pen'[w].file = None
      /\ \A x \in Workers : x # w => pen'[x] = pen[x]
  BY <1>1, <1>2, PenDown, Zenon
<1> HIDE DEF pens
<1>4. inode' \in [Inodes -> Texts] /\ inode'[tmp] = inode[tmp]
  BY <1>1, <1>2, CollectedIs, Zenon
<1>5. work'[w].at \in {"done", "submit", "both", "mark"}
  BY <1>1, DoneHolds, Zenon
<1>6. work'[w].at \notin SetStages \union BeforeOpen \union {"open", "write", "rename"}
  <2>1. {"done", "submit", "both", "mark"} \intersect SetStages = {}
    BY SMTT(20) DEF SetStages
  <2> QED BY <1>5, <2>1, PenStages, Zenon
<1>7. met' \in BOOLEAN
  BY <1>1
<1>8. PenTypes'
  <2>1. /\ target' \in Inodes /\ tmp' \in Inodes \union {None} /\ tmp' # target'
        /\ kept' \subseteq Keys /\ target' \in {target, tmp} /\ tmp' \in {None, tmp, w}
    BY <1>1, <1>2, Zenon
  <2> QED BY <1>2, <1>3, <1>4, <1>6, <1>7, <2>1, PenStep, Zenon
<1>9. ASSUME ~met'
      PROVE  Alone' /\ TextsInv'
  <2>1. ~met
    BY <1>1, <1>9, Zenon
  <2>2. Alone /\ TextsInv
    BY <2>1, Zenon DEF SetInv
  <2>3. /\ pen[w].file = tmp /\ inode[tmp] = pen[w].text
        /\ \A x \in Workers : x # w => pen[x].file = None
    <3>1. pen[w].file # None
      BY <1>1, <1>2, Zenon DEF PenTypes
    <3> QED BY <1>1, <2>2, <3>1, Zenon DEF Alone
  <2>4. Whole(pen[w].text) /\ \A k \in kept \ {Key(w)} : pen[w].text[k] = Mine
    BY <1>1, <2>2, PenStages, Zenon DEF TextsInv, Key
  <2>5. inode'[target'] = pen[w].text /\ kept' \subseteq kept
    BY <1>1, <1>4, <2>3, ZenonT(30)
  <2>6. Whole(inode'[target']) /\ \A k \in kept' : inode'[target'][k] = Mine
    BY <1>1, <2>4, <2>5
  <2> QED BY <1>3, <1>6, <2>1, <2>3, <2>5, <2>6, TextStep, Zenon
<1> QED BY <1>8, <1>9, Zenon DEF SetInv

(* Removing the temporary file after an error.                             *)
LEMMA UnlinkPens ==
    ASSUME WorkInv, SetInv, NEW w \in Workers, UnlinkTmp(w), OnlyMoves(w)
    PROVE  SetInv'
<1> DEFINE pens == [pen EXCEPT ![w] = NoPen]
<1>1. /\ tmp' = None /\ pen' = pens /\ inode' = Collected(inode, {target}, pens)
      /\ met' = (met \/ (tmp # None /\ InUse(tmp, w))) /\ Ends(w)
      /\ target' = target /\ kept' = kept
  BY Zenon DEF UnlinkTmp
<1>2. /\ PenTypes /\ inode \in [Inodes -> Texts] /\ target \in Inodes /\ kept \subseteq Keys
  BY Zenon DEF SetInv, PenTypes
<1>3. /\ pen' \in [Workers -> [text : Texts \union {None}, file : Inodes \union {None}]]
      /\ pen'[w] = NoPen /\ pen'[w].file = None
      /\ \A x \in Workers : x # w => pen'[x] = pen[x]
  BY <1>1, <1>2, PenDown, Zenon
<1> HIDE DEF pens
<1>4. inode' \in [Inodes -> Texts] /\ inode'[target] = inode[target]
  BY <1>1, <1>2, CollectedIs, Zenon
<1>5. work'[w].at \notin SetStages \union BeforeOpen \union {"open", "write", "rename"}
  <2>1. work'[w].at = "done"
    BY <1>1, Ending, OverIs, Zenon
  <2> QED BY <2>1, PenStages, Zenon
<1>6. met' \in BOOLEAN
  BY <1>1
<1>7. PenTypes'
  <2>1. /\ target' \in Inodes /\ tmp' \in Inodes \union {None} /\ tmp' # target'
        /\ kept' \subseteq Keys /\ target' \in {target, tmp} /\ tmp' \in {None, tmp, w}
    BY <1>1, <1>2, NamesApart, Zenon
  <2> QED BY <1>2, <1>3, <1>4, <1>5, <1>6, <2>1, PenStep, Zenon
<1>8. ASSUME ~met'
      PROVE  Alone' /\ TextsInv'
  <2>1. ~met /\ (tmp # None => ~InUse(tmp, w))
    BY <1>1, <1>8, Zenon
  <2>2. Alone /\ TextsInv
    BY <2>1, Zenon DEF SetInv
  <2>3. ASSUME NEW x \in Workers, x # w
        PROVE  pen[x].file = None
    <3>1. SUFFICES ASSUME pen[x].file # None
                   PROVE  FALSE
      OBVIOUS
    <3>2. pen[x].file = tmp
      BY <2>2, <3>1, Zenon DEF Alone
    <3>3. Running(x)
      BY <1>2, <3>1, HolderRuns, Zenon
    <3> QED BY <2>1, <2>3, <3>1, <3>2, <3>3, Zenon DEF InUse
  <2>4. Whole(inode'[target']) /\ \A k \in kept' : inode'[target'][k] = Mine
    <3>1. Whole(inode[target]) /\ \A k \in kept : inode[target][k] = Mine
      BY <2>2, Zenon DEF TextsInv
    <3> QED BY <1>1, <1>4, <3>1
  <2>5. kept' \subseteq kept
    BY <1>1, Zenon
  <2> QED BY <1>3, <1>5, <2>1, <2>3, <2>4, <2>5, TextStep, Zenon
<1> QED BY <1>7, <1>8, Zenon DEF SetInv

LEMMA SetStepPens ==
    ASSUME WorkInv, SetInv, NEW w \in Workers, SetStep(w), UNCHANGED fileVars
    PROVE  SetInv'
<1>1. OnlyMoves(w)
  BY SetStepSane, Zenon DEF Proceeds, SetInv
<1>2. CASE (CapturePrior(w) \/ ReadAndEdit(w)) /\ Ends(w)
  <2>1. work[w].at = "act"
    BY <1>2, Zenon DEF CapturePrior, ReadAndEdit, Setting, At
  <2>2. work'[w].at = "done"
    BY <1>2, Ending, OverIs, Zenon
  <2>3. UNCHANGED setVars
    <3>1. CASE Goes(w, "open")
      <4>1. work'[w].at = "open"
        BY <3>1, Going, Zenon
      <4> QED BY <2>2, <4>1
    <3> QED BY <1>2, <3>1, Zenon DEF CapturePrior, ReadAndEdit, setVars
  <2> QED BY <1>1, <2>1, <2>2, <2>3, PensAside, PenStages, Zenon
<1>3. CASE CapturePrior(w) /\ ~Ends(w)
  <2>1. work[w].at = "act" /\ UNCHANGED setVars
    BY <1>3, Zenon DEF CapturePrior, At
  <2>2. work'[w].at = "act"
    <3>1. Usable' = Usable
      BY Zenon DEF Usable, fileVars
    <3> QED BY <1>3, <3>1, CaptureSane, Zenon DEF SetInv
  <2> QED BY <1>1, <2>1, <2>2, PensAside, PenStages, Zenon
<1>4. CASE ReadAndEdit(w) /\ ~Ends(w)
  BY <1>1, <1>4, ReadPens, Zenon
<1>5. CASE (OpenTmp(w) \/ WriteTmp(w) \/ RenameTmp(w)) /\ Goes(w, "unlink")
  <2>1. work[w].at \in SetStages
    BY <1>5, PenStages, Zenon DEF OpenTmp, WriteTmp, RenameTmp, Setting, At
  <2>2. work'[w].at = "unlink"
    BY <1>5, Going, Zenon
  <2>3. ~Goes(w, "write") /\ ~Goes(w, "rename")
    <3>1. CASE Goes(w, "write")
      <4>1. work'[w].at = "write"
        BY <3>1, Going, Zenon
      <4> QED BY <2>2, <4>1
    <3>2. CASE Goes(w, "rename")
      <4>1. work'[w].at = "rename"
        BY <3>2, Going, Zenon
      <4> QED BY <2>2, <4>1
    <3> QED BY <3>1, <3>2
  <2>4. ~Acted(w, work[w].inv)
    <3>1. CASE Acted(w, work[w].inv)
      <4>1. work'[w].at \in {"done", "submit", "both", "mark"}
        BY <3>1, DoneHolds, Zenon
      <4> QED BY <2>2, <4>1
    <3> QED BY <3>1
  <2>5. UNCHANGED setVars
    BY <1>5, <2>3, <2>4, Zenon DEF OpenTmp, WriteTmp, RenameTmp, setVars
  <2> QED BY <1>5, <2>1, <2>5, UnlinkNext, Zenon
<1>6. CASE (OpenTmp(w) \/ WriteTmp(w) \/ RenameTmp(w)) /\ ~Goes(w, "unlink")
  BY <1>1, <1>6, OpenPens, WritePens, RenamePens, Zenon
<1>7. CASE UnlinkTmp(w)
  BY <1>1, <1>7, UnlinkPens, Zenon
<1> QED BY <1>2, <1>3, <1>4, <1>5, <1>6, <1>7, Zenon DEF SetStep

=============================================================================
