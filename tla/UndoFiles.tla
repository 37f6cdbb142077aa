----------------------------- MODULE UndoFiles -----------------------------
(***************************************************************************)
(* Files, the home trash, and the programs that move things there and back:*)
(* the engine's fs.move, fs.trash and fs.create (file_executor.rs with     *)
(* freedesktop-trash), the file manager's rename, trash and empty-trash    *)
(* (ops.rs), the inverses the undo service and the engine enact            *)
(* (undo_enact.rs), and Ctrl+Z (undo.rs).                                  *)
(*                                                                         *)
(* Every system call that another program can come before or after is a    *)
(* step, and may fail for reasons of its own (a full or read-only disk),   *)
(* except the removals whose result the code ignores.  A file is its       *)
(* content: user files are distinct tokens, Made is what fs.create writes. *)
(* A slot s is the pair files/s (fs[s]) and info/s.trashinfo (s \in info); *)
(* slots are named after the trashed file, so any free slot may be the     *)
(* first candidate.                                                        *)
(***************************************************************************)
EXTENDS UndoCalls

CONSTANTS
    Paths,        \* places in the user's folders
    Slots,        \* names in the home trash
    UserFiles,    \* contents the user owns
    Made,         \* the content fs.create writes
    FileTasks,    \* what the engine may be asked to do with files
    UiTasks,      \* what the user may ask of the file manager
    FirstFiles,   \* [Paths \union Slots -> content]: the files at the start
    MaxSweeps     \* bound on the trash entries the user deletes

VARIABLES
    fs,           \* [Paths \union Slots -> content or None]
    info,         \* the slots that have a .trashinfo sidecar
    stack,        \* the file manager's Ctrl+Z stack
    sweep,        \* the slot whose sidecar the file manager is yet to remove
    sweeps,       \* trash entries deleted so far
    spent,        \* user files the user has replaced or deleted for good
    lost,         \* history: user files destroyed by a program, and how
    strayed       \* history: undo calls that moved or removed another file
                  \* than the one their operation had moved or made

fileVars == <<fs, info, stack, sweep, sweeps, spent, lost, strayed>>

Places == Paths \union Slots

ASSUME FilesAssumption ==
    /\ Paths \intersect Slots = {}
    /\ Made \notin UserFiles
    /\ None \notin UserFiles \union Slots \union {Made}
    /\ FirstFiles \in [Places -> UserFiles \union {Made, None}]
    /\ \A t \in FileTasks : /\ t.kind \in {"move", "trash", "create"}
                            /\ t.a \in Paths
                            /\ t.kind = "move" => t.b \in Paths
    /\ \A t \in UiTasks : /\ t.kind \in {"rename", "discard"}
                          /\ t.a \in Paths
                          /\ t.kind = "rename" => t.b \in Paths

FilesInit ==
    /\ fs = FirstFiles
    /\ info = {}
    /\ stack = <<>>
    /\ sweep = None
    /\ sweeps = 0
    /\ spent = {}
    /\ lost = {}
    /\ strayed = {}

Free(p) == fs[p] = None
Moved(from, to) == [fs EXCEPT ![from] = None, ![to] = fs[from]]

(* What worker w removes or replaces at p: a user file is gone.  saw is    *)
(* what w found at p when it looked, late whether the receipt it follows   *)
(* was captured from something else than what the operation made.          *)
Destroys(w, p, late) ==
    lost' = IF fs[p] \in UserFiles
              THEN lost \union {[file |-> fs[p], seen |-> work[w].saw = fs[p], late |-> late]}
              ELSE lost

(* An undo call takes what is at its place; the receipt does not say what  *)
(* that was, .of does.                                                     *)
Takes(w) ==
    strayed' = IF w \in Calls /\ fs[work[w].task.a] # work[w].task.of
                 THEN strayed \union {w} ELSE strayed

InverseReceipt(kind, now, prior, content) ==
    [kind |-> kind, a |-> now, b |-> prior, of |-> content]

Doing(w, kind, stage) == At(w, stage) /\ work[w].task.kind = kind
From(w) == work[w].task.a
To(w) == work[w].task.b

quietCalls == <<log, ledger, crashes, edits, stale>>
quietTrash == <<info, stack, sweep, sweeps, spent>>

-----------------------------------------------------------------------------
(* fs.move and RestorePath: one renameat2(RENAME_NOREPLACE).               *)
Relocate(w) ==
    /\ \/ Doing(w, "move", "act")
       \/ Doing(w, "path", "act")
    /\ \/ /\ ~Free(From(w)) /\ Free(To(w))
          /\ fs' = Moved(From(w), To(w))
          /\ Takes(w)
          /\ Touches(w)
          /\ Acted(w, InverseReceipt("path", To(w), From(w), fs[From(w)]))
       \/ Ends(w) /\ UNCHANGED <<fs, strayed, touched>>
    /\ UNCHANGED <<quietCalls, quietTrash, lost>>

(* fs.create: O_EXCL, then the bytes; a failed write removes whatever is at*)
(* the path.  The receipt fingerprints what is at the path afterwards.     *)
CreateNew(w) ==
    /\ Doing(w, "create", "act")
    /\ \/ /\ Free(From(w))
          /\ fs' = [fs EXCEPT ![From(w)] = Made]
          /\ Touches(w)
          /\ Goes(w, "written")
       \/ Ends(w) /\ UNCHANGED <<fs, touched>>
    /\ UNCHANGED <<quietCalls, quietTrash, lost, strayed>>

CaptureCreated(w) ==
    /\ At(w, "written")
    /\ \/ ~Free(From(w)) /\ Acted(w, InverseReceipt("delete", From(w), fs[From(w)], Made))
       \/ Ends(w)
    /\ UNCHANGED <<quietCalls, touched, fileVars>>

CreateFails(w) ==
    /\ At(w, "written")
    /\ Ends(w)
    /\ Destroys(w, From(w), FALSE)
    /\ fs' = [fs EXCEPT ![From(w)] = None]
    /\ UNCHANGED <<quietCalls, quietTrash, strayed, touched>>

(* DeleteCreated: compare the fingerprint, then remove.                    *)
MatchAnything(w) ==
    /\ Doing(w, "delete", "act")
    /\ work' = [work EXCEPT ![w].at = "matched", ![w].saw = fs[From(w)]]
    /\ UNCHANGED <<quietCalls, touched, fileVars>>

MatchFingerprint(w) ==
    /\ Doing(w, "delete", "act")
    /\ \/ /\ fs[From(w)] = To(w)
          /\ work' = [work EXCEPT ![w].at = "matched", ![w].saw = fs[From(w)]]
       \/ Ends(w)
    /\ UNCHANGED <<quietCalls, touched, fileVars>>

RemoveCreated(w) ==
    /\ At(w, "matched")
    /\ \/ /\ ~Free(From(w))
          /\ Destroys(w, From(w), To(w) # Made)
          /\ fs' = [fs EXCEPT ![From(w)] = None]
          /\ Takes(w)
          /\ Touches(w)
          /\ Acted(w, None)
       \/ Ends(w) /\ UNCHANGED <<fs, lost, strayed, touched>>
    /\ UNCHANGED <<quietCalls, quietTrash>>

-----------------------------------------------------------------------------
(* fs.trash (trash_into): reserve a slot by creating its sidecar, move the *)
(* file in without replacing, drop the sidecar if that fails; an occupied  *)
(* slot sends it to the next name.                                         *)
TrashReserve(w) ==
    LET untried == Slots \ work[w].tried
    IN  /\ Doing(w, "trash", "act")
        /\ \/ \E s \in untried \ info :
               /\ info' = info \union {s}
               /\ \E stage \in {"put", "drop"} :
                    work' = [work EXCEPT ![w].at = stage, ![w].slot = s,
                                         ![w].tried = @ \union {s}]
           \/ /\ untried \subseteq info
              /\ Ends(w)
              /\ UNCHANGED info
        /\ UNCHANGED <<quietCalls, touched, fs, stack, sweep, sweeps, spent, lost, strayed>>

TrashPut(w) ==
    LET s == work[w].slot
    IN  /\ Doing(w, "trash", "put")
        /\ \/ /\ ~Free(From(w)) /\ Free(s)
              /\ fs' = Moved(From(w), s)
              /\ Touches(w)
              /\ Acted(w, InverseReceipt("untrash", s, From(w), fs[From(w)]))
           \/ /\ ~Free(From(w)) /\ ~Free(s)
              /\ Goes(w, "next") /\ UNCHANGED <<fs, touched>>
           \/ Goes(w, "drop") /\ UNCHANGED <<fs, touched>>
        /\ UNCHANGED <<quietCalls, quietTrash, lost, strayed>>

TrashDrop(w) ==
    /\ At(w, "drop") \/ At(w, "next")
    /\ info' = info \ {work[w].slot}
    /\ IF At(w, "drop") THEN Ends(w) ELSE Goes(w, "act")
    /\ UNCHANGED <<quietCalls, touched, fs, stack, sweep, sweeps, spent, lost, strayed>>

(* RestoreFromTrash: move out without replacing, then remove the sidecar.  *)
Untrash(w) ==
    /\ Doing(w, "untrash", "act")
    /\ \/ /\ ~Free(From(w)) /\ Free(To(w))
          /\ fs' = Moved(From(w), To(w))
          /\ Takes(w)
          /\ Touches(w)
          /\ Goes(w, "sidecar")
       \/ Ends(w) /\ UNCHANGED <<fs, strayed, touched>>
    /\ UNCHANGED <<quietCalls, quietTrash, lost>>

RemoveSidecarForgotten(w) ==
    /\ At(w, "sidecar")
    /\ Acted(w, None)
    /\ UNCHANGED <<quietCalls, touched, fileVars>>

RemoveSidecar(w) ==
    /\ At(w, "sidecar")
    /\ info' = info \ {From(w)}
    /\ Acted(w, None)
    /\ UNCHANGED <<quietCalls, touched, fs, stack, sweep, sweeps, spent, lost, strayed>>

-----------------------------------------------------------------------------
(* The file manager.  One Ctrl+Z at a time holds the stack; a finished     *)
(* operation is pushed on it.                                              *)
StackIsFree == \A c \in Calls : Running(c) => work[c].home # "files"

BackInFiles(inv) ==
    [kind |-> IF inv.kind = "path" THEN "rename" ELSE "restore",
     a |-> inv.a, b |-> inv.b]

Record(o) ==
    /\ At(o, "record") \/ At(o, "both")
    /\ StackIsFree
    /\ stack' = Append(stack, BackInFiles(work[o].inv))
    /\ IF At(o, "both") THEN Goes(o, "submit") ELSE Ends(o)
    /\ UNCHANGED <<quietCalls, touched, fs, info, sweep, sweeps, spent, lost, strayed>>

(* rename: look whether the new name is taken, then rename, which replaces.*)
RenameLook(w) ==
    /\ Doing(w, "rename", "act")
    /\ IF Free(To(w)) THEN work' = [work EXCEPT ![w].at = "looked", ![w].saw = None]
                      ELSE Ends(w)
    /\ UNCHANGED <<quietCalls, touched, fileVars>>

RenameEntry(w) ==
    /\ Doing(w, "rename", "looked")
    /\ \/ /\ ~Free(From(w))
          /\ Destroys(w, To(w), FALSE)
          /\ fs' = Moved(From(w), To(w))
          /\ Acted(w, InverseReceipt("path", To(w), From(w), fs[From(w)]))
       \/ Ends(w) /\ UNCHANGED <<fs, lost>>
    /\ UNCHANGED <<quietCalls, touched, quietTrash, strayed>>

(* trash_entry: a slot free on both sides is reserved by its sidecar; if   *)
(* another trash came first, the next name is tried.  A sidecar that       *)
(* cannot be written is left behind.                                       *)
PickTrashName(w) ==
    LET free == {s \in Slots \ (work[w].tried \union info) : Free(s)}
    IN  /\ Doing(w, "discard", "act")
        /\ \/ \E s \in free :
               work' = [work EXCEPT ![w].at = "picked", ![w].slot = s,
                                    ![w].tried = @ \union {s}]
           \/ free = {} /\ Ends(w)
        /\ UNCHANGED <<quietCalls, touched, fileVars>>

ReserveTrashName(w) ==
    LET s == work[w].slot
    IN  /\ At(w, "picked")
        /\ info' = info \union {s}
        /\ IF s \in info THEN Goes(w, "act") ELSE Goes(w, "put") \/ Ends(w)
        /\ UNCHANGED <<quietCalls, touched, fs, stack, sweep, sweeps, spent, lost, strayed>>

(* The move is a plain rename; if it fails, the sidecar and then files/s   *)
(* are removed.                                                            *)
DiscardPut(w) ==
    LET s == work[w].slot
    IN  /\ Doing(w, "discard", "put")
        /\ \/ /\ ~Free(From(w))
              /\ Destroys(w, s, FALSE)
              /\ fs' = Moved(From(w), s)
              /\ Acted(w, InverseReceipt("untrash", s, From(w), fs[From(w)]))
           \/ Goes(w, "rollback") /\ UNCHANGED <<fs, lost>>
        /\ UNCHANGED <<quietCalls, touched, quietTrash, strayed>>

DiscardRollback(w) ==
    LET s == work[w].slot
    IN  /\ \/ /\ At(w, "rollback")
              /\ info' = info \ {s}
              /\ Goes(w, "rollback2")
              /\ UNCHANGED <<fs, lost>>
           \/ /\ At(w, "rollback2")
              /\ Destroys(w, s, FALSE)
              /\ fs' = [fs EXCEPT ![s] = None]
              /\ Ends(w)
              /\ UNCHANGED info
        /\ UNCHANGED <<quietCalls, touched, stack, sweep, sweeps, spent, strayed>>

(* Ctrl+Z pops the last batch whatever becomes of it.                      *)
CtrlZ(c) ==
    /\ Fresh(c)
    /\ StackIsFree
    /\ stack # <<>>
    /\ stack' = SubSeq(stack, 1, Len(stack) - 1)
    /\ work' = [work EXCEPT ![c] = [Unborn EXCEPT !.at = "act", !.home = "files",
                                                  !.task = stack[Len(stack)]]]
    /\ UNCHANGED <<quietCalls, touched, fs, info, sweep, sweeps, spent, lost, strayed>>

(* restore_entry under ConflictPolicy::Fail: look, move out, then remove   *)
(* the sidecar (RemoveSidecar).                                            *)
RestoreLookUnlists(w) ==
    /\ Doing(w, "restore", "act")
    /\ IF Free(To(w)) THEN Goes(w, "looked") /\ info' = info \ {From(w)}
                      ELSE Ends(w) /\ UNCHANGED info
    /\ UNCHANGED <<quietCalls, touched, fs, stack, sweep, sweeps, spent, lost, strayed>>

RestoreLook(w) ==
    /\ Doing(w, "restore", "act")
    /\ IF Free(To(w)) THEN Goes(w, "looked") ELSE Ends(w)
    /\ UNCHANGED <<quietCalls, touched, fileVars>>

RestoreEntry(w) ==
    /\ Doing(w, "restore", "looked")
    /\ \/ /\ ~Free(From(w))
          /\ Destroys(w, To(w), FALSE)
          /\ fs' = Moved(From(w), To(w))
          /\ Goes(w, "sidecar")
       \/ Ends(w) /\ UNCHANGED <<fs, lost>>
    /\ UNCHANGED <<quietCalls, touched, quietTrash, strayed>>

(* Emptying the trash, or deleting one entry of it: the payload, then the  *)
(* sidecar.                                                                *)
SweepPayload(s) ==
    /\ sweep = None
    /\ sweeps < MaxSweeps
    /\ s \in info
    /\ sweep' = s
    /\ sweeps' = sweeps + 1
    /\ spent' = spent \union ({fs[s]} \intersect UserFiles)
    /\ fs' = [fs EXCEPT ![s] = None]
    /\ UNCHANGED <<callVars, info, stack, lost, strayed>>

SweepSidecar ==
    /\ sweep # None
    /\ info' = info \ {sweep}
    /\ sweep' = None
    /\ UNCHANGED <<callVars, fs, stack, sweeps, spent, lost, strayed>>

(* The user saves a new document at p, over whatever is there.             *)
UserSaves(p, f) ==
    /\ Edits
    /\ f \notin spent \union {fs[q] : q \in Places} \union {l.file : l \in lost}
    /\ spent' = spent \union ({fs[p]} \intersect UserFiles)
    /\ fs' = [fs EXCEPT ![p] = f]
    /\ UNCHANGED <<info, stack, sweep, sweeps, lost, strayed>>

(* The Ctrl+Z stack dies with the file manager.                            *)
StackDropped(home) ==
    /\ IF home = "files" THEN stack' = <<>> /\ sweep' = None
                         ELSE UNCHANGED <<stack, sweep>>
    /\ UNCHANGED <<fs, info, sweeps, spent, lost, strayed>>

FileStep(w) ==
    \/ Relocate(w)
    \/ CreateNew(w)
    \/ CaptureCreated(w)
    \/ CreateFails(w)
    \/ MatchFingerprint(w)
    \/ RemoveCreated(w)
    \/ TrashReserve(w)
    \/ TrashPut(w)
    \/ TrashDrop(w)
    \/ Untrash(w)
    \/ RemoveSidecar(w)
    \/ Record(w)
    \/ RenameLook(w)
    \/ RenameEntry(w)
    \/ PickTrashName(w)
    \/ ReserveTrashName(w)
    \/ DiscardPut(w)
    \/ DiscardRollback(w)
    \/ RestoreLook(w)
    \/ RestoreEntry(w)

-----------------------------------------------------------------------------
(* Properties of the file steps.                                           *)

FilesTypeOK ==
    /\ fs \in [Places -> UserFiles \union {Made, None}]
    /\ info \subseteq Slots
    /\ sweep \in Slots \union {None}
    /\ spent \subseteq UserFiles

(* Every document of the user is in a folder or in the trash unless the    *)
(* user replaced or deleted it, or it was overtaken: it came to its place  *)
(* after the program that destroyed it had looked there (ops.rs rename and *)
(* restore_entry look, then rename; undo_enact.rs enact_delete_created     *)
(* compares, then removes; ops.rs trash_entry_at rolls back a slot another *)
(* trash has meanwhile taken), or after fs.create had written there and    *)
(* before it took the fingerprint.  Atomic renames destroy nothing.        *)
OnlyOvertakenFilesAreLost ==
    /\ \A l \in lost : l.seen => l.late
    /\ \A f \in UserFiles :
         (\E p \in Places : FirstFiles[p] = f) =>
           \/ f \in spent
           \/ \E p \in Places : fs[p] = f
           \/ \E l \in lost : l.file = f

(* A file in the trash can be listed, that is, it has its sidecar          *)
(* (ops.rs:953, "the pairing invariant"), as long as nobody empties the    *)
(* trash: whoever reserves, restores or rolls back keeps payload and       *)
(* sidecar together in every interleaving and across every crash.          *)
PairedUnlessEmptied ==
    \A s \in Slots : ~Free(s) /\ s \notin info /\ sweeps = 0 => fs[s] = FirstFiles[s]

(* What undo_enact.rs:13 calls its safety property, "an undo only ever     *)
(* touches exactly the entity the action produced".                        *)
UndoTouchesItsOwn == strayed = {}

=============================================================================
