---------------------------- MODULE UndoSettings ----------------------------
(***************************************************************************)
(* One settings file and the programs that write it: the engine's          *)
(* settings.set (settings_executor.rs), the RestoreValue inverse enacted   *)
(* by the undo service and by the engine (undo_enact.rs), and the user.    *)
(*                                                                         *)
(* Writing is read, edit one key, write a temporary file and rename it     *)
(* over the file.  The temporary file has one fixed name, so two writers   *)
(* meet in it; files are therefore inodes here: target and tmp are names,  *)
(* a writer keeps the inode it opened.  A text is its keys' values; Absent *)
(* everywhere is the empty file, Garbled everywhere one text over the      *)
(* longer rest of another.                                                 *)
(***************************************************************************)
EXTENDS UndoCalls

CONSTANTS
    Keys,         \* settings in the file
    SetTasks,     \* what the engine may be asked to set
    FirstText,    \* [Keys -> value]: the file at the start
    Mine,         \* the value the user sets
    Absent,       \* no such key
    Garbled,      \* not readable as settings
    Disk          \* the inode of the file at the start

VARIABLES
    inode,        \* [Workers \union {Disk} -> text]
    target,       \* the inode of the settings file
    tmp,          \* the inode of the temporary file, or None
    pen,          \* [Workers -> the text it will write and the inode it opened]
    kept,         \* history: keys that should still have the user's value
    met           \* history: a writer has opened, renamed or removed the
                  \* temporary file while another one had it open

setVars == <<inode, target, tmp, pen, kept, met>>

(* What a key can hold, what the file can, and the settings that are there *)
(* at the start and that nobody is asked to change.                        *)
Values == {Mine, Absent, Garbled} \union {FirstText[k] : k \in Keys}
              \union {t.b : t \in SetTasks}
Texts == [Keys -> Values]
Lasting == {k \in Keys : /\ FirstText[k] \notin {Absent, Garbled}
                         /\ \A t \in SetTasks : t.a # k}

(* With a lasting setting in it, a file that was cut off can be told from  *)
(* one whose last setting was taken out.                                   *)
ASSUME SettingsAssumption ==
    /\ Disk \notin Workers \union {None}
    /\ FirstText \in Texts
    /\ None \notin Texts
    /\ Mine \notin {Absent, Garbled}
    /\ \A t \in SetTasks : t.kind = "set" /\ t.a \in Keys
    /\ Lasting # {}

Empty == [k \in Keys |-> Absent]
Garbage == [k \in Keys |-> Garbled]
NoPen == [text |-> None, file |-> None]

SettingsInit ==
    /\ inode = [i \in Workers \union {Disk} |-> IF i = Disk THEN FirstText ELSE Empty]
    /\ target = Disk
    /\ tmp = None
    /\ pen = [w \in Workers |-> NoPen]
    /\ kept = {}
    /\ met = FALSE

(* An inode no name and no writer holds is gone.                           *)
Reachable(i, names, pens) == i \in names \/ \E w \in Workers : pens[w].file = i
Collected(files, names, pens) ==
    [i \in DOMAIN files |-> IF Reachable(i, names, pens) THEN files[i] ELSE Empty]

Setting(w, stage) == At(w, stage) /\ work[w].task.kind \in {"set", "value"}
Key(w) == work[w].task.a
Value(w) == work[w].task.b

(* The edit keeps every other key.                                         *)
EditedAlone(text, k, v) == [Empty EXCEPT ![k] = v]

Edited(text, k, v) == [text EXCEPT ![k] = v]

(* Another writer has inode i open.                                        *)
InUse(i, w) == \E x \in Workers \ {w} : Running(x) /\ pen[x].file = i
setCalls == <<log, ledger, crashes, edits, stale>>

-----------------------------------------------------------------------------
(* settings.set captures the value the key has before it writes.           *)
CapturePrior(w) ==
    LET text == inode[target]
    IN  /\ At(w, "act") /\ work[w].task.kind = "set" /\ work[w].inv = None
        /\ \/ /\ text # Garbage
              /\ work' = [work EXCEPT ![w].inv =
                            [kind |-> "value", a |-> Key(w), b |-> text[Key(w)], of |-> None]]
           \/ Ends(w)
        /\ UNCHANGED <<setCalls, touched, setVars>>

(* enact_restore_value: read and edit,                                     *)
ReadAndEdit(w) ==
    LET text == inode[target]
    IN  /\ Setting(w, "act")
        /\ work[w].task.kind = "set" => work[w].inv # None
        /\ \/ /\ text # Garbage
              /\ pen' = [pen EXCEPT ![w].text = Edited(text, Key(w), Value(w))]
              /\ Goes(w, "open")
           \/ Ends(w) /\ UNCHANGED pen
        /\ UNCHANGED <<setCalls, touched, inode, target, tmp, kept, met>>

(* atomic_write: open the temporary file, cutting it to nothing,           *)
OpenTarget(w) ==
    /\ Setting(w, "open")
    /\ tmp' = target
    /\ inode' = [inode EXCEPT ![target] = Empty]
    /\ pen' = [pen EXCEPT ![w].file = target]
    /\ met' = (met \/ InUse(target, w))
    /\ Goes(w, "write")
    /\ UNCHANGED <<setCalls, touched, target, kept>>

OpenTmp(w) ==
    LET i == IF tmp = None THEN w ELSE tmp
    IN  /\ Setting(w, "open")
        /\ \/ /\ tmp' = i
              /\ inode' = [inode EXCEPT ![i] = Empty]
              /\ pen' = [pen EXCEPT ![w].file = i]
              /\ met' = (met \/ InUse(i, w))
              /\ Goes(w, "write")
           \/ Goes(w, "unlink") /\ UNCHANGED <<tmp, inode, pen, met>>
        /\ UNCHANGED <<setCalls, touched, target, kept>>

(* write it, over what another writer may have put there, or fail,         *)
WriteTmp(w) ==
    LET i == pen[w].file
    IN  /\ Setting(w, "write")
        /\ \/ /\ inode' = [inode EXCEPT ![i] = pen[w].text]
              /\ Goes(w, "rename")
           \/ /\ inode[i] # Empty
              /\ inode' = [inode EXCEPT ![i] = Garbage]
              /\ Goes(w, "rename")
           \/ UNCHANGED inode /\ Goes(w, "unlink")
        /\ UNCHANGED <<setCalls, touched, target, tmp, pen, kept, met>>

(* and rename it over the settings file, if it is still there.             *)
RenameTmp(w) ==
    LET pens == [pen EXCEPT ![w] = NoPen]
    IN  /\ Setting(w, "rename")
        /\ \/ /\ tmp # None
              /\ target' = tmp
              /\ tmp' = None
              /\ pen' = pens
              /\ inode' = Collected(inode, {tmp}, pens)
              /\ kept' = kept \ {Key(w)}
              /\ Touches(w)
              /\ Acted(w, work[w].inv)
              /\ met' = (met \/ InUse(tmp, w))
           \/ Goes(w, "unlink") /\ UNCHANGED <<touched, setVars>>
        /\ UNCHANGED setCalls

(* On an error the temporary file is removed, whoever wrote it.            *)
UnlinkTmpLeaksHandle(w) ==
    /\ Setting(w, "unlink")
    /\ tmp' = None
    /\ Ends(w)
    /\ UNCHANGED <<setCalls, touched, inode, target, pen, kept, met>>

UnlinkTmp(w) ==
    LET pens == [pen EXCEPT ![w] = NoPen]
    IN  /\ Setting(w, "unlink")
        /\ tmp' = None
        /\ pen' = pens
        /\ inode' = Collected(inode, {target}, pens)
        /\ met' = (met \/ (tmp # None /\ InUse(tmp, w)))
        /\ Ends(w)
        /\ UNCHANGED <<setCalls, touched, target, kept>>

(* The user changes a setting in place.  A change made while a writer      *)
(* holds an older text may be overwritten by it.                           *)
UserSets(k) ==
    /\ Edits
    /\ inode[target] \notin {Empty, Garbage}
    /\ inode' = [inode EXCEPT ![target][k] = Mine]
    /\ kept' = IF \E w \in Workers : pen[w].text # None THEN kept ELSE kept \union {k}
    /\ UNCHANGED <<target, tmp, pen, met>>

(* Writers that die leave the temporary file where it is.                  *)
PensDropped(home) ==
    LET pens == [w \in Workers |-> IF work[w].home = home THEN NoPen ELSE pen[w]]
    IN  /\ pen' = pens
        /\ inode' = Collected(inode, {target, tmp}, pens)
        /\ UNCHANGED <<target, tmp, kept, met>>

SetStep(w) ==
    \/ CapturePrior(w)
    \/ ReadAndEdit(w)
    \/ OpenTmp(w)
    \/ WriteTmp(w)
    \/ RenameTmp(w)
    \/ UnlinkTmp(w)

-----------------------------------------------------------------------------
(* Properties of the settings file.                                        *)

SettingsTypeOK ==
    /\ target \in Workers \union {Disk}
    /\ tmp \in Workers \union {Disk, None}
    /\ \A i \in DOMAIN inode : DOMAIN inode[i] = Keys
    /\ \A w \in Workers : ~Running(w) => pen[w] = NoPen

(* As long as no two writers meet in the temporary file, the settings file *)
(* is whole, whatever fails and whoever dies in the middle of writing it   *)
(* (undo_enact.rs atomic_write).                                           *)
WholeUnlessWritersMeet ==
    ~met => inode[target] \notin {Empty, Garbage}

(* A setting the user changed while nobody was writing keeps the user's    *)
(* value until that very key is set or restored: writers of other keys     *)
(* read the file afresh and preserve it (undo_enact.rs                     *)
(* enact_restore_value).                                                   *)
UserSettingsKept ==
    ~met => \A k \in kept : inode[target][k] = Mine

=============================================================================
