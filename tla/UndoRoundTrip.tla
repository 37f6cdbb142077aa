--------------------------- MODULE UndoRoundTrip ---------------------------
(***************************************************************************)
(* The way back: an operation that has acted, and the undo calls, keep to  *)
(* what is known of a round trip, so that an undo takes back what the      *)
(* operation did.                                                          *)
(***************************************************************************)
EXTENDS UndoActionsProofs

-----------------------------------------------------------------------------
(* Once the operation has acted.                                           *)

(* A step of w that leaves files and settings alone, and the sidecar that  *)
(* it may have been about to remove.                                       *)
LEMMA AsideReturns ==
    ASSUME NEW o \in Ops, NEW w \in Workers, OnlyMoves(w),
           Receipt(o)' = Receipt(o), Returning(Receipt(o)),
           fs' = fs, info' = info, inode'[target'] = inode[target],
           Calls \intersect touched' = Calls \intersect touched,
           \A x \in Workers : x # w => pen'[x] = pen[x],
           w \in Calls => work[w].at # "sidecar",
           w \in Calls /\ work'[w].at \in SetStages /\ Receipt(o).kind = "value"
             => pen'[w].text = FirstText
    PROVE  Returning(Receipt(o))'
<1> DEFINE inv == Receipt(o)
<1>1. ASSUME NEW c \in Calls, c # w
      PROVE  work'[c] = work[c] /\ pen'[c] = pen[c]
  BY <1>1, Zenon DEF OnlyMoves, Workers
<1>2. inv.kind \in {"path", "untrash"} => MovedBack(Receipt(o))'
  <2>1. (\E c \in Calls : work[c].at = "sidecar") => \E c \in Calls : work'[c].at = "sidecar"
    BY <1>1, Zenon
  <2> QED BY <2>1, Zenon DEF Returning, MovedBack
<1>3. inv.kind = "delete" => Unmade(Receipt(o))'
  BY Zenon DEF Returning, Unmade
<1>4. inv.kind = "value" => Reset(Receipt(o))'
  <2>1. ASSUME inv.kind = "value", NEW c \in Calls, work'[c].at \in SetStages
        PROVE  pen'[c].text = FirstText
    BY <1>1, <2>1, Zenon DEF Returning, Reset
  <2> QED BY <2>1, Zenon DEF Returning, Reset
<1> QED BY <1>2, <1>3, <1>4, Zenon DEF Returning

(* The operation submits its receipt and records it for Ctrl+Z.            *)
LEMMA OpSubmits ==
    ASSUME IInv, NEW o \in Ops, Trip(o), Submit(o), UNCHANGED <<fileVars, setVars>>
    PROVE  Trip(o)'
<1>1. /\ o \in Workers /\ WorkInv /\ StaleInv /\ DOMAIN log = Ops
  BY Zenon DEF IInv, Workers, LogInv
<1>2. work[o].at \in {"submit", "both"} /\ touched' = touched
  BY Zenon DEF Submit, At
<1>3. log[o].state = "absent" /\ HasActed(o) /\ Receipt(o) = work[o].inv
  BY <1>1, <1>2, NoEntryYet, Zenon DEF HasActed, Receipt
<1>4. /\ OnlyMoves(o) /\ work'[o].at \in {"record", "done"}
      /\ work'[o].at = "record" => work'[o].inv = work[o].inv
  <2>1. CASE Ends(o)
    BY <1>1, <2>1, Ending, OverIs, Zenon
  <2>2. CASE Goes(o, "record")
    BY <1>1, <2>2, Going, Zenon
  <2> QED BY <2>1, <2>2, Zenon DEF Submit
<1>5. ~Acting(o)' /\ work'[o].at \notin {"submit", "both"}
  BY <1>4 DEF Acting, TaskStages, ActStages
<1>6. CASE log' = log
  BY <1>2, <1>3, <1>5, <1>6, Zenon DEF Trip, HasActed
<1>7. CASE log' = [log EXCEPT ![o] = [state |-> "live", inv |-> work[o].inv]]
  <2>1. log'[o].state = "live" /\ log'[o].inv = work[o].inv
    BY <1>1, <1>7
  <2>2. Receipt(o)' = Receipt(o)
    BY <1>3, <2>1, Zenon DEF Receipt
  <2>3. /\ fs' = fs /\ info' = info /\ inode'[target'] = inode[target] /\ pen' = pen
        /\ stack' = stack
    BY Zenon DEF fileVars, setVars
  <2>4. o \notin Calls /\ \A c \in Calls : work'[c] = work[c]
    BY <1>4, CallsAssumption, Zenon DEF OnlyMoves, Workers
  <2>5. Errands(o, Receipt(o)) /\ Returning(Receipt(o))
    BY <1>3, Zenon DEF Trip
  <2>6. Returning(Receipt(o))'
    BY <1>1, <1>2, <1>4, <2>2, <2>3, <2>4, <2>5, AsideReturns, Zenon
  <2>7. Errands(o, Receipt(o))'
    BY <1>3, <1>4, <2>2, <2>3, <2>4, <2>5, Zenon DEF Errands
  <2> QED BY <1>5, <2>1, <2>6, <2>7, Zenon DEF Trip
<1> QED BY <1>6, <1>7, Zenon DEF Submit

LEMMA OpRecords ==
    ASSUME IInv, NEW o \in Ops, Trip(o), Record(o), UNCHANGED setVars
    PROVE  Trip(o)'
<1>1. /\ o \in Workers /\ WorkInv /\ StaleInv
  BY Zenon DEF IInv, Workers
<1>2. work[o].at \in {"record", "both"} /\ touched' = touched /\ log' = log
  BY Zenon DEF Record, At, quietCalls
<1>3. /\ OnlyMoves(o) /\ work'[o].at \in {"submit", "done"}
      /\ work'[o].at = "submit" => work[o].at = "both" /\ work'[o].inv = work[o].inv
  <2>1. CASE Ends(o)
    BY <1>1, <2>1, Ending, OverIs, Zenon
  <2>2. CASE Goes(o, "submit") /\ work[o].at = "both"
    BY <1>1, <2>2, Going, Zenon
  <2> QED BY <2>1, <2>2, Zenon DEF Record, At
<1>4. ~Acting(o)' /\ work'[o].at # "record"
  BY <1>3 DEF Acting, TaskStages, ActStages
<1>5. CASE ~HasActed(o)'
  BY <1>2, <1>4, <1>5, Zenon DEF Trip
<1>6. CASE HasActed(o)'
  <2>1. HasActed(o)
    BY <1>2, <1>3, <1>6, Zenon DEF HasActed
  <2>2. Errands(o, Receipt(o)) /\ Returning(Receipt(o))
    BY <2>1, Zenon DEF Trip
  <2>3. work[o].inv = Receipt(o)
    BY <1>1, <1>2, <2>2, NoEntryYet, Zenon DEF Errands, Receipt
  <2>4. Receipt(o)' = Receipt(o)
    <3>1. CASE log[o].state = "absent"
      <4>1. work'[o].inv = work[o].inv
        BY <1>2, <1>3, <1>6, <3>1, Zenon DEF HasActed
      <4> QED BY <1>2, <3>1, <4>1, Zenon DEF Receipt
    <3>2. CASE log[o].state # "absent"
      BY <1>2, <3>2, Zenon DEF Receipt
    <3> QED BY <3>1, <3>2
  <2>5. /\ fs' = fs /\ info' = info /\ inode'[target'] = inode[target] /\ pen' = pen
        /\ stack' = Append(stack, BackInFiles(Receipt(o)))
    BY <2>3, Zenon DEF Record, setVars
  <2>6. o \notin Calls /\ \A c \in Calls : work'[c] = work[c]
    BY <1>3, CallsAssumption, Zenon DEF OnlyMoves, Workers
  <2>7. Returning(Receipt(o))'
    BY <1>1, <1>2, <1>3, <2>2, <2>4, <2>5, <2>6, AsideReturns, Zenon
  <2>8. Receipt(o).kind \in {"path", "untrash"}
    BY <1>1, <1>2, <2>3, Zenon DEF WorkInv, Sane
  <2>9. \A i \in 1 .. Len(stack') : stack'[i] = BackInFiles(Receipt(o))
    <3>1. stack \in Seq([kind : {"rename", "restore"}, a : Places, b : Paths])
      BY Zenon DEF IInv, StackInv
    <3>2. \A i \in 1 .. Len(stack) : stack[i] = BackInFiles(Receipt(o))
      BY <2>2, Zenon DEF Errands
    <3> DEFINE item == BackInFiles(Receipt(o))
    <3> HIDE DEF item
    <3>3. \A i \in 1 .. Len(Append(stack, item)) :
             i \in 1 .. Len(stack) \/ Append(stack, item)[i] = item
      BY <3>1
    <3>4. \A i \in 1 .. Len(stack) : Append(stack, item)[i] = stack[i]
      BY <3>1
    <3> QED BY <2>5, <3>2, <3>3, <3>4, Zenon DEF item
  <2>10. Errands(o, Receipt(o))'
    BY <1>4, <2>2, <2>4, <2>6, <2>8, <2>9, Zenon DEF Errands
  <2> QED BY <1>2, <1>4, <2>7, <2>10, Zenon DEF Trip
<1> QED BY <1>5, <1>6

(* All the steps of the operation.                                         *)
LEMMA OpStep ==
    ASSUME IInv, ~met, NEW o \in Ops, Trip(o), Step(o)
    PROVE  Trip(o)'
<1>1. o \in Workers /\ WorkInv /\ StaleInv /\ o \notin Calls
  BY CallsAssumption, Zenon DEF IInv, Workers
<1>2. CASE (LookupState(o) \/ LookupEntry(o) \/ Mark(o))
  BY <1>1, <1>2, Zenon DEF LookupState, LookupEntry, Mark, At, WorkInv, Sane
<1>3. CASE Audit(o) /\ UNCHANGED <<fileVars, setVars>>
  <2>1. /\ work[o].at = "audit" /\ log' = log /\ touched' = touched
        /\ fs' = fs /\ info' = info /\ stack' = stack
        /\ inode'[target'] = inode[target]
    BY <1>3, Zenon DEF Audit, At, fileVars, setVars
  <2>2. Acting(o)
    BY <2>1 DEF Acting, TaskStages
  <2>3. CASE Ends(o)
    BY <1>1, <2>1, <2>2, <2>3, Ending, OverIs, TripEnds, Zenon
  <2>4. CASE Goes(o, "act")
    <3>1. /\ OnlyMoves(o) /\ work'[o].at = "act" /\ work'[o].task = work[o].task
          /\ work'[o].inv = work[o].inv
      BY <1>1, <2>4, Going, Zenon
    <3>2. /\ FilesBefore(work[o]) /\ TextBefore(work[o], pen[o])
      BY <2>2, Zenon DEF Trip, Starting
    <3>3. "act" \in TaskStages /\ "act" \notin SetStages /\ "audit" \in TaskStages
      BY DEF TaskStages, ActStages, SetStages
    <3>4. FilesBefore(work[o])'
      BY <2>1, <3>1, <3>2, Zenon DEF FilesBefore
    <3>5. TextBefore(work[o], pen[o])'
      BY <2>1, <3>1, <3>2, <3>3, Zenon DEF TextBefore
    <3> QED BY <1>1, <2>1, <2>2, <3>1, <3>3, <3>4, <3>5, TripGoesOn, Zenon
  <2> QED BY <1>3, <2>3, <2>4, Zenon DEF Audit
<1>4. CASE FileStep(o) /\ UNCHANGED setVars
  <2>1. work[o].at \in TaskStages => work[o].task.kind \notin Backward
    BY <1>1, TaskedAt, Zenon
  <2>2. ~(MatchFingerprint(o) \/ RemoveCreated(o) \/ Untrash(o) \/ RemoveSidecar(o)
          \/ RestoreLook(o) \/ RestoreEntry(o))
    <3>1. {"act", "matched", "sidecar", "looked"} \subseteq TaskStages
      BY DEF TaskStages, ActStages
    <3>2. work[o].at \in TaskStages => Suits(work[o])
      BY <1>1, TaskedAt, Zenon DEF Tasked
    <3> QED BY <2>1, <3>1, <3>2, Zenon
               DEF MatchFingerprint, RemoveCreated, Untrash, RemoveSidecar, RestoreLook,
                   RestoreEntry, Doing, At, Suits, Backward
  <2> QED BY <1>4, <2>2, OpMoves, OpCreates, OpTrashes, OpDiscards, OpRecords, Zenon DEF FileStep
<1>5. CASE SetStep(o) /\ UNCHANGED fileVars
  BY <1>5, OpSets, Zenon
<1> QED BY <1>2, <1>3, <1>4, <1>5, OpSubmits, Zenon DEF Step

-----------------------------------------------------------------------------
(* The steps of an undo call.                                              *)

(* The operations that are not asked for have no entries.                  *)
LEMMA SoleEntry ==
    ASSUME StaleInv, NEW o \in Ops, Sole(o), NEW x \in Ops, log[x].state # "absent"
    PROVE  x = o
BY Zenon DEF StaleInv, Sole

LEMMA ReceiptSound ==
    ASSUME IInv, NEW o \in Ops, HasActed(o)
    PROVE  Sound(Receipt(o), Usable) /\ Receipt(o).kind \in Backward \ {"restore"}
<1>1. o \in Workers /\ WorkInv /\ LogInv
  BY Zenon DEF IInv, Workers
<1>2. CASE log[o].state = "absent"
  BY <1>1, <1>2, Zenon DEF HasActed, Receipt, WorkInv, Sane
<1>3. CASE log[o].state # "absent"
  BY <1>1, <1>3, Zenon DEF Receipt, LogInv
<1> QED BY <1>2, <1>3

LogKept(o) ==
    /\ log'[o].inv = log[o].inv
    /\ log'[o].state = "absent" <=> log[o].state = "absent"

(* What the step of a call owes.                                           *)
LEMMA CallTrip ==
    ASSUME NEW o \in Ops, NEW c \in Calls, Trip(o), OnlyMoves(c), LogKept(o),
           log[o].state = "absent" => Calls \intersect touched' = Calls \intersect touched,
           Acting(o) => Starting(o)',
           HasActed(o) =>
             /\ \A i \in 1 .. Len(stack') : stack'[i] = BackInFiles(Receipt(o))
             /\ work'[c].at \in TaskStages =>
                  /\ work'[c].task = (IF work'[c].home = "files" THEN BackInFiles(Receipt(o))
                                                                 ELSE Receipt(o))
                  /\ Receipt(o).kind \notin {"path", "untrash"} => work'[c].home # "files"
             /\ Receipt(o).kind \notin {"path", "untrash"} => stack' = <<>>
             /\ Returning(Receipt(o))'
    PROVE  Trip(o)'
<1>1. work'[o] = work[o] /\ \A d \in Calls : d # c => work'[d] = work[d]
  BY CallsAssumption, Zenon DEF OnlyMoves, Workers
<1>2. /\ HasActed(o)' <=> HasActed(o)
      /\ Acting(o)' <=> Acting(o)
      /\ Receipt(o)' = Receipt(o)
  BY <1>1, Zenon DEF LogKept, HasActed, Acting, Receipt
<1>3. ASSUME HasActed(o)
      PROVE  Errands(o, Receipt(o))'
  <2>1. Errands(o, Receipt(o))
    BY <1>3, Zenon DEF Trip
  <2>2. \A d \in Calls : work'[d].at \in TaskStages =>
          /\ work'[d].task = (IF work'[d].home = "files" THEN BackInFiles(Receipt(o))
                                                         ELSE Receipt(o))
          /\ Receipt(o).kind \notin {"path", "untrash"} => work'[d].home # "files"
    BY <1>1, <1>3, <2>1, Zenon DEF Errands
  <2>3. work'[o].at = "record" => work'[o].inv = Receipt(o)
    BY <1>1, <2>1, Zenon DEF Errands
  <2> QED BY <1>2, <1>3, <2>2, <2>3, Zenon DEF Errands
<1> QED BY <1>2, <1>3, Zenon DEF Trip, LogKept

(* A call that does nothing to files or settings, and is not about to.     *)
LEMMA CallAside ==
    ASSUME NEW o \in Ops, NEW c \in Calls, Trip(o), OnlyMoves(c), LogKept(o),
           Calls \intersect touched' = Calls \intersect touched,
           fs' = fs, info' = info, inode'[target'] = inode[target], stack' = stack,
           \A x \in Workers : x # c => pen'[x] = pen[x],
           work[c].at # "sidecar",
           work'[c].at \in SetStages => pen'[c].text = FirstText,
           work'[c].at \in TaskStages =>
             HasActed(o) /\ ~Acting(o) /\
             \/ /\ work[c].at \in TaskStages
                /\ work'[c].task = work[c].task /\ work'[c].home = work[c].home
             \/ work'[c].task = Receipt(o) /\ work'[c].home # "files"
    PROVE  Trip(o)'
<1>1. /\ work'[o] = work[o] /\ pen'[o] = pen[o] /\ c \in Workers
      /\ \A d \in Calls : d # c => work'[d] = work[d]
  BY CallsAssumption, Zenon DEF OnlyMoves, Workers
<1>2. Receipt(o)' = Receipt(o)
  BY <1>1, Zenon DEF LogKept, Receipt
<1>3. Acting(o) => Starting(o)'
  <2>1. SUFFICES ASSUME Acting(o) PROVE Starting(o)'
    OBVIOUS
  <2>2. Starting(o)
    BY <2>1, Zenon DEF Trip
  <2>3. FilesBefore(work[o])'
    BY <1>1, <2>2, Zenon DEF Starting, FilesBefore
  <2>4. TextBefore(work[o], pen[o])'
    BY <1>1, <2>2, Zenon DEF Starting, TextBefore
  <2> QED BY <1>1, <2>1, <2>2, <2>3, <2>4, Zenon DEF Starting
<1>4. ASSUME HasActed(o)
      PROVE  /\ \A i \in 1 .. Len(stack') : stack'[i] = BackInFiles(Receipt(o))
             /\ work'[c].at \in TaskStages =>
                  /\ work'[c].task = (IF work'[c].home = "files" THEN BackInFiles(Receipt(o))
                                                                 ELSE Receipt(o))
                  /\ Receipt(o).kind \notin {"path", "untrash"} => work'[c].home # "files"
             /\ Receipt(o).kind \notin {"path", "untrash"} => stack' = <<>>
             /\ Returning(Receipt(o))'
  <2>1. Errands(o, Receipt(o)) /\ Returning(Receipt(o))
    BY <1>4, Zenon DEF Trip
  <2>2. Returning(Receipt(o))'
    BY <1>1, <1>2, <2>1, AsideReturns, Zenon
  <2> QED BY <2>1, <2>2, Zenon DEF Errands
<1> QED BY <1>3, <1>4, CallTrip, Zenon

(* A call with a task has the receipt of the operation for it.             *)
LEMMA CallErrand ==
    ASSUME IInv, NEW o \in Ops, Trip(o), HasActed(o), NEW c \in Calls, work[c].at \in TaskStages
    PROVE  /\ From(c) = Receipt(o).a /\ To(c) = Receipt(o).b
           /\ \/ Receipt(o).kind = "path" /\ work[c].task.kind \in {"path", "rename"}
              \/ Receipt(o).kind = "untrash" /\ work[c].task.kind \in {"untrash", "restore"}
              \/ Receipt(o).kind \in {"delete", "value"} /\ work[c].task.kind = Receipt(o).kind
           /\ Receipt(o).kind # "value" => Receipt(o).a \in Places
           /\ Receipt(o).kind \in {"path", "untrash"} => Receipt(o).b \in Places
<1> DEFINE inv == Receipt(o)
<1>1. Errands(o, inv)
  BY Zenon DEF Trip
<1>2. Sound(inv, Usable) /\ inv.kind \in {"path", "untrash", "delete", "value"}
  BY ReceiptSound, Zenon DEF Backward
<1>3. /\ inv.kind # "value" => inv.a \in Places
      /\ inv.kind \in {"path", "untrash"} => inv.b \in Places
  <2>1. Usable \subseteq Slots
    BY DEF Usable
  <2> QED BY <1>2, <2>1, Zenon DEF Sound, Places
<1>4. CASE work[c].home = "files"
  <2>1. work[c].task = BackInFiles(inv) /\ inv.kind \in {"path", "untrash"}
    BY <1>1, <1>4, Zenon DEF Errands
  <2>2. /\ BackInFiles(inv).a = inv.a /\ BackInFiles(inv).b = inv.b
        /\ BackInFiles(inv).kind = IF inv.kind = "path" THEN "rename" ELSE "restore"
    BY DEF BackInFiles
  <2> QED BY <1>3, <2>1, <2>2, Zenon DEF From, To
<1>5. CASE work[c].home # "files"
  <2>1. work[c].task = inv
    BY <1>1, <1>5, Zenon DEF Errands
  <2> QED BY <1>2, <1>3, <2>1, Zenon DEF From, To
<1> QED BY <1>4, <1>5

(* Nobody but the file manager acts on a receipt the log does not have.    *)
LEMMA CallTouches ==
    ASSUME IInv, NEW o \in Ops, Sole(o), log[o].state = "absent", NEW c \in Calls,
           FileStep(c) \/ SetStep(c)
    PROVE  touched' = touched
<1>1. c \in Workers /\ WorkInv /\ StaleInv
  BY Zenon DEF IInv, Workers
<1>2. work[c].at \in ActStages
  <2>1. ~Record(c)
    BY <1>1, CallsAssumption, Zenon DEF Record, At, WorkInv, Sane
  <2> QED BY <1>1, <2>1, FileStepAt, SetFrame, Zenon
<1>3. work[c].at \notin {"idle", "state", "done"}
  BY <1>2 DEF ActStages
<1>4. work[c].home = "files"
  <2>1. ASSUME work[c].home # "files"  PROVE FALSE
    <3>1. work[c].op \in Ops
      BY <1>1, <1>3, <2>1, Zenon DEF WorkInv, Sane
    <3>2. log[work[c].op].state # "absent"
      BY <1>1, <1>3, <2>1, Zenon DEF StaleInv
    <3> QED BY <1>1, <3>1, <3>2, SoleEntry, Zenon
  <2> QED BY <2>1
<1> QED BY <1>1, <1>4, FileFrame, SetFrame, Zenon

(* A call puts the files back, or removes the sidecar.                     *)
LEMMA CallHome ==
    ASSUME NEW o \in Ops, NEW c \in Calls, Trip(o), ~Acting(o), HasActed(o), OnlyMoves(c),
           log' = log, stack' = stack, inode'[target'] = inode[target],
           log[o].state = "absent" => touched' = touched,
           Receipt(o).kind \in {"path", "untrash", "delete"},
           fs' = FirstFiles \/ (fs' = fs /\ touched' = touched),
           info' \subseteq info,
           info' # {} => work'[c].at = "sidecar",
           work'[c].at \in TaskStages =>
             /\ work[c].at \in TaskStages
             /\ work'[c].task = work[c].task /\ work'[c].home = work[c].home
    PROVE  Trip(o)'
<1> DEFINE inv == Receipt(o)
<1>1. Errands(o, inv) /\ Returning(inv)
  BY Zenon DEF Trip
<1>2. work'[o] = work[o]
  BY CallsAssumption, Zenon DEF OnlyMoves, Workers
<1>3. Receipt(o)' = inv
  BY <1>2, Zenon DEF Receipt
<1>4. inode'[target'] = FirstText
  BY <1>1, Zenon DEF Returning, MovedBack, Unmade
<1>5. inv.kind \in {"path", "untrash"} => MovedBack(Receipt(o))'
  <2>1. SUFFICES ASSUME inv.kind \in {"path", "untrash"}  PROVE MovedBack(Receipt(o))'
    OBVIOUS
  <2>2. MovedBack(inv)
    BY <1>1, <2>1, Zenon DEF Returning
  <2>3. (inv.kind = "path" => info' = {}) /\ (inv.kind = "untrash" => info' \subseteq {inv.a})
    <3>1. (inv.kind = "path" => info = {}) /\ (inv.kind = "untrash" => info \subseteq {inv.a})
      BY <2>2, Zenon DEF MovedBack
    <3> QED BY <3>1
  <2>4. /\ FirstFiles[inv.a] = None /\ FirstFiles[inv.b] # None
        /\ \/ fs' = FirstFiles
           \/ fs' = [FirstFiles EXCEPT ![inv.b] = None, ![inv.a] = FirstFiles[inv.b]]
    BY <2>2, Zenon DEF MovedBack
  <2> QED BY <1>3, <1>4, <2>3, <2>4, Zenon DEF MovedBack
<1>6. inv.kind = "delete" => Unmade(Receipt(o))'
  <2>1. SUFFICES ASSUME inv.kind = "delete"  PROVE Unmade(Receipt(o))'
    OBVIOUS
  <2>2. Unmade(inv)
    BY <1>1, <2>1, Zenon DEF Returning
  <2>3. info' = {}
    BY <2>2 DEF Unmade
  <2> QED BY <1>3, <1>4, <2>2, <2>3, Zenon DEF Unmade
<1>7. Returning(Receipt(o))'
  BY <1>1, <1>3, <1>4, <1>5, <1>6, Zenon DEF Returning
<1>8. LogKept(o)
  BY Zenon DEF LogKept
<1>9. /\ \A i \in 1 .. Len(stack') : stack'[i] = BackInFiles(Receipt(o))
      /\ work'[c].at \in TaskStages =>
           /\ work'[c].task = (IF work'[c].home = "files" THEN BackInFiles(Receipt(o))
                                                          ELSE Receipt(o))
           /\ Receipt(o).kind \notin {"path", "untrash"} => work'[c].home # "files"
      /\ Receipt(o).kind \notin {"path", "untrash"} => stack' = <<>>
  BY <1>1, Zenon DEF Errands
<1> QED BY <1>7, <1>8, <1>9, CallTrip, Zenon

(* Moving back what was moved, and removing what was made, restores the    *)
(* files as they were.                                                     *)
LEMMA BackHome ==
    ASSUME FilesTypeOK, NEW inv, inv.a \in Places
    PROVE  /\ MovedBack(inv) /\ inv.b \in Places /\ ~Free(inv.a) =>
                Moved(inv.a, inv.b) = FirstFiles
           /\ Unmade(inv) => [fs EXCEPT ![inv.a] = None] = FirstFiles
<1>1. FirstFiles \in [Places -> UserFiles \union {Made, None}]
  BY FilesAssumption, Zenon
<1>2. ASSUME MovedBack(inv), inv.b \in Places, ~Free(inv.a)
      PROVE  Moved(inv.a, inv.b) = FirstFiles
  <2>1. /\ FirstFiles[inv.a] = None /\ FirstFiles[inv.b] # None
        /\ fs = [FirstFiles EXCEPT ![inv.b] = None, ![inv.a] = FirstFiles[inv.b]]
    BY <1>2, Zenon DEF MovedBack, Free
  <2> QED BY <1>1, <1>2, <2>1 DEF Moved
<1>3. ASSUME Unmade(inv)
      PROVE  [fs EXCEPT ![inv.a] = None] = FirstFiles
  <2>1. /\ FirstFiles[inv.a] = None
        /\ fs = FirstFiles \/ fs = [FirstFiles EXCEPT ![inv.a] = Made]
    BY <1>3, Zenon DEF Unmade
  <2> QED BY <1>1, <2>1
<1> QED BY <1>2, <1>3

(* The kinds of a call's task leave it these steps on files.               *)
LEMMA CallFileSteps ==
    ASSUME IInv, NEW o \in Ops, Trip(o), HasActed(o), NEW c \in Calls, FileStep(c)
    PROVE  /\ work[c].at \in ActStages
           /\ \/ Relocate(c) \/ RenameLook(c) \/ RenameEntry(c)
              \/ MatchFingerprint(c) \/ RemoveCreated(c)
              \/ Untrash(c) \/ RestoreLook(c) \/ RestoreEntry(c) \/ RemoveSidecar(c)
<1>1. c \in Workers /\ WorkInv /\ c \notin Ops
  BY CallsAssumption, Zenon DEF IInv, Workers
<1>2. ~Record(c)
  BY <1>1, Zenon DEF Record, At, WorkInv, Sane
<1>3. work[c].at \in ActStages
  BY <1>1, <1>2, FileStepAt, Zenon
<1>4. work[c].task.kind \notin {"create", "trash", "discard"}
  BY <1>3, CallErrand, StageKinds, Zenon
<1>5. Suits(work[c])
  BY <1>1, <1>3, PlacesOf, Zenon
<1>6. ~(CreateNew(c) \/ CaptureCreated(c) \/ CreateFails(c))
  BY <1>4, <1>5, Zenon DEF CreateNew, CaptureCreated, CreateFails, Suits, Doing, At
<1>7. ~(TrashReserve(c) \/ TrashPut(c) \/ TrashDrop(c))
  BY <1>4, <1>5, Zenon DEF TrashReserve, TrashPut, TrashDrop, Suits, Doing, At
<1>8. ~(PickTrashName(c) \/ ReserveTrashName(c) \/ DiscardPut(c) \/ DiscardRollback(c))
  BY <1>4, <1>5, Zenon DEF PickTrashName, ReserveTrashName, DiscardPut, DiscardRollback, Suits,
                           Doing, At
<1> QED BY <1>2, <1>3, <1>6, <1>7, <1>8, Zenon DEF FileStep

(* A call that has acted has nothing more to do with files.                *)
LEMMA ActsNoMore ==
    ASSUME WorkInv, NEW c \in Calls, c \in Workers, NEW inv, Acted(c, inv)
    PROVE  OnlyMoves(c) /\ work'[c].at \notin TaskStages
<1>1. OnlyMoves(c) /\ (work'[c].at = "done" \/ work'[c].at = "mark")
  BY ActedMoves, OverIs, CallsAssumption, Zenon
<1> QED BY <1>1 DEF TaskStages, ActStages

LEMMA CallFiles ==
    ASSUME IInv, NEW o \in Ops, Sole(o), Trip(o), HasActed(o), ~Acting(o), NEW c \in Calls,
           FileStep(c), UNCHANGED setVars
    PROVE  Trip(o)'
<1> DEFINE inv == Receipt(o)
           stopped == Ends(c) /\ fs' = fs /\ touched' = touched
<1> USE DEF Doing, At
<1>1. c \in Workers /\ WorkInv /\ FilesTypeOK
  BY Zenon DEF IInv, Workers, FileInv
<1>2. /\ work[c].at \in ActStages /\ work[c].at \in TaskStages
      /\ \/ Relocate(c) \/ RenameLook(c) \/ RenameEntry(c)
         \/ MatchFingerprint(c) \/ RemoveCreated(c)
         \/ Untrash(c) \/ RestoreLook(c) \/ RestoreEntry(c) \/ RemoveSidecar(c)
  BY CallFileSteps, StageKinds, Zenon
<1>3. /\ From(c) = inv.a /\ To(c) = inv.b
      /\ \/ inv.kind = "path" /\ work[c].task.kind \in {"path", "rename"}
         \/ inv.kind = "untrash" /\ work[c].task.kind \in {"untrash", "restore"}
         \/ inv.kind \in {"delete", "value"} /\ work[c].task.kind = inv.kind
      /\ inv.kind # "value" => inv.a \in Places
      /\ inv.kind \in {"path", "untrash"} => inv.b \in Places
  BY <1>2, CallErrand, Zenon
<1>4. Returning(inv) /\ Suits(work[c])
  BY <1>1, <1>2, PlacesOf, Zenon DEF Trip
<1>5. /\ log' = log /\ pen' = pen /\ inode'[target'] = inode[target] /\ LogKept(o)
      /\ log[o].state = "absent" => touched' = touched
  BY <1>1, FileFrame, CallTouches, Zenon DEF setVars, LogKept
<1>6. stack' = stack
  BY <1>2, Zenon DEF Relocate, RenameLook, RenameEntry, MatchFingerprint, RemoveCreated, Untrash,
                     RestoreLook, RestoreEntry, RemoveSidecar, quietTrash, fileVars
<1>7. ASSUME OnlyMoves(c), fs' = fs, info' = info, touched' = touched, work[c].at # "sidecar",
             \/ work'[c] = Over
             \/ /\ work'[c].at \in {"looked", "matched"}
                /\ work'[c].task = work[c].task /\ work'[c].home = work[c].home
      PROVE  Trip(o)'
  <2>1. work'[c].at \notin SetStages
    BY <1>7, OverIs DEF SetStages
  <2>2. work'[c].at \in TaskStages =>
             work'[c].task = work[c].task /\ work'[c].home = work[c].home
    BY <1>7, OverIs DEF TaskStages, ActStages
  <2> QED BY <1>2, <1>5, <1>6, <1>7, <2>1, <2>2, CallAside, Zenon
<1>8. CASE stopped /\ ~RemoveSidecar(c)
  <2>1. info' = info /\ work[c].at # "sidecar"
    BY <1>2, <1>4, <1>8, Zenon
       DEF Relocate, RenameLook, RenameEntry, MatchFingerprint, RemoveCreated, Untrash,
           RestoreLook, RestoreEntry, quietTrash, fileVars, Suits
  <2> QED BY <1>1, <1>7, <1>8, <2>1, Ending, Zenon
<1>9. CASE RestoreLook(c) /\ ~stopped
  <2>1. Goes(c, "looked") /\ fs' = fs /\ info' = info /\ touched' = touched /\ work[c].at = "act"
    BY <1>9, Zenon DEF RestoreLook, fileVars
  <2>2. /\ OnlyMoves(c) /\ work'[c].at = "looked" /\ work'[c].task = work[c].task
        /\ work'[c].home = work[c].home
    BY <1>1, <2>1, Going, Zenon DEF KeepsErrand
  <2> QED BY <1>7, <2>1, <2>2, Zenon
<1>10. CASE (RenameLook(c) \/ MatchFingerprint(c)) /\ ~stopped
  <2>1. /\ \E stage \in {"looked", "matched"} : \E found :
             work' = [work EXCEPT ![c].at = stage, ![c].saw = found]
        /\ fs' = fs /\ info' = info /\ touched' = touched /\ work[c].at = "act"
    BY <1>10, Zenon DEF RenameLook, MatchFingerprint, fileVars
  <2>2. PICK stage \in {"looked", "matched"} : \E found :
             work' = [work EXCEPT ![c].at = stage, ![c].saw = found]
    BY <2>1, Zenon
  <2>3. /\ OnlyMoves(c) /\ work'[c].at = stage /\ work'[c].task = work[c].task
        /\ work'[c].home = work[c].home
    <3>1. DOMAIN work = Workers /\ DOMAIN work[c] = Fields
      BY <1>1, Zenon DEF WorkInv, Sane
    <3>2. PICK found : work' = [work EXCEPT ![c].at = stage, ![c].saw = found]
      BY <2>2, Zenon
    <3> QED BY <1>1, <3>1, <3>2 DEF OnlyMoves, Fields
  <2> QED BY <1>7, <2>1, <2>2, <2>3, Zenon
<1>11. CASE (Relocate(c) \/ RenameEntry(c)) /\ ~stopped
  <2>1. /\ ~Free(inv.a) /\ fs' = Moved(inv.a, inv.b) /\ info' = info
        /\ \E r : Acted(c, r)
        /\ work[c].task.kind \in {"path", "rename", "move"}
    BY <1>3, <1>11, Zenon DEF Relocate, RenameEntry, quietTrash
  <2>2. inv.kind = "path" /\ MovedBack(inv) /\ inv.a \in Places /\ inv.b \in Places
    BY <1>3, <1>4, <2>1, Zenon DEF Returning
  <2>3. fs' = FirstFiles /\ info' = {}
    BY <1>1, <2>1, <2>2, BackHome, Zenon DEF MovedBack
  <2> QED BY <1>1, <1>5, <1>6, <2>1, <2>2, <2>3, ActsNoMore, CallHome, Zenon
<1>12. CASE RemoveCreated(c) /\ ~stopped
  <2>1. /\ fs' = [fs EXCEPT ![inv.a] = None] /\ info' = info
        /\ Acted(c, None) /\ work[c].task.kind = "delete"
    BY <1>3, <1>4, <1>12, Zenon DEF RemoveCreated, quietTrash, Suits
  <2>2. inv.kind = "delete" /\ Unmade(inv) /\ inv.a \in Places
    BY <1>3, <1>4, <2>1, Zenon DEF Returning
  <2>3. fs' = FirstFiles /\ info' = {}
    BY <1>1, <2>1, <2>2, BackHome, Zenon DEF Unmade
  <2> QED BY <1>1, <1>5, <1>6, <2>1, <2>2, <2>3, ActsNoMore, CallHome, Zenon
<1>13. CASE (Untrash(c) \/ RestoreEntry(c)) /\ ~stopped
  <2>1. /\ ~Free(inv.a) /\ fs' = Moved(inv.a, inv.b) /\ info' = info /\ Goes(c, "sidecar")
        /\ work[c].task.kind \in {"untrash", "restore"}
    BY <1>3, <1>13, Zenon DEF Untrash, RestoreEntry, quietTrash
  <2>2. inv.kind = "untrash" /\ MovedBack(inv) /\ inv.a \in Places /\ inv.b \in Places
    BY <1>3, <1>4, <2>1, Zenon DEF Returning
  <2>3. fs' = FirstFiles /\ info' \subseteq info
    BY <1>1, <2>1, <2>2, BackHome, Zenon
  <2>4. /\ OnlyMoves(c) /\ work'[c].at = "sidecar" /\ work'[c].task = work[c].task
        /\ work'[c].home = work[c].home
    BY <1>1, <2>1, Going, Zenon DEF KeepsErrand
  <2> QED BY <1>2, <1>5, <1>6, <2>2, <2>3, <2>4, CallHome, Zenon
<1>14. CASE RemoveSidecar(c)
  <2>1. /\ fs' = fs /\ touched' = touched /\ info' = info \ {inv.a}
        /\ Acted(c, None) /\ work[c].task.kind \in {"untrash", "restore"}
    BY <1>3, <1>4, <1>14, Zenon DEF RemoveSidecar, Suits
  <2>2. inv.kind = "untrash" /\ info \subseteq {inv.a}
    BY <1>3, <1>4, <2>1, Zenon DEF Returning, MovedBack
  <2>3. info' = {} /\ info' \subseteq info
    BY <2>1, <2>2
  <2> QED BY <1>1, <1>5, <1>6, <2>1, <2>2, <2>3, ActsNoMore, CallHome, Zenon
<1> QED BY <1>2, <1>8, <1>9, <1>10, <1>11, <1>12, <1>13, <1>14, Zenon

(* A call that restores a setting.                                         *)
LEMMA CallSets ==
    ASSUME IInv, ~met, NEW o \in Ops, Sole(o), Trip(o), HasActed(o), ~Acting(o), NEW c \in Calls,
           SetStep(c), UNCHANGED fileVars
    PROVE  Trip(o)'
<1> DEFINE inv == Receipt(o)
<1>1. c \in Workers /\ WorkInv /\ PenTypes
  BY Zenon DEF IInv, Workers, SetInv
<1>2. /\ work[c].at \in TaskStages /\ work[c].at # "sidecar"
      /\ work[c].task.kind \in {"set", "value"}
  BY <1>1, SetFrame, StageKinds, PlacesOf, Zenon DEF Suits
<1>3. /\ inv.kind = "value" /\ work[c].task.kind = "value"
      /\ Key(c) = inv.a /\ Value(c) = inv.b
  BY <1>2, CallErrand, Zenon DEF From, To, Key, Value
<1>4. Returning(inv) /\ Reset(inv) /\ Errands(o, inv)
  BY <1>3, Zenon DEF Trip, Returning
<1>5. /\ fs = FirstFiles /\ info = {} /\ inv.b = FirstText[inv.a]
      /\ \A k \in Keys \ {inv.a} : inode[target][k] = FirstText[k]
      /\ \A d \in Calls : work[d].at \in SetStages => pen[d].text = FirstText
  BY <1>4, Zenon DEF Reset
<1>6. /\ log' = log /\ LogKept(o)
      /\ log[o].state = "absent" => touched' = touched
      /\ fs' = fs /\ info' = info /\ stack' = stack
      /\ \A x \in Workers : x # c => pen'[x] = pen[x]
  BY <1>1, SetFrame, CallTouches, WriterEffect, Zenon DEF LogKept, fileVars
<1>7. CASE Ends(c) /\ inode'[target'] = inode[target] /\ touched' = touched
  <2>1. OnlyMoves(c) /\ work'[c].at \notin SetStages /\ work'[c].at \notin TaskStages
    <3>1. OnlyMoves(c) /\ work'[c].at = "done"
      BY <1>1, <1>7, Ending, OverIs, Zenon
    <3> QED BY <3>1 DEF SetStages, TaskStages, ActStages
  <2> QED BY <1>2, <1>6, <1>7, <2>1, CallAside, Zenon
<1>8. ASSUME NEW stage \in SetStages, Goes(c, stage), pen'[c].text = FirstText,
             inode'[target'] = inode[target], touched' = touched
      PROVE  Trip(o)'
  <2>1. /\ OnlyMoves(c) /\ work'[c].task = work[c].task /\ work'[c].home = work[c].home
    BY <1>1, <1>8, Going, Zenon DEF KeepsErrand
  <2> QED BY <1>2, <1>6, <1>8, <2>1, CallAside, Zenon
<1>9. CASE /\ work[c].at = "act" /\ Goes(c, "open")
           /\ pen'[c].text = Edited(inode[target], Key(c), Value(c))
           /\ inode'[target'] = inode[target] /\ touched' = touched
  <2>1. inode[target] \in [Keys -> Values] /\ FirstText \in [Keys -> Values] /\ inv.a \in Keys
    BY <1>1, <1>3, SettingsAssumption, WriterTask, Zenon DEF PenTypes, Texts
  <2>2. [inode[target] EXCEPT ![inv.a] = FirstText[inv.a]] = FirstText
    BY <1>5, <2>1
  <2>3. pen'[c].text = FirstText
    BY <1>3, <1>5, <1>9, <2>2, Zenon DEF Edited
  <2>4. "open" \in SetStages
    BY PenStages, Zenon
  <2> QED BY <1>8, <1>9, <2>3, <2>4, Zenon
<1>10. CASE /\ work[c].at \in SetStages /\ \E stage \in SetStages : Goes(c, stage)
            /\ pen'[c].text = pen[c].text
            /\ inode'[target'] = inode[target] /\ touched' = touched
  BY <1>5, <1>8, <1>10, Zenon
<1>11. CASE /\ work[c].at = "rename" /\ Acted(c, work[c].inv)
            /\ inode'[target'] = pen[c].text
  <2>1. inode'[target'] = FirstText
    BY <1>5, <1>11, PenStages, Zenon
  <2>2. OnlyMoves(c) /\ work'[c].at \notin TaskStages /\ work'[c].at \notin SetStages
    BY <1>1, <1>11, ActsNoMore, StageKinds, Zenon
  <2>3. Receipt(o)' = inv
    BY <1>6, <2>2, CallsAssumption, Zenon DEF OnlyMoves, Workers, Receipt
  <2>4. \A d \in Calls : work'[d].at \in SetStages => pen'[d].text = FirstText
    BY <1>5, <1>6, <2>2, Zenon DEF OnlyMoves, Workers
  <2>5. Returning(Receipt(o))'
    BY <1>3, <1>5, <1>6, <2>1, <2>3, <2>4, Zenon DEF Returning, Reset
  <2> QED BY <1>4, <1>6, <2>2, <2>5, CallTrip, Zenon DEF Errands
<1>12. ~CapturePrior(c)
  BY <1>3, Zenon DEF CapturePrior
<1> QED BY <1>1, <1>7, <1>9, <1>10, <1>11, <1>12, WriterEffect, Zenon

(* A call that looks up, audits or marks.                                  *)
LEMMA CallLooks ==
    ASSUME IInv, NEW o \in Ops, Sole(o), Trip(o), NEW c \in Calls,
           LookupState(c) \/ LookupEntry(c) \/ Audit(c) \/ Mark(c),
           UNCHANGED <<fileVars, setVars>>
    PROVE  Trip(o)'
<1>1. c \in Workers /\ WorkInv /\ StaleInv /\ LogInv
  BY Zenon DEF IInv, Workers
<1>2. /\ touched' = touched /\ fs' = fs /\ info' = info /\ stack' = stack
      /\ inode'[target'] = inode[target] /\ pen' = pen
      /\ work[c].at \in {"state", "entry", "audit", "mark"}
  BY Zenon DEF LookupState, LookupEntry, Audit, Mark, At, fileVars, setVars
<1>3. /\ work[c].at \in {"state", "entry", "mark"} => work[c].home # "files" /\ work[c].op \in Ops
      /\ work[c].at \in {"entry", "mark"} => work[c].op = o /\ log[o].state # "absent"
  <2>1. work[c].at \in {"state", "entry", "mark"} => work[c].home # "files" /\ work[c].op \in Ops
    BY <1>1, Zenon DEF WorkInv, Sane
  <2>2. work[c].at \in {"entry", "mark"} => log[work[c].op].state # "absent"
    BY <1>1, <2>1, Zenon DEF StaleInv
  <2> QED BY <1>1, <2>1, <2>2, SoleEntry, Zenon
<1>4. ASSUME log[o].state # "absent"
      PROVE  HasActed(o) /\ ~Acting(o) /\ Receipt(o) = log[o].inv
  <2>1. work[o].at \in {"record", "done"}
    BY <1>1, <1>4, Zenon DEF StaleInv
  <2> QED BY <1>4, <2>1 DEF HasActed, Acting, Receipt, TaskStages, ActStages
<1>5. LogKept(o)
  <2>1. CASE log' = log
    BY <2>1, Zenon DEF LogKept
  <2>2. CASE Mark(c) /\ log' = [log EXCEPT ![work[c].op].state = "over"]
    <3>1. work[c].op = o /\ log[o].state # "absent"
      BY <1>3, <2>2, Zenon DEF Mark, At
    <3>2. DOMAIN log = Ops /\ DOMAIN log[o] = {"state", "inv"}
      BY <1>1, Zenon DEF LogInv
    <3>3. log'[o].state = "over" /\ log'[o].inv = log[o].inv
      BY <2>2, <3>1, <3>2
    <3> QED BY <3>1, <3>3, Zenon DEF LogKept
  <2> QED BY <2>1, <2>2, Zenon DEF LookupState, LookupEntry, Audit, Mark
<1>6. ASSUME OnlyMoves(c), work'[c].at \in {"entry", "done"}
      PROVE  Trip(o)'
  <2>1. work'[c].at \notin SetStages /\ work'[c].at \notin TaskStages
    BY <1>6 DEF SetStages, TaskStages, ActStages
  <2> QED BY <1>2, <1>5, <1>6, <2>1, CallAside, Zenon
<1>7. CASE Ends(c)
  BY <1>1, <1>6, <1>7, Ending, OverIs, Zenon
<1>8. CASE Goes(c, "entry")
  BY <1>1, <1>6, <1>8, Going, Zenon
<1>9. CASE LookupEntry(c) /\ ~Ends(c)
  <2>1. /\ work' = [work EXCEPT ![c].at = "audit", ![c].task = log[work[c].op].inv]
        /\ work[c].at = "entry"
    BY <1>9, Zenon DEF LookupEntry, At
  <2>2. work' = [work EXCEPT ![c].at = "audit", ![c].task = Receipt(o)]
    BY <1>3, <1>4, <2>1, Zenon
  <2>3. /\ OnlyMoves(c) /\ work'[c].at = "audit" /\ work'[c].task = Receipt(o)
        /\ work'[c].home = work[c].home
    <3>1. DOMAIN work = Workers /\ DOMAIN work[c] = Fields
      BY <1>1, Zenon DEF WorkInv, Sane
    <3> QED BY <1>1, <2>2, <3>1 DEF OnlyMoves, Fields
  <2>4. work'[c].at \notin SetStages
    BY <2>3 DEF SetStages
  <2> QED BY <1>2, <1>3, <1>4, <1>5, <2>1, <2>3, <2>4, CallAside, Zenon
<1>10. CASE Audit(c) /\ Goes(c, "act")
  <2>1. /\ OnlyMoves(c) /\ work'[c].at = "act" /\ work'[c].task = work[c].task
        /\ work'[c].home = work[c].home
    BY <1>1, <1>10, Going, Zenon DEF KeepsErrand
  <2>2. work[c].at = "audit" /\ "audit" \in TaskStages /\ "act" \notin SetStages
    BY <1>10 DEF Audit, At, TaskStages, SetStages
  <2>3. ~Acting(o)
    BY <2>2, Zenon DEF Trip, Starting
  <2>4. log' = log
    BY <1>10, Zenon DEF Audit
  <2>5. CASE HasActed(o)
    BY <1>2, <1>5, <2>1, <2>2, <2>3, <2>5, CallAside, Zenon
  <2>6. CASE ~HasActed(o)
    BY <1>2, <1>5, <2>1, <2>3, <2>6, CallTrip, Zenon
  <2> QED BY <2>5, <2>6
<1> QED BY <1>7, <1>8, <1>9, <1>10, Zenon DEF LookupState, LookupEntry, Audit, Mark

(* All the steps of a call.                                                *)
LEMMA CallStep ==
    ASSUME IInv, ~met, NEW o \in Ops, Sole(o), Trip(o), NEW c \in Calls, Step(c)
    PROVE  Trip(o)'
<1>1. c \in Workers /\ WorkInv /\ StaleInv /\ c \notin Ops
  BY CallsAssumption, Zenon DEF IInv, Workers
<1>2. ~Submit(c)
  BY <1>1, Zenon DEF Submit, At, WorkInv, Sane
<1>3. ASSUME FileStep(c) \/ (SetStep(c) /\ UNCHANGED fileVars)
      PROVE  work[c].at \in TaskStages /\ OnlyMoves(c) /\ log' = log
  <2>1. ~Record(c)
    BY <1>1, Zenon DEF Record, At, WorkInv, Sane
  <2>2. work[c].at \in TaskStages /\ log' = log
    BY <1>1, <1>3, <2>1, FileStepAt, FileFrame, SetFrame, StageKinds, Zenon
  <2>3. OnlyMoves(c)
    BY <1>1, <1>3, FileStepSane, SetStepSane, Zenon DEF IInv, SetInv, Proceeds
  <2> QED BY <2>2, <2>3
<1>4. ASSUME FileStep(c) \/ (SetStep(c) /\ UNCHANGED fileVars), ~HasActed(o)
      PROVE  Trip(o)'
  <2>1. ~Acting(o)
    BY <1>3, <1>4, Zenon DEF Trip, Starting
  <2>2. log[o].state = "absent"
    BY <1>4, Zenon DEF HasActed
  <2>3. touched' = touched /\ LogKept(o)
    BY <1>3, <1>4, <2>2, CallTouches, Zenon DEF LogKept
  <2> QED BY <1>3, <1>4, <2>1, <2>3, CallTrip, Zenon
<1>5. ASSUME FileStep(c) \/ (SetStep(c) /\ UNCHANGED fileVars)
      PROVE  ~Acting(o)
  BY <1>3, <1>5, Zenon DEF Trip, Starting
<1>6. CASE FileStep(c) /\ UNCHANGED setVars
  BY <1>4, <1>5, <1>6, CallFiles, Zenon
<1>7. CASE SetStep(c) /\ UNCHANGED fileVars
  BY <1>4, <1>5, <1>7, CallSets, Zenon
<1> QED BY <1>2, <1>6, <1>7, CallLooks, Zenon DEF Step

-----------------------------------------------------------------------------
(* The steps of everybody.                                                 *)

(* A worker that takes a step is not idle, before or after.                *)
LEMMA StepNotIdle ==
    ASSUME IInv, NEW w \in Workers, Step(w)
    PROVE  OnlyMoves(w) /\ work[w].at # "idle" /\ work'[w].at # "idle"
<1> USE DEF IInv
<1>1. CASE LookupState(w) \/ LookupEntry(w) \/ Audit(w) \/ Submit(w) \/ Mark(w)
  BY <1>1, CallMoves, Zenon
<1>2. CASE FileStep(w) \/ (SetStep(w) /\ UNCHANGED fileVars)
  <2>1. Proceeds(w) /\ work[w].at \in ActStages \union {"record", "both"}
    BY <1>2, FileStepSane, SetStepSane, SetFrame, Zenon DEF SetInv
  <2>2. "idle" \notin ActStages \union {"record", "both", "submit", "mark"}
    BY DEF ActStages
  <2> QED BY <2>1, <2>2, OverIs, Zenon DEF Proceeds
<1> QED BY <1>1, <1>2, Zenon DEF Step

(* Nobody becomes idle again.                                              *)
LEMMA SoleBefore ==
    ASSUME IInv, NEW o \in Ops, Sole(o)',
           Ask \/ PressCtrlZ \/ (\E w \in Workers : Step(w)) \/ UNCHANGED vars
    PROVE  Sole(o)
<1> USE DEF IInv
<1>1. SUFFICES ASSUME NEW x \in Ops, x # o
               PROVE  work[x].at = "idle"
  BY Zenon DEF Sole
<1>2. work'[x].at = "idle" /\ x \in Workers
  BY <1>1, Zenon DEF Sole, Workers
<1>3. ASSUME NEW w \in Workers, OnlyMoves(w), work[w].at = "idle" \/ work'[w].at # "idle"
      PROVE  work[x].at = "idle"
  BY <1>2, <1>3, Zenon DEF OnlyMoves
<1>4. CASE Ask
  BY <1>3, <1>4, AskCalls, Zenon
<1>5. CASE PressCtrlZ
  BY <1>3, <1>5, CtrlZCalls, Zenon DEF PressCtrlZ, Workers
<1>6. CASE \E w \in Workers : Step(w)
  BY <1>3, <1>6, StepNotIdle, Zenon
<1>7. CASE UNCHANGED vars
  BY <1>2, <1>7, Zenon DEF vars, callVars
<1> QED BY <1>4, <1>5, <1>6, <1>7

(* Somebody asks.                                                          *)
LEMMA AskTrip ==
    ASSUME IInv, NEW o \in Ops, Sole(o)', Trip(o), Ask
    PROVE  Trip(o)'
<1> USE DEF IInv
<1>1. /\ fs' = fs /\ info' = info /\ stack' = stack
      /\ inode'[target'] = inode[target] /\ pen' = pen
  BY Zenon DEF Ask, fileVars, setVars
<1>2. ASSUME NEW x \in Ops, NEW r, DOMAIN r = Fields, r.at \in {"audit", "act"}, r.inv = None,
             work[x].at = "idle", work' = [work EXCEPT ![x] = r], log' = log, touched' = touched
      PROVE  Trip(o)'
  <2>1. OnlyMoves(x) /\ work'[x] = r
    BY <1>2, BirthFacts, Zenon DEF Workers
  <2>2. x = o
    BY <1>2, <2>1, Zenon DEF Sole
  <2>3. /\ Acting(o) /\ work'[o].at \in TaskStages
        /\ work[o].at \notin {"written", "rollback", "rollback2", "put", "drop", "next"}
        /\ work'[o].at \notin {"written", "rollback", "rollback2", "put", "drop", "next",
                               "picked", "looked"} \union SetStages
    BY <1>2, <2>1, <2>2 DEF Acting, TaskStages, ActStages, SetStages
  <2>4. FilesBefore(work[o]) /\ TextBefore(work[o], pen[o])
    BY <2>3, Zenon DEF Trip, Starting
  <2>5. FilesBefore(work[o])'
    BY <1>1, <2>3, <2>4, Zenon DEF FilesBefore
  <2>6. TextBefore(work[o], pen[o])'
    BY <1>1, <1>2, <2>1, <2>2, <2>3, <2>4, Zenon DEF TextBefore
  <2> QED BY <1>1, <1>2, <2>1, <2>2, <2>3, <2>5, <2>6, TripGoesOn, Zenon
<1>3. ASSUME NEW x \in Ops, NEW task, Execute(x, task)
      PROVE  Trip(o)'
  <2> DEFINE r == [Unborn EXCEPT !.at = "audit", !.home = "engine", !.op = x, !.task = task]
  <2>1. DOMAIN r = Fields /\ r.at = "audit" /\ r.inv = None
    BY DEF Unborn, Fields
  <2>2. /\ work' = [work EXCEPT ![x] = r] /\ work[x].at = "idle" /\ log' = log
        /\ touched' = touched
    BY <1>3, Zenon DEF Execute, Fresh, At
  <2> HIDE DEF r
  <2> QED BY <1>2, <2>1, <2>2, Zenon
<1>4. ASSUME NEW x \in Ops, NEW task, FilesOp(x, task)
      PROVE  Trip(o)'
  <2> DEFINE r == [Unborn EXCEPT !.at = "act", !.home = "files", !.op = x, !.task = task]
  <2>1. DOMAIN r = Fields /\ r.at = "act" /\ r.inv = None
    BY DEF Unborn, Fields
  <2>2. /\ work' = [work EXCEPT ![x] = r] /\ work[x].at = "idle" /\ log' = log
        /\ touched' = touched
    BY <1>4, Zenon DEF FilesOp, Fresh, At
  <2> HIDE DEF r
  <2> QED BY <1>2, <2>1, <2>2, Zenon
<1>5. ASSUME NEW c \in Calls, NEW x \in Ops, NEW home \in Homes, Undo(c, x, home)
      PROVE  Trip(o)'
  <2> DEFINE r == [Unborn EXCEPT !.at = "state", !.home = home, !.op = x]
  <2>1. DOMAIN r = Fields /\ r.at = "state"
    BY DEF Unborn, Fields
  <2>2. /\ work' = [work EXCEPT ![c] = r] /\ work[c].at = "idle" /\ log' = log
        /\ touched' = touched
    BY <1>5, Zenon DEF Undo, Fresh, At
  <2> HIDE DEF r
  <2>3. OnlyMoves(c) /\ work'[c].at = "state"
    BY <2>1, <2>2, BirthFacts, Zenon DEF Workers
  <2>4. work'[c].at \notin TaskStages /\ work'[c].at \notin SetStages
    BY <2>3 DEF TaskStages, ActStages, SetStages
  <2>5. LogKept(o)
    BY <2>2, Zenon DEF LogKept
  <2> QED BY <1>1, <2>2, <2>3, <2>4, <2>5, CallAside, Zenon
<1> QED BY <1>3, <1>4, <1>5, Zenon DEF Ask

(* Ctrl+Z starts a call with the receipt on top of the stack.              *)
LEMMA CtrlZTrip ==
    ASSUME IInv, NEW o \in Ops, Trip(o), NEW c \in Calls, CtrlZ(c), UNCHANGED setVars
    PROVE  Trip(o)'
<1> DEFINE T == [kind : {"rename", "restore"}, a : Places, b : Paths]
           t == stack[Len(stack)]
           r == [Unborn EXCEPT !.at = "act", !.home = "files", !.task = t]
<1>1. c \in Workers /\ WorkInv /\ stack \in Seq(T)
  BY Zenon DEF IInv, Workers, StackInv
<1>2. /\ stack # <<>> /\ stack' = SubSeq(stack, 1, Len(stack) - 1)
      /\ work' = [work EXCEPT ![c] = r] /\ work[c].at = "idle"
      /\ log' = log /\ touched' = touched /\ fs' = fs /\ info' = info
      /\ inode'[target'] = inode[target] /\ pen' = pen
  BY Zenon DEF CtrlZ, Fresh, At, quietCalls, setVars
<1>3. DOMAIN r = Fields /\ r.at = "act" /\ r.home = "files" /\ r.task = t
  BY DEF Unborn, Fields
<1> HIDE DEF T, r
<1>4. /\ Len(stack) \in 1..Len(stack)
      /\ \A i \in 1..Len(stack') : stack'[i] = stack[i] /\ i \in 1..Len(stack)
  BY <1>1, <1>2, SeqPop
<1>5. OnlyMoves(c) /\ work'[c] = r /\ LogKept(o)
  BY <1>1, <1>2, <1>3, BirthFacts, Zenon DEF LogKept
<1>6. ~Acting(o)
  BY <1>2, Zenon DEF Trip, Starting
<1>7. ASSUME HasActed(o)
      PROVE  /\ \A i \in 1..Len(stack') : stack'[i] = BackInFiles(Receipt(o))
             /\ t = BackInFiles(Receipt(o))
             /\ Receipt(o).kind \in {"path", "untrash"}
             /\ Returning(Receipt(o))'
  <2>1. Errands(o, Receipt(o)) /\ Returning(Receipt(o))
    BY <1>7, Zenon DEF Trip
  <2>2. \A i \in 1..Len(stack) : stack[i] = BackInFiles(Receipt(o))
    BY <2>1, Zenon DEF Errands
  <2>3. Receipt(o).kind \in {"path", "untrash"}
    BY <1>2, <2>1, Zenon DEF Errands
  <2>4. Receipt(o)' = Receipt(o)
    BY <1>2, <1>5, CallsAssumption, Zenon DEF Receipt, OnlyMoves, Workers
  <2>5. work[c].at # "sidecar" /\ work'[c].at \notin SetStages
    BY <1>2, <1>3, <1>5 DEF SetStages
  <2>6. Returning(Receipt(o))'
    BY <1>1, <1>2, <1>5, <2>1, <2>4, <2>5, AsideReturns, Zenon
  <2> QED BY <1>4, <2>2, <2>3, <2>6, Zenon
<1>8. Calls \intersect touched' = Calls \intersect touched
  BY <1>2, Zenon
<1> QED BY <1>3, <1>5, <1>6, <1>7, <1>8, CallTrip, Zenon

-----------------------------------------------------------------------------
(* The trip as a whole.                                                    *)

LEMMA InitTrip ==
    ASSUME Init
    PROVE  TripInv
<1>1. /\ work = [w \in Workers |-> Unborn] /\ log = [o \in Ops |-> NotLogged]
      /\ touched = {} /\ edits = 0 /\ crashes = 0 /\ fs = FirstFiles /\ info = {} /\ stack = <<>>
  BY Zenon DEF Init, CallsInit, FilesInit
<1>2. Unborn.at = "idle" /\ NotLogged.state = "absent"
  BY DEF Unborn, NotLogged
<1>3. inode[target] = FirstText
  BY DEF Init, SettingsInit
<1>4. Counts
  BY <1>1 DEF Counts
<1>5. ASSUME NEW o \in Ops
      PROVE  Trip(o)
  <2>1. work[o].at = "idle" /\ log[o].state = "absent" /\ \A c \in Calls : work[c].at = "idle"
    BY <1>1, <1>2 DEF Workers
  <2>2. /\ "idle" \notin TaskStages /\ "idle" \notin SetStages
    BY DEF TaskStages, ActStages, SetStages
  <2>3. FilesBefore(work[o]) /\ TextBefore(work[o], pen[o])
    BY <1>1, <1>3, <2>1, <2>2, Zenon DEF FilesBefore, TextBefore
  <2> QED BY <1>1, <2>1, <2>2, <2>3, Zenon DEF Trip, Starting, HasActed
<1> QED BY <1>4, <1>5, Zenon DEF TripInv

LEMMA StutterTrip ==
    ASSUME NEW o \in Ops, Trip(o), UNCHANGED vars
    PROVE  Trip(o)'
<1>1. /\ work' = work /\ log' = log /\ touched' = touched /\ fs' = fs /\ info' = info
      /\ stack' = stack /\ inode' = inode /\ target' = target /\ pen' = pen
  BY Zenon DEF vars, callVars, fileVars, setVars
<1>2. Receipt(o)' = Receipt(o)
  BY <1>1, Zenon DEF Receipt
<1>3. Starting(o) => Starting(o)'
  BY <1>1, ZenonT(30) DEF Starting, FilesBefore, TextBefore
<1>4. Errands(o, Receipt(o)) => Errands(o, Receipt(o))'
  BY <1>1, <1>2, Zenon DEF Errands
<1>5. Returning(Receipt(o)) => Returning(Receipt(o))'
  BY <1>1, <1>2, Zenon DEF Returning, MovedBack, Unmade, Reset
<1> QED BY <1>1, <1>3, <1>4, <1>5, Zenon DEF Trip, Acting, HasActed

LEMMA TripKeeps ==
    ASSUME IInv, TripInv, [Next]_vars
    PROVE  TripInv'
<1>1. Counts
  BY Zenon DEF TripInv
<1>2. Counts'
  <2>1. CASE Ask \/ PressCtrlZ \/ (\E w \in Workers : Step(w)) \/ UNCHANGED vars
    BY <1>1, <2>1, ProgramsCount, Zenon DEF Counts
  <2> QED BY <1>1, <2>1, OthersCount, Zenon DEF Next
<1>3. ASSUME Quiet', NEW o \in Ops, Sole(o)'
      PROVE  Trip(o)'
  <2>1. /\ Quiet
        /\ Ask \/ PressCtrlZ \/ (\E w \in Workers : Step(w)) \/ UNCHANGED vars
    BY <1>1, <1>3, QuietStep, Zenon
  <2>2. Sole(o)
    BY <1>3, <2>1, SoleBefore, Zenon
  <2>3. Trip(o) /\ ~met
    BY <2>1, <2>2, Zenon DEF TripInv, Quiet
  <2>4. CASE Ask
    BY <1>3, <2>3, <2>4, AskTrip, Zenon
  <2>5. CASE PressCtrlZ
    BY <2>3, <2>5, CtrlZTrip, Zenon DEF PressCtrlZ
  <2>6. ASSUME NEW w \in Workers, Step(w)
        PROVE  Trip(o)'
    <3>1. w = o \/ w \in Calls
      BY <2>2, <2>6, StepNotIdle, Zenon DEF Sole, Workers
    <3> QED BY <2>2, <2>3, <2>6, <3>1, OpStep, CallStep, Zenon
  <2>7. CASE UNCHANGED vars
    BY <2>3, <2>7, StutterTrip, Zenon
  <2> QED BY <2>1, <2>4, <2>5, <2>6, <2>7, Zenon
<1> QED BY <1>2, <1>3, Zenon DEF TripInv

(* While one operation alone has been asked for, nobody else touched files *)
(* or settings and nobody died, the world is at the start, where that      *)
(* operation left it, or back, and everybody who is to undo it holds its   *)
(* receipt (enact, compensate, undo_last).                                 *)
THEOREM TripInvariance == Spec => []TripInv
<1>1. Init => TripInv
  BY InitTrip
<1>2. IInv /\ TripInv /\ [Next]_vars => TripInv'
  BY TripKeeps
<1> QED BY <1>1, <1>2, UndoInvariance, PTL DEF Spec

LEMMA TripIsRound ==
    ASSUME IInv, TripInv
    PROVE  RoundTrip
<1>1. SUFFICES ASSUME \A w \in Workers : ~Running(w),
                      \E o \in Ops : {x \in Ops : At(x, "done")} = {o},
                      Calls \intersect touched # {},
                      edits = 0 /\ crashes = 0 /\ sweeps = 0 /\ ~met
               PROVE  fs = FirstFiles /\ info = {} /\ inode[target] = FirstText
  BY Zenon DEF RoundTrip
<1>2. PICK o \in Ops : {x \in Ops : At(x, "done")} = {o}
  BY <1>1
<1>3. \A w \in Workers : work[w].at \in {"idle", "done"}
  BY <1>1, Zenon DEF Running
<1>4. Sole(o)
  BY <1>2, <1>3, Zenon DEF Sole, At, Workers
<1>5. Trip(o)
  BY <1>1, <1>4, Zenon DEF TripInv, Quiet
<1>6. log[o].state # "absent" /\ HasActed(o) /\ Returning(Receipt(o))
  BY <1>1, <1>5, Zenon DEF Trip, HasActed
<1>7. fs = FirstFiles /\ inode[target] = FirstText
  BY <1>1, <1>6, Zenon DEF Returning
<1>8. \A c \in Calls : work[c].at # "sidecar"
  BY <1>3, Zenon DEF Workers
<1>9. Receipt(o).kind \in {"path", "untrash", "delete", "value"}
  BY <1>6, ReceiptSound, Zenon DEF Backward
<1>10. info = {}
  BY <1>6, <1>7, <1>8, <1>9, Zenon DEF Returning, MovedBack, Unmade, Reset
<1> QED BY <1>7, <1>10

(* When everybody is done, one operation alone was done, an undo of it     *)
(* reports that it acted, and nobody else changed anything, died, emptied  *)
(* the trash or wrote the settings at the same time, then files, trash and *)
(* settings are as they were before the operation: for the moves, trashes, *)
(* creations, renames and settings of the engine and the file manager.     *)
THEOREM UndoRoundTrips == Spec => []RoundTrip
<1>1. IInv /\ TripInv => RoundTrip
  BY TripIsRound
<1> QED BY <1>1, UndoInvariance, TripInvariance, PTL

=============================================================================
