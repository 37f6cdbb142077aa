------------------------- MODULE UndoActionsProofs -------------------------
(***************************************************************************)
(* What TLAPS proves of UndoActions: the invariant as a whole, and the     *)
(* theorems that follow from it.  The last part prepares the round trip:   *)
(* what is known between an operation and the end of its undo, and that    *)
(* the operation keeps to it until it has acted (UndoRoundTrip has the     *)
(* rest).                                                                  *)
(***************************************************************************)
EXTENDS UndoActionsInv

(* The settings file, when the user or a death interferes.                 *)

(* The user sets a key in the file itself.                                 *)
LEMMA UserPens ==
    ASSUME SetInv, NEW k \in Keys, UserSets(k)
    PROVE  SetInv'
<1>1. /\ inode' = [inode EXCEPT ![target][k] = Mine] /\ work' = work
      /\ kept' = kept \/ (kept' = kept \union {k} /\ \A w \in Workers : pen[w].text = None)
      /\ target' = target /\ tmp' = tmp /\ pen' = pen /\ met' = met
  BY Zenon DEF UserSets, Edits
<1>2. /\ PenTypes /\ inode \in [Inodes -> Texts] /\ target \in Inodes /\ tmp # target
      /\ kept \subseteq Keys
  BY Zenon DEF SetInv, PenTypes
<1>3. /\ inode' \in [Inodes -> Texts]
      /\ inode'[target][k] = Mine
      /\ \A j \in Keys : j # k => inode'[target][j] = inode[target][j]
      /\ \A i \in Inodes : i # target => inode'[i] = inode[i]
  <2>1. DOMAIN inode = Inodes /\ inode[target] \in [Keys -> Values] /\ Mine \in Values
    BY <1>2, TextFacts DEF Texts
  <2>2. [inode[target] EXCEPT ![k] = Mine] \in Texts
    BY <2>1 DEF Texts
  <2>3. inode' = [inode EXCEPT ![target] = [inode[target] EXCEPT ![k] = Mine]]
    BY <1>1
  <2>4. /\ inode' \in [Inodes -> Texts]
        /\ inode'[target] = [inode[target] EXCEPT ![k] = Mine]
        /\ \A i \in Inodes : i # target => inode'[i] = inode[i]
    BY <1>2, <2>2, <2>3
  <2> QED BY <2>1, <2>4
<1>4. PenTypes'
  <2>1. kept' \subseteq Keys
    BY <1>1, <1>2, Zenon
  <2> QED BY <1>1, <1>2, <1>3, <2>1, Zenon DEF PenTypes
<1>5. ASSUME ~met
      PROVE  Alone' /\ TextsInv'
  <2>1. Alone /\ TextsInv
    BY <1>5, Zenon DEF SetInv
  <2>2. Alone'
    <3>1. ASSUME NEW w \in Workers, work[w].at \in {"write", "rename"}
          PROVE  inode'[pen[w].file] = inode[pen[w].file]
      <4>1. pen[w].file # None /\ pen[w].file = tmp
        BY <1>2, <2>1, <3>1, Zenon DEF PenTypes, Alone
      <4>2. pen[w].file \in Inodes
        BY <1>2, <4>1, Zenon DEF PenTypes
      <4> QED BY <1>2, <1>3, <4>1, <4>2, Zenon
    <3>2. \A w \in Workers :
             /\ work[w].at = "write" => inode'[pen[w].file] = Empty
             /\ work[w].at = "rename" => inode'[pen[w].file] = pen[w].text
      BY <2>1, <3>1, Zenon DEF Alone
    <3> QED BY <1>1, <2>1, <3>2, Zenon DEF Alone
  <2>3. Whole(inode'[target])
    <3>1. Whole(inode[target]) /\ Mine \notin {Absent, Garbled} /\ Lasting \subseteq Keys
      BY <2>1, SettingsAssumption, TextFacts, Zenon DEF TextsInv
    <3> QED BY <1>3, <3>1, Zenon DEF Whole
  <2>4. \A j \in kept' : inode'[target][j] = Mine
    <3>1. \A j \in kept : inode[target][j] = Mine
      BY <2>1, Zenon DEF TextsInv
    <3>2. \A j \in kept' : j = k \/ (j \in kept /\ j \in Keys)
      BY <1>1, <1>2, Zenon
    <3>3. ASSUME NEW j \in kept'
          PROVE  inode'[target][j] = Mine
      <4>1. CASE j = k
        BY <1>3, <4>1
      <4>2. CASE j # k
        BY <1>3, <3>1, <3>2, <4>2
      <4> QED BY <4>1, <4>2
    <3> QED BY <3>3
  <2>5. ASSUME NEW w \in Workers, work[w].at \in SetStages
        PROVE  Whole(pen[w].text) /\ \A j \in kept' \ {work[w].task.a} : pen[w].text[j] = Mine
    <3>1. pen[w].text \in Texts
      BY <1>2, <2>5, Zenon DEF PenTypes
    <3>2. kept' = kept
      BY <1>1, <3>1, NamesApart, Zenon
    <3> QED BY <2>1, <2>5, <3>2, Zenon DEF TextsInv
  <2>6. TextsInv'
    BY <1>1, <2>3, <2>4, <2>5, Zenon DEF TextsInv, Whole
  <2> QED BY <2>2, <2>6
<1> QED BY <1>1, <1>4, <1>5, Zenon DEF SetInv

(* Writers that die.                                                       *)
LEMMA CrashPens ==
    ASSUME SetInv, NEW home \in Homes, Dies(home), PensDropped(home)
    PROVE  SetInv'
<1> DEFINE pens == [w \in Workers |-> IF work[w].home = home THEN NoPen ELSE pen[w]]
<1>1. /\ pen' = pens /\ inode' = Collected(inode, {target, tmp}, pens)
      /\ target' = target /\ tmp' = tmp /\ kept' = kept /\ met' = met
      /\ work' = [w \in Workers |-> IF Running(w) /\ work[w].home = home THEN Over ELSE work[w]]
  BY Zenon DEF PensDropped, Dies
<1>2. /\ PenTypes /\ inode \in [Inodes -> Texts] /\ target \in Inodes
      /\ pen \in [Workers -> [text : Texts \union {None}, file : Inodes \union {None}]]
  BY Zenon DEF SetInv, PenTypes
<1>3. /\ pen' \in [Workers -> [text : Texts \union {None}, file : Inodes \union {None}]]
      /\ \A w \in Workers : pen'[w] = IF work[w].home = home THEN NoPen ELSE pen[w]
      /\ \A w \in Workers : work'[w] = IF Running(w) /\ work[w].home = home THEN Over ELSE work[w]
  BY <1>1, <1>2, NoPenIs
<1>4. /\ inode' \in [Inodes -> Texts] /\ inode'[target] = inode[target]
      /\ \A j \in Inodes, x \in Workers : pen'[x].file = j => inode'[j] = inode[j]
  <2> DEFINE names == {target, tmp}
  <2>1. target \in names
    OBVIOUS
  <2> HIDE DEF pens, names
  <2>2. /\ inode' \in [Inodes -> Texts]
        /\ \A j \in Inodes : j \in names => inode'[j] = inode[j]
        /\ \A j \in Inodes, x \in Workers : pens[x].file = j => inode'[j] = inode[j]
    <3>1. inode' = Collected(inode, names, pens)
      BY <1>1 DEF names
    <3> QED BY <1>2, <3>1, CollectedIs
  <2> QED BY <1>1, <1>2, <2>1, <2>2, Zenon
<1>5. "done" \notin SetStages \union BeforeOpen /\ "idle" \notin SetStages
      /\ {"open", "write", "rename"} \subseteq SetStages
  BY PenStages, Zenon
<1>6. ASSUME NEW w \in Workers
      PROVE  /\ work'[w].at \in SetStages => work'[w] = work[w] /\ pen'[w] = pen[w]
             /\ work'[w].at \in BeforeOpen => work'[w] = work[w]
             /\ pen'[w] = NoPen \/ (work'[w] = work[w] /\ pen'[w] = pen[w])
  BY <1>3, <1>5, OverIs, Zenon DEF Running
<1>7. PenTypes'
  <2>1. ASSUME NEW w \in Workers
        PROVE  /\ work'[w].at \notin SetStages => pen'[w] = NoPen
               /\ work'[w].at \in SetStages => pen'[w].text \in Texts
               /\ work'[w].at = "open" => pen'[w].file = None
               /\ work'[w].at \in {"write", "rename"} => pen'[w].file # None
               /\ work'[w].at \in BeforeOpen => target # w /\ tmp # w
    <3>1. /\ work[w].at \notin SetStages => pen[w] = NoPen
          /\ work[w].at \in SetStages => pen[w].text \in Texts
          /\ work[w].at = "open" => pen[w].file = None
          /\ work[w].at \in {"write", "rename"} => pen[w].file # None
          /\ work[w].at \in BeforeOpen => target # w /\ tmp # w
      BY <1>2, Zenon DEF PenTypes
    <3>2. work'[w].at \notin SetStages => pen'[w] = NoPen
      BY SMTT(20), <1>6, <3>1
    <3>3. CASE work'[w].at \in SetStages
      BY SMTT(20), <1>5, <1>6, <3>1, <3>3
    <3>4. CASE work'[w].at \notin SetStages
      BY <1>5, <1>6, <3>1, <3>2, <3>4
    <3> QED BY <3>3, <3>4
  <2> QED BY <1>1, <1>2, <1>3, <1>4, <2>1, Zenon DEF PenTypes
<1>8. ASSUME ~met
      PROVE  Alone' /\ TextsInv'
  <2>1. Alone /\ TextsInv
    BY <1>8, Zenon DEF SetInv
  <2>2. \A w \in Workers : pen'[w].file # None => pen'[w].file = pen[w].file
    BY <1>6, NoPenIs
  <2>3. \A w \in Workers : pen'[w].file # None =>
           /\ pen'[w].file = tmp
           /\ \A x \in Workers : pen'[x].file # None => x = w
    BY <2>1, <2>2, ZenonT(30) DEF Alone
  <2>4. ASSUME NEW w \in Workers, work'[w].at \in {"write", "rename"}
        PROVE  /\ work'[w] = work[w] /\ pen'[w] = pen[w]
               /\ inode'[pen[w].file] = inode[pen[w].file]
    <3>1. work'[w] = work[w] /\ pen'[w] = pen[w]
      BY <1>5, <1>6, <2>4, Zenon
    <3>2. work[w].at \in {"write", "rename"}
      BY <2>4, <3>1
    <3>3. pen[w].file \in Inodes
      BY <1>2, <3>2, Zenon DEF PenTypes
    <3> QED BY <1>4, <3>1, <3>3
  <2>5. \A w \in Workers : /\ work'[w].at = "write" => inode'[pen'[w].file] = Empty
                           /\ work'[w].at = "rename" => inode'[pen'[w].file] = pen'[w].text
    BY <2>1, <2>4 DEF Alone
  <2>6. Alone'
    BY <1>1, <2>3, <2>5, Zenon DEF Alone
  <2>7. Whole(inode'[target]) /\ \A k \in kept : inode'[target][k] = Mine
    <3>1. Whole(inode[target]) /\ \A k \in kept : inode[target][k] = Mine
      BY <2>1, Zenon DEF TextsInv
    <3> QED BY <1>4, <3>1
  <2>8. ASSUME NEW w \in Workers, work'[w].at \in SetStages
        PROVE  Whole(pen'[w].text) /\ \A k \in kept \ {work'[w].task.a} : pen'[w].text[k] = Mine
    <3>1. work'[w] = work[w] /\ pen'[w] = pen[w]
      BY <1>6, <2>8, Zenon
    <3> QED BY <2>1, <2>8, <3>1 DEF TextsInv
  <2>9. TextsInv'
    BY <1>1, <2>7, <2>8, Zenon DEF TextsInv, Whole
  <2> QED BY <2>6, <2>9
<1> QED BY <1>1, <1>7, <1>8, Zenon DEF SetInv

-----------------------------------------------------------------------------
(* The whole invariant.                                                    *)

(* Steps that ask, look up, submit or mark leave the world alone.          *)
LEMMA WorldAside ==
    ASSUME FileInv, SlotInv, SetInv, NEW w \in Workers, OnlyMoves(w),
           UNCHANGED <<fs, info, sweep, sweeps, spent, lost>>, UNCHANGED setVars,
           work[w].at \in {"idle", "state", "entry", "audit", "submit", "both", "mark"},
           work'[w].at \in {"state", "entry", "audit", "act", "record", "done"},
           work'[w].at = "act" => work[w].at \in {"idle", "audit"},
           work[w].at \in {"submit", "both", "mark"} => work'[w].at \in {"record", "done"}
    PROVE  FileInv' /\ SlotInv' /\ SetInv' /\ Usable' = Usable
<1>1. FileInv'
  BY Zenon DEF FileInv, FilesTypeOK, OnlyOvertakenFilesAreLost
<1>2. SlotInv'
  BY SlotsAside, Zenon
<1>3. SetInv'
  <2>1. /\ work[w].at \notin SetStages
        /\ work'[w].at \notin SetStages
    BY Zenon DEF SetStages
  <2>2. work'[w].at \in BeforeOpen => work[w].at \in BeforeOpen
    BY PenStages, Zenon
  <2> QED BY <2>1, <2>2, PensAside, Zenon
<1>4. Usable' = Usable
  BY Zenon DEF Usable
<1> QED BY <1>1, <1>2, <1>3, <1>4

LEMMA CallMoves ==
    ASSUME WorkInv, NEW w \in Workers,
           LookupState(w) \/ LookupEntry(w) \/ Audit(w) \/ Submit(w) \/ Mark(w)
    PROVE  /\ OnlyMoves(w)
           /\ work[w].at \in {"state", "entry", "audit", "submit", "both", "mark"}
           /\ work'[w].at \in {"entry", "audit", "act", "record", "done"}
           /\ work'[w].at = "act" => work[w].at = "audit"
           /\ work[w].at \in {"submit", "both", "mark"} => work'[w].at \in {"record", "done"}
<1>1. DOMAIN work = Workers /\ DOMAIN work[w] = Fields
  BY Zenon DEF WorkInv, Sane
<1>2. CASE LookupState(w) \/ Audit(w) \/ Submit(w) \/ Mark(w)
  <2>1. CASE Ends(w)
    BY <1>2, <2>1, Ending, OverIs, Zenon DEF LookupState, Audit, Submit, Mark, At
  <2>2. CASE LookupState(w) /\ Goes(w, "entry")
    <3>1. OnlyMoves(w) /\ work'[w].at = "entry"
      BY <2>2, Going, Zenon
    <3>2. work[w].at = "state"
      BY <2>2, Zenon DEF LookupState, At
    <3> QED BY <3>1, <3>2
  <2>3. CASE Audit(w) /\ Goes(w, "act")
    <3>1. OnlyMoves(w) /\ work'[w].at = "act"
      BY <2>3, Going, Zenon
    <3>2. work[w].at = "audit"
      BY <2>3, Zenon DEF Audit, At
    <3> QED BY <3>1, <3>2
  <2>4. CASE Submit(w) /\ Goes(w, "record")
    <3>1. OnlyMoves(w) /\ work'[w].at = "record"
      BY <2>4, Going, Zenon
    <3>2. work[w].at \in {"submit", "both"}
      BY <2>4, Zenon DEF Submit, At
    <3> QED BY <3>1, <3>2
  <2> QED BY <1>2, <2>1, <2>2, <2>3, <2>4, Zenon DEF LookupState, Audit, Submit, Mark
<1>3. CASE LookupEntry(w)
  <2>1. CASE Ends(w)
    BY <1>3, <2>1, Ending, OverIs, Zenon DEF LookupEntry, At
  <2>2. CASE work' = [work EXCEPT ![w].at = "audit", ![w].task = log[work[w].op].inv]
    <3>1. OnlyMoves(w) /\ work'[w].at = "audit"
      BY <1>1, <2>2 DEF OnlyMoves, Fields
    <3> QED BY <1>3, <3>1, Zenon DEF LookupEntry, At
  <2> QED BY <1>3, <2>1, <2>2, Zenon DEF LookupEntry
<1> QED BY <1>2, <1>3

LEMMA StepKeeps ==
    ASSUME IInv, NEW w \in Workers, Step(w)
    PROVE  IInv'
<1> USE DEF IInv
<1>1. CASE /\ LookupState(w) \/ LookupEntry(w) \/ Audit(w) \/ Submit(w) \/ Mark(w)
           /\ UNCHANGED <<fileVars, setVars>>
  <2>1. /\ fs' = fs /\ info' = info /\ sweep' = sweep /\ sweeps' = sweeps /\ spent' = spent
        /\ lost' = lost /\ stack' = stack /\ UNCHANGED setVars
    BY <1>1, Zenon DEF fileVars
  <2>2. /\ OnlyMoves(w)
        /\ work[w].at \in {"state", "entry", "audit", "submit", "both", "mark"}
        /\ work'[w].at \in {"entry", "audit", "act", "record", "done"}
        /\ work'[w].at = "act" => work[w].at = "audit"
        /\ work[w].at \in {"submit", "both", "mark"} => work'[w].at \in {"record", "done"}
    BY <1>1, CallMoves, Zenon
  <2>3. FileInv' /\ SlotInv' /\ SetInv' /\ Usable' = Usable
    BY <2>1, <2>2, WorldAside, Zenon
  <2>4. WorkInv' /\ LogInv' /\ AuditInv' /\ StaleInv'
    BY <1>1, <2>3, LookupCalls, SubmitCalls, MarkCalls, Zenon
  <2>5. StackInv'
    BY <2>1, <2>3, Zenon DEF StackInv
  <2> QED BY <2>3, <2>4, <2>5
<1>2. CASE FileStep(w) /\ UNCHANGED setVars
  <2>1. WorkInv' /\ LogInv' /\ AuditInv' /\ StaleInv'
    BY <1>2, FileStepSane, FileCalls, Zenon
  <2>2. StackInv' /\ FileInv' /\ SlotInv'
    BY <1>2, StackStep, FileStepFiles, FileStepSlots, Zenon
  <2>3. SetInv'
    BY <1>2, FilePens, Zenon
  <2> QED BY <2>1, <2>2, <2>3
<1>3. CASE SetStep(w) /\ UNCHANGED fileVars
  <2>1. /\ WorkInv' /\ LogInv' /\ AuditInv' /\ StaleInv' /\ Usable' = Usable /\ OnlyMoves(w)
    BY <1>3, SetStepSane, SetCalls, Zenon DEF SetInv, Proceeds
  <2>2. SetInv'
    BY <1>3, SetStepPens, Zenon
  <2>3. /\ fs' = fs /\ info' = info /\ sweep' = sweep /\ sweeps' = sweeps /\ spent' = spent
        /\ lost' = lost /\ stack' = stack
    BY <1>3, Zenon DEF fileVars
  <2>4. StackInv' /\ FileInv'
    BY <2>1, <2>3, Zenon DEF StackInv, FileInv, FilesTypeOK, OnlyOvertakenFilesAreLost
  <2>5. work'[w].at \notin {"put", "drop", "next", "rollback", "sidecar"}
    <3>1. CASE Ends(w) \/ Acted(w, work[w].inv)
      BY <3>1, DoneHolds, Zenon
    <3>2. CASE \E stage \in SetStages : Goes(w, stage)
      <4>1. PICK stage \in SetStages : Goes(w, stage)
        BY <3>2
      <4>2. work'[w].at = stage
        BY <4>1, Going, Zenon
      <4> QED BY <4>1, <4>2, Zenon DEF SetStages
    <3>3. CASE CapturePrior(w) /\ ~Ends(w)
      BY <2>1, <3>3, CaptureSane, Zenon DEF SetInv
    <3> QED BY <1>3, <3>1, <3>2, <3>3, Zenon
               DEF SetStep, ReadAndEdit, OpenTmp, WriteTmp, RenameTmp, UnlinkTmp, SetStages
  <2>6. SlotInv'
    BY <2>1, <2>3, <2>5, SlotsAside, Zenon
  <2> QED BY <2>1, <2>2, <2>4, <2>6
<1> QED BY <1>1, <1>2, <1>3, Zenon DEF Step

LEMMA AskKeeps ==
    ASSUME IInv, Ask \/ PressCtrlZ
    PROVE  IInv'
<1> USE DEF IInv
<1>1. CASE Ask
  <2>1. /\ fs' = fs /\ info' = info /\ sweep' = sweep /\ sweeps' = sweeps /\ spent' = spent
        /\ lost' = lost /\ stack' = stack /\ UNCHANGED setVars
    BY <1>1, Zenon DEF Ask, fileVars
  <2>2. WorkInv' /\ LogInv' /\ AuditInv' /\ StaleInv'
    BY <1>1, AskCalls, Zenon
  <2>3. PICK w \in Workers : /\ OnlyMoves(w) /\ work[w].at = "idle"
                             /\ work'[w].at \in {"audit", "act", "state"}
    BY <1>1, AskCalls, Zenon
  <2>4. FileInv' /\ SlotInv' /\ SetInv' /\ Usable' = Usable
    BY <2>1, <2>3, WorldAside, Zenon
  <2>5. StackInv'
    BY <2>1, <2>4, Zenon DEF StackInv
  <2> QED BY <2>2, <2>4, <2>5
<1>2. CASE PressCtrlZ
  <2>1. PICK c \in Calls : CtrlZ(c) /\ UNCHANGED setVars
    BY <1>2, Zenon DEF PressCtrlZ
  <2>2. /\ WorkInv' /\ LogInv' /\ StackInv' /\ AuditInv' /\ StaleInv'
        /\ OnlyMoves(c) /\ work[c].at = "idle" /\ work'[c].at = "act"
    BY <2>1, CtrlZCalls, Zenon
  <2>3. /\ fs' = fs /\ info' = info /\ sweep' = sweep /\ sweeps' = sweeps /\ spent' = spent
        /\ lost' = lost
    BY <2>1, Zenon DEF CtrlZ
  <2>4. FileInv' /\ SlotInv' /\ SetInv'
    BY <2>1, <2>2, <2>3, WorldAside, Zenon DEF Workers
  <2> QED BY <2>2, <2>4
<1> QED BY <1>1, <1>2

LEMMA OtherKeeps ==
    ASSUME IInv, Emptying \/ User \/ \E home \in Homes : Crash(home)
    PROVE  IInv'
<1> USE DEF IInv
<1>1. CASE Emptying
  <2>1. /\ FileInv' /\ SlotInv' /\ Usable \subseteq Usable'
        /\ UNCHANGED <<work, log, ledger, touched, stale, stack>>
    BY <1>1, EmptyingFiles, Zenon
  <2>2. WorkInv' /\ LogInv' /\ StackInv' /\ AuditInv' /\ StaleInv'
    BY <2>1, QuietCalls, Zenon
  <2>3. SetInv'
    <3>1. work' = work /\ UNCHANGED setVars
      BY <1>1, <2>1, Zenon DEF Emptying
    <3> QED BY <3>1, PensSame, Zenon
  <2> QED BY <2>1, <2>2, <2>3
<1>2. ASSUME NEW p \in Paths, NEW f \in UserFiles, UserSaves(p, f), UNCHANGED setVars
      PROVE  IInv'
  <2>1. /\ FileInv' /\ SlotInv' /\ Usable' = Usable
        /\ UNCHANGED <<work, log, ledger, touched, stale, stack>>
    BY <1>2, SavingFiles, Zenon
  <2>2. WorkInv' /\ LogInv' /\ StackInv' /\ AuditInv' /\ StaleInv'
    BY <2>1, QuietCalls, Zenon
  <2>3. SetInv'
    <3>1. work' = work
      BY <2>1, Zenon
    <3> QED BY <1>2, <3>1, PensSame, Zenon
  <2> QED BY <2>1, <2>2, <2>3
<1>3. ASSUME NEW k \in Keys, UserSets(k), UNCHANGED fileVars
      PROVE  IInv'
  <2>1. SetInv'
    BY <1>3, UserPens, Zenon
  <2>2. /\ UNCHANGED <<work, log, ledger, touched, stale, stack>> /\ work' = work
        /\ fs' = fs /\ info' = info /\ sweep' = sweep /\ sweeps' = sweeps /\ spent' = spent
        /\ lost' = lost
    BY <1>3, Zenon DEF UserSets, Edits, fileVars
  <2>3. Usable' = Usable
    BY <2>2, Zenon DEF Usable
  <2>4. WorkInv' /\ LogInv' /\ StackInv' /\ AuditInv' /\ StaleInv'
    BY <2>2, <2>3, QuietCalls, Zenon
  <2>5. FileInv'
    BY <2>2, Zenon DEF FileInv, FilesTypeOK, OnlyOvertakenFilesAreLost
  <2>6. SlotInv'
    BY <2>2, <2>3, Zenon DEF SlotInv, Free
  <2> QED BY <2>1, <2>4, <2>5, <2>6
<1>4. ASSUME NEW home \in Homes, Crash(home)
      PROVE  IInv'
  <2>1. Dies(home) /\ StackDropped(home) /\ PensDropped(home)
    BY <1>4, Zenon DEF Crash
  <2>2. /\ WorkInv' /\ LogInv' /\ StackInv' /\ AuditInv' /\ StaleInv'
        /\ \A w \in Workers : work'[w] = work[w] \/ (work'[w] = Over /\ Running(w))
    BY <2>1, CrashCalls, Zenon
  <2>3. DOMAIN work' = Workers
    BY <2>2, Zenon DEF WorkInv, Workers
  <2>4. SlotInv'
    BY <2>1, <2>2, <2>3, CrashSlots, Zenon
  <2>5. SetInv'
    BY <2>1, CrashPens, Zenon
  <2>6. FileInv'
    BY <2>1, Zenon DEF StackDropped, FileInv, FilesTypeOK, OnlyOvertakenFilesAreLost
  <2> QED BY <2>2, <2>4, <2>5, <2>6
<1> QED BY <1>1, <1>2, <1>3, <1>4, Zenon DEF User

LEMMA StutterKeeps ==
    ASSUME IInv, UNCHANGED vars
    PROVE  IInv'
<1>1. /\ work' = work /\ log' = log /\ ledger' = ledger /\ touched' = touched
      /\ stale' = stale /\ stack' = stack /\ fs' = fs /\ info' = info /\ sweep' = sweep
      /\ sweeps' = sweeps /\ spent' = spent /\ lost' = lost /\ UNCHANGED setVars
  BY Zenon DEF vars, callVars, fileVars
<1>2. Usable' = Usable
  BY <1>1, Zenon DEF Usable
<1>3. WorkInv' /\ LogInv' /\ StackInv' /\ AuditInv' /\ StaleInv'
  BY <1>1, <1>2, QuietCalls, Zenon DEF IInv
<1>4. FileInv'
  BY <1>1, Zenon DEF IInv, FileInv, FilesTypeOK, OnlyOvertakenFilesAreLost
<1>5. SlotInv'
  BY <1>1, <1>2, Zenon DEF IInv, SlotInv, Free
<1>6. SetInv'
  BY <1>1, PensSame, Zenon DEF IInv
<1> QED BY <1>3, <1>4, <1>5, <1>6 DEF IInv

LEMMA InitIInv ==
    ASSUME Init
    PROVE  IInv
<1>1. /\ work = [w \in Workers |-> Unborn] /\ log = [o \in Ops |-> NotLogged]
      /\ ledger = {} /\ touched = {} /\ stale = {}
  BY Zenon DEF Init, CallsInit
<1>2. /\ fs = FirstFiles /\ info = {} /\ stack = <<>> /\ sweep = None /\ sweeps = 0
      /\ spent = {} /\ lost = {}
  BY Zenon DEF Init, FilesInit
<1>3. /\ DOMAIN Unborn = Fields /\ Unborn.at = "idle" /\ Unborn.home = None /\ Unborn.saw = None
      /\ NotLogged.state = "absent" /\ DOMAIN NotLogged = {"state", "inv"}
  BY DEF Unborn, Fields, NotLogged
<1>4. /\ DOMAIN work = Workers /\ \A w \in Workers : work[w] = Unborn
      /\ DOMAIN log = Ops /\ \A o \in Ops : log[o] = NotLogged
  BY <1>1
<1>5. WorkInv
  <2>1. "idle" \notin TaskStages /\ "idle" \in Stages
    BY DEF TaskStages, ActStages, Stages
  <2>2. \A w \in Workers : Sane(w, Unborn, Usable)
    BY <1>3, <2>1, Zenon DEF Sane
  <2> QED BY <1>4, <2>2, Zenon DEF WorkInv
<1>6. LogInv
  BY <1>3, <1>4 DEF LogInv
<1>7. StackInv
  BY <1>2 DEF StackInv
<1>8. AuditInv /\ StaleInv
  <2>1. "idle" \notin ActStages
    BY DEF ActStages
  <2>2. \A o \in Ops : log[o].state = "absent"
    BY <1>3, <1>4, Zenon
  <2>3. \A w \in Workers : work[w].at = "idle"
    BY <1>3, <1>4, Zenon
  <2> QED BY <1>1, <2>1, <2>2, <2>3, Zenon DEF AuditInv, StaleInv, Workers
<1>9. FileInv
  BY <1>2, FilesAssumption, Zenon DEF FileInv, FilesTypeOK, OnlyOvertakenFilesAreLost
<1>10. SlotInv
  <2>1. \A w \in Workers, s \in Slots : ~Holds(work[w], s)
    BY <1>3, <1>4, Zenon DEF Holds
  <2>2. sweeps \in Nat
    BY <1>2
  <2>3. \A s \in Usable : fs[s] = None
    BY <1>2 DEF Usable
  <2> QED BY <1>2, <2>1, <2>2, <2>3, Zenon DEF SlotInv, Free
<1>11. SetInv
  <2>1. /\ inode = [i \in Inodes |-> IF i = Disk THEN FirstText ELSE Empty]
        /\ target = Disk /\ tmp = None /\ pen = [w \in Workers |-> NoPen] /\ kept = {}
        /\ met = FALSE
    BY Zenon DEF Init, SettingsInit, Inodes
  <2>2. /\ Disk \in Inodes /\ Disk \notin Workers /\ Disk # None /\ FirstText \in Texts
        /\ None \notin Workers
    BY CallsAssumption, SettingsAssumption, Zenon DEF Inodes, Workers
  <2>3. inode \in [Inodes -> Texts] /\ inode[target] = FirstText
    BY <2>1, <2>2, TextFacts
  <2>4. /\ pen \in [Workers -> [text : Texts \union {None}, file : Inodes \union {None}]]
        /\ \A w \in Workers : pen[w] = NoPen
    BY <2>1, NoPenIs
  <2>5. \A w \in Workers : work[w].at = "idle"
    BY <1>3, <1>4, Zenon
  <2>6. \A w \in Workers : /\ work[w].at \notin SetStages
                           /\ target # w /\ tmp # w
    BY <2>1, <2>2, <2>5, PenStages, Zenon
  <2>7. PenTypes
    BY <2>1, <2>2, <2>3, <2>4, <2>5, <2>6, Zenon DEF PenTypes
  <2>8. Alone
    BY <2>4, <2>5, NoPenIs, Zenon DEF Alone
  <2>9. TextsInv
    BY <2>1, <2>3, <2>6, TextFacts, Zenon DEF TextsInv
  <2> QED BY <2>7, <2>8, <2>9, Zenon DEF SetInv
<1> QED BY <1>5, <1>6, <1>7, <1>8, <1>9, <1>10, <1>11, Zenon DEF IInv

(* The parts of the invariant hold together in every reachable state, for  *)
(* any number of operations and calls in the engine, the undo service and  *)
(* the file manager (UndoActions as a whole).                              *)
THEOREM UndoInvariance == Spec => []IInv
<1>1. Init => IInv
  BY InitIInv
<1>2. IInv /\ [Next]_vars => IInv'
  <2>1. SUFFICES ASSUME IInv, [Next]_vars
                 PROVE  IInv'
    OBVIOUS
  <2>2. CASE UNCHANGED vars
    BY <2>1, <2>2, StutterKeeps, Zenon
  <2>3. CASE Next
    BY <2>1, <2>3, StepKeeps, AskKeeps, OtherKeeps, Zenon DEF Next
  <2> QED BY <2>1, <2>2, <2>3
<1> QED BY <1>1, <1>2, PTL DEF Spec

-----------------------------------------------------------------------------
(* The state of the workers, the log, the files and the settings is what   *)
(* the programs take it for (UndoActions.TypeOK).                          *)
THEOREM UndoTypes == Spec => []TypeOK
<1>1. IInv => TypeOK
  <2>1. SUFFICES ASSUME IInv
                 PROVE  TypeOK
    OBVIOUS
  <2>2. \A w \in Workers : work[w].home \in Homes \union {None}
    BY <2>1, Zenon DEF IInv, WorkInv, Sane
  <2>3. \A o \in Ops : log[o].state \in {"absent", "live", "over"}
    BY <2>1, Zenon DEF IInv, LogInv
  <2>4. FilesTypeOK
    BY <2>1, Zenon DEF IInv, FileInv
  <2>5. PenTypes
    BY <2>1, Zenon DEF IInv, SetInv
  <2>6. \A i \in DOMAIN inode : DOMAIN inode[i] = Keys
    <3>1. inode \in [Inodes -> Texts]
      BY <2>5, Zenon DEF PenTypes
    <3> QED BY <3>1 DEF Texts
  <2>7. \A w \in Workers : ~Running(w) => pen[w] = NoPen
    BY <2>5, PenStages, Zenon DEF PenTypes, Running
  <2>8. target \in Workers \union {Disk} /\ tmp \in Workers \union {Disk, None}
    BY <2>5, Zenon DEF PenTypes, Inodes
  <2> QED BY <2>2, <2>3, <2>4, <2>6, <2>7, <2>8, Zenon DEF TypeOK, SettingsTypeOK
<1> QED BY <1>1, UndoInvariance, PTL

(* No daemon changes a file or a setting before the ledger has its entry   *)
(* (iface.rs enact, agent_iface.rs dispatch_nongraph_inverse, the          *)
(* executors).                                                             *)
THEOREM UndoAuditsFirst == Spec => []ChangesAreAudited
<1>1. IInv => ChangesAreAudited
  BY Zenon DEF IInv, AuditInv, ChangesAreAudited
<1> QED BY <1>1, UndoInvariance, PTL

(* What the log calls undone is not replayed by a later call               *)
(* (agent_iface.rs run_compensate, iface.rs enact).                        *)
THEOREM UndoDoesNotReplay == Spec => []UndoneIsNotReplayed
<1>1. IInv => UndoneIsNotReplayed
  BY Zenon DEF IInv, StaleInv, UndoneIsNotReplayed
<1> QED BY <1>1, UndoInvariance, PTL

(* Every document of the user is somewhere, was given up by the user, or   *)
(* was overtaken by the program that destroyed it (ops.rs, undo_enact.rs,  *)
(* file_executor.rs).                                                      *)
THEOREM OnlyOvertakenAreLost == Spec => []OnlyOvertakenFilesAreLost
<1>1. IInv => OnlyOvertakenFilesAreLost
  BY Zenon DEF IInv, FileInv
<1> QED BY <1>1, UndoInvariance, PTL

(* Until the trash is emptied, a payload in it has its sidecar, however    *)
(* trashing, restoring and rolling back interleave and whoever dies        *)
(* (ops.rs, freedesktop-trash).                                            *)
THEOREM TrashStaysPaired == Spec => []PairedUnlessEmptied
<1>1. IInv => PairedUnlessEmptied
  <2>1. SUFFICES ASSUME IInv, NEW s \in Slots, ~Free(s), s \notin info, sweeps = 0
                 PROVE  fs[s] = FirstFiles[s]
    BY Zenon DEF PairedUnlessEmptied
  <2>2. s \notin Usable
    BY <2>1, Zenon DEF IInv, SlotInv
  <2> QED BY <2>1, <2>2, Zenon DEF IInv, SlotInv
<1> QED BY <1>1, UndoInvariance, PTL

(* The settings file is whole as long as no writer touches the temporary   *)
(* file of another, however many write and die (undo_enact.rs              *)
(* atomic_write).                                                          *)
THEOREM SettingsStayWhole == Spec => []WholeUnlessWritersMeet
<1>1. IInv => WholeUnlessWritersMeet
  BY TextFacts, Zenon DEF IInv, SetInv, TextsInv, WholeUnlessWritersMeet
<1> QED BY <1>1, UndoInvariance, PTL

(* What the user set while nobody was writing stays until that key is set  *)
(* or restored (undo_enact.rs enact_restore_value).                        *)
THEOREM UsersSettingsStay == Spec => []UserSettingsKept
<1>1. IInv => UserSettingsKept
  BY Zenon DEF IInv, SetInv, TextsInv, UserSettingsKept
<1> QED BY <1>1, UndoInvariance, PTL

-----------------------------------------------------------------------------
(* There and back.                                                         *)

(* Nobody but the programs has done anything, nobody has died, and writers *)
(* have not met; no operation but o has been asked for.                    *)
Counts == edits \in Nat /\ crashes \in Nat
Quiet == edits = 0 /\ crashes = 0 /\ sweeps = 0 /\ ~met
Sole(o) == \A x \in Ops \ {o} : work[x].at = "idle"

(* Until operation o has acted, the world is as at the start but for what  *)
(* o has done so far, and nobody has anything to undo.                     *)
FilesBefore(r) ==
    /\ r.at \notin {"written", "rollback", "rollback2"} => fs = FirstFiles
    /\ r.at = "written" =>
         FirstFiles[r.task.a] = None /\ fs = [FirstFiles EXCEPT ![r.task.a] = Made]
    /\ r.at \notin {"put", "drop", "next", "rollback", "rollback2"} => info = {}
    /\ r.at \in {"put", "drop", "next"} => info = {r.slot}
    /\ r.at = "picked" \/ (r.at = "put" /\ r.task.kind = "discard") =>
         FirstFiles[r.slot] = None
    /\ r.at = "looked" => FirstFiles[r.task.b] = None

TextBefore(r, held) ==
    /\ inode[target] = FirstText
    /\ r.at \in TaskStages /\ r.task.kind = "set" /\ (r.inv # None \/ r.at \in SetStages) =>
         r.inv.a = r.task.a /\ r.inv.b = FirstText[r.task.a]
    /\ r.at \in SetStages => held.text = Edited(FirstText, r.task.a, r.task.b)

Starting(o) ==
    /\ stack = <<>>
    /\ \A c \in Calls : work[c].at \notin TaskStages
    /\ FilesBefore(work[o])
    /\ TextBefore(work[o], pen[o])

(* The receipt of an operation that has acted.                             *)
Receipt(o) == IF log[o].state = "absent" THEN work[o].inv ELSE log[o].inv

(* Files and settings are as the operation left them or as they were.      *)
MovedBack(inv) ==
    /\ inode[target] = FirstText
    /\ FirstFiles[inv.a] = None
    /\ FirstFiles[inv.b] # None
    /\ \/ fs = FirstFiles
       \/ fs = [FirstFiles EXCEPT ![inv.b] = None, ![inv.a] = FirstFiles[inv.b]]
    /\ inv.kind = "path" => info = {}
    /\ inv.kind = "untrash" =>
         /\ info \subseteq {inv.a}
         /\ info # {} /\ fs = FirstFiles => \E c \in Calls : work[c].at = "sidecar"

Unmade(inv) ==
    /\ inode[target] = FirstText
    /\ info = {}
    /\ FirstFiles[inv.a] = None
    /\ fs = FirstFiles \/ fs = [FirstFiles EXCEPT ![inv.a] = Made]

Reset(inv) ==
    /\ fs = FirstFiles
    /\ info = {}
    /\ inv.b = FirstText[inv.a]
    /\ \A k \in Keys \ {inv.a} : inode[target][k] = FirstText[k]
    /\ \A c \in Calls : work[c].at \in SetStages => pen[c].text = FirstText

Returning(inv) ==
    /\ inv.kind \in {"path", "untrash"} => MovedBack(inv)
    /\ inv.kind = "delete" => Unmade(inv)
    /\ inv.kind = "value" => Reset(inv)
    /\ Calls \intersect touched # {} => fs = FirstFiles /\ inode[target] = FirstText

(* Everybody who is to undo the operation has its receipt.                 *)
Errands(o, inv) ==
    /\ work[o].at = "record" => work[o].inv = inv
    /\ \A i \in 1 .. Len(stack) : stack[i] = BackInFiles(inv)
    /\ \A c \in Calls : work[c].at \in TaskStages =>
         work[c].task = IF work[c].home = "files" THEN BackInFiles(inv) ELSE inv
    /\ inv.kind \notin {"path", "untrash"} =>
         /\ stack = <<>>
         /\ \A c \in Calls : work[c].at \in TaskStages => work[c].home # "files"

Acting(o) == work[o].at \in {"idle"} \union TaskStages
HasActed(o) == work[o].at \in {"submit", "both"} \/ log[o].state # "absent"

Trip(o) ==
    /\ log[o].state = "absent" => Calls \intersect touched = {}
    /\ Acting(o) => Starting(o)
    /\ HasActed(o) => Errands(o, Receipt(o)) /\ Returning(Receipt(o))

TripInv ==
    /\ Counts
    /\ Quiet => \A o \in Ops : Sole(o) => Trip(o)

-----------------------------------------------------------------------------
(* Steps that keep things quiet.                                           *)

(* Steps on files and on settings count nothing.                           *)
LEMMA FileQuiet ==
    ASSUME NEW w \in Workers, FileStep(w)
    PROVE  edits' = edits /\ crashes' = crashes
<1> USE DEF quietCalls
<1>1. CASE \/ Relocate(w) \/ CreateNew(w) \/ CaptureCreated(w) \/ CreateFails(w)
           \/ MatchFingerprint(w) \/ RemoveCreated(w) \/ TrashReserve(w)
  BY <1>1, Zenon DEF Relocate, CreateNew, CaptureCreated, CreateFails, MatchFingerprint,
                     RemoveCreated, TrashReserve
<1>2. CASE \/ TrashPut(w) \/ TrashDrop(w) \/ Untrash(w) \/ RemoveSidecar(w) \/ Record(w)
           \/ RenameLook(w) \/ RenameEntry(w)
  BY <1>2, Zenon DEF TrashPut, TrashDrop, Untrash, RemoveSidecar, Record, RenameLook, RenameEntry
<1>3. CASE \/ PickTrashName(w) \/ ReserveTrashName(w) \/ DiscardPut(w) \/ DiscardRollback(w)
           \/ RestoreLook(w) \/ RestoreEntry(w)
  BY <1>3, Zenon DEF PickTrashName, ReserveTrashName, DiscardPut, DiscardRollback, RestoreLook,
                     RestoreEntry
<1> QED BY <1>1, <1>2, <1>3, Zenon DEF FileStep

LEMMA SetQuiet ==
    ASSUME met \in BOOLEAN, NEW w \in Workers, SetStep(w)
    PROVE  edits' = edits /\ crashes' = crashes /\ (met => met')
<1> USE DEF setCalls, setVars
<1>1. edits' = edits /\ crashes' = crashes
  BY Zenon DEF SetStep, CapturePrior, ReadAndEdit, OpenTmp, WriteTmp, RenameTmp, UnlinkTmp
<1>2. met' = met \/ \E b \in BOOLEAN : met' = (met \/ b)
  <2>1. \A i : InUse(i, w) \in BOOLEAN /\ (i # None /\ InUse(i, w)) \in BOOLEAN
    BY Zenon DEF InUse
  <2> QED
    BY <2>1, Zenon DEF SetStep, CapturePrior, ReadAndEdit, OpenTmp, WriteTmp, RenameTmp, UnlinkTmp
<1> QED BY <1>1, <1>2

(* No step of a program counts an outside event or takes a meeting back.   *)
LEMMA ProgramsCount ==
    ASSUME IInv, Ask \/ PressCtrlZ \/ (\E w \in Workers : Step(w)) \/ UNCHANGED vars
    PROVE  /\ edits' = edits /\ crashes' = crashes /\ sweeps' = sweeps
           /\ met => met'
<1> USE DEF quietCalls, quietTrash, fileVars, setVars, callVars, setCalls
<1>1. CASE Ask
  BY <1>1, Zenon DEF Ask, Execute, FilesOp, Undo
<1>2. CASE PressCtrlZ
  <2>1. PICK c \in Calls : CtrlZ(c) /\ UNCHANGED setVars
    BY <1>2, Zenon DEF PressCtrlZ
  <2>2. edits' = edits /\ crashes' = crashes /\ sweeps' = sweeps /\ met' = met
    BY <2>1, Zenon DEF CtrlZ
  <2> QED BY <2>2
<1>3. CASE UNCHANGED vars
  BY <1>3, Zenon DEF vars
<1>4. ASSUME NEW w \in Workers, Step(w)
      PROVE  /\ edits' = edits /\ crashes' = crashes /\ sweeps' = sweeps
             /\ met => met'
  <2>1. CASE (LookupState(w) \/ LookupEntry(w) \/ Audit(w) \/ Submit(w) \/ Mark(w))
             /\ UNCHANGED <<fileVars, setVars>>
    BY <2>1, Zenon DEF LookupState, LookupEntry, Audit, Submit, Mark
  <2>2. CASE FileStep(w) /\ UNCHANGED setVars
    <3>1. edits' = edits /\ crashes' = crashes /\ sweeps' = sweeps
      BY <2>2, FileFrame, FileQuiet, Zenon
    <3>2. met' = met
      BY <2>2, Zenon
    <3> QED BY <3>1, <3>2
  <2>3. CASE SetStep(w) /\ UNCHANGED fileVars
    BY <2>3, SetQuiet, Zenon DEF IInv, SetInv, PenTypes
  <2> QED BY <1>4, <2>1, <2>2, <2>3, Zenon DEF Step
<1> QED BY <1>1, <1>2, <1>3, <1>4, Zenon

(* What else can happen counts as an outside event.                        *)
LEMMA OthersCount ==
    ASSUME Counts, Emptying \/ User \/ \E home \in Homes : Crash(home)
    PROVE  /\ Counts'
           /\ Emptying \/ edits' # 0 \/ crashes' # 0
<1>1. CASE Emptying
  BY <1>1, Zenon DEF Counts, Emptying, SweepPayload, SweepSidecar, callVars
<1>2. CASE User
  <2>1. edits' = edits + 1 /\ crashes' = crashes
    BY <1>2, Zenon DEF User, UserSaves, UserSets, Edits
  <2> QED BY <2>1 DEF Counts
<1>3. ASSUME NEW home \in Homes, Crash(home)
      PROVE  Counts' /\ crashes' # 0
  <2>1. crashes' = crashes + 1 /\ edits' = edits
    BY <1>3, Zenon DEF Crash, Dies
  <2> QED BY <2>1 DEF Counts
<1> QED BY <1>1, <1>2, <1>3, Zenon

(* A step that leaves the counters of outside events at zero was no such   *)
(* event, and it started from zero.                                        *)
LEMMA QuietStep ==
    ASSUME IInv, Counts, [Next]_vars, Quiet'
    PROVE  /\ Quiet
           /\ Ask \/ PressCtrlZ \/ (\E w \in Workers : Step(w)) \/ UNCHANGED vars
<1>1. edits' = 0 /\ crashes' = 0 /\ sweeps' = 0 /\ ~met'
  BY Zenon DEF Quiet
<1>2. ~Emptying
  <2>1. sweeps \in Nat /\ (sweeps = 0 => sweep = None)
    BY Zenon DEF IInv, SlotInv
  <2>2. ASSUME NEW s \in Slots, SweepPayload(s)  PROVE FALSE
    <3>1. sweeps' = sweeps + 1
      BY <2>2, Zenon DEF SweepPayload
    <3> QED BY <1>1, <2>1, <3>1
  <2>3. ASSUME SweepSidecar  PROVE FALSE
    BY <1>1, <2>1, <2>3, Zenon DEF SweepSidecar
  <2> QED BY <2>2, <2>3, Zenon DEF Emptying
<1>3. Ask \/ PressCtrlZ \/ (\E w \in Workers : Step(w)) \/ UNCHANGED vars
  BY <1>1, <1>2, OthersCount, Zenon DEF Next
<1> QED BY <1>1, <1>3, ProgramsCount, Zenon DEF Quiet

-----------------------------------------------------------------------------
(* The steps of the operation, until it has acted.                         *)

(* An operation that is not at its end has no entry in the log.            *)
LEMMA NoEntryYet ==
    ASSUME StaleInv, NEW o \in Ops, Acting(o) \/ work[o].at \in {"submit", "both"}
    PROVE  log[o].state = "absent"
<1>1. work[o].at \notin {"record", "done"}
  BY DEF Acting, TaskStages, ActStages
<1> QED BY <1>1, Zenon DEF StaleInv

(* An operation that gives up leaves nothing to undo.                      *)
LEMMA TripEnds ==
    ASSUME StaleInv, NEW o \in Ops, Trip(o), Acting(o),
           work'[o].at = "done", log' = log,
           Calls \intersect touched' = Calls \intersect touched
    PROVE  Trip(o)'
<1>1. log[o].state = "absent"
  BY NoEntryYet
<1>2. ~Acting(o)' /\ ~HasActed(o)'
  BY <1>1 DEF Acting, HasActed, TaskStages, ActStages
<1> QED BY <1>1, <1>2, Zenon DEF Trip

(* An operation goes on if the world is as its new stage has it.           *)
LEMMA TripGoesOn ==
    ASSUME StaleInv, NEW o \in Ops, Trip(o), Acting(o), OnlyMoves(o),
           work'[o].at \in TaskStages, log' = log, stack' = stack,
           Calls \intersect touched' = Calls \intersect touched,
           FilesBefore(work[o])', TextBefore(work[o], pen[o])'
    PROVE  Trip(o)'
<1>1. log[o].state = "absent"
  BY NoEntryYet
<1>2. ~HasActed(o)'
  BY <1>1 DEF HasActed, TaskStages, ActStages
<1>3. \A c \in Calls : work'[c] = work[c]
  BY CallsAssumption, Zenon DEF OnlyMoves, Workers
<1>4. Starting(o)'
  BY <1>3, Zenon DEF Trip, Starting
<1> QED BY <1>1, <1>2, <1>4, Zenon DEF Trip

(* An operation that has acted hands on a receipt that says how to return. *)
LEMMA TripTurns ==
    ASSUME StaleInv, NEW o \in Ops, Trip(o), Acting(o), OnlyMoves(o),
           work'[o].at \in {"submit", "both"}, log' = log, stack' = stack,
           Calls \intersect touched' = Calls \intersect touched,
           LET inv == work[o].inv
           IN  (/\ inv.kind \in {"path", "untrash"} => MovedBack(inv)
                /\ inv.kind = "delete" => Unmade(inv)
                /\ inv.kind = "value" => Reset(inv))'
    PROVE  Trip(o)'
<1>1. log[o].state = "absent" /\ log'[o].state = "absent"
  BY NoEntryYet
<1>2. ~Acting(o)' /\ work'[o].at # "record"
  BY <1>1 DEF Acting, TaskStages, ActStages
<1>3. \A c \in Calls : work'[c] = work[c]
  BY CallsAssumption, Zenon DEF OnlyMoves, Workers
<1>4. /\ stack' = <<>>
      /\ \A c \in Calls : work'[c].at \notin TaskStages
      /\ Calls \intersect touched' = {}
  BY <1>1, <1>3, Zenon DEF Trip, Starting
<1>5. Receipt(o)' = work'[o].inv
  BY <1>1 DEF Receipt
<1>6. \A i \in 1 .. Len(stack') : FALSE
  BY <1>4
<1>7. Errands(o, Receipt(o))'
  BY <1>2, <1>4, <1>5, <1>6, Zenon DEF Errands
<1>8. Returning(Receipt(o))'
  BY <1>4, <1>5, Zenon DEF Returning
<1> QED BY <1>1, <1>2, <1>4, <1>7, <1>8, Zenon DEF Trip

LEMMA TouchedAside ==
    ASSUME NEW o \in Ops, touched' = touched \/ touched' = touched \union {o}
    PROVE  Calls \intersect touched' = Calls \intersect touched
BY CallsAssumption

(* An operation has moved a file: the receipt names where it is and where  *)
(* it was.                                                                 *)
LEMMA TripMoves ==
    ASSUME IInv, NEW o \in Ops, Trip(o), Acting(o),
           NEW kind \in {"path", "untrash"}, NEW a \in Places, NEW b \in Places, NEW content,
           Acted(o, InverseReceipt(kind, a, b, content)),
           FirstFiles[a] = None, FirstFiles[b] # None,
           fs' = [FirstFiles EXCEPT ![b] = None, ![a] = FirstFiles[b]],
           kind = "path" => info' = {}, info' \subseteq {a},
           inode'[target'] = FirstText, log' = log, stack' = stack,
           Calls \intersect touched' = Calls \intersect touched
    PROVE  Trip(o)'
<1> DEFINE inv == InverseReceipt(kind, a, b, content)
<1>1. inv.kind = kind /\ inv.a = a /\ inv.b = b
  BY DEF InverseReceipt
<1>2. o \in Workers /\ WorkInv /\ StaleInv
  BY Zenon DEF IInv, Workers
<1>3. /\ OnlyMoves(o)
      /\ work'[o] = Over \/ (work'[o].at \in {"submit", "both"} /\ work'[o].inv = inv)
  BY <1>2, ActedMoves, CallsAssumption, Zenon
<1>4. CASE work'[o] = Over
  BY <1>2, <1>4, OverIs, TripEnds, Zenon
<1>5. CASE work'[o].at \in {"submit", "both"} /\ work'[o].inv = inv
  <2>1. fs' # FirstFiles
    BY FilesAssumption
  <2>2. MovedBack(work[o].inv)' /\ work'[o].inv.kind \in {"path", "untrash"}
    BY <1>1, <1>5, <2>1, Zenon DEF MovedBack
  <2> QED BY <1>2, <1>3, <1>5, <2>2, TripTurns, Zenon
<1> QED BY <1>3, <1>4, <1>5

LEMMA TripMakes ==
    ASSUME IInv, NEW o \in Ops, Trip(o), Acting(o), NEW a \in Paths, NEW b, NEW content,
           Acted(o, InverseReceipt("delete", a, b, content)),
           FirstFiles[a] = None, fs' = [FirstFiles EXCEPT ![a] = Made], info' = {},
           inode'[target'] = FirstText, log' = log, stack' = stack,
           Calls \intersect touched' = Calls \intersect touched
    PROVE  Trip(o)'
<1> DEFINE inv == InverseReceipt("delete", a, b, content)
<1>1. inv.kind = "delete" /\ inv.a = a
  BY DEF InverseReceipt
<1>2. o \in Workers /\ WorkInv /\ StaleInv
  BY Zenon DEF IInv, Workers
<1>3. /\ OnlyMoves(o)
      /\ work'[o] = Over \/ (work'[o].at \in {"submit", "both"} /\ work'[o].inv = inv)
  BY <1>2, ActedMoves, CallsAssumption, Zenon
<1>4. CASE work'[o] = Over
  BY <1>2, <1>4, OverIs, TripEnds, Zenon
<1>5. CASE work'[o].at \in {"submit", "both"} /\ work'[o].inv = inv
  <2>1. Unmade(work[o].inv)' /\ work'[o].inv.kind = "delete"
    BY <1>1, <1>5, Zenon DEF Unmade
  <2> QED BY <1>2, <1>3, <1>5, <2>1, TripTurns, Zenon
<1> QED BY <1>3, <1>4, <1>5

(* A step on files that keeps the task leaves the settings as they were.   *)
LEMMA TextStays ==
    ASSUME NEW o \in Ops, TextBefore(work[o], pen[o]), UNCHANGED setVars,
           work'[o].task = work[o].task, work[o].task.kind # "set",
           work'[o].at \notin SetStages
    PROVE  TextBefore(work[o], pen[o])'
<1>1. inode' = inode /\ target' = target
  BY Zenon DEF setVars
<1> QED BY <1>1, Zenon DEF TextBefore

(* What is known of an operation that takes a step on files.               *)
LEMMA OpAtFiles ==
    ASSUME IInv, NEW o \in Ops, Trip(o), FileStep(o), ~Record(o), UNCHANGED setVars
    PROVE  /\ o \in Workers /\ WorkInv /\ StaleInv /\ SlotInv
           /\ work[o].at \in ActStages /\ Acting(o)
           /\ FilesBefore(work[o]) /\ TextBefore(work[o], pen[o])
           /\ inode'[target'] = FirstText
           /\ log' = log
           /\ Calls \intersect touched' = Calls \intersect touched
           /\ work[o].task.kind \notin Backward
           /\ work[o].task.kind \notin {"set", "value"} => From(o) \in Places
           /\ work[o].task.kind \in {"move", "rename"} => To(o) \in Places
           /\ work[o].at \in SlotStages => work[o].slot \in Slots /\ work[o].slot \in Places
           /\ Suits(work[o])
<1>1. o \in Workers /\ WorkInv /\ StaleInv /\ SlotInv
  BY Zenon DEF IInv, Workers
<1>2. work[o].at \in ActStages /\ Acting(o)
  BY <1>1, FileStepAt, Zenon DEF Acting, TaskStages
<1>3. FilesBefore(work[o]) /\ TextBefore(work[o], pen[o])
  BY <1>2, Zenon DEF Trip, Starting
<1>4. inode' = inode /\ target' = target
  BY Zenon DEF setVars
<1>5. /\ log' = log
      /\ Calls \intersect touched' = Calls \intersect touched
  BY <1>1, FileFrame, TouchedAside, Zenon
<1>6. work[o].task.kind \notin Backward
  BY <1>1, <1>2, TaskedAt, StageKinds, Zenon
<1> QED BY <1>1, <1>2, <1>3, <1>4, <1>5, <1>6, PlacesOf, Zenon DEF TextBefore

(* fs.move and rename.                                                     *)
LEMMA OpMoves ==
    ASSUME IInv, NEW o \in Ops, Trip(o), UNCHANGED setVars,
           Relocate(o) \/ RenameLook(o) \/ RenameEntry(o)
    PROVE  Trip(o)'
<1> USE DEF Doing, At
<1>1. FileStep(o) /\ ~Record(o)
  BY Zenon DEF FileStep, Relocate, RenameLook, RenameEntry, Record
<1>2. /\ o \in Workers /\ WorkInv /\ StaleInv
      /\ work[o].at \in ActStages /\ Acting(o)
      /\ FilesBefore(work[o]) /\ TextBefore(work[o], pen[o])
      /\ inode'[target'] = FirstText
      /\ log' = log
      /\ Calls \intersect touched' = Calls \intersect touched
      /\ work[o].task.kind \notin Backward
  BY <1>1, OpAtFiles, Zenon
<1>3. /\ work[o].task.kind \in {"move", "rename"}
      /\ work[o].at \in {"act", "looked"}
      /\ stack' = stack /\ info' = info
  BY <1>2, Zenon DEF Relocate, RenameLook, RenameEntry, Backward, quietTrash, fileVars
<1>4. /\ fs = FirstFiles /\ info = {}
      /\ work[o].at = "looked" => FirstFiles[To(o)] = None
      /\ From(o) \in Places /\ To(o) \in Places
  BY <1>1, <1>2, <1>3, OpAtFiles, Zenon DEF FilesBefore, To
<1>5. CASE Ends(o)
  BY <1>2, <1>5, Ending, OverIs, TripEnds, Zenon
<1>6. CASE RenameLook(o) /\ ~Ends(o)
  <2>1. /\ work' = [work EXCEPT ![o].at = "looked", ![o].saw = None]
        /\ FirstFiles[To(o)] = None /\ fs' = fs
    BY <1>4, <1>6, Zenon DEF RenameLook, Free, fileVars
  <2>2. /\ OnlyMoves(o) /\ work'[o].at = "looked" /\ work'[o].task = work[o].task
    <3>1. DOMAIN work = Workers /\ DOMAIN work[o] = Fields
      BY <1>2, Zenon DEF WorkInv, Sane
    <3> QED BY <1>2, <2>1, <3>1 DEF OnlyMoves, Fields
  <2>3. work'[o].at \notin SetStages /\ work'[o].at \in TaskStages
    BY <2>2 DEF SetStages, TaskStages, ActStages
  <2>4. TextBefore(work[o], pen[o])'
    BY <1>2, <1>3, <2>2, <2>3, TextStays, Zenon
  <2>5. FilesBefore(work[o])'
    BY <1>3, <1>4, <2>1, <2>2, Zenon DEF FilesBefore, To
  <2> QED BY <1>2, <1>3, <2>2, <2>3, <2>4, <2>5, TripGoesOn, Zenon
<1>7. CASE (Relocate(o) \/ RenameEntry(o)) /\ ~Ends(o)
  <2>1. /\ ~Free(From(o)) /\ FirstFiles[To(o)] = None
        /\ fs' = Moved(From(o), To(o))
        /\ Acted(o, InverseReceipt("path", To(o), From(o), fs[From(o)]))
    BY <1>4, <1>7, Zenon DEF Relocate, RenameEntry, Free
  <2>2. /\ FirstFiles[From(o)] # None
        /\ fs' = [FirstFiles EXCEPT ![From(o)] = None, ![To(o)] = FirstFiles[From(o)]]
    BY <1>4, <2>1, Zenon DEF Free, Moved
  <2> QED BY <1>2, <1>3, <1>4, <2>1, <2>2, TripMoves, Zenon
<1> QED BY <1>5, <1>6, <1>7

(* fs.create.                                                              *)
LEMMA OpCreates ==
    ASSUME IInv, NEW o \in Ops, Trip(o), UNCHANGED setVars,
           CreateNew(o) \/ CaptureCreated(o) \/ CreateFails(o)
    PROVE  Trip(o)'
<1> USE DEF Doing, At
<1>1. FileStep(o) /\ ~Record(o)
  BY Zenon DEF FileStep, CreateNew, CaptureCreated, CreateFails, Record
<1>2. /\ o \in Workers /\ WorkInv /\ StaleInv
      /\ Acting(o)
      /\ FilesBefore(work[o]) /\ TextBefore(work[o], pen[o])
      /\ inode'[target'] = FirstText
      /\ log' = log
      /\ Calls \intersect touched' = Calls \intersect touched
      /\ Suits(work[o])
  BY <1>1, OpAtFiles, Zenon
<1>3. /\ work[o].task.kind = "create"
      /\ work[o].at \in {"act", "written"}
      /\ stack' = stack /\ info' = info /\ info = {}
  BY <1>2, Zenon DEF CreateNew, CaptureCreated, CreateFails, Suits, quietTrash, fileVars,
                     FilesBefore
<1>4. From(o) \in Paths
  <2>1. Sound(work[o].task, Usable)
    BY <1>1, <1>2, OpAtFiles, TaskedAt, StageKinds, Zenon DEF Tasked
  <2> QED BY <1>3, <2>1, Zenon DEF Sound, From
<1>5. CASE Ends(o)
  BY <1>2, <1>5, Ending, OverIs, TripEnds, Zenon
<1>6. CASE CreateNew(o) /\ ~Ends(o)
  <2>1. /\ FirstFiles[From(o)] = None /\ fs' = [FirstFiles EXCEPT ![From(o)] = Made]
        /\ Goes(o, "written")
    BY <1>2, <1>6, Zenon DEF CreateNew, Free, FilesBefore
  <2>2. /\ OnlyMoves(o) /\ work'[o].at = "written" /\ work'[o].task = work[o].task
    BY <1>2, <2>1, Going, Zenon
  <2>3. work'[o].at \notin SetStages /\ work'[o].at \in TaskStages
    BY <2>2 DEF SetStages, TaskStages, ActStages
  <2>4. TextBefore(work[o], pen[o])'
    BY <1>2, <1>3, <2>2, <2>3, TextStays, Zenon
  <2>5. FilesBefore(work[o])'
    BY <1>3, <2>1, <2>2, Zenon DEF FilesBefore, From
  <2> QED BY <1>2, <1>3, <2>2, <2>3, <2>4, <2>5, TripGoesOn, Zenon
<1>7. CASE CaptureCreated(o) /\ ~Ends(o)
  <2>1. /\ Acted(o, InverseReceipt("delete", From(o), fs[From(o)], Made))
        /\ FirstFiles[From(o)] = None /\ fs' = [FirstFiles EXCEPT ![From(o)] = Made]
    BY <1>2, <1>7, Zenon DEF CaptureCreated, FilesBefore, fileVars, From
  <2> QED BY <1>2, <1>3, <1>4, <2>1, TripMakes, Zenon
<1>8. CreateFails(o) => Ends(o)
  BY Zenon DEF CreateFails
<1> QED BY <1>5, <1>6, <1>7, <1>8

(* fs.trash.                                                               *)
LEMMA OpTrashes ==
    ASSUME IInv, NEW o \in Ops, Trip(o), UNCHANGED setVars,
           TrashReserve(o) \/ TrashPut(o) \/ TrashDrop(o)
    PROVE  Trip(o)'
<1> USE DEF Doing, At
<1>1. FileStep(o) /\ ~Record(o)
  BY Zenon DEF FileStep, TrashReserve, TrashPut, TrashDrop, Record
<1>2. /\ o \in Workers /\ WorkInv /\ StaleInv
      /\ Acting(o)
      /\ FilesBefore(work[o]) /\ TextBefore(work[o], pen[o])
      /\ inode'[target'] = FirstText
      /\ log' = log
      /\ Calls \intersect touched' = Calls \intersect touched
      /\ Suits(work[o])
  BY <1>1, OpAtFiles, Zenon
<1>3. /\ work[o].task.kind = "trash"
      /\ work[o].at \in {"act", "put", "drop", "next"}
      /\ stack' = stack
      /\ fs = FirstFiles
      /\ work[o].at = "act" => info = {}
      /\ work[o].at # "act" => info = {work[o].slot}
  BY <1>2, Zenon DEF TrashReserve, TrashPut, TrashDrop, Suits, quietTrash, FilesBefore
<1>4. /\ From(o) \in Places
      /\ work[o].at # "act" => work[o].slot \in Places
  BY <1>1, <1>3, OpAtFiles, Zenon DEF SlotStages
<1>5. CASE Ends(o)
  BY <1>2, <1>5, Ending, OverIs, TripEnds, Zenon
<1>6. ASSUME OnlyMoves(o), work'[o].at \in {"act", "put", "drop", "next"},
             work'[o].task = work[o].task, fs' = fs,
             info' = IF work'[o].at = "act" THEN {} ELSE {work'[o].slot}
      PROVE  Trip(o)'
  <2>1. work'[o].at \notin SetStages /\ work'[o].at \in TaskStages
    BY <1>6 DEF SetStages, TaskStages, ActStages
  <2>2. TextBefore(work[o], pen[o])'
    BY <1>2, <1>3, <1>6, <2>1, TextStays, Zenon
  <2>3. FilesBefore(work[o])'
    BY <1>3, <1>6, Zenon DEF FilesBefore
  <2> QED BY <1>2, <1>3, <1>6, <2>1, <2>2, <2>3, TripGoesOn, Zenon
<1>7. CASE TrashReserve(o) /\ ~Ends(o)
  <2>1. PICK s \in Slots, stage \in {"put", "drop"} :
             /\ info' = info \union {s}
             /\ work' = [work EXCEPT ![o].at = stage, ![o].slot = s, ![o].tried = @ \union {s}]
    BY <1>7, Zenon DEF TrashReserve
  <2>2. /\ OnlyMoves(o) /\ work'[o].at = stage /\ work'[o].slot = s
        /\ work'[o].task = work[o].task
    <3>1. DOMAIN work = Workers /\ DOMAIN work[o] = Fields
      BY <1>2, Zenon DEF WorkInv, Sane
    <3> QED BY <1>2, <2>1, <3>1 DEF OnlyMoves, Fields
  <2>3. fs' = fs /\ info' = {s}
    <3>1. fs' = fs /\ work[o].at = "act"
      BY <1>7, Zenon DEF TrashReserve
    <3> QED BY <1>3, <2>1, <3>1
  <2> QED BY <1>6, <2>1, <2>2, <2>3, Zenon
<1>8. CASE TrashDrop(o) /\ ~Ends(o)
  <2>1. work[o].at = "next" /\ Goes(o, "act") /\ fs' = fs /\ info' = info \ {work[o].slot}
    BY <1>8, Zenon DEF TrashDrop
  <2>2. info' = {}
    BY <1>3, <2>1
  <2> QED BY <1>2, <1>6, <2>1, <2>2, Going, Zenon
<1>9. CASE TrashPut(o)
  <2>1. CASE \E stage \in {"next", "drop"} : Goes(o, stage) /\ fs' = fs
    <3>1. PICK stage \in {"next", "drop"} : Goes(o, stage) /\ fs' = fs
      BY <2>1
    <3>2. info' = {work[o].slot}
      BY <1>3, <1>9, Zenon DEF TrashPut, quietTrash
    <3> QED BY <1>2, <1>6, <3>1, <3>2, Going, Zenon
  <2>2. CASE /\ ~Free(From(o)) /\ Free(work[o].slot)
             /\ fs' = Moved(From(o), work[o].slot)
             /\ Acted(o, InverseReceipt("untrash", work[o].slot, From(o), fs[From(o)]))
    <3>1. /\ FirstFiles[From(o)] # None /\ FirstFiles[work[o].slot] = None
          /\ fs' = [FirstFiles EXCEPT ![From(o)] = None, ![work[o].slot] = FirstFiles[From(o)]]
      BY <1>3, <2>2, Zenon DEF Free, Moved
    <3>2. work[o].slot \in Places /\ info' = {work[o].slot}
      BY <1>3, <1>4, <1>9, Zenon DEF TrashPut, quietTrash
    <3> QED BY <1>2, <1>3, <1>4, <2>2, <3>1, <3>2, TripMoves, Zenon
  <2> QED BY <1>9, <2>1, <2>2, Zenon DEF TrashPut
<1> QED BY <1>5, <1>7, <1>8, <1>9

(* The file manager's trash.                                               *)
LEMMA OpDiscards ==
    ASSUME IInv, NEW o \in Ops, Trip(o), UNCHANGED setVars,
           PickTrashName(o) \/ ReserveTrashName(o) \/ DiscardPut(o) \/ DiscardRollback(o)
    PROVE  Trip(o)'
<1> USE DEF Doing, At
<1>1. FileStep(o) /\ ~Record(o)
  BY Zenon DEF FileStep, PickTrashName, ReserveTrashName, DiscardPut, DiscardRollback, Record
<1>2. /\ o \in Workers /\ WorkInv /\ StaleInv
      /\ Acting(o)
      /\ FilesBefore(work[o]) /\ TextBefore(work[o], pen[o])
      /\ inode'[target'] = FirstText
      /\ log' = log
      /\ Calls \intersect touched' = Calls \intersect touched
      /\ Suits(work[o])
  BY <1>1, OpAtFiles, Zenon
<1>3. /\ work[o].task.kind = "discard"
      /\ work[o].at \in {"act", "picked", "put", "rollback", "rollback2"}
      /\ stack' = stack
  BY <1>2, Zenon DEF PickTrashName, ReserveTrashName, DiscardPut, DiscardRollback, Suits,
                     quietTrash, fileVars
<1>4. /\ work[o].at \in {"act", "picked"} => fs = FirstFiles /\ info = {}
      /\ work[o].at = "put" => fs = FirstFiles /\ info = {work[o].slot}
      /\ work[o].at \in {"picked", "put"} => FirstFiles[work[o].slot] = None
  BY <1>2, <1>3, Zenon DEF FilesBefore
<1>5. CASE Ends(o)
  BY <1>2, <1>5, Ending, OverIs, TripEnds, Zenon
<1>6. ASSUME OnlyMoves(o), work'[o].at \in {"picked", "put", "rollback", "rollback2"},
             work'[o].task = work[o].task, FilesBefore(work[o])'
      PROVE  Trip(o)'
  <2>1. work'[o].at \notin SetStages /\ work'[o].at \in TaskStages
    BY <1>6 DEF SetStages, TaskStages, ActStages
  <2>2. TextBefore(work[o], pen[o])'
    BY <1>2, <1>3, <1>6, <2>1, TextStays, Zenon
  <2> QED BY <1>2, <1>3, <1>6, <2>1, <2>2, TripGoesOn, Zenon
<1>7. CASE PickTrashName(o) /\ ~Ends(o)
  <2>1. PICK s \in Slots : /\ Free(s)
             /\ work' = [work EXCEPT ![o].at = "picked", ![o].slot = s, ![o].tried = @ \union {s}]
    BY <1>7, Zenon DEF PickTrashName
  <2>2. /\ OnlyMoves(o) /\ work'[o].at = "picked" /\ work'[o].slot = s
        /\ work'[o].task = work[o].task
    <3>1. DOMAIN work = Workers /\ DOMAIN work[o] = Fields
      BY <1>2, Zenon DEF WorkInv, Sane
    <3> QED BY <1>2, <2>1, <3>1 DEF OnlyMoves, Fields
  <2>3. fs' = fs /\ info' = info /\ fs = FirstFiles /\ info = {}
    BY <1>4, <1>7, Zenon DEF PickTrashName, fileVars
  <2>4. FilesBefore(work[o])'
    BY <2>1, <2>2, <2>3, Zenon DEF FilesBefore, Free
  <2> QED BY <1>6, <2>2, <2>4, Zenon
<1>8. CASE ReserveTrashName(o) /\ ~Ends(o)
  <2>1. /\ work[o].at = "picked" /\ fs' = fs /\ info' = info \union {work[o].slot}
        /\ work[o].slot \notin info => Goes(o, "put")
    BY <1>8, Zenon DEF ReserveTrashName
  <2>2. fs' = FirstFiles /\ info' = {work[o].slot} /\ Goes(o, "put")
    BY <1>4, <2>1
  <2>3. /\ OnlyMoves(o) /\ work'[o].at = "put" /\ work'[o].slot = work[o].slot
        /\ work'[o].task = work[o].task
    BY <1>2, <2>2, Going, Zenon
  <2>4. FilesBefore(work[o])'
    BY <1>4, <2>1, <2>2, <2>3, Zenon DEF FilesBefore
  <2> QED BY <1>6, <2>3, <2>4, Zenon
<1>9. CASE \E stage \in {"rollback", "rollback2"} : Goes(o, stage)
  <2>1. PICK stage \in {"rollback", "rollback2"} : Goes(o, stage)
    BY <1>9
  <2>2. OnlyMoves(o) /\ work'[o].at = stage /\ work'[o].task = work[o].task
    BY <1>2, <2>1, Going, Zenon
  <2>3. FilesBefore(work[o])'
    BY <2>1, <2>2, Zenon DEF FilesBefore
  <2> QED BY <1>6, <2>1, <2>2, <2>3, Zenon
<1>10. CASE DiscardPut(o) /\ ~Goes(o, "rollback")
  <2>1. /\ work[o].at = "put" /\ ~Free(From(o)) /\ info' = info
        /\ fs' = Moved(From(o), work[o].slot)
        /\ Acted(o, InverseReceipt("untrash", work[o].slot, From(o), fs[From(o)]))
    BY <1>10, Zenon DEF DiscardPut, quietTrash
  <2>2. /\ FirstFiles[From(o)] # None
        /\ fs' = [FirstFiles EXCEPT ![From(o)] = None, ![work[o].slot] = FirstFiles[From(o)]]
    BY <1>4, <2>1, Zenon DEF Free, Moved
  <2>3. From(o) \in Places /\ work[o].slot \in Places
    BY <1>1, <1>3, <2>1, OpAtFiles, Zenon DEF SlotStages
  <2> QED BY <1>2, <1>3, <1>4, <2>1, <2>2, <2>3, TripMoves, Zenon
<1> QED BY <1>5, <1>7, <1>8, <1>9, <1>10, Zenon DEF DiscardRollback

(* What a writer that has not met another does to the settings file: it    *)
(* leaves it alone until it puts the text there that it has prepared.      *)
LEMMA WriterEffect ==
    ASSUME IInv, ~met, NEW w \in Workers, SetStep(w)
    PROVE  /\ \A x \in Workers : x # w => pen'[x] = pen[x]
           /\ \/ Ends(w) /\ inode'[target'] = inode[target] /\ touched' = touched
              \/ CapturePrior(w) /\ ~Ends(w) /\ UNCHANGED setVars
              \/ /\ work[w].at = "act" /\ Goes(w, "open")
                 /\ work[w].task.kind = "set" => work[w].inv # None
                 /\ pen'[w].text = Edited(inode[target], Key(w), Value(w))
                 /\ inode'[target'] = inode[target] /\ touched' = touched
              \/ /\ work[w].at \in SetStages /\ \E stage \in SetStages : Goes(w, stage)
                 /\ pen'[w].text = pen[w].text
                 /\ inode'[target'] = inode[target] /\ touched' = touched
              \/ /\ work[w].at = "rename" /\ Acted(w, work[w].inv)
                 /\ inode'[target'] = pen[w].text
                 /\ Touches(w)
<1> USE DEF setVars, Setting, At
<1>1. /\ WorkInv /\ PenTypes /\ Alone
      /\ inode \in [Inodes -> Texts] /\ target \in Inodes /\ tmp # target
      /\ pen \in [Workers -> [text : Texts \union {None}, file : Inodes \union {None}]]
  BY Zenon DEF IInv, SetInv, PenTypes
<1>2. {"open", "write", "rename", "unlink"} = SetStages
  BY DEF SetStages
<1>3. CASE CapturePrior(w)
  <2>1. pen' = pen /\ inode'[target'] = inode[target] /\ touched' = touched
    BY <1>3, Zenon DEF CapturePrior
  <2> QED BY <1>3, <2>1, Zenon DEF CapturePrior
<1>4. CASE ReadAndEdit(w)
  <2>1. inode'[target'] = inode[target] /\ touched' = touched /\ work[w].at = "act"
    BY <1>4, Zenon DEF ReadAndEdit
  <2>2. CASE Ends(w) /\ pen' = pen
    BY <2>1, <2>2, Zenon
  <2>3. CASE pen' = [pen EXCEPT ![w].text = Edited(inode[target], Key(w), Value(w))]
    <3>1. /\ \A x \in Workers : x # w => pen'[x] = pen[x]
          /\ pen'[w].text = Edited(inode[target], Key(w), Value(w))
      BY <1>1, <2>3
    <3> QED BY <1>4, <2>1, <2>2, <3>1, Zenon DEF ReadAndEdit
  <2> QED BY <1>4, <2>2, <2>3, Zenon DEF ReadAndEdit
<1>5. CASE OpenTmp(w)
  <2> DEFINE i == IF tmp = None THEN w ELSE tmp
  <2>1. touched' = touched /\ target' = target /\ work[w].at = "open"
    BY <1>5, Zenon DEF OpenTmp
  <2>2. CASE Goes(w, "unlink") /\ inode' = inode /\ pen' = pen
    BY <1>2, <2>1, <2>2, Zenon
  <2>3. CASE /\ inode' = [inode EXCEPT ![i] = Empty] /\ pen' = [pen EXCEPT ![w].file = i]
             /\ Goes(w, "write")
    <3>1. target # w
      BY <1>1, <2>1, PenStages, Zenon DEF PenTypes
    <3>2. i # target
      BY <1>1, <3>1
    <3> HIDE DEF i
    <3>3. inode'[target] = inode[target]
      BY <1>1, <2>3, <3>2
    <3>4. /\ \A x \in Workers : x # w => pen'[x] = pen[x]
          /\ pen'[w].text = pen[w].text
      BY <1>1, <2>3
    <3> QED BY <1>2, <2>1, <2>3, <3>3, <3>4, Zenon
  <2> QED BY <1>5, <2>2, <2>3, Zenon DEF OpenTmp
<1>6. CASE WriteTmp(w)
  <2>1. touched' = touched /\ target' = target /\ pen' = pen /\ work[w].at = "write"
    BY <1>6, Zenon DEF WriteTmp
  <2>2. pen[w].file # target
    BY <1>1, <2>1, Zenon DEF PenTypes, Alone
  <2>3. inode'[target] = inode[target]
    <3>1. inode' = inode \/ \E t : inode' = [inode EXCEPT ![pen[w].file] = t]
      BY <1>6, Zenon DEF WriteTmp
    <3> QED BY <1>1, <2>2, <3>1
  <2>4. \E stage \in SetStages : Goes(w, stage)
    BY <1>2, <1>6, Zenon DEF WriteTmp
  <2> QED BY <1>2, <2>1, <2>3, <2>4, Zenon
<1>7. CASE RenameTmp(w)
  <2>1. work[w].at = "rename"
    BY <1>7, Zenon DEF RenameTmp
  <2>2. CASE Goes(w, "unlink") /\ touched' = touched /\ UNCHANGED setVars
    <3>1. pen' = pen /\ inode'[target'] = inode[target]
      BY <2>2, Zenon
    <3> QED BY <1>2, <2>1, <2>2, <3>1, Zenon
  <2>3. CASE /\ target' = tmp /\ pen' = [pen EXCEPT ![w] = NoPen]
             /\ inode' = Collected(inode, {tmp}, [pen EXCEPT ![w] = NoPen])
             /\ Touches(w) /\ Acted(w, work[w].inv)
    <3>1. pen[w].file = tmp /\ inode[tmp] = pen[w].text /\ tmp \in Inodes
      BY <1>1, <2>1, Zenon DEF PenTypes, Alone
    <3>2. inode'[tmp] = inode[tmp]
      BY <1>1, <2>3, <3>1, CollectedIs, Zenon
    <3>3. \A x \in Workers : x # w => pen'[x] = pen[x]
      BY <1>1, <2>3, PenDown, Zenon
    <3> QED BY <2>1, <2>3, <3>1, <3>2, <3>3, Zenon
  <2> QED BY <1>7, <2>2, <2>3, Zenon DEF RenameTmp
<1>8. CASE UnlinkTmp(w)
  <2>1. /\ touched' = touched /\ target' = target /\ Ends(w)
        /\ pen' = [pen EXCEPT ![w] = NoPen]
        /\ inode' = Collected(inode, {target}, [pen EXCEPT ![w] = NoPen])
    BY <1>8, Zenon DEF UnlinkTmp
  <2>2. inode'[target] = inode[target]
    BY <1>1, <2>1, CollectedIs, Zenon
  <2>3. \A x \in Workers : x # w => pen'[x] = pen[x]
    BY <1>1, <2>1, PenDown, Zenon
  <2> QED BY <2>1, <2>2, <2>3, Zenon
<1> QED BY <1>3, <1>4, <1>5, <1>6, <1>7, <1>8, Zenon DEF SetStep

(* settings.set.                                                           *)
LEMMA OpSets ==
    ASSUME IInv, ~met, NEW o \in Ops, Trip(o), SetStep(o), UNCHANGED fileVars
    PROVE  Trip(o)'
<1>1. o \in Workers /\ WorkInv /\ StaleInv /\ PenTypes
  BY Zenon DEF IInv, Workers, SetInv
<1>2. /\ log' = log
      /\ Calls \intersect touched' = Calls \intersect touched
      /\ work[o].at \in ActStages /\ Acting(o)
  BY <1>1, SetFrame, TouchedAside, Zenon DEF Acting, TaskStages
<1>3. /\ stack = <<>> /\ FilesBefore(work[o]) /\ TextBefore(work[o], pen[o])
      /\ \A c \in Calls : work[c].at \notin TaskStages
  BY <1>2, Zenon DEF Trip, Starting
<1>4. stack' = stack /\ fs' = fs /\ info' = info
  BY Zenon DEF fileVars
<1>5. work[o].task.kind = "set" /\ work[o].at \in {"act"} \union SetStages
  <2>1. work[o].task.kind \in {"set", "value"} /\ work[o].task.kind \notin Backward
    BY <1>1, <1>2, SetFrame, TaskedAt, StageKinds, Zenon
  <2>2. work[o].at \in {"act"} \union SetStages
    BY Zenon DEF SetStep, CapturePrior, ReadAndEdit, OpenTmp, WriteTmp, RenameTmp, UnlinkTmp,
                 Setting, At, SetStages
  <2> QED BY <2>1, <2>2, Zenon DEF Backward
<1>6. fs = FirstFiles /\ info = {}
  BY <1>3, <1>5, Zenon DEF FilesBefore, SetStages
<1>7. /\ inode[target] = FirstText
      /\ work[o].inv # None \/ work[o].at \in SetStages =>
           work[o].inv.a = Key(o) /\ work[o].inv.b = FirstText[Key(o)]
      /\ work[o].at \in SetStages => pen[o].text = Edited(FirstText, Key(o), Value(o))
  BY <1>2, <1>3, <1>5, StageKinds, Zenon DEF TextBefore, Key, Value
<1>8. Tasked(o, work[o], Usable) /\ Key(o) \in Keys
  BY <1>1, <1>2, TaskedAt, WriterTask, StageKinds, Zenon
<1>9. ASSUME OnlyMoves(o), work'[o].at \in {"act"} \union SetStages,
             TextBefore(work[o], pen[o])'
      PROVE  Trip(o)'
  <2>1. work'[o].at \in TaskStages
    BY <1>9 DEF SetStages, TaskStages, ActStages
  <2>2. FilesBefore(work[o])'
    BY <1>4, <1>6, <1>9, Zenon DEF FilesBefore, SetStages
  <2> QED BY <1>1, <1>2, <1>4, <1>9, <2>1, <2>2, TripGoesOn, Zenon
<1>10. ASSUME NEW stage \in SetStages, Goes(o, stage),
              work[o].inv # None \/ work[o].at \in SetStages,
              inode'[target'] = inode[target],
              pen'[o].text = Edited(FirstText, Key(o), Value(o))
       PROVE  Trip(o)'
  <2>1. /\ OnlyMoves(o) /\ work'[o].at = stage /\ work'[o].task = work[o].task
        /\ work'[o].inv = work[o].inv
    BY <1>1, <1>10, Going, Zenon
  <2>2. TextBefore(work[o], pen[o])'
    BY <1>7, <1>10, <2>1, Zenon DEF TextBefore, Key, Value
  <2> QED BY <1>9, <1>10, <2>1, <2>2, Zenon
<1>11. CASE Ends(o)
  BY <1>1, <1>2, <1>11, Ending, OverIs, TripEnds, Zenon
<1>12. CASE CapturePrior(o) /\ ~Ends(o) /\ UNCHANGED setVars
  <2> DEFINE inv == [kind |-> "value", a |-> Key(o), b |-> inode[target][Key(o)], of |-> None]
  <2>1. work' = [work EXCEPT ![o].inv = inv] /\ work[o].at = "act"
    BY <1>12, Zenon DEF CapturePrior, At
  <2>2. inv.a = Key(o) /\ inv.b = FirstText[Key(o)]
    BY <1>7
  <2> HIDE DEF inv
  <2>3. /\ OnlyMoves(o) /\ work'[o].at = "act" /\ work'[o].task = work[o].task
        /\ work'[o].inv = inv
    <3>1. DOMAIN work = Workers /\ DOMAIN work[o] = Fields
      BY <1>1, Zenon DEF WorkInv, Sane
    <3> QED BY <1>1, <2>1, <3>1 DEF OnlyMoves, Fields
  <2>4. inode'[target'] = FirstText /\ "act" \notin SetStages
    BY <1>7, <1>12, PenStages, Zenon DEF setVars
  <2>5. TextBefore(work[o], pen[o])'
    BY <2>2, <2>3, <2>4, Zenon DEF TextBefore, Key
  <2> QED BY <1>9, <2>3, <2>5, Zenon
<1>13. CASE /\ work[o].at = "act" /\ Goes(o, "open")
            /\ work[o].task.kind = "set" => work[o].inv # None
            /\ pen'[o].text = Edited(inode[target], Key(o), Value(o))
            /\ inode'[target'] = inode[target]
  <2>1. "open" \in SetStages
    BY PenStages, Zenon
  <2> QED BY <1>5, <1>7, <1>10, <1>13, <2>1, Zenon
<1>14. CASE /\ work[o].at \in SetStages /\ \E stage \in SetStages : Goes(o, stage)
            /\ pen'[o].text = pen[o].text
            /\ inode'[target'] = inode[target]
  <2>1. pen'[o].text = Edited(FirstText, Key(o), Value(o))
    BY <1>7, <1>14, Zenon
  <2> QED BY <1>10, <1>14, <2>1, Zenon
<1>15. CASE /\ work[o].at = "rename" /\ Acted(o, work[o].inv)
            /\ inode'[target'] = pen[o].text
  <2>1. work[o].at \in SetStages /\ Acted(o, work[o].inv)
    BY <1>15, PenStages, Zenon
  <2>2. /\ work[o].inv.kind = "value"
        /\ work[o].inv.a = Key(o) /\ work[o].inv.b = FirstText[Key(o)]
    BY <1>5, <1>7, <1>8, <2>1, Zenon DEF Tasked
  <2>3. \A k \in Keys \ {Key(o)} : inode'[target'][k] = FirstText[k]
    <3>1. inode'[target'] = [FirstText EXCEPT ![Key(o)] = Value(o)]
      BY <1>7, <1>15, <2>1, Zenon DEF Edited
    <3> QED BY <3>1, SettingsAssumption DEF Texts
  <2>4. /\ OnlyMoves(o)
        /\ work'[o] = Over \/ (work'[o].at \in {"submit", "both"} /\ work'[o].inv = work[o].inv)
    BY <1>1, <2>1, ActedMoves, CallsAssumption, Zenon
  <2>5. CASE work'[o] = Over
    BY <1>1, <1>2, <2>5, OverIs, TripEnds, Zenon
  <2>6. CASE work'[o].at \in {"submit", "both"} /\ work'[o].inv = work[o].inv
    <3>1. \A c \in Calls : work'[c].at \notin SetStages
      BY <1>3, <2>4, StageKinds, CallsAssumption, Zenon DEF OnlyMoves, Workers
    <3>2. Reset(work[o].inv)' /\ work'[o].inv.kind = "value"
      BY <1>4, <1>6, <2>2, <2>3, <2>6, <3>1, Zenon DEF Reset
    <3> QED BY <1>1, <1>2, <1>4, <2>4, <2>6, <3>2, TripTurns, Zenon
  <2> QED BY <2>4, <2>5, <2>6
<1> QED BY <1>1, <1>11, <1>12, <1>13, <1>14, <1>15, WriterEffect, Zenon

=============================================================================
