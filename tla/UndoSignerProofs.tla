-------------------------- MODULE UndoSignerProofs --------------------------
(***************************************************************************)
(* What the undo log's signer promises, for every set of operations and    *)
(* every bound on records and on what goes wrong.  The inductive invariant *)
(* says where the records answered Sealed are at each point of an append   *)
(* (Witness), and that every log a hash in the file stands for folds       *)
(* legally (GoodLog), so that whatever the next start manages to load is a *)
(* log in which a finished lifecycle has nothing after it.                 *)
(***************************************************************************)
EXTENDS UndoSigner, TLAPS

\* Replacing one element of a sequence.
LEMMA SeqUpdate ==
  ASSUME NEW S, NEW s \in Seq(S), NEW i \in 1 .. Len(s), NEW e \in S
  PROVE  /\ [s EXCEPT ![i] = e] \in Seq(S)
         /\ Len([s EXCEPT ![i] = e]) = Len(s)
         /\ \A j \in 1 .. Len(s) : [s EXCEPT ![i] = e][j] = IF j = i THEN e ELSE s[j]
OBVIOUS

FinalIsLast(log) ==
    \A i, j \in DOMAIN log :
        i < j /\ log[i].op = log[j].op => log[i].state \notin Terminal

GoodLog(log) == FinalIsLast(log) /\ \A op \in Ops : Legal(log, op)

\* Where an append stands and what that says of the file and the memory.
Request ==
    req # NoRequest =>
        /\ mode = "serving"
        /\ req.at \in {"line", "newline", "fsync"} =>
              GoodLog(ChainHash(mem, RequestRecord))
        /\ req.at \in {"newline", "fsync"} => file # <<>>
        /\ req.at = "checkpoint" =>
              synced >= 1 /\ mem # <<>> /\ mem[Len(mem)] = RequestRecord

\* Where the sealed records are.
Witness ==
    "wiped" \notin damage /\ sealed # {} =>
        /\ synced >= 1 \/ (ckpt # NoCheckpoint /\ file = <<>>)
        /\ ckpt # NoCheckpoint => sealed \subseteq Range(ckpt)
        /\ damage = {} => ckpt # NoCheckpoint
        /\ mode = "serving" => synced >= 1 /\ sealed \subseteq Range(mem)

IInv ==
    /\ TypeOK
    /\ ~nl => file # <<>>
    /\ mode = "loaded" => mem = Records(file)
    /\ GoodLog(mem)
    /\ \A i \in DOMAIN file : GoodLog(file[i].hash)
    /\ Request
    /\ Witness
-----------------------------------------------------------------------------
LEMMA MaxIs ==
  ASSUME NEW S \in SUBSET Nat, NEW m \in S, \A y \in S : m >= y
  PROVE  Max(S) = m
<1>1. \A x \in S : (\A y \in S : x >= y) => x = m
  OBVIOUS
<1>2. Max(S) \in S /\ \A y \in S : Max(S) >= y
  BY Zenon DEF Max
<1> QED
  BY <1>1, <1>2, Zenon

LEMMA RecordsOfAppend ==
  ASSUME NEW log \in Seq(Record), NEW r \in Record, NEW op
  PROVE  RecordsOf(Append(log, r), op) =
            IF r.op = op THEN RecordsOf(log, op) \cup {Len(log) + 1}
            ELSE RecordsOf(log, op)
<1>1. DOMAIN Append(log, r) = DOMAIN log \cup {Len(log) + 1}
  OBVIOUS
<1>2. \A i \in DOMAIN log : Append(log, r)[i] = log[i]
  OBVIOUS
<1>3. Append(log, r)[Len(log) + 1] = r /\ Len(log) + 1 \notin DOMAIN log
  OBVIOUS
<1> QED
  BY <1>1, <1>2, <1>3, Zenon DEF RecordsOf

LEMMA RecordsOfNat ==
  ASSUME NEW log \in Seq(Record), NEW op
  PROVE  RecordsOf(log, op) \in SUBSET Nat
BY DEF RecordsOf

\* A record that continues its operation's lifecycle keeps the log good: the
\* check of submit_created and transition.
Continues(log, r) ==
    IF RecordsOf(log, r.op) = {} THEN r.state = "InFlight"
    ELSE CanTransition(log[Max(RecordsOf(log, r.op))].state, r.state)

LEMMA GoodAppend ==
  ASSUME NEW log \in Seq(Record), NEW r \in Record, GoodLog(log), Continues(log, r)
  PROVE  GoodLog(ChainHash(log, r))
<1> DEFINE new == Append(log, r)
           n == Len(log) + 1
<1>0. /\ \A i \in DOMAIN log : new[i] = log[i] /\ i < n /\ i \in Nat
      /\ new[n] = r
      /\ DOMAIN new = DOMAIN log \cup {n}
      /\ n \in Nat
  OBVIOUS
<1>1. FinalIsLast(new)
  <2> SUFFICES ASSUME NEW i \in DOMAIN new, NEW j \in DOMAIN new,
                      i < j, new[i].op = new[j].op
               PROVE  new[i].state \notin Terminal
    BY Zenon DEF FinalIsLast
  <2>1. CASE j \in DOMAIN log
    <3>1. i \in DOMAIN log
      BY <1>0, <2>1
    <3> QED
      BY <1>0, <2>1, <3>1, Zenon DEF GoodLog, FinalIsLast
  <2>2. CASE j = n
    <3>1. i \in DOMAIN log
      BY <1>0, <2>2
    <3>2. new[i] = log[i] /\ log[i].op = r.op
      BY <1>0, <2>2, <3>1, Zenon
    <3>3. i \in RecordsOf(log, r.op)
      BY <3>1, <3>2, Zenon DEF RecordsOf
    <3>4. SUFFICES ASSUME log[i].state \in Terminal PROVE FALSE
      BY <3>2, Zenon
    <3>5. \A k \in RecordsOf(log, r.op) : i >= k
      BY <1>0, <3>1, <3>2, <3>4 DEF GoodLog, FinalIsLast, RecordsOf
    <3>6. Max(RecordsOf(log, r.op)) = i
      BY <3>3, <3>5, MaxIs, RecordsOfNat, Zenon
    <3> QED
      BY <3>3, <3>4, <3>6, Zenon DEF Continues, CanTransition
  <2> QED
    BY <1>0, <2>1, <2>2, Zenon
<1>2. ASSUME NEW op \in Ops PROVE Legal(new, op)
  <2> DEFINE Before(R, j) == {i \in R : i < j}
             New == RecordsOf(new, op)
             Old == RecordsOf(log, op)
  <2>0. /\ Old \subseteq DOMAIN log /\ Old \in SUBSET Nat
        /\ New = IF r.op = op THEN Old \cup {n} ELSE Old
    BY RecordsOfAppend, RecordsOfNat DEF RecordsOf
  <2> SUFFICES ASSUME NEW j \in New
               PROVE  /\ Before(New, j) = {} => new[j].state = "InFlight"
                      /\ \A i \in Before(New, j) : (\A k \in Before(New, j) : k <= i) =>
                            CanTransition(new[i].state, new[j].state)
    BY Zenon DEF Legal
  <2>1. CASE j \in Old
    <3>1. Before(New, j) = Before(Old, j)
      BY <1>0, <2>0, <2>1
    <3>2. new[j] = log[j] /\ \A i \in Before(Old, j) : new[i] = log[i]
      BY <1>0, <2>0, <2>1, Zenon
    <3>3. /\ Before(Old, j) = {} => log[j].state = "InFlight"
          /\ \A i \in Before(Old, j) : (\A k \in Before(Old, j) : k <= i) =>
                CanTransition(log[i].state, log[j].state)
      BY <2>1, Zenon DEF GoodLog, Legal
    <3> QED
      BY <3>1, <3>2, <3>3, Zenon
  <2>2. CASE j = n /\ r.op = op
    <3>1. Before(New, j) = Old
      BY <1>0, <2>0, <2>2
    <3>2. ASSUME NEW i \in Old, \A k \in Old : k <= i
          PROVE  CanTransition(new[i].state, r.state)
      <4>1. Max(Old) = i
        <5>1. \A k \in Old : i >= k
          BY <2>0, <3>2, Zenon
        <5> QED
          BY <2>0, <5>1, MaxIs, Zenon
      <4> QED
        BY <1>0, <2>0, <2>2, <4>1, Zenon DEF Continues
    <3>3. Old = {} => r.state = "InFlight"
      BY <2>2, Zenon DEF Continues
    <3> QED
      BY <1>0, <2>2, <3>1, <3>2, <3>3, Zenon
  <2> QED
    BY SMTT(60), <2>0, <2>1, <2>2
<1> QED
  BY <1>1, <1>2, Zenon DEF GoodLog, ChainHash

\* A final state is the state its operation folds to.
LEMMA FinalIsCurrent ==
  ASSUME NEW log \in Seq(Record), GoodLog(log), NEW i \in DOMAIN log,
         log[i].op \in Ops, log[i].state \in Terminal
  PROVE  CurrentState(log, log[i].op) = log[i].state
<1> DEFINE R == RecordsOf(log, log[i].op)
<1>1. i \in R
  BY Zenon DEF RecordsOf
<1>2. \A k \in R : i >= k
  BY DEF RecordsOf, GoodLog, FinalIsLast
<1>3. Max(R) = i
  BY <1>1, <1>2, MaxIs, RecordsOfNat, Zenon
<1> QED
  BY <1>1, <1>3, Zenon DEF CurrentState, GoodLog

\* Whatever loads is a good log.
LEMMA LoadedIsGood ==
  ASSUME TypeOK, Loads(file), \A i \in DOMAIN file : GoodLog(file[i].hash)
  PROVE  Records(file) \in Seq(Record) /\ GoodLog(Records(file))
<1>1. Records(file) \in Seq(Record) /\ Len(Records(file)) = Len(file)
  <2>1. \A i \in DOMAIN file : file[i].rec \in Record
    BY DEF TypeOK, Line, Loads
  <2>2. DOMAIN file = 1 .. Len(file) /\ Len(file) \in Nat
    BY DEF TypeOK
  <2> QED
    BY <2>1, <2>2 DEF Records
<1>2. CASE file = <<>>
  BY <1>2 DEF Records, GoodLog, FinalIsLast, Legal, RecordsOf
<1>3. CASE file # <<>>
  <2>1. Len(file) \in DOMAIN file
    BY <1>3 DEF TypeOK
  <2>2. SubSeq(Records(file), 1, Len(file)) = Records(file)
    BY <1>1
  <2> QED
    BY <1>1, <2>1, <2>2, Zenon DEF Loads
<1> QED
  BY <1>1, <1>2, <1>3, Zenon
-----------------------------------------------------------------------------
LEMMA EmptyIsGood == GoodLog(<<>>)
BY DEF GoodLog, FinalIsLast, Legal, RecordsOf

LEMMA InitInv == Init => IInv
<1> SUFFICES ASSUME Init PROVE IInv
  BY Zenon
<1>1. TypeOK
  BY DEF Init, TypeOK, NoCheckpoint
<1>2. Request /\ Witness
  BY Zenon DEF Init, Request, Witness
<1> QED
  BY <1>1, <1>2, EmptyIsGood DEF Init, IInv

\* The files while nothing is written to them.
LEMMA StartInv ==
  ASSUME IInv, Load \/ KeyCutShort \/ Assess \/ Exit
  PROVE  IInv'
<1>1. CASE Load
  <2>1. mem' = Records(file) /\ mem' \in Seq(Record) /\ GoodLog(mem')
    BY <1>1, LoadedIsGood, Zenon DEF Load, IInv
  <2>2. TypeOK'
    BY <1>1, <2>1, Zenon DEF Load, IInv, TypeOK
  <2>3. Request' /\ Witness'
    BY <1>1, Zenon DEF Load, IInv, Request, Witness
  <2> QED
    BY <1>1, <2>1, <2>2, <2>3, Zenon DEF Load, IInv
<1>2. CASE KeyCutShort
  <2>1. TypeOK'
    BY <1>2 DEF KeyCutShort, IInv, TypeOK
  <2>2. Request' /\ Witness'
    BY <1>2, Zenon DEF KeyCutShort, IInv, Request, Witness, RequestRecord
  <2> QED
    BY <1>2, <2>1, <2>2, Zenon DEF KeyCutShort, IInv
<1>3. ASSUME Consistent(mem), mode = "loaded", ckpt # NoCheckpoint
      PROVE  Range(ckpt) \subseteq Range(mem) /\ mem # <<>>
  <2>1. /\ Len(ckpt) <= Len(mem) /\ SubSeq(mem, 1, Len(ckpt)) = ckpt
        /\ ckpt \in Seq(Record) /\ mem \in Seq(Record)
    BY <1>3, Zenon DEF Consistent, IInv, TypeOK
  <2>2. \A i \in 1 .. Len(ckpt) : ckpt[i] = mem[i] /\ i \in DOMAIN mem
    BY <2>1
  <2>3. Len(ckpt) > 0
    BY <1>3, <2>1 DEF NoCheckpoint
  <2> QED
    BY <2>1, <2>2, <2>3 DEF Range
<1>4. mode = "loaded" => (mem = <<>> <=> file = <<>>)
  BY DEF IInv, Records, TypeOK
<1>5. CASE Assess
  <2>1. TypeOK'
    BY <1>5, Zenon DEF Assess, IInv, TypeOK
  <2>2. Request'
    BY <1>5, Zenon DEF Assess, IInv, Request
  <2>3. Witness'
    <3> SUFFICES ASSUME "wiped" \notin damage, sealed # {}
                 PROVE  synced >= 1 /\ sealed \subseteq Range(mem)
                        /\ ckpt' # NoCheckpoint /\ sealed \subseteq Range(ckpt')
      BY <1>5, Zenon DEF Assess, Witness
    <3>1. mode = "loaded" /\ Consistent(mem)
      BY <1>5, Zenon DEF Assess
    <3>2. ckpt # NoCheckpoint
      BY <3>1, <1>4 DEF IInv, Witness, Consistent, TypeOK
    <3>3. sealed \subseteq Range(mem) /\ mem # <<>>
      BY <1>3, <3>1, <3>2, Zenon DEF IInv, Witness
    <3>4. ckpt' = mem
      BY <1>5, <3>3, Zenon DEF Assess
    <3> QED
      BY <1>4, <3>1, <3>3, <3>4, Zenon DEF IInv, Witness, NoCheckpoint
  <2> QED
    BY <1>5, <2>1, <2>2, <2>3, Zenon DEF Assess, IInv
<1>6. CASE Exit
  <2>1. TypeOK'
    BY <1>6 DEF Exit, IInv, TypeOK
  <2>2. Request'
    BY <1>6, Zenon DEF Exit, IInv, Request
  <2>3. Witness'
    BY <1>3, <1>6, Zenon DEF Exit, IInv, Witness, NoCheckpoint, Consistent
  <2> QED
    BY <1>6, <2>1, <2>2, <2>3, EmptyIsGood, Zenon DEF Exit, IInv
<1> QED
  BY <1>1, <1>2, <1>5, <1>6, Zenon

\* A request is taken only if its record continues the log in memory.
LEMMA RequestInv ==
  ASSUME IInv, NEW op \in Ops, NEW state \in UndoState,
         SubmitCreated(op) \/ Transition(op, state)
  PROVE  IInv'
<1>1. PICK st \in UndoState : /\ req' = [op |-> op, state |-> st, at |-> "line"]
                              /\ Continues(mem, [op |-> op, state |-> st])
  <2>1. CASE SubmitCreated(op)
    BY <2>1, Zenon DEF SubmitCreated, Continues, UndoState
  <2>2. CASE Transition(op, state)
    BY <2>2, Zenon DEF Transition, Continues, CurrentState
  <2> QED
    BY <2>1, <2>2, Zenon
<1>2. /\ mode = "serving"
      /\ UNCHANGED <<key, file, nl, synced, ckpt, mode, mem, sealed,
                     crashes, faults, damage>>
  BY Zenon DEF SubmitCreated, Transition
<1>3. RequestRecord' = [op |-> op, state |-> st] /\ RequestRecord' \in Record
  BY <1>1, Zenon DEF RequestRecord, Record
<1>4. GoodLog(ChainHash(mem, RequestRecord'))
  BY <1>1, <1>3, GoodAppend, Zenon DEF IInv, TypeOK
<1>5. TypeOK'
  BY <1>1, <1>2, Zenon DEF IInv, TypeOK
<1>6. Request'
  BY <1>1, <1>2, <1>4, Zenon DEF Request, ChainHash
<1>7. Witness'
  BY <1>2, Zenon DEF IInv, Witness
<1> QED
  BY <1>2, <1>5, <1>6, <1>7, Zenon DEF IInv

\* What an append does to the lines.
LEMMA AppendedFacts ==
  ASSUME IInv, NEW line \in Line, GoodLog(line.hash)
  PROVE  /\ Appended(line) \in Seq(Line) /\ Appended(line) # <<>>
         /\ Len(Appended(line)) >= Len(file) /\ Len(Appended(line)) \in Nat
         /\ \A i \in DOMAIN Appended(line) : GoodLog(Appended(line)[i].hash)
<1>0. file \in Seq(Line) /\ Torn \in Line /\ GoodLog(Torn.hash)
  BY EmptyIsGood, Zenon DEF IInv, TypeOK, Line, Torn
<1>1. CASE nl
  <2> DEFINE more == Append(file, line)
  <2>1. Appended(line) = more
    BY <1>1, Zenon DEF Appended
  <2>2. more \in Seq(Line) /\ Len(more) = Len(file) + 1
    BY <1>0
  <2>3. \A i \in DOMAIN more : more[i] = line \/ (i \in DOMAIN file /\ more[i] = file[i])
    BY <1>0
  <2>4. \A i \in DOMAIN more : GoodLog(more[i].hash)
    BY <2>3, Zenon DEF IInv
  <2>5. more # <<>> /\ Len(file) \in Nat
    BY <1>0, <2>2
  <2> HIDE DEF more
  <2> QED
    BY <2>1, <2>2, <2>4, <2>5
<1>2. CASE ~nl
  <2> DEFINE cut == [file EXCEPT ![Len(file)] = Torn]
  <2>1. Appended(line) = cut /\ file # <<>>
    BY <1>2, Zenon DEF Appended, IInv
  <2>2. cut \in Seq(Line) /\ Len(cut) = Len(file) /\ DOMAIN cut = DOMAIN file
    <3>1. Len(file) \in 1 .. Len(file)
      BY <1>0, <2>1
    <3> QED
      BY <1>0, <3>1, SeqUpdate
  <2>3. \A i \in DOMAIN cut : cut[i] = Torn \/ cut[i] = file[i]
    BY <1>0, Zenon
  <2>4. \A i \in DOMAIN cut : GoodLog(cut[i].hash)
    BY <1>0, <2>2, <2>3, Zenon DEF IInv
  <2>5. cut # <<>> /\ Len(file) \in Nat
    BY <1>0, <2>1, <2>2
  <2> HIDE DEF cut
  <2> QED
    BY <2>1, <2>2, <2>4, <2>5
<1> QED
  BY <1>1, <1>2, Zenon

LEMMA TornLine == Torn \in Line /\ GoodLog(Torn.hash)
BY EmptyIsGood DEF Line, Torn

\* The steps of an append.
LEMMA AppendInv ==
  ASSUME IInv, WriteLine \/ WriteNewline \/ Fsync \/ WriteCheckpoint
  PROVE  IInv'
<1>0. /\ mode = "serving" /\ req # NoRequest
      /\ req \in [op : Ops, state : UndoState,
                  at : {"line", "newline", "fsync", "checkpoint"}]
      /\ RequestRecord \in Record
  BY DEF WriteLine, WriteNewline, Fsync, WriteCheckpoint, IInv, TypeOK, NoRequest,
         RequestRecord, Record
<1>1. CASE WriteLine
  <2> DEFINE line == [rec |-> RequestRecord, hash |-> ChainHash(mem, RequestRecord)]
  <2>1. GoodLog(ChainHash(mem, RequestRecord))
    BY <1>0, <1>1, Zenon DEF WriteLine, IInv, Request
  <2>2. line \in Line /\ line.hash = ChainHash(mem, RequestRecord)
    BY <1>0 DEF Line, ChainHash, IInv, TypeOK
  <2>3. file' = Appended(line)
    BY <1>1, Zenon DEF WriteLine
  <2>4. /\ file' \in Seq(Line) /\ file' # <<>> /\ Len(file') >= Len(file)
        /\ Len(file') \in Nat
        /\ \A i \in DOMAIN file' : GoodLog(file'[i].hash)
    BY <2>1, <2>2, <2>3, AppendedFacts, Zenon
  <2>5. TypeOK'
    <3>1. req' \in [op : Ops, state : UndoState,
                    at : {"line", "newline", "fsync", "checkpoint"}]
      BY <1>0, <1>1, Zenon DEF WriteLine
    <3>2. synced \in 0 .. Len(file')
      BY <2>4 DEF IInv, TypeOK
    <3> QED
      BY <1>1, <2>4, <3>1, <3>2, Zenon DEF WriteLine, IInv, TypeOK
  <2>6. RequestRecord' = RequestRecord
    BY <1>0, <1>1, Zenon DEF WriteLine, RequestRecord
  <2>7. Request'
    BY <1>0, <1>1, <2>1, <2>4, <2>6, Zenon DEF WriteLine, Request, ChainHash
  <2>8. Witness'
    BY <1>0, <1>1, Zenon DEF WriteLine, IInv, Witness
  <2> QED
    BY <1>0, <1>1, <2>4, <2>5, <2>7, <2>8, Zenon DEF WriteLine, IInv
<1>2. CASE WriteNewline
  <2>1. TypeOK'
    BY SMTT(60), <1>0, <1>2 DEF WriteNewline, IInv, TypeOK
  <2>2. Request'
    BY <1>0, <1>2, Zenon DEF WriteNewline, IInv, Request, RequestRecord, ChainHash
  <2>3. Witness'
    BY <1>2, Zenon DEF WriteNewline, IInv, Witness
  <2> QED
    BY <1>0, <1>2, <2>1, <2>2, <2>3, Zenon DEF WriteNewline, IInv
<1>3. CASE Fsync
  <2>1. mem' = Append(mem, RequestRecord) /\ GoodLog(mem') /\ file # <<>>
    BY <1>0, <1>3, Zenon DEF Fsync, IInv, Request, ChainHash
  <2>2. mem \in Seq(Record) /\ file \in Seq(Line) /\ Len(file) >= 1
    BY <2>1 DEF IInv, TypeOK
  <2>3. TypeOK'
    <3>1. req' \in [op : Ops, state : UndoState,
                    at : {"line", "newline", "fsync", "checkpoint"}]
      BY <1>0, <1>3, Zenon DEF Fsync
    <3>2. mem' \in Seq(Record) /\ Len(file) \in 0 .. Len(file)
      BY <1>0, <2>1, <2>2
    <3> QED
      BY <1>3, <3>1, <3>2, Zenon DEF Fsync, IInv, TypeOK
  <2>4. RequestRecord' = RequestRecord
    BY <1>0, <1>3, Zenon DEF Fsync, RequestRecord
  <2>5. Request'
    BY <1>0, <1>3, <2>1, <2>2, <2>4 DEF Fsync, Request
  <2>6. Range(mem) \subseteq Range(mem')
    BY <1>0, <2>1, <2>2 DEF Range
  <2>7. Witness'
    BY <1>0, <1>3, <2>2, <2>6, Zenon DEF Fsync, IInv, Witness
  <2> QED
    BY <1>0, <1>3, <2>1, <2>3, <2>5, <2>7, Zenon DEF Fsync, IInv
<1>4. CASE WriteCheckpoint
  <2>1. /\ mem # <<>> /\ mem[Len(mem)] = RequestRecord /\ synced >= 1
        /\ mem \in Seq(Record)
    BY <1>0, <1>4, Zenon DEF WriteCheckpoint, IInv, Request, TypeOK
  <2>2. RequestRecord \in Range(mem)
    BY <2>1 DEF Range
  <2>3. TypeOK'
    BY <1>0, <1>4, Zenon DEF WriteCheckpoint, IInv, TypeOK
  <2>4. Request'
    BY <1>4, Zenon DEF WriteCheckpoint, Request
  <2>5. Witness'
    BY <1>0, <1>4, <2>1, <2>2, Zenon DEF WriteCheckpoint, IInv, Witness, NoCheckpoint
  <2> QED
    BY <1>0, <1>4, <2>3, <2>4, <2>5, Zenon DEF WriteCheckpoint, IInv
<1> QED
  BY <1>1, <1>2, <1>3, <1>4, Zenon

\* A failing write leaves what it had written, and the submitter without Sealed.
LEMMA WriteFailsInv ==
  ASSUME IInv, WriteFails
  PROVE  IInv'
<1>1. /\ mode = "serving" /\ mode' = mode /\ req' = NoRequest
      /\ UNCHANGED <<key, synced, mem, sealed, crashes, damage>>
      /\ faults' \in Nat
  BY DEF WriteFails, IInv, TypeOK
<1>2. /\ file' \in Seq(Line) /\ Len(file') >= Len(file)
      /\ Len(file') \in Nat /\ nl' \in BOOLEAN
      /\ ~nl' => file' # <<>>
      /\ \A i \in DOMAIN file' : GoodLog(file'[i].hash)
  <2>1. CASE file' = Appended(Torn) /\ nl' = FALSE
    BY <2>1, AppendedFacts, TornLine, Zenon
  <2>2. CASE UNCHANGED <<file, nl>>
    BY <2>2 DEF IInv, TypeOK
  <2> QED
    BY <2>1, <2>2, Zenon DEF WriteFails
<1>3. ckpt' \in {ckpt, mem} /\ (ckpt' = mem => ckpt' = ckpt \/ mem # <<>>)
  BY Zenon DEF WriteFails, IInv, Request
<1>4. TypeOK'
  <2>1. synced \in 0 .. Len(file')
    BY <1>2 DEF IInv, TypeOK
  <2> QED
    BY <1>1, <1>2, <1>3, <2>1, Zenon DEF IInv, TypeOK
<1>5. Request'
  BY <1>1, Zenon DEF Request
<1>6. Witness'
  BY <1>1, <1>3, Zenon DEF IInv, Witness, NoCheckpoint
<1> QED
  BY <1>1, <1>2, <1>4, <1>5, <1>6, Zenon DEF IInv

\* A crash keeps the synced lines.
LEMMA CrashInv ==
  ASSUME IInv, Crash
  PROVE  IInv'
<1>1. /\ mode' = "down" /\ req' = NoRequest /\ mem' = <<>>
      /\ UNCHANGED <<key, synced, ckpt, sealed, faults, damage>>
      /\ crashes' \in Nat
  BY DEF Crash, IInv, TypeOK
<1>2. /\ file' \in Seq(Line) /\ synced \in 0 .. Len(file') /\ nl' \in BOOLEAN
      /\ ~nl' => file' # <<>>
      /\ \A i \in DOMAIN file' : GoodLog(file'[i].hash)
      /\ file = <<>> => file' = <<>> \/ mode = "serving"
  <2>1. CASE UNCHANGED <<file, nl>>
    BY <2>1, Zenon DEF IInv, TypeOK
  <2>2. CASE req.at = "line" /\ file' = Appended(Torn) /\ nl' = FALSE
    <3>1. req # NoRequest
      BY <2>2 DEF NoRequest
    <3>2. mode = "serving"
      BY <3>1, Zenon DEF IInv, Request
    <3>3. /\ file' \in Seq(Line) /\ file' # <<>> /\ Len(file') >= Len(file)
          /\ Len(file') \in Nat /\ \A i \in DOMAIN file' : GoodLog(file'[i].hash)
      BY <2>2, AppendedFacts, TornLine, Zenon
    <3>4. synced \in 0 .. Len(file')
      BY <3>3 DEF IInv, TypeOK
    <3> QED
      BY <2>2, <3>2, <3>3, <3>4, Zenon
  <2>3. CASE PowerLost
    <3>1. PICK n \in synced .. Len(file) - 1 :
             \/ file' = SubSeq(file, 1, n) /\ nl' = TRUE
             \/ file' = Append(SubSeq(file, 1, n), Torn) /\ nl' = FALSE
             \/ file' = SubSeq(file, 1, n + 1) /\ nl' = FALSE
      BY <2>3, Zenon DEF PowerLost
    <3>2. /\ file \in Seq(Line) /\ synced \in Nat /\ n \in Nat
          /\ n < Len(file) /\ synced <= n /\ file # <<>>
      BY <3>1 DEF IInv, TypeOK
    <3>3. \A m \in 0 .. Len(file) :
             /\ SubSeq(file, 1, m) \in Seq(Line) /\ Len(SubSeq(file, 1, m)) = m
             /\ \A i \in 1 .. m : SubSeq(file, 1, m)[i] = file[i]
      BY <3>2
    <3>4. \A m \in 0 .. Len(file) :
             \A i \in DOMAIN SubSeq(file, 1, m) : GoodLog(SubSeq(file, 1, m)[i].hash)
      BY <3>2, <3>3 DEF IInv
    <3>5. CASE file' = SubSeq(file, 1, n) /\ nl' = TRUE
      BY <3>2, <3>3, <3>4, <3>5
    <3>6. CASE file' = Append(SubSeq(file, 1, n), Torn) /\ nl' = FALSE
      <4> DEFINE kept == SubSeq(file, 1, n)
      <4>1. kept \in Seq(Line) /\ Len(kept) = n
        BY <3>2, <3>3
      <4>2. \A i \in DOMAIN kept : GoodLog(kept[i].hash)
        BY <3>2, <3>4
      <4> HIDE DEF kept
      <4>3. /\ Append(kept, Torn) \in Seq(Line) /\ Len(Append(kept, Torn)) = n + 1
            /\ \A i \in DOMAIN Append(kept, Torn) :
                  Append(kept, Torn)[i] = Torn \/ (i \in DOMAIN kept /\ Append(kept, Torn)[i] = kept[i])
        BY <3>2, <4>1, TornLine
      <4>4. file' = Append(kept, Torn)
        BY <3>6, Zenon DEF kept
      <4>5. \A i \in DOMAIN file' : GoodLog(file'[i].hash)
        BY <4>2, <4>3, <4>4, TornLine, Zenon
      <4>6. file' \in Seq(Line) /\ Len(file') = n + 1
        BY <4>3, <4>4, Zenon
      <4>7. file' # <<>>
        BY <3>2, <4>6
      <4>8. synced \in 0 .. Len(file')
        BY <3>2, <4>6
      <4> QED
        BY <3>2, <3>6, <4>5, <4>6, <4>7, <4>8, Zenon
    <3>7. CASE file' = SubSeq(file, 1, n + 1) /\ nl' = FALSE
      <4>1. n + 1 \in 0 .. Len(file)
        BY <3>2
      <4>2. file' \in Seq(Line) /\ Len(file') = n + 1
        BY <3>3, <3>7, <4>1, Zenon
      <4>3. \A i \in DOMAIN file' : GoodLog(file'[i].hash)
        BY <3>4, <3>7, <4>1
      <4>4. file' # <<>>
        BY <3>2, <4>2
      <4>5. synced \in 0 .. Len(file')
        BY <3>2, <4>2
      <4> QED
        BY <3>2, <3>7, <4>2, <4>3, <4>4, <4>5, Zenon
    <3> QED
      BY <3>1, <3>5, <3>6, <3>7, Zenon
  <2> QED
    BY <2>1, <2>2, <2>3, Zenon DEF Crash, Killed
<1>3. TypeOK'
  BY <1>1, <1>2 DEF IInv, TypeOK
<1>4. Request'
  BY <1>1, Zenon DEF Request
<1>5. Witness'
  BY <1>1, <1>2, Zenon DEF IInv, Witness
<1> QED
  BY <1>1, <1>2, <1>3, <1>4, <1>5, EmptyIsGood, Zenon DEF IInv

\* Damage to the files of a signer that is down.
LEMMA DamageInv ==
  ASSUME IInv,
         \/ \E n \in 0 .. Len(file) - 1 : LoseTail(n)
         \/ \E i \in DOMAIN file, rec \in Record : EditLine(i, rec)
         \/ LoseCheckpoint \/ LoseKey
  PROVE  IInv'
<1>0. /\ file \in Seq(Line) /\ synced \in Nat /\ synced <= Len(file)
      /\ \A i \in DOMAIN file : GoodLog(file[i].hash)
  BY DEF IInv, TypeOK
<1>1. /\ mode = "down"
      /\ UNCHANGED <<mode, mem, req, sealed, crashes, faults>>
      /\ damage \subseteq damage' /\ damage' # {}
      /\ damage' \subseteq {"log", "checkpoint", "key", "wiped"}
      /\ (file' = <<>> /\ ckpt' = NoCheckpoint) => "wiped" \in damage'
  BY Zenon DEF LoseTail, EditLine, LoseCheckpoint, LoseKey, Damaged, IInv, TypeOK
<1>2. Request'
  BY <1>1, Zenon DEF IInv, Request
<1>3. ASSUME NEW n \in 0 .. Len(file) - 1, LoseTail(n)
      PROVE  IInv'
  <2>1. /\ file' = SubSeq(file, 1, n) /\ nl' = TRUE /\ UNCHANGED <<key, ckpt>>
        /\ synced' = IF synced < n THEN synced ELSE n
        /\ n \in Nat /\ n < Len(file)
    BY <1>0, <1>3 DEF LoseTail
  <2>2. /\ file' \in Seq(Line) /\ Len(file') = n
        /\ \A i \in DOMAIN file' : i \in DOMAIN file /\ file'[i] = file[i]
    BY <1>0, <2>1
  <2>3. TypeOK'
    BY <1>0, <1>1, <2>1, <2>2 DEF IInv, TypeOK
  <2>4. Witness'
    <3>1. n = 0 => file' = <<>>
      BY <2>2
    <3> QED
      BY <1>0, <1>1, <2>1, <3>1 DEF IInv, Witness
  <2> QED
    BY <1>0, <1>1, <1>2, <2>1, <2>2, <2>3, <2>4, Zenon DEF IInv
<1>4. ASSUME NEW i \in DOMAIN file, NEW rec \in Record, EditLine(i, rec)
      PROVE  IInv'
  <2>1. /\ file' = [file EXCEPT ![i].rec = rec] /\ UNCHANGED <<key, ckpt, nl, synced>>
        /\ file[i] # Torn
    BY <1>4, Zenon DEF EditLine
  <2>2. file[i] \in [rec : Record, hash : Seq(Record)]
    BY <1>0, <2>1 DEF Line
  <2>3. /\ file' \in Seq(Line) /\ Len(file') = Len(file) /\ DOMAIN file' = DOMAIN file
        /\ \A j \in DOMAIN file : file'[j].hash = file[j].hash
    <3> DEFINE edited == [file[i] EXCEPT !.rec = rec]
    <3>1. edited \in Line /\ edited.hash = file[i].hash
      BY <2>2, Zenon DEF Line
    <3>2. file' = [file EXCEPT ![i] = edited]
      BY <1>0, <2>1, Zenon
    <3> HIDE DEF edited
    <3>3. i \in 1 .. Len(file)
      BY <1>0
    <3>4. file' \in Seq(Line) /\ Len(file') = Len(file)
      BY <1>0, <3>1, <3>2, <3>3, SeqUpdate
    <3>5. \A j \in DOMAIN file : file'[j].hash = file[j].hash
      BY <1>0, <3>1, <3>2, Zenon
    <3> QED
      BY <1>0, <3>4, <3>5
  <2>4. file' # <<>>
    BY <1>0, <2>3
  <2>5. TypeOK'
    BY <1>1, <2>1, <2>3, Zenon DEF IInv, TypeOK
  <2>6. Witness'
    BY <1>1, <2>1, <2>4 DEF IInv, Witness
  <2> QED
    BY <1>0, <1>1, <1>2, <2>1, <2>3, <2>4, <2>5, <2>6, Zenon DEF IInv
<1>5. CASE LoseCheckpoint
  <2>1. ckpt' = NoCheckpoint /\ UNCHANGED <<key, file, nl, synced>>
    BY <1>5, Zenon DEF LoseCheckpoint
  <2>2. TypeOK'
    BY <1>1, <2>1 DEF IInv, TypeOK, NoCheckpoint
  <2>3. Witness'
    BY <1>1, <2>1, Zenon DEF IInv, Witness
  <2> QED
    BY <1>1, <1>2, <2>1, <2>2, <2>3, Zenon DEF IInv
<1>6. CASE LoseKey
  <2>1. key' = "absent" /\ UNCHANGED <<ckpt, file, nl, synced>>
    BY <1>6, Zenon DEF LoseKey
  <2>2. TypeOK'
    BY <1>1, <2>1, Zenon DEF IInv, TypeOK
  <2>3. Witness'
    BY <1>1, <2>1, Zenon DEF IInv, Witness
  <2> QED
    BY <1>1, <1>2, <2>1, <2>2, <2>3, Zenon DEF IInv
<1> QED
  BY <1>3, <1>4, <1>5, <1>6, Zenon

LEMMA NextInv == IInv /\ [Next]_signerVars => IInv'
<1> SUFFICES ASSUME IInv, [Next]_signerVars PROVE IInv'
  BY Zenon
<1>1. CASE Load \/ KeyCutShort \/ Assess \/ Exit
  BY <1>1, StartInv, Zenon
<1>2. CASE \E op \in Ops : SubmitCreated(op)
  BY <1>2, RequestInv, Zenon DEF UndoState
<1>3. CASE \E op \in Ops, state \in UndoState : Transition(op, state)
  BY <1>3, RequestInv, Zenon
<1>4. CASE WriteLine \/ WriteNewline \/ Fsync \/ WriteCheckpoint
  BY <1>4, AppendInv, Zenon
<1>5. CASE WriteFails
  BY <1>5, WriteFailsInv, Zenon
<1>6. CASE Crash
  BY <1>6, CrashInv, Zenon
<1>7. CASE \/ \E n \in 0 .. Len(file) - 1 : LoseTail(n)
           \/ \E i \in DOMAIN file, rec \in Record : EditLine(i, rec)
           \/ LoseCheckpoint \/ LoseKey
  BY SMTT(60), <1>7, DamageInv
<1>8. CASE UNCHANGED signerVars
  BY <1>8 DEF signerVars, IInv, TypeOK, Request, RequestRecord, Witness
<1> QED
  BY <1>1, <1>2, <1>3, <1>4, <1>5, <1>6, <1>7, <1>8, Zenon DEF Next

LEMMA Inv == Spec => []IInv
BY InitInv, NextInv, PTL DEF Spec

\* The signer's state keeps its types: a line of undo.log is a record that
\* append_record wrote or is torn, through every crash and every damage.
THEOREM SignerTypes == Spec => []TypeOK
BY Inv, PTL DEF IInv

\* No answer Sealed ever runs ahead of the checkpoint (submit_created and
\* transition write it before they return): every sealed record is behind the
\* witness, for every set of operations and every number of crashes and faults.
THEOREM SignerSealsBehindWitness == Spec => []SealedIsWitnessed
<1>1. IInv => SealedIsWitnessed
  BY Zenon DEF IInv, Witness, SealedIsWitnessed
<1> QED
  BY <1>1, Inv, PTL

\* An action sealed as undone, aborted or superseded is never offered again by
\* any log the signer comes to serve (transition, fold_state, load and
\* assess_startup together), however often it crashes and is damaged.
THEOREM SignerKeepsFinalStates == Spec => []UndoneStaysUndone
<1>1. ASSUME IInv PROVE UndoneStaysUndone
  <2> SUFFICES ASSUME mode = "serving", "wiped" \notin damage,
                      NEW r \in sealed, r.state \in Terminal
               PROVE  CurrentState(mem, r.op) = r.state
    BY Zenon DEF UndoneStaysUndone
  <2>1. PICK i \in DOMAIN mem : mem[i] = r
    BY <1>1, Zenon DEF IInv, Witness, Range
  <2>2. mem \in Seq(Record) /\ GoodLog(mem) /\ r.op \in Ops
    BY <1>1, Zenon DEF IInv, TypeOK, Record
  <2> QED
    BY <2>1, <2>2, FinalIsCurrent, Zenon
<1> QED
  BY <1>1, Inv, PTL
-----------------------------------------------------------------------------
(***************************************************************************)
(* What a start finds as long as nothing was damaged and no write failed.  *)
(***************************************************************************)
\* The lines up to the i-th can be read, and the i-th carries the hash of the
\* records up to it.
Readable(f, i) == \A j \in 1 .. i : f[j] # Torn

Chained(f, i) == Len(f[i].hash) = i /\ \A j \in 1 .. i : f[i].hash[j] = f[j].rec

\* The log and the readable lines do not contradict each other.
Agrees(f, log) == \A i \in DOMAIN f : Readable(f, i) /\ i <= Len(log) => log[i] = f[i].rec

\* The log in memory is as long as the file, but for the line being written.
InStep ==
    IF req.at \in {"newline", "fsync"}
    THEN Len(file) = Len(mem) + 1 /\ file[Len(file)].rec = RequestRecord
    ELSE Len(file) = Len(mem)

\* A signer that went on after a line without its newline has torn that line,
\* and everything after it is lost to readers; before it all is well.
Clean ==
    damage = {} /\ faults = 0 =>
        /\ \A i \in DOMAIN file : Readable(file, i) => Chained(file, i)
        /\ Agrees(file, ckpt)
        /\ mode = "serving" =>
              /\ Len(ckpt) <= Len(mem) /\ Agrees(file, mem)
              /\ InStep \/ \E j \in DOMAIN file : j <= Len(mem) /\ file[j] = Torn

\* A file that was cut off or torn tells no more than it did before.
LEMMA CutKeeps ==
  ASSUME NEW f \in Seq(Line), NEW g \in Seq(Line),
         \A i \in DOMAIN g : g[i] = Torn \/ (i \in DOMAIN f /\ g[i] = f[i])
  PROVE  /\ (\A i \in DOMAIN f : Readable(f, i) => Chained(f, i)) =>
               \A i \in DOMAIN g : Readable(g, i) => Chained(g, i)
         /\ \A log : Agrees(f, log) => Agrees(g, log)
<1>1. ASSUME NEW i \in DOMAIN g, Readable(g, i)
      PROVE  i \in DOMAIN f /\ Readable(f, i) /\ \A j \in 1 .. i : g[j] = f[j]
  <2>1. i \in Nat /\ i \in 1 .. i /\ 1 .. i \subseteq DOMAIN g
    OBVIOUS
  <2>2. \A j \in 1 .. i : j \in DOMAIN f /\ g[j] = f[j] /\ g[j] # Torn
    BY <1>1, <2>1, Zenon DEF Readable
  <2> QED
    BY <2>1, <2>2, Zenon DEF Readable
<1>2. ASSUME \A i \in DOMAIN f : Readable(f, i) => Chained(f, i),
             NEW i \in DOMAIN g, Readable(g, i)
      PROVE  Chained(g, i)
  <2>1. i \in 1 .. i
    OBVIOUS
  <2> QED
    BY <1>1, <1>2, <2>1, Zenon DEF Chained
<1>3. ASSUME NEW log, Agrees(f, log), NEW i \in DOMAIN g, Readable(g, i), i <= Len(log)
      PROVE  log[i] = g[i].rec
  <2>1. i \in 1 .. i
    OBVIOUS
  <2> QED
    BY <1>1, <1>3, <2>1, Zenon DEF Agrees
<1> QED
  BY <1>2, <1>3, Zenon DEF Agrees

\* What tearing and cutting do to the lines.
LEMMA TornTail ==
  ASSUME IInv, NEW line \in Line,
         file' = Appended(line), line = Torn \/ ~nl
  PROVE  \A i \in DOMAIN file' : file'[i] = Torn \/ (i \in DOMAIN file /\ file'[i] = file[i])
<1>0. file \in Seq(Line) /\ (~nl => file # <<>>)
  BY Zenon DEF IInv, TypeOK
<1>1. CASE nl
  <2>1. line = Torn /\ file' = Append(file, Torn)
    BY <1>1, Zenon DEF Appended
  <2> QED
    BY <1>0, <2>1
<1>2. CASE ~nl
  <2>1. file' = [file EXCEPT ![Len(file)] = Torn]
    BY <1>2, Zenon DEF Appended
  <2>2. DOMAIN file' = DOMAIN file
    BY <2>1, Zenon
  <2> QED
    BY <1>0, <2>1, <2>2, Zenon
<1> QED
  BY <1>1, <1>2, Zenon

LEMMA CrashCuts ==
  ASSUME IInv, Crash
  PROVE  \A i \in DOMAIN file' : file'[i] = Torn \/ (i \in DOMAIN file /\ file'[i] = file[i])
<1>0. file \in Seq(Line) /\ Torn \in Line /\ synced \in 0 .. Len(file)
  BY Zenon DEF IInv, TypeOK, Line
<1>1. CASE Killed
  BY <1>0, <1>1, TornTail, Zenon DEF Killed
<1>2. CASE PowerLost
  <2>1. PICK n \in synced .. Len(file) - 1 :
            \/ file' = SubSeq(file, 1, n)
            \/ file' = Append(SubSeq(file, 1, n), Torn)
            \/ file' = SubSeq(file, 1, n + 1)
    BY <1>2, Zenon DEF PowerLost
  <2>2. n \in 0 .. Len(file) - 1 /\ n + 1 \in 1 .. Len(file)
    BY <1>0, <2>1
  <2>3. CASE file' = SubSeq(file, 1, n)
    BY <1>0, <2>2, <2>3
  <2>4. CASE file' = Append(SubSeq(file, 1, n), Torn)
    BY <1>0, <2>2, <2>4
  <2>5. CASE file' = SubSeq(file, 1, n + 1)
    BY <1>0, <2>2, <2>5
  <2> QED
    BY <2>1, <2>3, <2>4, <2>5, Zenon
<1> QED
  BY <1>1, <1>2, Zenon DEF Crash

\* A new line continues the chain of the lines before it, if they can be read.
LEMMA NewLine ==
  ASSUME IInv, Clean, damage = {}, faults = 0, WriteLine
  PROVE  /\ \A i \in DOMAIN file' : Readable(file', i) => Chained(file', i)
         /\ Agrees(file', ckpt) /\ Agrees(file', mem)
         /\ InStep' \/ \E j \in DOMAIN file' : j <= Len(mem) /\ file'[j] = Torn
<1> DEFINE line == [rec |-> RequestRecord, hash |-> ChainHash(mem, RequestRecord)]
           n == Len(file)
<1>0. /\ file \in Seq(Line) /\ mem \in Seq(Record) /\ ckpt \in Seq(Record)
      /\ RequestRecord \in Record /\ (~nl => file # <<>>)
  BY DEF WriteLine, IInv, TypeOK, RequestRecord, NoRequest, Record
<1>1. /\ mode = "serving" /\ req.at = "line" /\ file' = Appended(line)
      /\ req' = [req EXCEPT !.at = "newline"] /\ mem' = mem
  BY Zenon DEF WriteLine
<1>2. /\ \A i \in DOMAIN file : Readable(file, i) => Chained(file, i)
      /\ Agrees(file, ckpt) /\ Agrees(file, mem) /\ Len(ckpt) <= Len(mem)
      /\ Len(file) = Len(mem) \/ \E j \in DOMAIN file : j <= Len(mem) /\ file[j] = Torn
  BY <1>1, Zenon DEF Clean, InStep
<1>3. /\ line \in Line /\ line.rec = RequestRecord /\ line.hash = Append(mem, RequestRecord)
  BY <1>0 DEF ChainHash, Line
<1>4. RequestRecord' = RequestRecord /\ req'.at = "newline"
  BY <1>1 DEF IInv, TypeOK, RequestRecord, NoRequest
<1> HIDE DEF line
<1>5. CASE ~nl
  <2>1. \A i \in DOMAIN file' : file'[i] = Torn \/ (i \in DOMAIN file /\ file'[i] = file[i])
    BY <1>1, <1>3, <1>5, TornTail, Zenon
  <2>2. /\ file' \in Seq(Line) /\ DOMAIN file' = DOMAIN file /\ file'[n] = Torn
        /\ n \in DOMAIN file
    <3>1. Torn \in Line /\ n \in 1 .. Len(file)
      BY <1>0, <1>5 DEF Line
    <3>2. file' = [file EXCEPT ![n] = Torn]
      BY <1>1, <1>5, Zenon DEF Appended
    <3> QED
      BY <1>0, <3>1, <3>2, SeqUpdate
  <2>3. \E j \in DOMAIN file' : j <= Len(mem) /\ file'[j] = Torn
    <3>1. CASE n = Len(mem)
      BY <1>0, <2>2, <3>1
    <3>2. CASE \E j \in DOMAIN file : j <= Len(mem) /\ file[j] = Torn
      BY <2>1, <2>2, <3>2
    <3> QED
      BY <1>2, <3>1, <3>2, Zenon
  <2> QED
    BY <1>0, <1>2, <2>1, <2>2, <2>3, CutKeeps, Zenon
<1>6. CASE nl
  <2>1. file' = Append(file, line)
    BY <1>1, <1>6, Zenon DEF Appended
  <2>2. /\ file' \in Seq(Line) /\ Len(file') = n + 1 /\ n \in Nat
        /\ file'[n + 1] = line /\ \A i \in 1 .. n : file'[i] = file[i]
    BY <1>0, <1>3, <2>1
  <2>3. ASSUME NEW i \in 1 .. n, Readable(file', i)
        PROVE  Readable(file, i) /\ i \in DOMAIN file /\ \A j \in 1 .. i : file'[j] = file[j]
    <3>1. \A j \in 1 .. i : j \in 1 .. n
      OBVIOUS
    <3> QED
      BY <1>0, <2>2, <2>3, <3>1 DEF Readable
  <2>4. CASE Len(file) = Len(mem)
    <3>1. ASSUME Readable(file', n + 1)
          PROVE  \A j \in 1 .. n : mem[j] = file[j].rec
      <4>1. ASSUME NEW j \in 1 .. n PROVE mem[j] = file[j].rec
        <5>1. Readable(file', j)
          <6>1. \A k \in 1 .. j : k \in 1 .. n + 1
            BY <2>2
          <6> QED
            BY <3>1, <6>1, Zenon DEF Readable
        <5>2. j <= Len(mem)
          BY <1>0, <2>4
        <5> QED
          BY <2>3, <5>1, <5>2, <1>2, Zenon DEF Agrees
      <4> QED
        BY <4>1, Zenon
    <3>2. ASSUME Readable(file', n + 1)
          PROVE  Chained(file', n + 1)
      <4>1. Len(line.hash) = n + 1 /\ line.hash[n + 1] = RequestRecord
            /\ \A j \in 1 .. n : line.hash[j] = mem[j]
        BY <1>0, <1>3, <2>4
      <4>2. \A j \in 1 .. n + 1 : j = n + 1 \/ j \in 1 .. n
        BY <2>2
      <4>3. \A j \in 1 .. n + 1 : line.hash[j] = file'[j].rec
        BY <1>3, <2>2, <3>1, <3>2, <4>1, <4>2, Zenon
      <4> QED
        BY <2>2, <4>1, <4>3, Zenon DEF Chained
    <3>3. ASSUME NEW i \in DOMAIN file', Readable(file', i) PROVE Chained(file', i)
      <4>1. CASE i = n + 1
        BY <3>2, <3>3, <4>1, Zenon
      <4>2. CASE i \in 1 .. n
        <5>1. Chained(file, i) /\ \A j \in 1 .. i : file'[j] = file[j]
          BY <1>2, <2>3, <3>3, <4>2, Zenon
        <5>2. i \in 1 .. i
          BY <4>2
        <5> QED
          BY <5>1, <5>2, Zenon DEF Chained
      <4> QED
        BY <2>2, <4>1, <4>2
    <3>4. ASSUME NEW log \in Seq(Record), Agrees(file, log), Len(log) <= Len(mem)
          PROVE  Agrees(file', log)
      <4> SUFFICES ASSUME NEW i \in DOMAIN file', Readable(file', i), i <= Len(log)
                   PROVE  log[i] = file'[i].rec
        BY Zenon DEF Agrees
      <4>1. i \in 1 .. n /\ i \in 1 .. i
        BY <1>0, <2>2, <2>4, <3>4
      <4>2. Readable(file, i) /\ i \in DOMAIN file /\ file'[i] = file[i]
        BY <2>3, <4>1, Zenon
      <4> QED
        BY <3>4, <4>2, Zenon DEF Agrees
    <3>5. InStep'
      BY <1>1, <1>3, <1>4, <2>2, <2>4 DEF InStep
    <3>6. Len(mem) <= Len(mem)
      BY <1>0
    <3> QED
      BY <1>0, <1>2, <3>3, <3>4, <3>5, <3>6, Zenon
  <2>5. CASE \E j \in DOMAIN file : j <= Len(mem) /\ file[j] = Torn
    <3>1. PICK t \in DOMAIN file : t <= Len(mem) /\ file[t] = Torn
      BY <2>5, Zenon
    <3>2. ASSUME NEW i \in DOMAIN file', Readable(file', i)
          PROVE  i \in 1 .. n /\ i \in 1 .. i
      BY <1>0, <2>2, <3>1, <3>2 DEF Readable
    <3>3. ASSUME NEW i \in DOMAIN file', Readable(file', i) PROVE Chained(file', i)
      <4>1. /\ Chained(file, i) /\ i \in 1 .. i
            /\ \A j \in 1 .. i : file'[j] = file[j]
        BY <1>2, <2>3, <3>2, <3>3, Zenon
      <4> QED
        BY <4>1, Zenon DEF Chained
    <3>4. ASSUME NEW log \in Seq(Record), Agrees(file, log)
          PROVE  Agrees(file', log)
      <4> SUFFICES ASSUME NEW i \in DOMAIN file', Readable(file', i), i <= Len(log)
                   PROVE  log[i] = file'[i].rec
        BY Zenon DEF Agrees
      <4>1. Readable(file, i) /\ i \in DOMAIN file /\ file'[i] = file[i]
        BY <2>3, <3>2, Zenon
      <4> QED
        BY <3>4, <4>1, Zenon DEF Agrees
    <3>5. t \in DOMAIN file' /\ file'[t] = Torn
      BY <1>0, <2>2, <3>1
    <3> QED
      BY <1>0, <1>2, <3>1, <3>3, <3>4, <3>5, Zenon
  <2> QED
    BY <1>2, <2>4, <2>5, Zenon
<1> QED
  BY <1>5, <1>6, Zenon

LEMMA CleanNext ==
  ASSUME IInv, IInv', Clean, [Next]_signerVars
  PROVE  Clean'
<1> SUFFICES ASSUME damage' = {}, faults' = 0
             PROVE  /\ \A i \in DOMAIN file' : Readable(file', i) => Chained(file', i)
                    /\ Agrees(file', ckpt')
                    /\ mode' = "serving" =>
                         /\ Len(ckpt') <= Len(mem') /\ Agrees(file', mem')
                         /\ InStep' \/ \E j \in DOMAIN file' : j <= Len(mem') /\ file'[j] = Torn
  BY Zenon DEF Clean
<1>0. /\ file \in Seq(Line) /\ mem \in Seq(Record) /\ ckpt \in Seq(Record) /\ faults \in Nat
      /\ file' \in Seq(Line)
      /\ req # NoRequest => mode = "serving"
  BY Zenon DEF IInv, TypeOK, Request
<1>1. ~WriteFails /\ ~(\E n \in 0 .. Len(file) - 1 : LoseTail(n)) /\ ~LoseCheckpoint /\ ~LoseKey
      /\ ~(\E i \in DOMAIN file, rec \in Record : EditLine(i, rec))
  <2>1. ~WriteFails
    BY <1>0 DEF WriteFails
  <2>2. \A what, f, c : ~Damaged(what, f, c)
    BY Zenon DEF Damaged
  <2> QED
    BY <2>1, <2>2, Zenon DEF LoseTail, LoseCheckpoint, LoseKey, EditLine
<1>2. damage = {} /\ faults = 0
  <2>1. damage' = damage
    BY <1>1, Zenon DEF Next, signerVars, Load, KeyCutShort, Assess, Exit, SubmitCreated, Transition,
       WriteLine, WriteNewline, Fsync, WriteCheckpoint, Crash
  <2>2. faults' = faults \/ faults' = faults + 1
    BY <1>1, Zenon DEF Next, signerVars, Load, KeyCutShort, Assess, Exit, SubmitCreated, Transition,
       WriteLine, WriteNewline, Fsync, WriteCheckpoint, Crash
  <2> QED
    BY <1>0, <2>1, <2>2
<1>3. /\ \A i \in DOMAIN file : Readable(file, i) => Chained(file, i)
      /\ Agrees(file, ckpt)
      /\ mode = "serving" =>
           /\ Len(ckpt) <= Len(mem) /\ Agrees(file, mem)
           /\ InStep \/ \E j \in DOMAIN file : j <= Len(mem) /\ file[j] = Torn
  BY <1>2, Zenon DEF Clean
<1>4. CASE Load \/ KeyCutShort
  BY <1>3, <1>4, Zenon DEF Load, KeyCutShort
<1>5. CASE Exit
  <2>1. file' = file /\ ckpt' = ckpt /\ mode' = "down"
    BY <1>0, <1>2, <1>5 DEF Exit
  <2> QED
    BY <1>3, <2>1, Zenon
<1>6. CASE Assess
  <2>1. /\ mem = Records(file) /\ Consistent(mem) /\ file' = file /\ mem' = mem /\ req' = req
        /\ ckpt' = (IF mem = <<>> THEN ckpt ELSE mem) /\ req = NoRequest
    BY <1>0, <1>6, Zenon DEF Assess, IInv
  <2>2. /\ Len(mem) = Len(file) /\ \A i \in DOMAIN file : mem[i] = file[i].rec
    BY <1>0, <2>1 DEF Records
  <2>3. Agrees(file, mem)
    BY <2>2, Zenon DEF Agrees
  <2>4. Len(ckpt') <= Len(mem)
    BY <1>0, <2>1 DEF Consistent, NoCheckpoint
  <2>5. InStep'
    BY <2>1, <2>2 DEF InStep, NoRequest
  <2> QED
    BY <1>3, <2>1, <2>3, <2>4, <2>5, Zenon
<1>7. ASSUME NEW op \in Ops, NEW state \in UndoState, SubmitCreated(op) \/ Transition(op, state)
      PROVE  Clean'
  <2>1. /\ mode = "serving" /\ req = NoRequest /\ req'.at = "line"
        /\ file' = file /\ ckpt' = ckpt /\ mem' = mem /\ mode' = mode
    BY <1>7 DEF SubmitCreated, Transition
  <2>2. InStep => InStep'
    BY <2>1 DEF InStep, NoRequest
  <2>3. /\ \A i \in DOMAIN file' : Readable(file', i) => Chained(file', i)
        /\ Agrees(file', ckpt') /\ Len(ckpt') <= Len(mem') /\ Agrees(file', mem')
        /\ InStep' \/ \E j \in DOMAIN file' : j <= Len(mem') /\ file'[j] = Torn
    BY <1>3, <2>1, <2>2, Zenon
  <2> QED
    BY <2>3, Zenon DEF Clean
<1>8. CASE WriteLine
  <2>1. mem' = mem /\ ckpt' = ckpt /\ mode' = mode /\ mode = "serving"
    BY <1>8, Zenon DEF WriteLine
  <2> QED
    BY <1>2, <1>3, <1>8, <2>1, NewLine, Zenon
<1>9. CASE WriteNewline
  <2>1. /\ mem' = mem /\ ckpt' = ckpt /\ mode' = mode /\ file' = file /\ req.at = "newline"
        /\ req' = [req EXCEPT !.at = "fsync"]
    BY <1>9, Zenon DEF WriteNewline
  <2>2. req'.at = "fsync" /\ RequestRecord' = RequestRecord
    BY <2>1 DEF IInv, TypeOK, RequestRecord, NoRequest
  <2>3. InStep => InStep'
    BY <2>1, <2>2 DEF InStep
  <2> QED
    BY <1>3, <2>1, <2>3, Zenon
<1>10. CASE Fsync
  <2>1. /\ mem' = Append(mem, RequestRecord) /\ ckpt' = ckpt /\ mode' = mode /\ mode = "serving"
        /\ file' = file /\ req.at = "fsync" /\ req' = [req EXCEPT !.at = "checkpoint"]
    BY <1>10, Zenon DEF Fsync
  <2>2. req'.at = "checkpoint" /\ RequestRecord \in Record
    BY <2>1 DEF IInv, TypeOK, RequestRecord, NoRequest, Record
  <2>3. /\ mem' \in Seq(Record) /\ Len(mem') = Len(mem) + 1 /\ Len(mem) \in Nat
        /\ mem'[Len(mem) + 1] = RequestRecord /\ \A i \in 1 .. Len(mem) : mem'[i] = mem[i]
    BY <1>0, <2>1, <2>2
  <2>4. Len(ckpt') <= Len(mem')
    BY <1>0, <1>3, <2>1, <2>3
  <2>5. Agrees(file', mem')
    <3> SUFFICES ASSUME NEW i \in DOMAIN file, Readable(file, i), i <= Len(mem')
                 PROVE  mem'[i] = file[i].rec
      BY <2>1, Zenon DEF Agrees
    <3>1. CASE i <= Len(mem)
      <4>1. i \in 1 .. Len(mem)
        BY <1>0, <2>3, <3>1
      <4> QED
        BY <1>3, <2>1, <2>3, <3>1, <4>1, Zenon DEF Agrees
    <3>2. CASE i = Len(mem) + 1
      <4>1. ~\E j \in DOMAIN file : j <= Len(mem) /\ file[j] = Torn
        BY <1>0, <2>3, <3>2 DEF Readable
      <4>2. Len(file) = Len(mem) + 1 /\ file[Len(file)].rec = RequestRecord
        BY <1>3, <2>1, <4>1 DEF InStep
      <4> QED
        BY <2>3, <3>2, <4>2
    <3> QED
      BY <1>0, <2>3, <3>1, <3>2
  <2>6. InStep => InStep'
    BY <2>1, <2>2, <2>3 DEF InStep
  <2>7. \A j \in DOMAIN file : j <= Len(mem) => j <= Len(mem')
    BY <1>0, <2>3
  <2> QED
    BY <1>3, <2>1, <2>4, <2>5, <2>6, <2>7, Zenon
<1>11. CASE WriteCheckpoint
  <2>1. /\ mem' = mem /\ ckpt' = mem /\ mode' = mode /\ file' = file /\ mode = "serving"
        /\ req.at = "checkpoint" /\ req' = NoRequest
    BY <1>11, Zenon DEF WriteCheckpoint
  <2>2. InStep => InStep'
    BY <2>1 DEF InStep, NoRequest
  <2>3. Len(mem) <= Len(mem)
    BY <1>0
  <2> QED
    BY <1>3, <2>1, <2>2, <2>3, Zenon
<1>12. CASE Crash
  <2>1. ckpt' = ckpt /\ mode' = "down"
    BY <1>12, Zenon DEF Crash
  <2> QED
    BY <1>0, <1>3, <1>12, <2>1, CrashCuts, CutKeeps, Zenon
<1>13. CASE UNCHANGED signerVars
  <2>1. /\ file' = file /\ ckpt' = ckpt /\ mem' = mem /\ mode' = mode /\ req' = req
    BY <1>13, Zenon DEF signerVars
  <2>2. InStep => InStep'
    BY <2>1, Zenon DEF InStep, RequestRecord
  <2> QED
    BY <1>3, <2>1, <2>2, Zenon
<1>14. ASSUME NEW op \in Ops, SubmitCreated(op) PROVE Clean'
  BY <1>7, <1>14, Zenon DEF UndoState
<1>15. Clean' \/ ~(\/ \E op \in Ops : SubmitCreated(op)
                   \/ \E op \in Ops, state \in UndoState : Transition(op, state))
  BY <1>7, <1>14, Zenon
<1>16. CASE Clean'
  BY <1>16, Zenon DEF Clean
<1> QED
  BY <1>1, <1>4, <1>5, <1>6, <1>8, <1>9, <1>10, <1>11, <1>12, <1>13, <1>15, <1>16, Zenon DEF Next

LEMMA CleanAlways == Spec => []Clean
<1>1. Init => Clean
  <2> SUFFICES ASSUME Init PROVE Clean
    BY Zenon
  <2>1. file = <<>> /\ mode = "down"
    BY Zenon DEF Init
  <2> QED
    BY <2>1 DEF Clean, Agrees
<1> QED
  BY <1>1, Inv, CleanNext, PTL DEF Spec

\* A signer refuses its files only for a reason: without damage and failed
\* writes, a crash between any two steps of an append leaves a log that load
\* reads back and assess_startup accepts, apart from a line or a key cut short,
\* a crash before the very first checkpoint and a witnessed line that was lost.
THEOREM SignerServesCleanFiles == Spec => []CleanFilesServe
<1>1. ASSUME IInv, Clean PROVE CleanFilesServe
  <2> SUFFICES ASSUME damage = {}, faults = 0, Torn \notin Range(file),
                      ckpt = NoCheckpoint => file = <<>>, Len(ckpt) <= Len(file)
               PROVE  Loads(file) /\ Consistent(Records(file))
    BY Zenon DEF CleanFilesServe
  <2>0. file \in Seq(Line) /\ ckpt \in Seq(Record)
    BY <1>1, Zenon DEF IInv, TypeOK
  <2>1. \A i \in DOMAIN file : file[i] # Torn
    BY Zenon DEF Range
  <2>2. \A i \in DOMAIN file : Readable(file, i)
    BY <2>0, <2>1 DEF Readable
  <2>3. \A i \in DOMAIN file : Chained(file, i) /\ (i <= Len(ckpt) => ckpt[i] = file[i].rec)
    BY <1>1, <2>2, Zenon DEF Clean, Agrees
  <2>4. \A i \in DOMAIN file : file[i].rec \in Record /\ file[i].hash \in Seq(Record)
    BY <2>0, <2>1 DEF Line
  <2>5. /\ Records(file) \in Seq(Record) /\ Len(Records(file)) = Len(file)
        /\ \A i \in DOMAIN file : Records(file)[i] = file[i].rec
    BY <2>0, <2>4 DEF Records
  <2>6. ASSUME NEW i \in DOMAIN file
        PROVE  file[i].hash = SubSeq(Records(file), 1, i)
    <3>1. /\ file[i].hash \in Seq(Record) /\ Len(file[i].hash) = i
          /\ \A j \in 1 .. i : file[i].hash[j] = Records(file)[j]
      BY <2>0, <2>3, <2>4, <2>5 DEF Chained
    <3>2. /\ SubSeq(Records(file), 1, i) \in Seq(Record) /\ Len(SubSeq(Records(file), 1, i)) = i
          /\ \A j \in 1 .. i : SubSeq(Records(file), 1, i)[j] = Records(file)[j]
      BY <2>0, <2>5
    <3> QED
      BY <3>1, <3>2
  <2>7. Loads(file)
    BY <2>1, <2>6, Zenon DEF Loads
  <2>8. Consistent(Records(file))
    <3>1. CASE ckpt = NoCheckpoint
      <4>1. file = <<>>
        BY <3>1
      <4> QED
        BY <2>5, <3>1, <4>1 DEF Consistent
    <3>2. CASE ckpt # NoCheckpoint
      <4>1. \A j \in 1 .. Len(ckpt) : ckpt[j] = Records(file)[j]
        BY <2>0, <2>3, <2>5
      <4>2. /\ SubSeq(Records(file), 1, Len(ckpt)) \in Seq(Record)
            /\ Len(SubSeq(Records(file), 1, Len(ckpt))) = Len(ckpt)
            /\ \A j \in 1 .. Len(ckpt) : SubSeq(Records(file), 1, Len(ckpt))[j] = Records(file)[j]
        BY <2>0, <2>5
      <4>3. SubSeq(Records(file), 1, Len(ckpt)) = ckpt
        BY <2>0, <4>1, <4>2
      <4> QED
        BY <2>5, <3>2, <4>3, Zenon DEF Consistent
    <3> QED
      BY <3>1, <3>2, Zenon
  <2> QED
    BY <2>7, <2>8, Zenon
<1> QED
  BY <1>1, Inv, CleanAlways, PTL
-----------------------------------------------------------------------------
\* The initial signer is the empty, closed log.
LEMMA SignerInitLog == Init => Log!Init
<1> SUFFICES ASSUME Init PROVE Log!Init
  BY Zenon
<1>1. [i \in 0 .. Len(mem) - 1 |-> mem[i + 1]] = <<>>
  BY DEF Init
<1> QED
  BY <1>1 DEF Init, Log!Init

\* The log in memory as the abstract log counts it.
Mapped(log) == [i \in 0 .. Len(log) - 1 |-> log[i + 1]]

LEMMA SignerStutter ==
  ASSUME mem' = mem, (mode' = "serving") = (mode = "serving"), sealed' = sealed,
         damage' = damage
  PROVE  UNCHANGED Log!vars
BY Zenon DEF Log!vars

\* append_record: the record that was synced is a write at the end of the log.
LEMMA FsyncWrites ==
  ASSUME IInv, Fsync
  PROVE  \E e \in Record : Log!Write(e)
<1>1. /\ mode = "serving" /\ mode' = mode /\ sealed' = sealed /\ damage' = damage
      /\ mem \in Seq(Record) /\ RequestRecord \in Record
      /\ mem' = Append(mem, RequestRecord)
  BY DEF Fsync, IInv, TypeOK, RequestRecord, NoRequest, Record
<1>0. PICK e \in Record : e = RequestRecord
  BY <1>1, Zenon
<1> DEFINE n == Len(mem)
<1>2. n \in Nat /\ Len(mem') = n + 1 /\ mem'[n + 1] = RequestRecord
      /\ \A i \in 1 .. n : mem'[i] = mem[i]
  BY <1>1
<1> HIDE DEF n
<1>3. 0 .. n = (0 .. n - 1) \cup {n} /\ n \notin 0 .. n - 1
  BY <1>2
<1>4. \A i \in 0 .. n - 1 : mem'[i + 1] = mem[i + 1]
  BY <1>2
<1>5. Mapped(mem') = [i \in 0 .. n |-> mem'[i + 1]]
  BY <1>2 DEF Mapped
<1>6. Mapped(mem) = [i \in 0 .. n - 1 |-> mem[i + 1]]
  BY Zenon DEF Mapped, n
<1>7. DOMAIN Mapped(mem) = 0 .. n - 1 /\ DOMAIN Mapped(mem') = 0 .. n
  BY <1>5, <1>6, Zenon
<1>8. Mapped(mem') = [i \in DOMAIN Mapped(mem) \cup {n} |->
                        IF i = n THEN e ELSE Mapped(mem)[i]]
  BY <1>0, <1>2, <1>3, <1>4, <1>5, <1>6, <1>7
<1>9. n \notin DOMAIN Mapped(mem) /\ \A i \in 0 .. n : i = n \/ i \in DOMAIN Mapped(mem)
  BY <1>3, <1>7, Zenon
<1>10. n \in DOMAIN Mapped(mem')
  BY SMTT(60), <1>2, <1>7
<1>11. Log!Write(e)
  BY <1>1, <1>8, <1>9, <1>10, Zenon DEF Log!Write, Log!End, Mapped
<1> QED
  BY <1>11, Zenon

\* A record of the log in memory is contained in the abstract log.
LEMMA InMemoryIsContained ==
  ASSUME mem \in Seq(Record), NEW i \in DOMAIN mem
  PROVE  Log!Contains(mem[i])
<1>1. i - 1 \in 0 .. Len(mem) - 1 /\ (i - 1) + 1 = i
  OBVIOUS
<1>2. Mapped(mem)[i - 1] = mem[i] /\ i - 1 \in DOMAIN Mapped(mem)
  BY <1>1, Zenon DEF Mapped
<1> QED
  BY <1>2, Zenon DEF Log!Contains, Mapped

\* submit_created and transition answer for the record they appended.
LEMMA CheckpointAcknowledges ==
  ASSUME IInv, WriteCheckpoint
  PROVE  \E e \in Record : Log!Acknowledge(e)
<1>1. /\ mode = "serving" /\ mode' = mode /\ damage' = damage /\ mem' = mem
      /\ sealed' = sealed \cup {RequestRecord}
      /\ mem \in Seq(Record) /\ RequestRecord \in Record
      /\ mem # <<>> /\ mem[Len(mem)] = RequestRecord
  BY DEF WriteCheckpoint, IInv, Request, TypeOK, RequestRecord, NoRequest, Record
<1>2. Len(mem) \in DOMAIN mem
  BY <1>1
<1>3. Log!Contains(RequestRecord)
  BY <1>1, <1>2, InMemoryIsContained, Zenon
<1> QED
  BY <1>1, <1>3, Zenon DEF Log!Acknowledge

\* open_in: the log that is served has every record answered for.
LEMMA AssessOpens ==
  ASSUME IInv, IInv', Assess
  PROVE  Log!Open
<1>1. /\ mode = "loaded" /\ mode' = "serving" /\ mem' = mem /\ sealed' = sealed
      /\ damage' = damage /\ mem \in Seq(Record)
  BY Zenon DEF Assess, IInv, TypeOK
<1>2. Log!Gapless
  <2>1. Len(mem) \in Nat /\ DOMAIN Mapped(mem) = 0 .. Len(mem) - 1
    BY <1>1 DEF Mapped
  <2>2. \A i \in DOMAIN Mapped(mem) : 0 .. i \subseteq DOMAIN Mapped(mem)
    BY <2>1
  <2> QED
    BY <2>2, Zenon DEF Log!Gapless, Mapped
<1>3. "wiped" \in damage \/ \A e \in sealed : Log!Contains(e)
  <2> SUFFICES ASSUME "wiped" \notin damage, NEW e \in sealed PROVE Log!Contains(e)
    BY Zenon
  <2>1. PICK i \in DOMAIN mem : mem[i] = e
    BY <1>1 DEF IInv, Witness, Range
  <2> QED
    BY <1>1, <2>1, InMemoryIsContained, Zenon
<1> QED
  BY <1>1, <1>2, <1>3, Zenon DEF Log!Open

\* Every step of the signer is a step of the log or leaves it alone.
LEMMA SignerNextLog ==
  ASSUME IInv, IInv', [Next]_signerVars
  PROVE  [Log!Next]_Log!vars
<1>1. CASE UNCHANGED signerVars
  BY <1>1, SignerStutter, Zenon DEF signerVars
<1>2. CASE Load \/ Exit
  <2>1. Log!Damage
    BY <1>2, Zenon DEF Load, Exit, Log!Damage
  <2> QED
    BY <2>1, Zenon DEF Log!Next
<1>3. CASE Assess
  BY <1>3, AssessOpens, Zenon DEF Log!Next
<1>4. CASE KeyCutShort \/ WriteLine \/ WriteNewline \/ WriteFails
  BY <1>4, SignerStutter, Zenon DEF KeyCutShort, WriteLine, WriteNewline, WriteFails
<1>5. CASE \E op \in Ops : SubmitCreated(op)
  BY <1>5, SignerStutter, Zenon DEF SubmitCreated
<1>6. CASE \E op \in Ops, state \in UndoState : Transition(op, state)
  BY <1>6, SignerStutter, Zenon DEF Transition
<1>7. CASE Fsync
  BY <1>7, FsyncWrites, Zenon DEF Log!Next
<1>8. CASE WriteCheckpoint
  BY <1>8, CheckpointAcknowledges, Zenon DEF Log!Next
<1>9. CASE Crash
  <2>1. /\ mode # "down" /\ mode' = "down" /\ sealed' = sealed /\ damage' = damage
    BY <1>9, Zenon DEF Crash
  <2>2. Log!Close \/ Log!Damage
    BY <2>1, Zenon DEF Log!Close, Log!Damage
  <2> QED
    BY <2>2, Zenon DEF Log!Next
<1>10. CASE \/ \E n \in 0 .. Len(file) - 1 : LoseTail(n)
            \/ \E i \in DOMAIN file, rec \in Record : EditLine(i, rec)
            \/ LoseCheckpoint \/ LoseKey
  <2>1. mode = "down" /\ mode' = mode /\ sealed' = sealed /\ damage \subseteq damage'
    BY <1>10, Zenon DEF LoseTail, EditLine, LoseCheckpoint, LoseKey, Damaged
  <2>2. Log!Damage
    BY <2>1, Zenon DEF Log!Damage
  <2> QED
    BY <2>2, Zenon DEF Log!Next
<1> QED
  BY <1>1, <1>2, <1>3, <1>4, <1>5, <1>6, <1>7, <1>8, <1>9, <1>10, Zenon DEF Next

\* The undo log's signer implements the sealed log that the audit daemon also
\* implements: append_record, write_checkpoint and open_in, through crashes at
\* every step, failed writes and damage at rest, behave like a log that only
\* grows and is never served without a record it answered Sealed for.
THEOREM SignerIsAppendLog == Spec => SignerImplementsAppendLog
<1> QED
  BY SignerInitLog, SignerNextLog, Inv, PTL
     DEF Spec, SignerImplementsAppendLog, Log!Spec
=============================================================================
