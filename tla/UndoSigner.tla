----------------------------- MODULE UndoSigner -----------------------------
(***************************************************************************)
(* The undo log's signer: the process under its own uid that keeps the     *)
(* hash-chained log of undoable actions and its head checkpoint.  One      *)
(* request at a time is served under the store's mutex.  A request appends *)
(* one record: the line, its newline, the fsync, the checkpoint, and only  *)
(* then the answer Sealed.  The process may be killed, the machine may     *)
(* lose power and a write may fail at each of these points; while the      *)
(* signer is down its files may be damaged.                                *)
(*                                                                         *)
(* The keyed hash of a record covers the hash before it, so the hash of a  *)
(* record stands for the whole sequence of records up to it, and a hash is *)
(* modelled by that sequence.                                              *)
(***************************************************************************)
EXTENDS Naturals, Sequences, FiniteSetsExt

CONSTANTS
    Ops,          \* operation ids
    MaxRecords,   \* bound on the records of the log
    MaxTrouble    \* bound on kills, power losses, failed writes and damage

VARIABLES
    key,      \* the chain key's file: "absent", "short" or "whole"
    file,     \* the lines of undo.log
    nl,       \* whether undo.log ends with a newline (or is empty)
    synced,   \* how many of its lines a power loss cannot take
    ckpt,     \* the head checkpoint, NoCheckpoint if there is none
    mode,     \* "down", "loaded" (log read, checkpoint not yet), "serving"
    mem,      \* the records in memory
    req,      \* the request being served, NoRequest if there is none
    sealed,   \* the records whose submitters were told Sealed
    crashes, faults,
    damage    \* what was done to the files while the signer was down

signerVars == <<key, file, nl, synced, ckpt, mode, mem, req, sealed,
                crashes, faults, damage>>
-----------------------------------------------------------------------------
UndoState == {"InFlight", "Committed", "Aborted",
              "Compensating", "Compensated", "Superseded"}

Terminal == {"Aborted", "Compensated", "Superseded"}

CanTransition(from, to) ==
    /\ from \notin Terminal
    /\ \/ to = "Superseded"
       \/ <<from, to>> \in {<<"InFlight", "Committed">>,
                            <<"InFlight", "Aborted">>,
                            <<"Committed", "Compensating">>,
                            <<"Compensating", "Compensated">>}

\* A Created record is its entry's InFlight record: nobody sends a transition
\* to InFlight, which no state admits.
Record == [op : Ops, state : UndoState]

\* Room for one more thing going wrong.
Trouble == crashes + faults + Cardinality(damage \ {"wiped"}) < MaxTrouble

NoCheckpoint == <<>>
NoRequest == [op |-> "none", state |-> "none", at |-> "none"]

\* A line that does not parse: a write cut short, or two records on one line.
Torn == [rec |-> [op |-> "torn", state |-> "torn"], hash |-> <<>>]

\* The keyed hash of a record chained to the records before it.
ChainHash(before, rec) == Append(before, rec)

\* The lifecycle of op: where its records are, whether they fold (the first is
\* InFlight and each one after it is a legal step), and the state they fold to.
RecordsOf(log, op) == {i \in DOMAIN log : log[i].op = op}

Legal(log, op) ==
    \A j \in RecordsOf(log, op) :
        LET before == {i \in RecordsOf(log, op) : i < j} IN
        /\ before = {} => log[j].state = "InFlight"
        /\ \A i \in before : (\A k \in before : k <= i) =>
              CanTransition(log[i].state, log[j].state)

CurrentState(log, op) ==
    IF RecordsOf(log, op) = {} THEN "unknown"
    ELSE IF Legal(log, op) THEN log[Max(RecordsOf(log, op))].state ELSE "corrupt"

\* What reading the file back gives, and whether it can be read at all: every
\* line parses and carries the hash of the records up to it.
Records(f) == [i \in DOMAIN f |-> f[i].rec]

Loads(f) ==
    \A i \in DOMAIN f : f[i] # Torn /\ f[i].hash = SubSeq(Records(f), 1, i)

\* The checkpoint names the record it witnessed by its hash: a sequence of as
\* many records as the checkpoint's count.
Consistent(log) ==
    IF ckpt = NoCheckpoint THEN log = <<>>
    ELSE Len(ckpt) <= Len(log) /\ SubSeq(log, 1, Len(ckpt)) = ckpt

Init ==
    /\ key = "absent" /\ file = <<>> /\ nl = TRUE /\ synced = 0
    /\ ckpt = NoCheckpoint
    /\ mode = "down" /\ mem = <<>> /\ req = NoRequest
    /\ sealed = {} /\ crashes = 0 /\ faults = 0 /\ damage = {}
-----------------------------------------------------------------------------
(***************************************************************************)
(* Start.  A signer that cannot load the key, the log or the checkpoint    *)
(* exits and serves nobody, and the next start finds the same files.       *)
(***************************************************************************)
Load ==
    /\ mode = "down"
    /\ key = "absent" => file = <<>>
    /\ key # "short"
    /\ Loads(file)
    /\ key' = "whole" /\ mode' = "loaded" /\ mem' = Records(file)
    /\ UNCHANGED <<file, nl, synced, ckpt, req, sealed, crashes, faults, damage>>

\* Killed after the key's file is created and before its bytes are written.
KeyCutShort ==
    /\ mode = "down" /\ key = "absent" /\ file = <<>> /\ Trouble
    /\ key' = "short" /\ crashes' = crashes + 1
    /\ UNCHANGED <<file, nl, synced, ckpt, mode, mem, req, sealed, faults, damage>>

UncheckedAssess ==
    /\ mode = "loaded"
    /\ ckpt' = IF mem = <<>> THEN ckpt ELSE mem
    /\ mode' = "serving"
    /\ UNCHANGED <<key, file, nl, synced, mem, req, sealed, crashes, faults, damage>>

\* The checkpoint is compared and moved to the head that was loaded.
Assess ==
    /\ mode = "loaded"
    /\ Consistent(mem)
    /\ ckpt' = IF mem = <<>> THEN ckpt ELSE mem
    /\ mode' = "serving"
    /\ UNCHANGED <<key, file, nl, synced, mem, req, sealed, crashes, faults, damage>>

\* The checkpoint convicts the log, or cannot be moved: the signer exits.
Exit ==
    /\ mode = "loaded"
    /\ \/ ~Consistent(mem) /\ UNCHANGED <<ckpt, faults>>
       \/ /\ Consistent(mem) /\ mem # <<>> /\ Trouble
          /\ faults' = faults + 1
          /\ ckpt' \in {ckpt, mem}
    /\ mode' = "down" /\ mem' = <<>>
    /\ UNCHANGED <<key, file, nl, synced, req, sealed, crashes, damage>>
-----------------------------------------------------------------------------
(***************************************************************************)
(* Requests.  A refused request changes nothing and is not a step.         *)
(***************************************************************************)
SubmitCreatedTwice(op) ==
    /\ mode = "serving" /\ req = NoRequest /\ Len(file) < MaxRecords
    /\ req' = [op |-> op, state |-> "InFlight", at |-> "line"]
    /\ UNCHANGED <<key, file, nl, synced, ckpt, mode, mem, sealed,
                   crashes, faults, damage>>

SubmitCreated(op) ==
    /\ mode = "serving" /\ req = NoRequest /\ Len(file) < MaxRecords
    /\ RecordsOf(mem, op) = {}
    /\ req' = [op |-> op, state |-> "InFlight", at |-> "line"]
    /\ UNCHANGED <<key, file, nl, synced, ckpt, mode, mem, sealed,
                   crashes, faults, damage>>

Transition(op, state) ==
    /\ mode = "serving" /\ req = NoRequest /\ Len(file) < MaxRecords
    /\ CurrentState(mem, op) \notin {"unknown", "corrupt"}
    /\ CanTransition(CurrentState(mem, op), state)
    /\ req' = [op |-> op, state |-> state, at |-> "line"]
    /\ UNCHANGED <<key, file, nl, synced, ckpt, mode, mem, sealed,
                   crashes, faults, damage>>

RequestRecord == [op |-> req.op, state |-> req.state]

\* Where the next byte goes: a line of its own after a newline, the rest of the
\* last line without one.
Appended(line) ==
    IF nl THEN Append(file, line) ELSE [file EXCEPT ![Len(file)] = Torn]

UnchainedLine ==
    /\ mode = "serving" /\ req.at = "line"
    /\ file' = Appended([rec  |-> RequestRecord,
                         hash |-> ChainHash(<<>>, RequestRecord)])
    /\ nl' = FALSE
    /\ req' = [req EXCEPT !.at = "newline"]
    /\ UNCHANGED <<key, synced, ckpt, mode, mem, sealed, crashes, faults, damage>>

WriteLine ==
    /\ mode = "serving" /\ req.at = "line"
    /\ file' = Appended([rec  |-> RequestRecord,
                         hash |-> ChainHash(mem, RequestRecord)])
    /\ nl' = FALSE
    /\ req' = [req EXCEPT !.at = "newline"]
    /\ UNCHANGED <<key, synced, ckpt, mode, mem, sealed, crashes, faults, damage>>

WriteNewline ==
    /\ mode = "serving" /\ req.at = "newline"
    /\ nl' = TRUE
    /\ req' = [req EXCEPT !.at = "fsync"]
    /\ UNCHANGED <<key, file, synced, ckpt, mode, mem, sealed,
                   crashes, faults, damage>>

\* Only a record that reached the disk joins the log in memory.
Fsync ==
    /\ mode = "serving" /\ req.at = "fsync"
    /\ synced' = Len(file)
    /\ mem' = Append(mem, RequestRecord)
    /\ req' = [req EXCEPT !.at = "checkpoint"]
    /\ UNCHANGED <<key, file, nl, ckpt, mode, sealed, crashes, faults, damage>>

AnswerBeforeCheckpoint ==
    /\ mode = "serving" /\ req.at = "checkpoint"
    /\ sealed' = sealed \cup {RequestRecord}
    /\ req' = NoRequest
    /\ UNCHANGED <<key, file, nl, synced, ckpt, mode, mem, crashes, faults, damage>>

WriteCheckpoint ==
    /\ mode = "serving" /\ req.at = "checkpoint"
    /\ ckpt' = mem
    /\ sealed' = sealed \cup {RequestRecord}
    /\ req' = NoRequest
    /\ UNCHANGED <<key, file, nl, synced, mode, mem, crashes, faults, damage>>

\* The failing step's call returns an error and the submitter is told so.
\* What it had written stays: part of a line, a line without its newline, a
\* line that may not have reached the disk, a checkpoint renamed into place.
WriteFails ==
    /\ mode = "serving" /\ req # NoRequest /\ Trouble
    /\ faults' = faults + 1
    /\ req' = NoRequest
    /\ \/ req.at = "line" /\ file' = Appended(Torn) /\ nl' = FALSE /\ ckpt' = ckpt
       \/ req.at \in {"line", "newline", "fsync"} /\ UNCHANGED <<file, nl, ckpt>>
       \/ req.at = "checkpoint" /\ ckpt' \in {ckpt, mem} /\ UNCHANGED <<file, nl>>
    /\ UNCHANGED <<key, synced, mode, mem, sealed, crashes, damage>>
-----------------------------------------------------------------------------
\* A kill leaves the file as it is, cut short within a line being written.
Killed ==
    \/ UNCHANGED <<file, nl>>
    \/ req.at = "line" /\ file' = Appended(Torn) /\ nl' = FALSE

\* A power loss may take any of the lines that were not synced, part of one,
\* or one's newline.
PowerLost ==
    \E n \in synced .. Len(file) - 1 :
        \/ file' = SubSeq(file, 1, n) /\ nl' = TRUE
        \/ file' = Append(SubSeq(file, 1, n), Torn) /\ nl' = FALSE
        \/ file' = SubSeq(file, 1, n + 1) /\ nl' = FALSE

Crash ==
    /\ mode # "down" /\ Trouble
    /\ crashes' = crashes + 1
    /\ Killed \/ PowerLost
    /\ mode' = "down" /\ mem' = <<>> /\ req' = NoRequest
    /\ UNCHANGED <<key, synced, ckpt, sealed, faults, damage>>

\* What befell the files.  Losing the log and the checkpoint together is the
\* one loss nothing is left to tell of.
Damaged(what, f, c) ==
    damage' = damage \cup {what} \cup
              (IF f = <<>> /\ c = NoCheckpoint THEN {"wiped"} ELSE {})

LoseTail(n) ==
    /\ mode = "down" /\ Trouble /\ n \in 0 .. Len(file) - 1
    /\ file' = SubSeq(file, 1, n) /\ nl' = TRUE
    /\ synced' = IF synced < n THEN synced ELSE n
    /\ Damaged("log", file', ckpt)
    /\ UNCHANGED <<key, ckpt, mode, mem, req, sealed, crashes, faults>>

EditLine(i, rec) ==
    /\ mode = "down" /\ Trouble
    /\ i \in DOMAIN file /\ file[i] # Torn /\ file[i].rec # rec
    /\ file' = [file EXCEPT ![i].rec = rec]
    /\ Damaged("log", file', ckpt)
    /\ UNCHANGED <<key, nl, synced, ckpt, mode, mem, req, sealed, crashes, faults>>

LoseCheckpoint ==
    /\ mode = "down" /\ Trouble /\ ckpt # NoCheckpoint
    /\ ckpt' = NoCheckpoint
    /\ Damaged("checkpoint", file, ckpt')
    /\ UNCHANGED <<key, file, nl, synced, mode, mem, req, sealed, crashes, faults>>

LoseKey ==
    /\ mode = "down" /\ Trouble /\ key # "absent"
    /\ key' = "absent"
    /\ Damaged("key", file, ckpt)
    /\ UNCHANGED <<file, nl, synced, ckpt, mode, mem, req, sealed, crashes, faults>>

Next ==
    \/ Load \/ KeyCutShort \/ Assess \/ Exit
    \/ \E op \in Ops : SubmitCreated(op)
    \/ \E op \in Ops, state \in UndoState : Transition(op, state)
    \/ WriteLine \/ WriteNewline \/ Fsync \/ WriteCheckpoint \/ WriteFails
    \/ Crash
    \/ \E n \in 0 .. Len(file) - 1 : LoseTail(n)
    \/ \E i \in DOMAIN file, rec \in Record : EditLine(i, rec)
    \/ LoseCheckpoint \/ LoseKey

Spec == Init /\ [][Next]_signerVars
-----------------------------------------------------------------------------
(***************************************************************************)
(* Properties                                                              *)
(***************************************************************************)
Line == [rec : Record, hash : Seq(Record)] \cup {Torn}

\* The signer's files and its memory have their types: what append_record
\* writes parses as a line or is torn, and no more lines are synced than are
\* in the file.
TypeOK ==
    /\ key \in {"absent", "short", "whole"}
    /\ file \in Seq(Line) /\ nl \in BOOLEAN /\ synced \in 0 .. Len(file)
    /\ ckpt \in Seq(Record) /\ mem \in Seq(Record)
    /\ mode \in {"down", "loaded", "serving"}
    /\ req = NoRequest \/ req \in [op : Ops, state : UndoState,
                                    at : {"line", "newline", "fsync", "checkpoint"}]
    /\ sealed \subseteq Record
    /\ crashes \in Nat /\ faults \in Nat
    /\ damage \subseteq {"log", "checkpoint", "key", "wiped"}

\* A record whose submitter was told Sealed is behind the checkpoint, so that
\* no later start can serve a log from which it was cut: write_checkpoint comes
\* between append_record and the answer (store.rs, submit_created).
SealedIsWitnessed == damage = {} => sealed \subseteq Range(ckpt)

\* An action that was once sealed as undone, aborted or superseded is never
\* offered for undoing again, whatever crashes, failed writes and damage came
\* in between: its lifecycle folds to that same final state in every log the
\* signer serves (transition's legality check, fold_state, the chain and the
\* checkpoint together).
UndoneStaysUndone ==
    mode = "serving" /\ "wiped" \notin damage =>
        \A r \in sealed : r.state \in Terminal => CurrentState(mem, r.op) = r.state

\* The signer refuses to start only for a reason: damage, a failed write, a
\* line or a key cut short, a crash before the very first checkpoint, or a
\* power loss that takes a line which was never synced and which a start in
\* between had read from the page cache and witnessed.  Any other crash,
\* between any two steps of an append, leaves files that the next start accepts
\* (open_in, load and assess_startup).
CleanFilesServe ==
    mode = "down" /\ damage = {} /\ faults = 0 /\ key # "short"
        /\ Torn \notin Range(file) /\ (ckpt = NoCheckpoint => file = <<>>)
        /\ Len(ckpt) <= Len(file) =>
    Loads(file) /\ Consistent(Records(file))

Log == INSTANCE AppendLog WITH
    Entries <- Record,
    log     <- [i \in 0 .. Len(mem) - 1 |-> mem[i + 1]],
    open    <- mode = "serving",
    acked   <- sealed,
    gone    <- "wiped" \in damage

\* To its clients the signer is an append-only log: while it serves, records
\* are only added at the end, and it never serves a log that lacks a record it
\* answered Sealed for, unless log and checkpoint were lost together.
SignerImplementsAppendLog == Log!Spec

\* A record whose submitter was told Sealed is a line of the file, as
\* FileUndoLog's comment has it: the record is durable before the act, "so a
\* crash never loses an entry the caller believes recorded".
SealedIsInTheFile ==
    damage = {} /\ faults = 0 =>
        \A r \in sealed : \E i \in DOMAIN file : file[i].rec = r
=============================================================================
