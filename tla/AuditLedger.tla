---------------------------- MODULE AuditLedger ----------------------------
(***************************************************************************)
(* The audit daemon (daemons/audit-daemon): the append-only ledger, the    *)
(* head checkpoint kept beside the database, the ingest server that        *)
(* appends one entry per request under one mutex, and the startup check    *)
(* that decides between serving and freezing ingest.                       *)
(*                                                                         *)
(* A request is one submission of one entry; a producer that tries again   *)
(* makes another request.  The HMAC chain hash of an entry is modelled as  *)
(* the sequence of the payloads it commits to, so two hashes are equal     *)
(* exactly when the chains behind them are.  The database commits a row    *)
(* durably (SQLite in WAL mode with its default synchronous level); the    *)
(* checkpoint file is durable only once its directory was synced.          *)
(***************************************************************************)
EXTENDS Naturals, Sequences

CONSTANTS Requests,    \* submissions to the ingest socket
          Oversized,   \* the requests IngestRequest::validate rejects
          MaxCrashes,  \* bound on crashes and power losses
          MaxDamage    \* bound on damage done to the files at rest

ASSUME RequestsAssumption == Oversized \subseteq Requests

ASSUME BoundsAssumption == MaxCrashes \in Nat /\ MaxDamage \in Nat

VARIABLES
    rows,        \* table audit_entries: a set of rows
    checkpoint,  \* head.checkpoint as a reader of the file sees it
    durable,     \* head.checkpoint as it is after a power loss
    mode,        \* "down", "serving" or "frozen" (the tampered flag is set)
    verdict,     \* how the last start ended, for the log and audit.tampered
    nextIndex,   \* Ledger::next_index
    prevHash,    \* Ledger::prev_hash
    srv,         \* per request: where its record() call stands in the daemon
    cli,         \* per request: what its producer has been told
    crashes,     \* number of crashes so far
    damage,      \* what has been damaged at rest so far
    damages      \* number of damages so far

files == <<rows, checkpoint, durable>>
head == <<nextIndex, prevHash>>
history == <<crashes, damage, damages>>
vars == <<files, mode, verdict, head, srv, cli, history>>
-----------------------------------------------------------------------------
None == [index |-> 0, hash |-> <<>>]      \* no checkpoint file
Corrupt == [index |-> 1, hash |-> <<>>]   \* a file that does not parse

GENESIS_PREV_HASH == <<>>

EntryHash(prev, payload) == Append(prev, payload)

Row(i, prev, payload) ==
    [idx |-> i, prev |-> prev, payload |-> payload,
     hash |-> EntryHash(prev, payload)]

Checkpoint(row) == [index |-> row.idx, hash |-> row.hash]

\* Rows in table order, and the last of them (load_head).
IndexesOf(R) == {row.idx : row \in R}
IsLast(row, R) == row \in R /\ \A other \in R : other.idx <= row.idx
LastRow(R) == CHOOSE row \in R : IsLast(row, R)

\* Ledger::verify: indexes count from 0, every entry links to the one before
\* it, and every stored hash is the hash recomputed from the row.
Verify(R) ==
    /\ \A row \in R : \A i \in 0 .. row.idx : i \in IndexesOf(R)
    /\ \A row \in R : row.hash = EntryHash(row.prev, row.payload)
    /\ \A row \in R :
          IF row.idx = 0 THEN row.prev = GENESIS_PREV_HASH
          ELSE \A before \in R : before.idx + 1 = row.idx => row.prev = before.hash

\* Mutant: a table without a checkpoint is taken for a fresh one.
AssessStartupTrusting(cp, R) ==
    IF cp = None THEN "genesis"
    ELSE IF cp # Corrupt /\ \E row \in R : Checkpoint(row) = cp
         THEN "consistent" ELSE "tampered"

\* checkpoint::assess_startup on the file, the emptiness of the table and the
\* hash found at the index the file names.
AssessStartup(cp, R) ==
    IF cp = None THEN IF R = {} THEN "genesis" ELSE "tampered"
    ELSE IF cp # Corrupt /\ \E row \in R : Checkpoint(row) = cp
         THEN "consistent" ELSE "tampered"

\* Both witnesses of a start, in the order main() consults them.
StartupVerdict(cp, R) == IF Verify(R) THEN AssessStartup(cp, R) ELSE "tampered"
-----------------------------------------------------------------------------
Hashes == Seq(Requests)
Rows == [idx : Nat, prev : Hashes, payload : Requests, hash : Hashes]
Checkpoints == [index : Nat, hash : Hashes]

TypeOK ==
    /\ rows \subseteq Rows
    /\ checkpoint \in Checkpoints
    /\ durable \in Checkpoints
    /\ mode \in {"down", "serving", "frozen"}
    /\ verdict \in {"none", "genesis", "consistent", "tampered", "unwritable"}
    /\ nextIndex \in Nat
    /\ prevHash \in Hashes
    /\ srv \in [Requests -> {"idle", "queued", "insert", "seal", "done"}]
    /\ cli \in [Requests -> {"idle", "waiting", "acked", "failed"}]
    /\ crashes \in 0 .. MaxCrashes
    /\ damages \in 0 .. MaxDamage
    /\ damage \subseteq {"rows", "checkpoint", "wiped"}

Init ==
    /\ rows = {}
    /\ checkpoint = None
    /\ durable = None
    /\ mode = "down"
    /\ verdict = "none"
    /\ nextIndex = 0
    /\ prevHash = GENESIS_PREV_HASH
    /\ srv = [r \in Requests |-> "idle"]
    /\ cli = [r \in Requests |-> "idle"]
    /\ crashes = 0
    /\ damage = {}
    /\ damages = 0
-----------------------------------------------------------------------------
\* The producer that waits for r is told the outcome; one that already gave
\* up hears nothing.
Tell(r, outcome) ==
    cli' = IF cli[r] = "waiting" THEN [cli EXCEPT ![r] = outcome] ELSE cli

Finish(r, outcome) ==
    /\ srv' = [srv EXCEPT ![r] = "done"]
    /\ Tell(r, outcome)

\* AuditClient::submit connects and writes its frame.
Submit(r) ==
    /\ srv[r] = "idle" /\ cli[r] = "idle"
    /\ mode # "down"
    /\ srv' = [srv EXCEPT ![r] = "queued"]
    /\ cli' = [cli EXCEPT ![r] = "waiting"]
    /\ UNCHANGED <<files, mode, verdict, head, history>>

\* The connect fails: no daemon is listening.
SubmitRefused(r) ==
    /\ srv[r] = "idle" /\ cli[r] = "idle"
    /\ mode = "down"
    /\ cli' = [cli EXCEPT ![r] = "failed"]
    /\ UNCHANGED <<files, mode, verdict, head, srv, history>>

\* SUBMIT_TIMEOUT: the producer gives up; the daemon keeps working on the
\* request it has read.
SubmitTimeout(r) ==
    /\ cli[r] = "waiting"
    /\ cli' = [cli EXCEPT ![r] = "failed"]
    /\ UNCHANGED <<files, mode, verdict, head, srv, history>>

\* Mutant: a frozen daemon leaves the request unanswered.
RefuseOversizedOnly(r) ==
    /\ srv[r] = "queued"
    /\ r \in Oversized
    /\ Finish(r, "failed")
    /\ UNCHANGED <<files, mode, verdict, head, history>>

\* record(): the early returns before the ledger is locked.
Refuse(r) ==
    /\ srv[r] = "queued"
    /\ mode = "frozen" \/ r \in Oversized
    /\ Finish(r, "failed")
    /\ UNCHANGED <<files, mode, verdict, head, history>>

Locked == \E r \in Requests : srv[r] \in {"insert", "seal"}

\* record() takes the ledger mutex and enters append().
Lock(r) ==
    /\ srv[r] = "queued"
    /\ mode = "serving" /\ r \notin Oversized
    /\ ~Locked
    /\ srv' = [srv EXCEPT ![r] = "insert"]
    /\ UNCHANGED <<files, mode, verdict, head, cli, history>>

\* append(): the INSERT commits and the in-memory head advances.
Insert(r) ==
    /\ srv[r] = "insert"
    /\ nextIndex \notin IndexesOf(rows)
    /\ rows' = rows \cup {Row(nextIndex, prevHash, r)}
    /\ nextIndex' = nextIndex + 1
    /\ prevHash' = EntryHash(prevHash, r)
    /\ srv' = [srv EXCEPT ![r] = "seal"]
    /\ UNCHANGED <<checkpoint, durable, mode, verdict, cli, history>>

\* Mutant: the head advances before the INSERT is known to have committed.
InsertFailsAdvanced(r) ==
    /\ srv[r] = "insert"
    /\ nextIndex' = nextIndex + 1
    /\ prevHash' = EntryHash(prevHash, r)
    /\ Finish(r, "failed")
    /\ UNCHANGED <<files, mode, verdict, history>>

\* append(): the INSERT fails (a full device, a storage fault, an index that
\* is taken); the head stays.
InsertFails(r) ==
    /\ srv[r] = "insert"
    /\ Finish(r, "failed")
    /\ UNCHANGED <<files, mode, verdict, head, history>>

\* Mutant: the index after the one the entry was given.
SealOfNext(r) == [index |-> nextIndex, hash |-> prevHash]

\* The checkpoint append() writes for the entry it has just inserted.
SealOf(r) == [index |-> nextIndex - 1, hash |-> prevHash]

\* append(): checkpoint::write succeeds, the index is returned, and record()
\* answers Appended.
Seal(r) ==
    /\ srv[r] = "seal"
    /\ checkpoint' = SealOf(r)
    /\ durable' = SealOf(r)
    /\ Finish(r, "acked")
    /\ UNCHANGED <<rows, mode, verdict, head, history>>

\* Mutant: a checkpoint that cannot be written is only logged.
SealFailsQuietly(r) ==
    /\ srv[r] = "seal"
    /\ checkpoint' \in {checkpoint, SealOf(r)}
    /\ Finish(r, "acked")
    /\ UNCHANGED <<rows, durable, mode, verdict, head, history>>

\* Mutant: the entry without a checkpoint is taken back.
SealFailsRolledBack(r) ==
    /\ srv[r] = "seal"
    /\ \E row \in rows :
          /\ row.idx = nextIndex - 1
          /\ rows' = rows \ {row}
          /\ nextIndex' = row.idx
          /\ prevHash' = row.prev
    /\ Finish(r, "failed")
    /\ UNCHANGED <<checkpoint, durable, mode, verdict, history>>

\* checkpoint::write fails before its rename, or in the directory sync after
\* it, when the new file is visible but not durable.  The row stays.
SealFails(r) ==
    /\ srv[r] = "seal"
    /\ checkpoint' \in {checkpoint, SealOf(r)}
    /\ Finish(r, "failed")
    /\ UNCHANGED <<rows, durable, mode, verdict, head, history>>

\* The daemon stops: a kill leaves the files as they are, a power loss
\* undoes a checkpoint rename that was never synced.
Stop(cp) ==
    /\ mode # "down"
    /\ crashes < MaxCrashes
    /\ crashes' = crashes + 1
    /\ mode' = "down"
    /\ checkpoint' = cp
    /\ srv' = [r \in Requests |-> IF srv[r] = "idle" THEN "idle" ELSE "done"]
    /\ cli' = [r \in Requests |-> IF cli[r] = "waiting" THEN "failed" ELSE cli[r]]
    /\ UNCHANGED <<rows, durable, verdict, head, damage, damages>>

Crash == Stop(checkpoint)
PowerLoss == Stop(durable)

\* Ledger::open loads the head from the last row.
LoadHead ==
    /\ nextIndex' = IF rows = {} THEN 0 ELSE LastRow(rows).idx + 1
    /\ prevHash' = IF rows = {} THEN GENESIS_PREV_HASH ELSE LastRow(rows).hash

\* main(): the chain or the checkpoint does not hold, or there is nothing to
\* protect yet.
Start(v) ==
    /\ mode = "down"
    /\ v = StartupVerdict(checkpoint, rows)
    /\ v \in {"tampered", "genesis"}
    /\ LoadHead
    /\ verdict' = v
    /\ mode' = IF v = "tampered" THEN "frozen" ELSE "serving"
    /\ UNCHANGED <<files, srv, cli, history>>

\* main(): the witness holds and is rewritten for the live head.
StartReseeds ==
    /\ mode = "down"
    /\ StartupVerdict(checkpoint, rows) = "consistent"
    /\ LoadHead
    /\ checkpoint' = Checkpoint(LastRow(rows))
    /\ durable' = Checkpoint(LastRow(rows))
    /\ verdict' = "consistent"
    /\ mode' = "serving"
    /\ UNCHANGED <<rows, srv, cli, history>>

\* main(): the witness holds but cannot be rewritten, so ingest is frozen.
StartReseedFails ==
    /\ mode = "down"
    /\ StartupVerdict(checkpoint, rows) = "consistent"
    /\ LoadHead
    /\ checkpoint' \in {checkpoint, Checkpoint(LastRow(rows))}
    /\ verdict' = "unwritable"
    /\ mode' = "frozen"
    /\ UNCHANGED <<rows, durable, srv, cli, history>>
-----------------------------------------------------------------------------
\* Damage to the files while the daemon is down, by something that holds no
\* key and does not rewrite the checkpoint to match: a partial restore, a
\* removed database, a corrupted or removed checkpoint.
Damage(R, cp, what) ==
    /\ mode = "down"
    /\ damages < MaxDamage
    /\ damages' = damages + 1
    /\ rows' = R
    /\ checkpoint' = cp
    /\ durable' = IF cp = checkpoint THEN durable ELSE cp
    /\ damage' = damage \cup {what}
                        \cup (IF R = {} /\ cp = None THEN {"wiped"} ELSE {})
    /\ UNCHANGED <<mode, verdict, head, srv, cli, crashes>>

LoseRows == \E R \in SUBSET rows : R # rows /\ Damage(R, checkpoint, "rows")

EditRow ==
    \E row \in rows, p \in Requests :
        /\ p # row.payload
        /\ Damage((rows \ {row}) \cup {[row EXCEPT !.payload = p]}, checkpoint, "rows")

LoseCheckpoint ==
    \E cp \in {None, Corrupt} : cp # checkpoint /\ Damage(rows, cp, "checkpoint")
-----------------------------------------------------------------------------
Record(r) == Refuse(r) \/ Lock(r) \/ Insert(r) \/ InsertFails(r) \/ Seal(r) \/ SealFails(r)

Startup == Start("tampered") \/ Start("genesis") \/ StartReseeds \/ StartReseedFails

Next ==
    \/ \E r \in Requests :
          \/ Submit(r) \/ SubmitRefused(r) \/ SubmitTimeout(r)
          \/ Record(r)
    \/ Startup
    \/ Crash \/ PowerLoss
    \/ LoseRows \/ EditRow \/ LoseCheckpoint

Spec == Init /\ [][Next]_vars

\* The runtime polls every connection task and the mutex is handed over in
\* turn, so a request the daemon has read is worked on; systemd restarts a
\* daemon that died.
Fairness == (\A r \in Requests : WF_vars(Record(r))) /\ WF_vars(Startup)

FairSpec == Spec /\ Fairness
-----------------------------------------------------------------------------
\* The row of a request, wherever it is in the chain.
Recorded(r) == \E row \in rows : row.payload = r

Witnessed(r, cp) ==
    /\ cp # None
    /\ \E row \in rows : row.payload = r /\ row.idx <= cp.index

\* "The action proceeded => the checkpoint advanced" (append): as long as
\* nobody damaged the files, an acknowledged request is in the ledger at an
\* index the durable checkpoint covers, through crashes and power losses.
AckedIsWitnessed ==
    damage = {} => \A r \in Requests : cli[r] = "acked" => Witnessed(r, durable)

\* The point of the two startup witnesses: a daemon that accepts appends has
\* every entry it ever acknowledged, whatever was lost or edited at rest.  The
\* one loss it cannot see is that of table and checkpoint together.
AckedLossIsDetected ==
    (mode = "serving" /\ "wiped" \notin damage) =>
        \A r \in Requests : cli[r] = "acked" => Recorded(r)

\* The in-memory head of a serving daemon is the head of the table, so the
\* next INSERT takes a free index and links to the last entry, and the chain
\* on disk verifies at every moment a crash could come.
HeadMatchesTable ==
    mode = "serving" =>
        /\ IndexesOf(rows) = 0 .. nextIndex - 1
        /\ \A a, b \in rows : a.idx = b.idx => a = b
        /\ Verify(rows)
        /\ \A row \in rows : row.idx + 1 = nextIndex => row.hash = prevHash

\* Ingest is frozen by damage, by a checkpoint that cannot be written, or in
\* one more case only: entries without any checkpoint yet.
FalseAlarmOnlyBeforeFirstSeal ==
    (mode = "frozen" /\ damage = {} /\ verdict = "tampered") => durable = None

\* A frozen ledger is left exactly as it was found, for inspection: no step of
\* a frozen daemon touches the table or the checkpoint.
FrozenIsUntouched == [][mode = "frozen" /\ mode' = "frozen" => UNCHANGED files]_vars

\* The ledger as its readers know it: payloads by index.
PayloadAt(R, i) == (CHOOSE row \in R : row.idx = i).payload

Log == INSTANCE AppendLog WITH
           Entries <- Requests,
           log <- [i \in IndexesOf(rows) |-> PayloadAt(rows, i)],
           open <- mode = "serving",
           acked <- {r \in Requests : cli[r] = "acked"},
           gone <- "wiped" \in damage

\* The daemon keeps the promise of a sealed log (AppendLog): table, checkpoint
\* and startup check together never let a daemon that serves overwrite,
\* reorder or miss an entry, whatever happened while it was down.
ImplementsAppendLog == Log!Spec

\* Every request the daemon has read is answered or dies with the daemon.
RequestsComplete == \A r \in Requests : srv[r] = "queued" ~> srv[r] = "done"
=============================================================================
