# A TLA+ verification project for Arlen

Arlen is a capability-based, event-driven Linux desktop made of small daemons that talk over
Unix sockets. This directory holds TLA+ models of the daemons whose correctness rests on
ordering, crashes and shared state, the TLC configurations that check them on small
instances, and TLAPS proofs of the properties that matter most.

## Inventory

`src/README.md` names the spine: event bus, knowledge graph, kernel layer, notification
daemon, module runtime, install daemon, audit daemon, anomaly detector, portal backend. Around
it are brokers (consent, config, settings, connections, transfer), the AI layer, the SDK, the
apps and the package manager. `PROJECT.json` lists every part, modelled or not.

| part | state | operations | what makes it hard |
|---|---|---|---|
| audit ledger | table, head checkpoint, in-memory head, tamper flag | append (INSERT, head, checkpoint, answer), start, reseed | crash or power loss between two writes, client timeout, damage at rest |
| consent broker | queue, waiters, grants, Grant nodes | ask, join, resolve, confer, revoke, expire, restart | lock sections separated by awaits; an audit that fails; two decisions on one handle |
| consent dialog | current dialog, answered set, polls in flight | poll, click, deliver, fail | replies out of order; ids reused after a broker restart |
| undo log and its signer | log file, head checkpoint, key file, records in memory | create, transition, start, reseed | line and newline are two writes; page cache and power loss; failed writes; damage at rest |
| install daemon | app directories, trash, parts, desktop entries, lock, job queue | install, upgrade, uninstall, restore, cleanup, Flatpak jobs | a crash or failed step in the middle of a transaction; restore and cleanup beside the worker; a remote that publishes |
| undo service, engine executors, file manager | files, home trash, settings file, undo log, Ctrl+Z stack | move, trash, create, set, rename, empty the trash; undo of each from three programs | every system call can be overtaken; look-then-act; one temporary name; death between act and record |
| event bus | consumer list, retained snapshots, channels, peer identities | publish, retain, deliver, register, unregister | two locks, full channels, late identity, ids chosen by clients |

The engine and the undo service audit what they do before they do it and keep its inverse with
the signer. The broker submits every decision to the ledger before it acts on it, the dialog drives the
broker's control socket, and all daemons publish on the bus. Ledger and undo log are two
implementations of one idea, a chained log behind a signed checkpoint of its head.

## Modules

| module | models |
|---|---|
| `AppendLog` | what a sealed log promises its clients; implemented by `AuditLedger` and `UndoSigner` |
| `AuditLedger`, `MCAuditLedger`, `AuditLedgerProofs` | `daemons/audit-daemon`, `contracts/audit-proto/src/client.rs` |
| `UndoSigner`, `MCUndoSigner`, `UndoSignerProofs` | `ai/ai-undo-signer`, `ai/ai-undo-core/src/undo_log.rs` |
| `UndoCalls`, `UndoFiles`, `UndoSettings`, `UndoActions`, `MCUndoActions`, `UndoActionsInv`, `UndoActionsProofs`, `UndoRoundTrip` | `daemons/undo-service`, the executors and `compensate` of `daemons/ai-engine-daemon`, `contracts/freedesktop-trash`, `apps/files` |
| `ConsentBroker`, `MCConsentBroker` | `daemons/consent-broker`, the decision of `ai/ai-core/src/capability.rs` |
| `ConsentShell`, `MCConsentShell`, `ConsentProofs` | the shell's dialog, composed with `ConsentBroker` by EXTENDS; the proofs about both |
| `EventBus`, `MCEventBus`, `EventBusProofs` | `daemons/event-bus` without the forwarder |
| `InstallDaemon`, `MCInstallDaemon`, `InstallDaemonProofs` | `daemons/installd/installd`, the comparison of `forage/capabilities` |

**AppendLog.** A log, whether it is open, and the entries it has acknowledged. While it is open
entries are only added at the end; what happens to a closed log is free, but it opens again only
with every acknowledged entry in place, unless all of it was lost at once (`gone`: table and
checkpoint together, which no start can tell from a new installation).

**AuditLedger.** `rows` is the table `audit_entries`; `checkpoint` and `durable` are the head
checkpoint as a reader and as a power loss sees it; `nextIndex`, `prevHash` are fields of
`Ledger`; `srv` is where a request's `record()` stands, `cli` what its producer was told.
`Lock`, `Insert`, `Seal` are the steps of an append between which the daemon can die. A chain
hash is the sequence of payloads it commits to. A committed row is assumed durable (SQLite's
default synchronous level). The TPM anchor is `None` in `main.rs` and left out.

**UndoSigner.** `file` is the log as a reader sees it, `synced` how much of it a power loss
leaves, `nl` whether its last line has its newline. `ckpt` and `key` are the other two files,
`mem` is the memory of the running signer, `req` the
request on its way through line, newline, fsync and checkpoint. `Killed` and `PowerLost` are what
a crash leaves at each of these points; `WriteFails` is a write that errs while the signer runs on.

**UndoActions.** Composes three modules by EXTENDS. `UndoCalls` has the workers (`work`: an
operation or an undo call, the process it runs in and its stage), the undo log and the ledger as
their clients see them. `UndoFiles` has the places a file can be at (`fs`), the trash sidecars
(`info`), the Ctrl+Z stack and one action per system call of the file operations and their
inverses. `UndoSettings` has the settings file at the level of inodes, because its writers share
one temporary name. A file is a token for its content. `touched`, `stale`, `lost`, `strayed`,
`kept`, `met`, `spent` exist only for the properties. Any call may fail, except that removals
whose result the code ignores succeed.

**InstallDaemon.** `dir`, `trash`, `parts`, `desktop`, `lock` are the disk, `jobs` the queue in
memory, `work` the worker's step and what its transaction has registered (`todo`), `rst` and
`cln` calls that run beside the worker. A step that may fail has a disjunct with `Fault`, which
draws on the same bound as crashes. `asked`, `had`, `stray`, `raced` exist only for the
properties. A package is its manifest and signature having been checked; parts stand for
schemas, modules, key bindings and settings page.

**ConsentBroker.** One action per lock section of `SharedState`; each await is a point where
others run. `queue`, `waiters`, `grants` are the broker's memory, `ctl` the control operation a
handler is serving (audit, record, persist, reply), `ledger` and `kg` what the audit daemon and
the graph hold. A submit that fails may or may not be in the ledger, as `AuditLedger` shows.

**ConsentShell.** Adds `current`, `answered`, the polls and the clicks of `consent.ts`.

**EventBus.** `task` is the position of `handle_producer`: reading, waiting for the retained
map, waiting for the consumer list, or at an entry of the delivery loop, during which the list
is read-locked. `conn` is the state of `handle_consumer`; "registering" holds the retained map.
A pattern is the set of topics it selects. tokio's locks queue their waiters; the model lets
any waiter go first, which allows more orders. `last` and an event's `subject` exist only for
the properties. A producer of the model is one connection, which may be opened again.

## Runs

| run | bounds | shows |
|---|---|---|
| `audit_ledger` | 2 good requests, 1 oversized, 2 crashes, 2 damages | acknowledged entries are witnessed, their loss is detected, requests are answered, it implements `AppendLog` |
| `consent_dialogs` | 2 callers, 2 handlers, 1 restart | nobody who waits is forgotten, everybody is answered |
| `consent_grants` | 2 callers, 2 handlers, 1 tick, 1 conferral or revoke | authority has an audited act behind it; windows start at the decision |
| `consent_identities` | 2 callers, 7 kinds of request | silence only repeats an audited answer for that app and scope; nobody proceeds unaudited |
| `consent_shell` | 2 callers, 1 click and 1 poll in flight, 1 restart | answers land on the question shown; requests of the first lifetime reach the user |
| `undo_signer` | 2 actions, 3 records, 3 kills, power losses, failed writes or damages | a sealed record is behind the checkpoint, an undone action is not offered again, a signer that refuses to start has a reason, the log is append-only to its clients |
| `undo_actions` | 3 operations or undo calls, 2 places, 2 trash slots (one with a payload nobody lists), 2 settings, 1 change by the user, 1 deletion from the trash, 1 crash | an action undone leaves everything as it was, a file is only lost if it arrived between a look and the act, trash and settings stay consistent, daemons act only audited, an undone action is not replayed or audited again |
| `install_daemon` | 3 jobs of any kind, 2 versions of an app, a Flatpak with 2 commits, 1 crash or failed step | nothing gains reach nobody chose, parts stay named by a manifest, a version survives, success is true, jobs end |
| `event_bus` | 2 producers (1 and 2 events), 2 consumers with one id, buffer 1 | user isolation, replay or delivery of each snapshot, no stall, cut-off consumers are disconnected |

Two of each actor is the least at which the hazards occur: two appends give a crash window
between consecutive seals, two callers join one question, two handlers interleave their audits
on one handle, two events on a buffer of one overflow it,
three workers are an action and two undos or two actions and an undo,
three records take an action to its final state beside another one, three jobs are an install, an
upgrade and one more, with a failure in any of them. CHECK_DEADLOCK is off where a run ends because its bounds are used up.

Runs that are expected to fail each show a disagreement with a comment of the code:

| run | what TLC finds |
|---|---|
| `consent_revoke_overtaken` | a revoke between a decision and its recording is undone by the recording |
| `undo_sealed_unreadable` | a kill between a line and its newline makes the next append, answered Sealed, run on in that line |
| `undo_touches_replacement` | the undo of a move moves the document the user has meanwhile saved at the new place |

Fairness: a daemon's accepted work is weakly fair, because the runtime polls every task and
awaits end (the audit client times out; that the graph write returns is an assumption, the
client has no timeout). The install worker is weakly fair: its loop is one spawned task,
and that a step returns is an assumption where it waits for the `flatpak` command. A restart is weakly fair (systemd). The user's answer is strongly fair,
since the small set of handlers is the model's bound. Nothing makes a bus consumer read except
membership in `Readers`.

## Proofs

`AuditLedgerProofs` proves `TypeOK`, `AckedIsWitnessed`, `AckedLossIsDetected`,
`HeadMatchesTable`, `FalseAlarmOnlyBeforeFirstSeal` and `FrozenIsUntouched` for every set of
requests and every bound. None is inductive alone. `IInv` adds that the mutex excludes
(`MutexInv`), that indexes are a primary key below the head (`KeyInv`), that the chain verifies
while serving or undamaged (`ChainInv`), that an entry being sealed is the head (`SealInv`),
that each checkpoint names a row (`CheckpointInv`), and that a checkpoint either convicts the
table or commits to every acknowledged request (`LossInv`), which carries the argument through
repeated damage and reseeding.

The same module proves `ImplementsAppendLog` from this `IInv`: an INSERT is the abstract append,
an answer the abstract acknowledgement, a start that serves the opening.

`ConsentProofs` proves `TypeOK` and all seven safety invariants of `ConsentBroker`'s passing
runs. `IInv` adds that ids are fresh and unique (`FreshInv`), that a waiter is parked on the question
of its dialog (`ParkInv`) and stays so while the decision is in flight (`FlightInv`), that an
operation past its audit has its ledger entry and a grant that entry authorises (`OpInv`), that
a recorded grant is kept until a revoke (`RecordedInv`), and that no connection is from a later
lifetime (`EpochInv`). It then proves that `ShellSpec` implies the broker's `Spec`
(`ShellKeepsTheBroker`), so these results hold with the dialog attached, and on top of `IInv` the
two invariants of the dialog. `AnswersOfThisLifetime` needs that every view on screen, in a poll
reply or in a click names a request that its id still means in that lifetime (`LifeInv`).
`AnsweredStaysDown` needs `DownInv`: what is decided has left the queue for good, and what is on
screen, in a reply or clicked without having reached the broker is pending, or was answered.

`EventBusProofs` proves `TypeOK`, `UidIsolation`, `NeverNeither` and `ServedIsListed` for every
set of producers, consumers, topics and users and every buffer size. The invariant adds that a
dispatching producer has its own event in hand and stands at an entry of the list (`DispatchInv`),
that what the bus says of an event's uid is true or says root and that a channel holds only what
its consumer may have (`StampInv`), and that the map is keyed by topic and a dispatch past the map
finds its own event there unless another producer replaced it (`MapInv`). `NeverNeither` and
`ServedIsListed` are inductive with these.

`UndoSignerProofs` proves `TypeOK`, `SealedIsWitnessed`, `UndoneStaysUndone`, `CleanFilesServe`
and `SignerImplementsAppendLog` for every set of actions and every bound. Its invariant relates the
records in memory, the lines of the file, what of them is synced and the head the checkpoint
signs, at each point of an append. `CleanFilesServe` needs a second one, `Clean`: without damage and
failed writes the lines that can be read carry the hashes of the records up to them and agree with
the checkpoint and with memory, and memory is in step with the file unless a line before its end
is torn.

`InstallDaemonProofs` proves `TypeOK`, `NothingUnasked`, `PartsAreNamed`, `CompletedIsDone`,
`SomeVersionSurvives` and `EditedProfileIsKept` for every set of apps, packages and commits and every number of jobs and
troubles. `IInv` is `TypeOK`, `Asked` (every version on the disk, in the trash, in the lock or on
its way there asks for no more high-impact capabilities than one somebody chose), `Placed` (what
the worker has registered is there, and what is outside a directory is named by the manifest in it
or is stray) and `Dropped` (the Flatpak is gone before its profile).
`SomeVersionSurvives` speaks of an idle worker only; `Survival` says for every step of a job where the
app is. Until something goes wrong it is in place, or in the trash while its upgrade runs. After
the one trouble it may be only in the trash, and an upgrade that then begins over a directory without
a manifest can no longer fail. `Survival` was checked with two troubles and, on another instance,
with four jobs (8.5 million states) before it was proved; no run repeats these.

`UndoActionsProofs` and `UndoRoundTrip` prove `TypeOK` and all seven safety invariants of
`UndoActions`: `ChangesAreAudited`, `UndoneIsNotReplayed`, `OnlyOvertakenFilesAreLost`,
`PairedUnlessEmptied`, `WholeUnlessWritersMeet`, `UserSettingsKept` and `RoundTrip`, for every
number of actions, undo calls, places, trash slots, settings, edits and crashes. `UndoActionsInv`
has the invariant `IInv` and the lemmas that keep its parts:

* `WorkInv`, `LogInv`, `StackInv`: at each stage a worker has the task, the inverse and the notes
  that stage uses, and every inverse captured, logged or on the Ctrl+Z stack names places of its kind;
* `AuditInv`: a daemon's worker past its audit is in the ledger;
* `StaleInv`: an action is logged once and at its end, a call past the lookups has found an
  entry, and a call that came after "over" has got no further than the state it asks for;
* `FileInv`: the document property itself, which is inductive with the types of the notes;
* `SlotInv`: until the trash is emptied a reserved slot is held by one worker, is listed and is
  free until its payload arrives;
* `SetInv`: while writers have not met the temporary file is the one its only writer has open, and
  holds nothing or all of that writer's text; no text on its way lacks what the user has set.

`WholeUnlessWritersMeet` was false as first stated, for three writers. One that fails to
open removes the temporary file of a second, a third creates a new one, and the second renames
that empty file over the settings. The run has room for two writers only, so the attempt to prove the
step found it. A writer that renames or removes a temporary file another one has open now
counts as a meeting (`met`), as one that opens it always did. The invariants also hold on an
instance with three actions and two calls (2.5 million states, twelve minutes, no run).

`RoundTrip` relates a state to the one before the action, so `IInv` says nothing of it. `TripInv`
does, for runs in which nobody edits, dies, empties the trash or meets another writer (`Quiet`)
and action `o` is the only one asked for (`Sole`). Its parts, per action, are in `Trip`:

* until `o` has acted (`Starting`) nobody has anything to undo, and files, sidecars and settings
  are those of the start but for what the stage of `o` has done: a name created, a slot listed, a
  text edited in memory;
* once it has acted, everybody who holds something to undo, in the log, on the Ctrl+Z stack or as
  the task of a call under way, holds the receipt of `o` (`Errands`);
* from then on the world is where `o` left it or back at the start (`Returning`, with
  `MovedBack`, `Unmade` and `Reset` for the kinds of receipt), a listed slot whose payload has left
  has a call that is about to remove the sidecar, and every settings text on its way is the first one;
* once a call has reported a change the world is back at the start, whatever other calls still do.

The last clause is what makes repeated undos harmless: calls by the engine, the undo service and
the file manager about one action may overlap in any order, and each finds either what the action
left or nothing to do. `TripInv` was model-checked before it was proved, on an instance with one
action and three calls and on one with two of each (700 thousand states); no run repeats this.
`UndoActionsProofs` has the definitions and the action until it has acted, `UndoRoundTrip` the rest.

tlapm's encoding slows down with every lemma that a module has or extends, until obligations that
take a fraction of a second alone exceed a prover's limit. This is why the proofs about
`UndoActions` are in three modules, and why many leaves name Zenon.

The proofs use the named ASSUMEs of the modules: typing of the constants, natural bounds, sets of
names that are apart (actions and calls, paths and slots), that the kernel layer, the only
observer of other users, runs as root, and that the settings file starts with a setting nobody is
asked to change (so that a cut-off file can be told from one whose last setting was taken out).

Only proved: `FrozenIsUntouched`, `EditedProfileIsKept` and the type invariants of the ledger, the
signer, the broker and the install daemon, which no run repeats. Only model-checked: the six liveness
properties (`RequestsComplete`, `EveryCallerAnswered`, `DialogReachesTheUser`, `NothingStalls`,
`CutOffIsNoticed`, `JobsEnd`), which need fairness and ENABLED and are out of the prover's reach.

## Limits

* `AnsweredStaysDown` has non-overlapping polls as a hypothesis. The shell's interval does not
  wait for the last poll, and with two in flight TLC finds an answered dialog returning until the
  next poll, which the comment at `consent.ts:120` rules out.
* A crash between the ledger's very first INSERT and its checkpoint reads as tampering, which the
  comment at `store.rs:276` rules out; `FalseAlarmOnlyBeforeFirstSeal` says there is no other case.
  A producer that timed out may be told Err for an entry that is in the ledger
  (`audit-proto/src/sink.rs:5` says otherwise), and the broker's model takes that into account.
* Broker ids start at 0 again after a restart, so a click on an old dialog can resolve a new request;
  the comment at `queue.rs:27` says a stale id resolves nothing. `AnswersOfThisLifetime` is about
  one lifetime.
* An observer named by the bus's identity retry still has its events restamped
  (`socket.rs:570` says their uid must survive). This is latent: the kernel layer is not installed
  by this tree yet.
* `CleanFilesServe` excepts a checkpoint reseeded over a line that was never synced, and a key file
  cut short at its creation: both leave a signer that refuses to start.
* `SomeVersionSurvives` excepts an entry that cleanup deletes after an uninstall has replaced the
  expired one it had read, and `PartsAreNamed` what a failed step left behind.
* A restored app does not get back the schemas, modules and key bindings its uninstall removed:
  `restore_app` moves the directory and rewrites the desktop entry, while the comment at
  `installd/src/trash.rs:86` says "a restore reinstalls, which rewrites all three".
* A high-stakes request joins a pending routine question of the same class and scope and is
  answered by its dialog: `same_question` (`queue.rs:107`) does not compare the kind.
* `OnlyOvertakenFilesAreLost` excepts a document that arrives between a look and the act that
  follows it (`ops.rs` `rename`, `restore_entry` and the rollback of `trash_entry_at`;
  `undo_enact.rs` `enact_delete_created`), or between a creation and its fingerprint
  (`file_executor.rs`). `PairedUnlessEmptied` excepts a trash that is emptied between the
  reservation and the move, which leaves a payload nobody lists. `WholeUnlessWritersMeet` and
  `UserSettingsKept` except two writers that open, rename or remove one temporary file
  (`undo_enact.rs:404`); a change
  made between a writer's read and its rename is overwritten.
* The undo service marks nothing, so a second undo acts again, although the comment at
  `undo_signer.rs:206` says it is a no-op. `UndoneIsNotReplayed` is about entries the engine has
  marked. `lookup_entry` returns terminal entries too, which the comment at
  `agent_iface.rs:609` does not expect; the state asked before it is what protects the replay.
* That every operation and undo ends is not checked by a run: the graph of `UndoActions` is too
  large for a liveness check in minutes. No step of it waits except for the Ctrl+Z lock.
* After a broker restart a new request that reuses an answered id can stay suppressed.
* `NeverNeither` is per producer connection. The shell opens a connection per event
  (`projects.rs:546`), so two snapshots of one topic can reach a consumer in the reverse of the
  order in which they were retained.
* `proto/event.proto:25` says uid 0 is "delivered to all"; `UidFilter::accepts` delivers it to
  root's and unfiltered consumers only, as its comment explains.
* Not modelled in the undo part: the engine's gates before an action, retraction of graph edges,
  trash-created receipts, the recovery of entries left Compensating (nothing in the tree produces
  one), file-manager copy, move, duplicate, new folder and delete, operations on several entries,
  other file systems, kernels without no-replace renames, a settings file that does not exist.
* Not modelled: the key file, the audit read API, ingest admission, pattern matching, the
  forwarder, and the parts `PROJECT.json` lists as such, with the reason for each.

## Plan

1. The remaining file operations of `UndoActions` and the graph inverse.
2. Two buses joined by the forwarder; several connections on one state topic.
3. Transfer daemon, module runtime, config broker, capsules, connections, clock, lock-screen
   authentication, notifications, knowledge promotion.
