--------------------------- MODULE ConsentBroker ---------------------------
(***************************************************************************)
(* The consent broker (daemons/consent-broker): callers ask for an action  *)
(* over the intake socket, the trusted shell shows the front of the queue  *)
(* and resolves it over the control socket, remembered answers become      *)
(* grants that later requests are silently granted by, and Settings can    *)
(* revoke them.                                                            *)
(*                                                                         *)
(* Every lock section of SharedState is one action; every await between    *)
(* two of them (the audit submit, the graph write) is a point where other  *)
(* connections run.  The audit sink and the knowledge graph are external:  *)
(* an acknowledged submit is in the ledger, a failed one may or may not be *)
(* (see AuditLedger), and a graph write may fail.                          *)
(***************************************************************************)
EXTENDS Naturals, FiniteSets

CONSTANTS Callers,         \* intake connections; each carries one request
          Handlers,        \* control connections in service at one time
          Bodies,          \* the requests that may arrive, with their peers
          Apps,            \* attested app ids
          Whats,           \* (class, scope) pairs
          Paths,           \* the pairs a gesture can confer: a path to read
          NoApp,           \* no on_behalf_of
          TRUSTED_INTERMEDIARIES,
          autonomous_apps, \* Capability: apps that act without asking
          GESTURE_WINDOW,  \* length of a window, in ticks
          MaxTime,         \* bound on the clock
          MaxRestarts,     \* bound on broker restarts
          MaxManaged       \* bound on conferrals and revokes

\* ActionKind: "irreversible" stands for every kind on the always-confirm list.
Kinds == {"ordinary", "irreversible"}
Outcomes == {"once", "remembered", "window", "denied"}
Handles == Apps \X Whats
Requests == [who : Apps, what : Whats, kind : Kinds, external : BOOLEAN]

ASSUME BodiesAssumption ==
    Bodies \subseteq [peer : Apps, onBehalfOf : Apps \cup {NoApp}, what : Whats,
                      kind : Kinds, external : BOOLEAN, check : BOOLEAN]

ASSUME SetsAssumption ==
    /\ NoApp \notin Apps
    /\ Paths \subseteq Whats
    /\ TRUSTED_INTERMEDIARIES \subseteq Apps
    /\ autonomous_apps \subseteq Apps

ASSUME ClockAssumption == {GESTURE_WINDOW, MaxTime, MaxRestarts, MaxManaged} \subseteq Nat

VARIABLES
    queue,     \* ConsentQueue::pending
    nextId,    \* ConsentQueue::next_id; next_seq always has the same value
    waiters,   \* Inner::waiters: pairs <<request id, caller>>
    grants,    \* GrantStore
    conn,      \* per caller: its connection
    asked,     \* per caller: the assembled request
    ctl,       \* per handler: the control operation it is serving
    ledger,    \* what the audit daemon has recorded
    kg,        \* Grant nodes in the knowledge graph
    now,       \* the clock
    managed,   \* how many conferrals and revokes there were
    restarts,  \* how often the broker was restarted; numbers its lifetimes
    revoked,   \* handles revoked in this lifetime of the broker
    overtaken  \* handlers whose decision a later revoke of its handle overtook

memory == <<queue, nextId, waiters, grants, ctl>>
outside == <<ledger, kg, now, restarts, managed>>
history == <<revoked, overtaken>>
vars == <<memory, conn, asked, outside, history>>
-----------------------------------------------------------------------------
(* Requests, tiers and grants. *)

\* service::resolve_requester: only a trusted intermediary may name another app.
ResolveRequester(peer, subject) ==
    IF subject # NoApp /\ peer \in TRUSTED_INTERMEDIARIES THEN subject ELSE peer

Assemble(b) ==
    [who |-> ResolveRequester(b.peer, b.onBehalfOf), what |-> b.what,
     kind |-> b.kind, external |-> b.external]

\* Capability::decide.
Decide(r) ==
    IF r.kind # "ordinary" \/ r.external THEN "RequireConfirmation"
    ELSE IF r.who \in autonomous_apps THEN "Proceed" ELSE "Propose"

\* classify.
Tier(r) ==
    CASE Decide(r) = "Proceed" -> "silent"
      [] Decide(r) = "Propose" -> "standard"
      [] OTHER -> "highstakes"

tier_rank == [silent |-> 0, standard |-> 1, highstakes |-> 2]

\* Mutant: the requester is forgotten.
SameQuestionOfScope(a, b) == ~a.external /\ ~b.external /\ a.what = b.what

\* queue::same_question.
SameQuestion(a, b) ==
    ~a.external /\ ~b.external /\ a.who = b.who /\ a.what = b.what

\* ConsentQueue::front: highest tier, earliest within the tier.
Ahead(p, q) ==
    \/ tier_rank[p.tier] > tier_rank[q.tier]
    \/ tier_rank[p.tier] = tier_rank[q.tier] /\ p.id <= q.id
IsFront(p) == p \in queue /\ \A q \in queue : Ahead(p, q)

HandleOf(x) == <<x.who, x.what>>

\* GrantStore::covers at the current time.
Live(g) == g.lifetime # "until" \/ now < g.at

\* Mutant: any live grant of the app is taken for an answer.
CoveredByApp(r) == \E g \in grants : g.who = r.who /\ Live(g)

Covered(r) == \E g \in grants : HandleOf(g) = HandleOf(r) /\ Live(g)

\* GrantStore::record: one grant per revocation handle, the last one wins.
Replace(G, g) == {h \in G : HandleOf(h) # HandleOf(g)} \cup {g}

\* Reversibility::of: with no material cost.
Reversible(kind) == kind = "ordinary"

\* control::gate_remember.
GateRemember(kind, outcome) ==
    IF outcome \in {"remembered", "window"} /\ ~Reversible(kind) THEN "once" ELSE outcome

\* grant::mint_grant; the empty set when nothing is minted.
MintGrant(r, outcome, time) ==
    CASE outcome = "window" ->
            {[who |-> r.who, what |-> r.what, lifetime |-> "until", at |-> time + GESTURE_WINDOW]}
      [] outcome = "remembered" ->
            {[who |-> r.who, what |-> r.what, lifetime |-> "persistent", at |-> 0]}
      [] OTHER -> {}

\* persist_consent_grant keeps the instant a grant expires, not its lifetime.
Node(g) ==
    [who |-> g.who, what |-> g.what, lifetime |-> IF g.lifetime = "until" THEN "until" ELSE "open",
     at |-> g.at]

ConferredGrant(app, path) == [who |-> app, what |-> path, lifetime |-> "session", at |-> 0]
-----------------------------------------------------------------------------
Nodes == [who : Apps, what : Whats, lifetime : {"until", "open"}, at : Nat]
Grants == [who : Apps, what : Whats, lifetime : {"until", "persistent", "session"}, at : Nat]

Pending == [id : Nat, req : Requests, tier : {"standard", "highstakes"}]

Conns == [state : {"idle", "waiting", "answered", "silent", "covered", "uncovered", "closed"},
          id : Nat, epoch : Nat, reply : Outcomes \cup {"none"}]

\* An operation on its way: what it decided, when, for whom, and who waits.
Ops == [phase : {"audit", "audited", "refused", "persist", "reply", "revoking"},
        op : {"resolve", "confer", "revoke"}, id : Nat, who : Apps, what : Whats,
        reply : Outcomes, grant : SUBSET Grants, waiting : SUBSET Callers, at : Nat]

Idle == [phase |-> "idle"]

\* The ledger's entries are content-free; here each one is also labelled with
\* the broker lifetime, request, scope and instant of the decision it records.
Entries == [op : {"resolve", "confer", "revoke"}, epoch : Nat, id : Nat, who : Apps,
            what : Whats, reply : Outcomes, at : Nat]

NoRequest == [who |-> NoApp]

TypeOK ==
    /\ queue \subseteq Pending
    /\ nextId \in Nat
    /\ waiters \subseteq Nat \X Callers
    /\ grants \subseteq Grants
    /\ conn \in [Callers -> Conns]
    /\ asked \in [Callers -> Requests \cup {NoRequest}]
    /\ ctl \in [Handlers -> Ops \cup {Idle}]
    /\ ledger \subseteq Entries
    /\ kg \subseteq Nodes
    /\ now \in 0 .. MaxTime
    /\ restarts \in 0 .. MaxRestarts
    /\ managed \in 0 .. MaxManaged
    /\ revoked \subseteq Handles
    /\ overtaken \subseteq Handlers

NewConn == [state |-> "idle", id |-> 0, epoch |-> 0, reply |-> "none"]

Init ==
    /\ queue = {}
    /\ nextId = 0
    /\ waiters = {}
    /\ grants = {}
    /\ conn = [c \in Callers |-> NewConn]
    /\ asked = [c \in Callers |-> NoRequest]
    /\ ctl = [k \in Handlers |-> Idle]
    /\ ledger = {}
    /\ kg = {}
    /\ now = 0
    /\ restarts = 0
    /\ managed = 0
    /\ revoked = {}
    /\ overtaken = {}
-----------------------------------------------------------------------------
(* Intake. *)

\* handle_intake_conn drops a peer it cannot attest, that sends no frame in
\* time or whose frame does not parse.
IntakeDropped(c) ==
    /\ conn[c].state = "idle"
    /\ conn' = [conn EXCEPT ![c].state = "closed"]
    /\ UNCHANGED <<memory, asked, outside, history>>

Receive(c, b) ==
    /\ conn[c].state = "idle"
    /\ asked' = [asked EXCEPT ![c] = Assemble(b)]
    /\ UNCHANGED <<grants, ctl, outside, history>>

\* A check_only request reads the coverage and queues nothing.
IntakeCheck(c, b) ==
    /\ Receive(c, b)
    /\ b.check
    /\ conn' = [conn EXCEPT ![c].state = IF Covered(Assemble(b)) THEN "covered" ELSE "uncovered"]
    /\ UNCHANGED <<queue, nextId, waiters>>

\* A grant may stand in for a Standard answer only.
NeedsNoDialog(r) ==
    \/ Tier(r) = "standard" /\ ~r.external /\ Covered(r)
    \/ Tier(r) = "silent"

IntakeSilent(c, b) ==
    /\ Receive(c, b)
    /\ ~b.check /\ NeedsNoDialog(Assemble(b))
    /\ conn' = [conn EXCEPT ![c].state = "silent"]
    /\ UNCHANGED <<queue, nextId, waiters>>

\* Mutant: a second caller takes the place of the first.
ParkReplacing(c, id) ==
    /\ waiters' = {w \in waiters : w[1] # id} \cup {<<id, c>>}
    /\ conn' = [conn EXCEPT ![c] = [state |-> "waiting", id |-> id, epoch |-> restarts,
                                    reply |-> "none"]]

\* The caller is parked under a request id.
Park(c, id) ==
    /\ waiters' = waiters \cup {<<id, c>>}
    /\ conn' = [conn EXCEPT ![c] = [state |-> "waiting", id |-> id, epoch |-> restarts,
                                    reply |-> "none"]]

IntakeJoins(c, b) ==
    /\ Receive(c, b)
    /\ ~b.check /\ ~NeedsNoDialog(Assemble(b))
    /\ \E p \in queue : SameQuestion(p.req, Assemble(b)) /\ Park(c, p.id)
    /\ UNCHANGED <<queue, nextId>>

\* Mutant: enqueue does not look for the same question.
IntakeQueuesAgain(c, b) ==
    LET r == Assemble(b) IN
    /\ Receive(c, b)
    /\ ~b.check /\ ~NeedsNoDialog(r)
    /\ queue' = queue \cup {[id |-> nextId, req |-> r, tier |-> Tier(r)]}
    /\ nextId' = nextId + 1
    /\ Park(c, nextId)

IntakeQueues(c, b) ==
    LET r == Assemble(b) IN
    /\ Receive(c, b)
    /\ ~b.check /\ ~NeedsNoDialog(r)
    /\ \A p \in queue : ~SameQuestion(p.req, r)
    /\ queue' = queue \cup {[id |-> nextId, req |-> r, tier |-> Tier(r)]}
    /\ nextId' = nextId + 1
    /\ Park(c, nextId)

\* A caller that exits while its dialog is open is noticed only when its
\* answer is sent: its waiter stays.
CallerLeaves(c) ==
    /\ conn[c].state = "waiting"
    /\ conn' = [conn EXCEPT ![c].state = "closed"]
    /\ UNCHANGED <<memory, asked, outside, history>>
-----------------------------------------------------------------------------
(* Control: resolve, confer and revoke.  A resolve of an id that is not      *)
(* pending, and a revoke of an unknown handle, change nothing.               *)

WaitingFor(id) == {c \in Callers : <<id, c>> \in waiters}

Manage == managed < MaxManaged /\ managed' = managed + 1

Begin(k, o) ==
    /\ ctl[k] = Idle
    /\ ctl' = [ctl EXCEPT ![k] = o]

\* SharedState::resolve, step 1, under the lock: the request leaves the queue
\* with its waiters and the decision is stamped.
Resolve(k, p, outcome) ==
    LET reply == GateRemember(p.req.kind, outcome) IN
    /\ p \in queue
    /\ Begin(k, [phase |-> "audit", op |-> "resolve", id |-> p.id, who |-> p.req.who,
                 what |-> p.req.what, reply |-> reply, grant |-> MintGrant(p.req, reply, now),
                 waiting |-> WaitingFor(p.id), at |-> now])
    /\ queue' = queue \ {p}
    /\ waiters' = {w \in waiters : w[1] # p.id}
    /\ UNCHANGED <<nextId, grants, conn, asked, outside, history>>

\* SharedState::confer_from_gesture starts by submitting its audit entry.
Confer(k, app, path) ==
    /\ Manage
    /\ Begin(k, [phase |-> "audit", op |-> "confer", id |-> 0, who |-> app, what |-> path,
                 reply |-> "once", grant |-> {ConferredGrant(app, path)}, waiting |-> {},
                 at |-> now])
    /\ UNCHANGED <<queue, nextId, waiters, grants, conn, asked, ledger, kg, now, restarts, history>>

\* A grant on its way into the store under this handle.
Deciding(o, handle) ==
    o # Idle /\ o.phase \in {"audit", "audited"} /\ o.grant # {} /\ HandleOf(o) = handle

Finish(k) ==
    /\ ctl' = [ctl EXCEPT ![k] = Idle]
    /\ overtaken' = overtaken \ {k}

Entry(o) ==
    [op |-> o.op, epoch |-> restarts, id |-> o.id, who |-> o.who, what |-> o.what,
     reply |-> o.reply, at |-> o.at]

\* The audit daemon acknowledges the entry.
AuditOk(k) ==
    /\ ctl[k].phase = "audit"
    /\ ledger' = ledger \cup {Entry(ctl[k])}
    /\ ctl' = [ctl EXCEPT ![k].phase = "audited"]
    /\ UNCHANGED <<queue, nextId, waiters, grants, conn, asked, kg, now, restarts, managed, history>>

\* The submit fails or times out, with or without the entry being recorded:
\* a decision becomes a denial, a conferral is given up.
AuditErr(k) ==
    /\ ctl[k].phase = "audit"
    /\ ledger' \in {ledger, ledger \cup {Entry(ctl[k])}}
    /\ ctl' = [ctl EXCEPT ![k].phase = "refused"]
    /\ UNCHANGED <<queue, nextId, waiters, grants, conn, asked, kg, now, restarts, managed, history>>

\* Mutant: the grant is recorded without waiting for the audit.
RecordAtOnce(k) ==
    /\ ctl[k].phase \in {"audit", "audited"}
    /\ \E g \in ctl[k].grant : grants' = Replace(grants, g)
    /\ ctl' = [ctl EXCEPT ![k].phase = "persist"]
    /\ UNCHANGED <<queue, nextId, waiters, conn, asked, outside, history>>

\* Mutant: a window is measured from the moment it is recorded.
RecordRestamped(k) ==
    /\ ctl[k].phase = "audited"
    /\ \E g \in ctl[k].grant :
          grants' = Replace(grants, IF g.lifetime = "until"
                                    THEN [g EXCEPT !.at = now + GESTURE_WINDOW] ELSE g)
    /\ ctl' = [ctl EXCEPT ![k].phase = "persist"]
    /\ UNCHANGED <<queue, nextId, waiters, conn, asked, outside, history>>

\* The lock is taken again and the grant is recorded.
Record(k) ==
    /\ ctl[k].phase = "audited"
    /\ \E g \in ctl[k].grant : grants' = Replace(grants, g)
    /\ ctl' = [ctl EXCEPT ![k].phase = "persist"]
    /\ UNCHANGED <<queue, nextId, waiters, conn, asked, outside, history>>

\* GrantPersister::persist merges the node into the graph, or fails.
Persist(k) ==
    /\ ctl[k].phase = "persist"
    /\ kg' = kg \/ \E g \in ctl[k].grant : kg' = Replace(kg, Node(g))
    /\ ctl' = [ctl EXCEPT ![k].phase = "reply"]
    /\ UNCHANGED <<queue, nextId, waiters, grants, conn, asked, ledger, now, restarts, managed, history>>

\* Mutant: the answer goes out before the grant is recorded.
ReadyToReplyEarly(o) == o.phase \in {"audited", "refused", "reply"}

\* Mutant: a decision that could not be audited returns without an answer.
ReadyToReplyIfAudited(o) == o.phase = "reply" \/ (o.phase = "audited" /\ o.grant = {})

ReadyToReply(o) ==
    \/ o.phase \in {"refused", "reply"}
    \/ o.phase = "audited" /\ o.grant = {}

\* What the callers are told: the decision, or a denial if it was not audited.
ReplyOf(o) == IF o.phase = "refused" THEN "denied" ELSE o.reply

\* Every waiter taken in step 1 gets the same answer; one that has left does
\* not matter.
Reply(k) ==
    /\ ReadyToReply(ctl[k])
    /\ conn' = [c \in Callers |->
                  IF c \in ctl[k].waiting /\ conn[c].state = "waiting"
                  THEN [conn[c] EXCEPT !.state = "answered", !.reply = ReplyOf(ctl[k])]
                  ELSE conn[c]]
    /\ Finish(k)
    /\ UNCHANGED <<queue, nextId, waiters, grants, asked, outside, revoked>>

\* SharedState::revoke_grant: the removal under the lock.
Revoke(k, g) ==
    /\ Manage
    /\ g \in grants
    /\ Begin(k, [phase |-> "revoking", op |-> "revoke", id |-> 0, who |-> g.who, what |-> g.what,
                 reply |-> "denied", grant |-> {}, waiting |-> {}, at |-> now])
    /\ grants' = grants \ {g}
    /\ revoked' = revoked \cup {HandleOf(g)}
    /\ overtaken' = overtaken \cup {j \in Handlers : Deciding(ctl[j], HandleOf(g))}
    /\ UNCHANGED <<queue, nextId, waiters, conn, asked, ledger, kg, now, restarts>>

\* Its audit entry is best-effort.
RevokeAudit(k) ==
    /\ ctl[k].phase = "revoking"
    /\ ledger' \in {ledger, ledger \cup {Entry(ctl[k])}}
    /\ Finish(k)
    /\ UNCHANGED <<queue, nextId, waiters, grants, conn, asked, kg, now, restarts, managed, revoked>>
-----------------------------------------------------------------------------
(* The clock, and a crash followed by systemd's restart: the queue, the      *)
(* waiters, the grants and the id counter live in memory only.               *)

Tick ==
    /\ now < MaxTime
    /\ now' = now + 1
    /\ UNCHANGED <<memory, conn, asked, ledger, kg, restarts, managed, history>>

Restart ==
    /\ restarts < MaxRestarts
    /\ restarts' = restarts + 1
    /\ queue' = {}
    /\ nextId' = 0
    /\ waiters' = {}
    /\ grants' = {}
    /\ ctl' = [k \in Handlers |-> Idle]
    /\ conn' = [c \in Callers |-> IF conn[c].state = "waiting"
                                  THEN [conn[c] EXCEPT !.state = "closed"] ELSE conn[c]]
    /\ revoked' = {}
    /\ overtaken' = {}
    /\ UNCHANGED <<asked, ledger, kg, now, managed>>
-----------------------------------------------------------------------------
Intake(c) ==
    \E b \in Bodies :
        IntakeCheck(c, b) \/ IntakeSilent(c, b) \/ IntakeJoins(c, b) \/ IntakeQueues(c, b)

\* The steps of an operation the broker has accepted.
Serve(k) == AuditOk(k) \/ AuditErr(k) \/ Record(k) \/ Persist(k) \/ Reply(k) \/ RevokeAudit(k)

\* The user answers whatever the shell shows: the front of the queue.
AnswerFront ==
    \E k \in Handlers, p \in queue, outcome \in Outcomes : IsFront(p) /\ Resolve(k, p, outcome)

Next ==
    \/ \E c \in Callers : Intake(c) \/ IntakeDropped(c) \/ CallerLeaves(c)
    \/ \E k \in Handlers, p \in queue, outcome \in Outcomes : Resolve(k, p, outcome)
    \/ \E k \in Handlers, app \in Apps, path \in Paths : Confer(k, app, path)
    \/ \E k \in Handlers, g \in grants : Revoke(k, g)
    \/ \E k \in Handlers : Serve(k)
    \/ Tick
    \/ Restart

Spec == Init /\ [][Next]_vars

\* Accepted operations are polled by the runtime and their awaits end (the
\* audit client times out, the graph write returns).  The user answers the
\* dialog that stays on the screen.  Strong fairness there: control connections
\* are served without a limit, the small set of handlers is the model's bound.
Fairness == (\A k \in Handlers : WF_vars(Serve(k))) /\ SF_vars(AnswerFront)

FairSpec == Spec /\ Fairness
-----------------------------------------------------------------------------
(* Properties. *)

\* A caller whose connection is held open is never forgotten: its dialog is
\* still in the queue with the caller among its waiters, or the decision on it
\* is on its way and will be sent to the caller.  (AlreadyPending joins instead
\* of replacing, resolve takes the waiters together with the request.)
NoOrphanedCaller ==
    \A c \in Callers : conn[c].state = "waiting" =>
        \/ <<conn[c].id, c>> \in waiters /\ \E p \in queue : p.id = conn[c].id
        \/ \E k \in Handlers : ctl[k] # Idle /\ c \in ctl[k].waiting

\* Audit before act: a caller that was told it may proceed has a ledger entry
\* with that outcome, for its own identity, class and scope, from the dialog it
\* was waiting on.
AllowedImpliesAudited ==
    \A c \in Callers : conn[c].state = "answered" /\ conn[c].reply # "denied" =>
        \E e \in ledger :
            /\ e.op = "resolve" /\ e.epoch = conn[c].epoch /\ e.id = conn[c].id
            /\ HandleOf(e) = HandleOf(asked[c]) /\ e.reply = conn[c].reply

\* The same question is in front of the user at most once: no two pending
\* requests that enqueue would have collapsed.
OneDialogPerQuestion ==
    \A p, q \in queue : SameQuestion(p.req, q.req) => p = q

\* What the ledger must say for a grant to exist.
Authorises(e, g) ==
    /\ HandleOf(e) = HandleOf(g)
    /\ g.lifetime = "until" => e.reply = "window"
    /\ g.lifetime = "persistent" => e.op = "resolve" /\ e.reply = "remembered"
    /\ g.lifetime = "session" => e.op = "confer"
    /\ g.lifetime = "open" => e.op = "confer" \/ e.reply = "remembered"

\* No standing authority without a record of who gave it: every grant in the
\* store and every Grant node in the graph has an audited decision, or an
\* audited gesture, behind it.
GrantsAreAudited == \A g \in grants \cup kg : \E e \in ledger : Authorises(e, g)

\* A window is measured from the moment the user acted, however long the audit
\* and the locks take: it ends GESTURE_WINDOW after an audited decision for its
\* handle.
WindowFromDecision ==
    \A g \in grants \cup kg : g.lifetime = "until" =>
        \E e \in ledger : Authorises(e, g) /\ g.at = e.at + GESTURE_WINDOW

\* A silent grant (and a "covered" answer) repeats an audited answer of the user
\* for exactly that app, class and scope, and stands in for a reversible,
\* not externally triggered request only; apps marked autonomous aside.
SilentRepeatsADecision ==
    \A c \in Callers :
        /\ conn[c].state = "silent" => asked[c].kind = "ordinary" /\ ~asked[c].external
        /\ conn[c].state \in {"silent", "covered"} =>
              \/ conn[c].state = "silent" /\ asked[c].who \in autonomous_apps
              \/ \E e \in ledger : HandleOf(e) = HandleOf(asked[c])
                                   /\ (e.op = "confer" \/ e.reply \in {"remembered", "window"})

\* A caller told that its answer was remembered can rely on it: as long as the
\* broker lives and nobody revokes the grant, the store has one for its handle.
RememberedBeforeReply ==
    \A c \in Callers :
        conn[c].state = "answered" /\ conn[c].epoch = restarts
          /\ conn[c].reply \in {"remembered", "window"} =>
            \/ \E g \in grants : HandleOf(g) = HandleOf(asked[c])
            \/ HandleOf(asked[c]) \in revoked

\* Every caller that waits is answered or gone in the end.
EveryCallerAnswered ==
    \A c \in Callers : conn[c].state = "waiting" ~> conn[c].state # "waiting"
-----------------------------------------------------------------------------
(* What the repository says and the code does not keep. *)

\* daemon.rs: revoking is unconditional.  A decision that was under way when its
\* handle was revoked leaves no grant behind.
RevokeIsUnconditional ==
    \A k \in overtaken : ctl[k].phase \in {"persist", "reply"} => ctl[k].grant \cap grants = {}
=============================================================================
