--------------------------- MODULE ConsentProofs ---------------------------
(***************************************************************************)
(* Theorems about ConsentBroker, and about ConsentShell in front of it: the*)
(* broker behind the shell is the broker of ConsentBroker, an answer       *)
(* reaches the question that was on screen, and a dialog that was answered *)
(* stays down.                                                             *)
(***************************************************************************)
EXTENDS ConsentShell, TLAPS, WellFoundedInduction

\* Caller c waits, or waited, for the answer to request id about this handle.
Parked(c, id, handle) ==
    /\ conn[c].state # "idle"
    /\ conn[c].id = id
    /\ conn[c].epoch = restarts
    /\ HandleOf(asked[c]) = handle

\* Ids in use are below the counter, so a new request meets no old waiter, and
\* an id names one request.
FreshInv ==
    /\ \A p \in queue : p.id < nextId
    /\ \A p, q \in queue : p.id = q.id => p = q
    /\ \A w \in waiters : w[1] < nextId

\* Whoever is parked under a pending request asked its question.
ParkInv ==
    \A p \in queue, c \in Callers :
        <<p.id, c>> \in waiters => Parked(c, p.id, HandleOf(p.req))

\* So did whoever an operation on its way is going to answer.
FlightInv ==
    \A k \in Handlers : ctl[k] # Idle =>
        \A c \in ctl[k].waiting : ctl[k].op = "resolve" /\ Parked(c, ctl[k].id, HandleOf(ctl[k]))

\* An operation carries the grant its decision mints, and past the audit its
\* entry is in the ledger.
OpInv ==
    \A k \in Handlers : ctl[k] # Idle =>
        /\ ctl[k].phase \in {"audited", "persist", "reply"} => Entry(ctl[k]) \in ledger
        /\ \A g \in ctl[k].grant :
              /\ Authorises(Entry(ctl[k]), g)
              /\ g.lifetime = "until" => g.at = ctl[k].at + GESTURE_WINDOW
        /\ ctl[k].op = "resolve" /\ ctl[k].reply \in {"remembered", "window"} => ctl[k].grant # {}
        /\ ctl[k].phase = "revoking" => ctl[k].op = "revoke"

\* A grant that was recorded is there until it is revoked.
Kept(handle) == (\E g \in grants : HandleOf(g) = handle) \/ handle \in revoked

RecordedInv ==
    \A k \in Handlers : ctl[k].phase \in {"persist", "reply"} => Kept(HandleOf(ctl[k]))

\* No connection is from a later lifetime of the broker.
EpochInv == \A c \in Callers : conn[c].epoch <= restarts

IInv ==
    /\ TypeOK /\ FreshInv /\ ParkInv /\ FlightInv /\ OpInv /\ RecordedInv /\ EpochInv
    /\ NoOrphanedCaller /\ AllowedImpliesAudited /\ OneDialogPerQuestion
    /\ GrantsAreAudited /\ WindowFromDecision /\ SilentRepeatsADecision /\ RememberedBeforeReply
-----------------------------------------------------------------------------
(* The operators the actions are built from. *)

\* Assemble resolves the requester to an app: the peer, or the subject a
\* trusted intermediary names.
LEMMA AssembleType ==
    ASSUME NEW b \in Bodies
    PROVE  Assemble(b) \in Requests
<1>1. b \in [peer : Apps, onBehalfOf : Apps \cup {NoApp}, what : Whats,
             kind : Kinds, external : BOOLEAN, check : BOOLEAN]
  BY BodiesAssumption, Zenon
<1>2. ResolveRequester(b.peer, b.onBehalfOf) \in Apps
  BY <1>1, Zenon DEF ResolveRequester
<1> QED  BY <1>1, <1>2, Zenon DEF Assemble, Requests

\* A request that shows a dialog has one of the two dialog tiers.
LEMMA DialogTier ==
    ASSUME NEW r, ~NeedsNoDialog(r)
    PROVE  Tier(r) \in {"standard", "highstakes"}
BY Zenon DEF NeedsNoDialog, Tier

\* gate_remember turns an outcome into an outcome.
LEMMA GateType ==
    ASSUME NEW kind, NEW outcome \in Outcomes
    PROVE  GateRemember(kind, outcome) \in Outcomes
BY Zenon DEF GateRemember, Outcomes

\* What mint_grant mints is a grant for the request's handle that the decision's
\* own entry authorises, and it mints one for every lasting allow.
LEMMA MintFacts ==
    ASSUME NEW r \in Requests, NEW outcome \in Outcomes, NEW time \in Nat
    PROVE  /\ MintGrant(r, outcome, time) \in SUBSET Grants
           /\ outcome \in {"remembered", "window"} => MintGrant(r, outcome, time) # {}
           /\ \A g \in MintGrant(r, outcome, time) :
                 /\ HandleOf(g) = HandleOf(r)
                 /\ g.lifetime \in {"until", "persistent"}
                 /\ g.lifetime = "until" => outcome = "window" /\ g.at = time + GESTURE_WINDOW
                 /\ g.lifetime = "persistent" => outcome = "remembered"
<1>1. r.who \in Apps /\ r.what \in Whats
  BY Zenon DEF Requests
<1>2. time + GESTURE_WINDOW \in Nat
  BY ClockAssumption
<1>3. CASE outcome = "window"
  <2> DEFINE g == [who |-> r.who, what |-> r.what, lifetime |-> "until", at |-> time + GESTURE_WINDOW]
  <2>1. MintGrant(r, outcome, time) = {g}
    BY <1>3, Zenon DEF MintGrant
  <2>2. g \in Grants
    BY <1>1, <1>2, Zenon DEF Grants
  <2>3. HandleOf(g) = HandleOf(r) /\ g.lifetime = "until" /\ g.at = time + GESTURE_WINDOW
    BY Zenon DEF HandleOf
  <2> HIDE DEF g
  <2> QED  BY <1>3, <2>1, <2>2, <2>3, Zenon
<1>4. CASE outcome = "remembered"
  <2> DEFINE g == [who |-> r.who, what |-> r.what, lifetime |-> "persistent", at |-> 0]
  <2>1. MintGrant(r, outcome, time) = {g}
    BY <1>4, Zenon DEF MintGrant
  <2>2. g \in Grants
    BY <1>1, Zenon DEF Grants
  <2>3. HandleOf(g) = HandleOf(r) /\ g.lifetime = "persistent"
    BY Zenon DEF HandleOf
  <2> HIDE DEF g
  <2> QED  BY <1>4, <2>1, <2>2, <2>3, Zenon
<1>5. CASE outcome \notin {"window", "remembered"}
  <2>1. MintGrant(r, outcome, time) = {}
    BY <1>5, Zenon DEF MintGrant
  <2> QED  BY <1>5, <2>1, Zenon
<1> QED  BY <1>3, <1>4, <1>5, Zenon

\* An operation in any phase but "idle" is a full record.
LEMMA OpType ==
    ASSUME TypeOK, NEW k \in Handlers, ctl[k] # Idle
    PROVE  ctl[k] \in Ops
BY Zenon DEF TypeOK

LEMMA BusyOp ==
    ASSUME TypeOK, NEW k \in Handlers, ctl[k].phase # "idle"
    PROVE  ctl[k] # Idle /\ ctl[k] \in Ops
BY DEF TypeOK, Idle

\* The entry of an operation has the ledger's type.
LEMMA EntryType ==
    ASSUME TypeOK, NEW k \in Handlers, ctl[k] # Idle
    PROVE  Entry(ctl[k]) \in Entries
<1>1. ctl[k] \in Ops
  BY OpType, Zenon
<1>2. restarts \in Nat
  BY ClockAssumption DEF TypeOK
<1> QED  BY <1>1, <1>2, Zenon DEF Entry, Entries, Ops

\* The graph node of a grant.
LEMMA NodeFacts ==
    ASSUME NEW g \in Grants
    PROVE  /\ Node(g) \in Nodes
           /\ HandleOf(Node(g)) = HandleOf(g)
           /\ Node(g).at = g.at
           /\ Node(g).lifetime = "until" <=> g.lifetime = "until"
           /\ \A e : Authorises(e, g) => Authorises(e, Node(g))
<1>1. g.lifetime = "until" => Node(g) = [who |-> g.who, what |-> g.what, lifetime |-> "until", at |-> g.at]
  BY Zenon DEF Node
<1>2. g.lifetime # "until" => Node(g) = [who |-> g.who, what |-> g.what, lifetime |-> "open", at |-> g.at]
  BY Zenon DEF Node
<1>3. g.who \in Apps /\ g.what \in Whats /\ g.at \in Nat /\ g.lifetime \in {"until", "persistent", "session"}
  BY Zenon DEF Grants
<1>4. CASE g.lifetime = "until"
  BY <1>1, <1>3, <1>4 DEF Nodes, HandleOf, Authorises
<1>5. CASE g.lifetime # "until"
  BY <1>2, <1>3, <1>5 DEF Nodes, HandleOf, Authorises
<1> QED  BY <1>4, <1>5, Zenon

\* record keeps one grant per handle: nothing but the new grant comes in, and no
\* handle is lost.
LEMMA ReplaceFacts ==
    ASSUME NEW G, NEW g
    PROVE  /\ \A x \in Replace(G, g) : x \in G \/ x = g
           /\ \A x \in G : \E y \in Replace(G, g) : HandleOf(y) = HandleOf(x)
           /\ g \in Replace(G, g)
BY DEF Replace
-----------------------------------------------------------------------------
(* The inductive invariant holds initially. *)

LEMMA InitIInv == Init => IInv
<1> SUFFICES ASSUME Init PROVE IInv
  BY Zenon
<1> USE DEF Init
<1>1. TypeOK
  <2>1. NewConn \in Conns
    BY Zenon DEF NewConn, Conns
  <2> QED  BY <2>1, ClockAssumption DEF TypeOK
<1>2. \A k \in Handlers : ctl[k] = Idle
  BY Zenon
<1>3. \A c \in Callers : conn[c].state = "idle" /\ conn[c].epoch = 0
  BY Zenon DEF NewConn
<1>4. FreshInv /\ ParkInv /\ FlightInv /\ OpInv /\ RecordedInv /\ EpochInv
  BY <1>2, <1>3 DEF FreshInv, ParkInv, FlightInv, OpInv, RecordedInv, EpochInv, Idle
<1>5. NoOrphanedCaller /\ AllowedImpliesAudited /\ OneDialogPerQuestion
  BY <1>3, Zenon DEF NoOrphanedCaller, AllowedImpliesAudited, OneDialogPerQuestion
<1>6. GrantsAreAudited /\ WindowFromDecision /\ SilentRepeatsADecision /\ RememberedBeforeReply
  BY <1>3, Zenon DEF GrantsAreAudited, WindowFromDecision, SilentRepeatsADecision, RememberedBeforeReply
<1> QED  BY <1>1, <1>4, <1>5, <1>6, Zenon DEF IInv
-----------------------------------------------------------------------------
(* Parts of the invariant that a step leaves alone. *)

LEMMA ConnFrame ==
    ASSUME IInv, UNCHANGED <<conn, asked, restarts>>, ledger \subseteq ledger'
    PROVE  EpochInv' /\ AllowedImpliesAudited' /\ SilentRepeatsADecision'
BY Zenon DEF IInv, EpochInv, AllowedImpliesAudited, SilentRepeatsADecision

LEMMA GrantFrame ==
    ASSUME IInv, UNCHANGED <<grants, kg>>, ledger \subseteq ledger'
    PROVE  GrantsAreAudited' /\ WindowFromDecision'
BY Zenon DEF IInv, GrantsAreAudited, WindowFromDecision

LEMMA QueueFrame ==
    ASSUME IInv, UNCHANGED <<queue, nextId, waiters, conn, asked, restarts>>
    PROVE  FreshInv' /\ ParkInv' /\ OneDialogPerQuestion'
BY DEF IInv, FreshInv, ParkInv, Parked, OneDialogPerQuestion

LEMMA KeptFrame ==
    ASSUME IInv, UNCHANGED <<conn, asked, restarts>>, \A h : Kept(h) => Kept(h)'
    PROVE  RememberedBeforeReply'
BY Zenon DEF IInv, RememberedBeforeReply, Kept

LEMMA OpFrame ==
    ASSUME IInv, UNCHANGED restarts, ledger \subseteq ledger',
           \A j \in Handlers : ctl'[j] = ctl[j] \/ ctl'[j] = Idle,
           \A h : Kept(h) => Kept(h)'
    PROVE  OpInv' /\ RecordedInv'
<1>1. OpInv'
  BY DEF IInv, OpInv, Entry
<1>2. RecordedInv'
  <2> SUFFICES ASSUME NEW j \in Handlers, ctl'[j].phase \in {"persist", "reply"}
               PROVE  Kept(HandleOf(ctl[j]))'
    BY Zenon DEF RecordedInv
  <2>1. ctl'[j] = ctl[j]
    BY DEF Idle
  <2>2. Kept(HandleOf(ctl[j]))
    BY <2>1, Zenon DEF IInv, RecordedInv
  <2>3. Kept(HandleOf(ctl'[j]))
    BY Zenon, <2>1, <2>2
  <2> QED  BY <2>1, <2>3, Zenon DEF Kept, HandleOf
<1> QED  BY SMTT(60), <1>1, <1>2

\* An operation that only moves to its next phase keeps the rest of its record.
Moves(k, x) ==
    /\ ctl' \in [Handlers -> Ops \cup {Idle}]
    /\ \A j \in Handlers : /\ ctl'[j] # Idle <=> ctl[j] # Idle
                           /\ j # k => ctl'[j] = ctl[j]
    /\ ctl[k] # Idle
    /\ ctl'[k].phase = x
    /\ ctl'[k].op = ctl[k].op /\ ctl'[k].id = ctl[k].id /\ ctl'[k].at = ctl[k].at
    /\ ctl'[k].reply = ctl[k].reply /\ ctl'[k].grant = ctl[k].grant
    /\ ctl'[k].waiting = ctl[k].waiting
    /\ HandleOf(ctl'[k]) = HandleOf(ctl[k])
    /\ Entry(ctl[k])' = Entry(ctl[k])

LEMMA PhaseStep ==
    ASSUME TypeOK, UNCHANGED restarts,
           NEW k \in Handlers, ctl[k].phase # "idle",
           NEW x \in {"audited", "refused", "persist", "reply"},
           ctl' = [ctl EXCEPT ![k].phase = x]
    PROVE  Moves(k, x)
<1>1. ctl[k] # Idle /\ ctl[k] \in Ops
  BY BusyOp, Zenon
<1>2. ctl \in [Handlers -> Ops \cup {Idle}]
  BY Zenon DEF TypeOK
<1> DEFINE o == [ctl[k] EXCEPT !.phase = x]
<1>3. ctl' = [ctl EXCEPT ![k] = o]
  BY <1>2, Zenon
<1>4. ctl'[k] = o
  BY <1>2, <1>3, Zenon
<1>5. o \in Ops /\ o.phase = x
  BY <1>1, Zenon DEF Ops
<1>6. /\ o.op = ctl[k].op /\ o.id = ctl[k].id /\ o.at = ctl[k].at /\ o.who = ctl[k].who
      /\ o.what = ctl[k].what /\ o.reply = ctl[k].reply /\ o.grant = ctl[k].grant
      /\ o.waiting = ctl[k].waiting
  BY <1>1, Zenon DEF Ops
<1>7. o # Idle
  BY <1>5, Zenon DEF Idle
<1> HIDE DEF o
<1>8. ctl' \in [Handlers -> Ops \cup {Idle}] /\ \A j \in Handlers : j # k => ctl'[j] = ctl[j]
  BY <1>2, <1>3, <1>5
<1>9. HandleOf(ctl'[k]) = HandleOf(ctl[k]) /\ Entry(ctl[k])' = Entry(ctl[k])
  BY <1>4, <1>6, Zenon DEF HandleOf, Entry
<1> QED  BY <1>1, <1>4, <1>5, <1>6, <1>7, <1>8, <1>9 DEF Moves

\* The invariants about operations, across such a step.
LEMMA PhaseFrame ==
    ASSUME IInv, UNCHANGED <<queue, waiters, conn, asked, restarts>>,
           NEW k \in Handlers, ctl[k].phase # "idle",
           NEW x \in {"audited", "refused", "persist", "reply"},
           ctl' = [ctl EXCEPT ![k].phase = x],
           ledger \subseteq ledger', x # "refused" => Entry(ctl[k]) \in ledger'
    PROVE  FlightInv' /\ OpInv' /\ NoOrphanedCaller'
<1>1. Moves(k, x)
  BY Zenon, PhaseStep DEF IInv
<1>2. FlightInv'
  <2>1. \A j \in Handlers : ctl[j] # Idle =>
          \A c \in ctl[j].waiting : ctl[j].op = "resolve" /\ Parked(c, ctl[j].id, HandleOf(ctl[j]))
    BY Zenon DEF IInv, FlightInv
  <2> SUFFICES ASSUME NEW j \in Handlers, ctl'[j] # Idle, NEW c \in ctl'[j].waiting
               PROVE  (ctl[j].op = "resolve" /\ Parked(c, ctl[j].id, HandleOf(ctl[j])))'
    BY Zenon DEF FlightInv
  <2>2. ctl'[j].op = "resolve" /\ Parked(c, ctl'[j].id, HandleOf(ctl'[j]))
    BY <1>1, <2>1 DEF Moves
  <2> QED  BY <2>2, Zenon DEF Parked, HandleOf
<1>3. NoOrphanedCaller'
  BY <1>1 DEF IInv, NoOrphanedCaller, Moves
<1>4. OpInv'
  <2> SUFFICES ASSUME NEW j \in Handlers, ctl'[j] # Idle
               PROVE  /\ ctl'[j].phase \in {"audited", "persist", "reply"} => Entry(ctl[j])' \in ledger'
                      /\ \A g \in ctl'[j].grant :
                            /\ Authorises(Entry(ctl[j])', g)
                            /\ g.lifetime = "until" => g.at = ctl'[j].at + GESTURE_WINDOW
                      /\ ctl'[j].op = "resolve" /\ ctl'[j].reply \in {"remembered", "window"}
                           => ctl'[j].grant # {}
                      /\ ctl'[j].phase = "revoking" => ctl'[j].op = "revoke"
    BY Zenon DEF OpInv, Authorises
  <2>1. OpInv
    BY Zenon DEF IInv
  <2>2. CASE j = k
    BY <1>1, <2>1, <2>2 DEF OpInv, Moves
  <2>3. CASE j # k
    <3>1. ctl'[j] = ctl[j] /\ ctl[j] # Idle
      BY <1>1, <2>3, Zenon DEF Moves
    <3>2. Entry(ctl[j])' = Entry(ctl[j])
      BY <3>1, Zenon DEF Entry
    <3> QED  BY <2>1, <3>1, <3>2, Zenon DEF OpInv
  <2> QED  BY Zenon, <2>2, <2>3
<1> QED  BY <1>2, <1>3, <1>4, Zenon
-----------------------------------------------------------------------------
(* The steps of an operation: each keeps the inductive invariant. *)

LEMMA AuditSteps ==
    ASSUME IInv, NEW k \in Handlers, AuditOk(k) \/ AuditErr(k)
    PROVE  IInv'
<1>1. UNCHANGED <<queue, nextId, waiters, grants, conn, asked, kg, now, restarts, managed, revoked, overtaken>>
  BY Zenon DEF AuditOk, AuditErr, history
<1>2. ctl[k].phase = "audit"
  BY Zenon DEF AuditOk, AuditErr
<1>3. PICK x \in {"audited", "refused"} :
        /\ ctl' = [ctl EXCEPT ![k].phase = x]
        /\ ledger' \in {ledger, ledger \cup {Entry(ctl[k])}}
        /\ x = "audited" => ledger' = ledger \cup {Entry(ctl[k])}
  BY Zenon DEF AuditOk, AuditErr
<1>4. TypeOK
  BY Zenon DEF IInv
<1>5. Moves(k, x)
  BY Zenon, <1>1, <1>2, <1>3, <1>4, PhaseStep
<1>6. ledger \subseteq ledger' /\ (x # "refused" => Entry(ctl[k]) \in ledger')
  BY <1>3, Zenon
<1>7. TypeOK'
  <2>1. Entry(ctl[k]) \in Entries
    BY <1>4, <1>5, EntryType, Zenon DEF Moves
  <2>2. ledger' \subseteq Entries
    BY <1>3, <1>4, <2>1, Zenon DEF TypeOK
  <2> QED  BY Zenon, <1>1, <1>4, <1>5, <2>2 DEF TypeOK, Moves
<1>8. FlightInv' /\ OpInv' /\ NoOrphanedCaller'
  BY ZenonT(60), <1>1, <1>2, <1>3, <1>6, PhaseFrame
<1>9. RecordedInv'
  <2> SUFFICES ASSUME NEW j \in Handlers, ctl'[j].phase \in {"persist", "reply"}
               PROVE  Kept(HandleOf(ctl[j]))'
    BY Zenon DEF RecordedInv
  <2>1. ctl'[j] = ctl[j]
    BY <1>5, Zenon DEF Moves
  <2>2. Kept(HandleOf(ctl[j]))
    BY Zenon, <2>1 DEF IInv, RecordedInv
  <2> QED  BY Zenon, <1>1, <2>1, <2>2 DEF Kept, HandleOf
<1>10. EpochInv' /\ AllowedImpliesAudited' /\ SilentRepeatsADecision'
  BY <1>1, <1>6, ConnFrame, Zenon
<1>11. GrantsAreAudited' /\ WindowFromDecision'
  BY <1>1, <1>6, GrantFrame, Zenon
<1>12. FreshInv' /\ ParkInv' /\ OneDialogPerQuestion'
  BY <1>1, QueueFrame, Zenon
<1>13. RememberedBeforeReply'
  BY ZenonT(60), <1>1, KeptFrame DEF Kept
<1> QED  BY <1>7, <1>8, <1>9, <1>10, <1>11, <1>12, <1>13, Zenon DEF IInv

LEMMA RecordStep ==
    ASSUME IInv, NEW k \in Handlers, Record(k)
    PROVE  IInv'
<1>1. UNCHANGED <<queue, nextId, waiters, conn, asked, ledger, kg, now, restarts, managed, revoked, overtaken>>
  BY Zenon DEF Record, outside, history
<1>2. ctl[k].phase = "audited" /\ ctl' = [ctl EXCEPT ![k].phase = "persist"]
  BY Zenon DEF Record
<1>3. PICK g \in ctl[k].grant : grants' = Replace(grants, g)
  BY Zenon DEF Record
<1>4. TypeOK
  BY Zenon DEF IInv
<1>5. Moves(k, "persist")
  BY Zenon, <1>1, <1>2, <1>4, PhaseStep
<1>6. ctl[k] # Idle /\ ctl[k] \in Ops
  BY Zenon, <1>2, <1>4, BusyOp
<1>7. /\ Entry(ctl[k]) \in ledger
      /\ Authorises(Entry(ctl[k]), g)
      /\ g.lifetime = "until" => g.at = Entry(ctl[k]).at + GESTURE_WINDOW
      /\ HandleOf(g) = HandleOf(ctl[k])
  <2>1. /\ Entry(ctl[k]) \in ledger /\ Authorises(Entry(ctl[k]), g)
        /\ g.lifetime = "until" => g.at = ctl[k].at + GESTURE_WINDOW
    BY SMTT(60), <1>2, <1>6 DEF IInv, OpInv
  <2>2. Entry(ctl[k]).at = ctl[k].at /\ HandleOf(Entry(ctl[k])) = HandleOf(ctl[k])
    BY Zenon DEF Entry, HandleOf
  <2> QED  BY <2>1, <2>2, Zenon DEF Authorises
<1>8. /\ \A x \in grants' : x \in grants \/ x = g
      /\ \A x \in grants : \E y \in grants' : HandleOf(y) = HandleOf(x)
      /\ g \in grants'
  BY <1>3, ReplaceFacts
<1>9. \A h : Kept(h) => Kept(h)'
  BY ZenonT(60), <1>1, <1>8 DEF Kept
<1>10. TypeOK'
  <2>1. grants' \subseteq Grants
    BY <1>4, <1>6, <1>8, Zenon DEF TypeOK, Ops
  <2> QED  BY <1>1, <1>4, <1>5, <2>1, Zenon DEF TypeOK, Moves
<1>11. FlightInv' /\ OpInv' /\ NoOrphanedCaller'
  BY Zenon, <1>1, <1>2, <1>7, PhaseFrame
<1>12. RecordedInv'
  <2> SUFFICES ASSUME NEW j \in Handlers, ctl'[j].phase \in {"persist", "reply"}
               PROVE  Kept(HandleOf(ctl[j]))'
    BY Zenon DEF RecordedInv
  <2>1. CASE j = k
    BY Zenon, <1>5, <1>7, <1>8, <2>1 DEF Kept, Moves
  <2>2. CASE j # k
    BY Zenon, <1>5, <1>9, <2>2 DEF IInv, RecordedInv, Moves
  <2> QED  BY <2>1, <2>2, Zenon
<1>13. EpochInv' /\ AllowedImpliesAudited' /\ SilentRepeatsADecision'
  BY ZenonT(60), <1>1, ConnFrame
<1>14. GrantsAreAudited' /\ WindowFromDecision'
  BY ZenonT(60), <1>1, <1>7, <1>8 DEF IInv, GrantsAreAudited, WindowFromDecision
<1>15. FreshInv' /\ ParkInv' /\ OneDialogPerQuestion'
  BY <1>1, QueueFrame, Zenon
<1>16. RememberedBeforeReply'
  BY <1>1, <1>9, KeptFrame, Zenon
<1> QED  BY ZenonT(60), <1>10, <1>11, <1>12, <1>13, <1>14, <1>15, <1>16 DEF IInv

LEMMA PersistStep ==
    ASSUME IInv, NEW k \in Handlers, Persist(k)
    PROVE  IInv'
<1>1. UNCHANGED <<queue, nextId, waiters, grants, conn, asked, ledger, now, restarts, managed, revoked, overtaken>>
  BY Zenon DEF Persist, history
<1>2. ctl[k].phase = "persist" /\ ctl' = [ctl EXCEPT ![k].phase = "reply"]
  BY Zenon DEF Persist
<1>3. TypeOK
  BY Zenon DEF IInv
<1>4. Moves(k, "reply")
  BY Zenon, <1>1, <1>2, <1>3, PhaseStep
<1>5. ctl[k] # Idle /\ ctl[k] \in Ops
  BY <1>2, <1>3, BusyOp, Zenon
<1>6. Entry(ctl[k]) \in ledger /\ Entry(ctl[k]).at = ctl[k].at
  BY <1>2, <1>5, Zenon DEF IInv, OpInv, Entry
<1>7. \A x \in kg' : \/ x \in kg
                     \/ /\ x \in Nodes
                        /\ Authorises(Entry(ctl[k]), x)
                        /\ x.lifetime = "until" => x.at = Entry(ctl[k]).at + GESTURE_WINDOW
  <2>1. CASE kg' = kg
    BY Zenon, <2>1
  <2>2. CASE \E g \in ctl[k].grant : kg' = Replace(kg, Node(g))
    <3>1. PICK g \in ctl[k].grant : kg' = Replace(kg, Node(g))
      BY <2>2, Zenon
    <3>2. g \in Grants
      BY Zenon, <1>5 DEF Ops
    <3>3. Authorises(Entry(ctl[k]), g) /\ (g.lifetime = "until" => g.at = ctl[k].at + GESTURE_WINDOW)
      BY <1>5, Zenon DEF IInv, OpInv
    <3>4. \A x \in kg' : x \in kg \/ x = Node(g)
      BY Zenon, <3>1, ReplaceFacts
    <3> QED  BY <1>6, <3>2, <3>3, <3>4, NodeFacts, Zenon
  <2> QED  BY <2>1, <2>2, Zenon DEF Persist
<1>8. TypeOK'
  <2>1. kg' \subseteq Nodes
    BY <1>3, <1>7, Zenon DEF TypeOK
  <2> QED  BY <1>1, <1>3, <1>4, <2>1, Zenon DEF TypeOK, Moves
<1>9. FlightInv' /\ OpInv' /\ NoOrphanedCaller'
  BY Zenon, <1>1, <1>2, <1>6, PhaseFrame
<1>10. RecordedInv'
  BY <1>1, <1>2, <1>4 DEF IInv, RecordedInv, Moves, Kept, HandleOf
<1>11. EpochInv' /\ AllowedImpliesAudited' /\ SilentRepeatsADecision'
  BY Zenon, <1>1, ConnFrame
<1>12. GrantsAreAudited' /\ WindowFromDecision'
  BY <1>1, <1>6, <1>7, Zenon DEF IInv, GrantsAreAudited, WindowFromDecision
<1>13. FreshInv' /\ ParkInv' /\ OneDialogPerQuestion'
  BY <1>1, QueueFrame, Zenon
<1>14. RememberedBeforeReply'
  BY <1>1, KeptFrame, Zenon DEF Kept
<1> QED  BY <1>8, <1>9, <1>10, <1>11, <1>12, <1>13, <1>14, Zenon DEF IInv

\* The waiters of an operation that is ready to reply are told what was audited.
LEMMA ReplyStep ==
    ASSUME IInv, NEW k \in Handlers, Reply(k)
    PROVE  IInv'
<1>1. UNCHANGED <<queue, nextId, waiters, grants, asked, ledger, kg, now, restarts, managed, revoked>>
  BY Zenon DEF Reply, outside
<1>2. ctl[k].phase \in {"refused", "reply"} \/ (ctl[k].phase = "audited" /\ ctl[k].grant = {})
  BY Zenon DEF Reply, ReadyToReply
<1>3. TypeOK
  BY Zenon DEF IInv
<1>4. ctl[k] # Idle /\ ctl[k] \in Ops
  BY <1>2, <1>3, BusyOp, Zenon
<1> DEFINE told == {c \in ctl[k].waiting : conn[c].state = "waiting"}
<1>5. \A c \in Callers : /\ c \in told =>
                              conn'[c] = [conn[c] EXCEPT !.state = "answered", !.reply = ReplyOf(ctl[k])]
                         /\ c \notin told => conn'[c] = conn[c]
  BY Zenon DEF Reply
<1>6. \A c \in Callers : conn[c] \in Conns
  BY <1>3, Zenon DEF TypeOK
<1>7. ReplyOf(ctl[k]) \in Outcomes
  BY <1>4, Zenon DEF ReplyOf, Ops, Outcomes
<1>8. \A c \in told : /\ c \in Callers /\ conn'[c] \in Conns
                      /\ conn'[c].state = "answered" /\ conn'[c].reply = ReplyOf(ctl[k])
                      /\ conn'[c].id = conn[c].id /\ conn'[c].epoch = conn[c].epoch
  <2> SUFFICES ASSUME NEW c \in told
               PROVE  /\ c \in Callers /\ conn'[c] \in Conns
                      /\ conn'[c].state = "answered" /\ conn'[c].reply = ReplyOf(ctl[k])
                      /\ conn'[c].id = conn[c].id /\ conn'[c].epoch = conn[c].epoch
    BY Zenon
  <2>1. c \in Callers
    BY <1>4, Zenon DEF Ops
  <2>2. conn'[c] = [conn[c] EXCEPT !.state = "answered", !.reply = ReplyOf(ctl[k])] /\ conn[c] \in Conns
    BY Zenon, <1>5, <1>6, <2>1
  <2> HIDE DEF told
  <2> QED  BY Zenon, <1>7, <2>1, <2>2 DEF Conns
<1>9. \A c \in told : c \in ctl[k].waiting /\ conn[c].state = "waiting"
  BY Zenon
<1>10. \A c \in Callers : conn[c].state = "waiting" /\ c \in ctl[k].waiting => c \in told
  BY Zenon
<1> HIDE DEF told
<1>11. ctl' = [ctl EXCEPT ![k] = Idle] /\ overtaken' = overtaken \ {k}
  BY Zenon DEF Reply, Finish
<1>12. ctl'[k] = Idle /\ \A j \in Handlers : j # k => ctl'[j] = ctl[j]
  BY <1>3, <1>11, Zenon DEF TypeOK
<1>13. TypeOK'
  <2>1. conn' \in [Callers -> Conns]
    <3>1. conn' = [c \in Callers |-> conn'[c]]
      BY Zenon DEF Reply
    <3> QED  BY Zenon, <1>5, <1>6, <1>8, <3>1
  <2>2. ctl' \in [Handlers -> Ops \cup {Idle}]
    BY <1>3, <1>11, Zenon DEF TypeOK
  <2> QED  BY <1>1, <1>3, <1>11, <2>1, <2>2, Zenon DEF TypeOK
<1>14. \A c \in Callers : \A id, h : Parked(c, id, h) => Parked(c, id, h)'
  BY Zenon, <1>1, <1>5, <1>8 DEF Parked
<1>15. FreshInv' /\ OneDialogPerQuestion'
  BY <1>1, Zenon DEF IInv, FreshInv, OneDialogPerQuestion
<1>16. ParkInv'
  BY Zenon, <1>1, <1>14 DEF IInv, ParkInv
<1>17. FlightInv'
  <2> SUFFICES ASSUME NEW j \in Handlers, ctl'[j] # Idle, NEW c \in ctl'[j].waiting
               PROVE  (ctl[j].op = "resolve" /\ Parked(c, ctl[j].id, HandleOf(ctl[j])))'
    BY Zenon DEF FlightInv
  <2>1. ctl'[j] = ctl[j]
    BY <1>12, Zenon
  <2>2. c \in Callers
    BY SMTT(60), <1>3, <2>1, OpType DEF Ops
  <2>3. ctl[j].op = "resolve" /\ Parked(c, ctl[j].id, HandleOf(ctl[j]))
    BY <2>1, Zenon DEF IInv, FlightInv
  <2>4. Parked(c, ctl[j].id, HandleOf(ctl[j])) => conn'[c].state # "idle" /\ conn'[c].id = ctl[j].id
          /\ conn'[c].epoch = restarts /\ HandleOf(asked[c]) = HandleOf(ctl[j])
    BY ZenonT(60), <1>5, <1>8, <2>2 DEF Parked
  <2> QED  BY Zenon, <1>1, <2>1, <2>3, <2>4 DEF Parked, HandleOf
<1>18. \A h : Kept(h) => Kept(h)'
  BY Zenon, <1>1 DEF Kept
<1>19. OpInv' /\ RecordedInv'
  BY Zenon, <1>1, <1>12, <1>18, OpFrame
<1>20. EpochInv'
  BY ZenonT(60), <1>1, <1>5, <1>8 DEF IInv, EpochInv
<1>21. NoOrphanedCaller'
  <2> SUFFICES ASSUME NEW c \in Callers, conn'[c].state = "waiting"
               PROVE  (\/ <<conn[c].id, c>> \in waiters /\ \E p \in queue : p.id = conn[c].id
                       \/ \E j \in Handlers : ctl[j] # Idle /\ c \in ctl[j].waiting)'
    BY Zenon DEF NoOrphanedCaller
  <2>1. c \notin told /\ conn'[c] = conn[c]
    BY Zenon, <1>5, <1>8
  <2>2. c \notin ctl[k].waiting
    BY Zenon, <1>10, <2>1
  <2> QED  BY SMTT(60), <1>1, <1>12, <2>1, <2>2 DEF IInv, NoOrphanedCaller
<1>22. AllowedImpliesAudited'
  <2> SUFFICES ASSUME NEW c \in Callers, conn'[c].state = "answered", conn'[c].reply # "denied"
               PROVE  \E e \in ledger : /\ e.op = "resolve" /\ e.epoch = conn'[c].epoch /\ e.id = conn'[c].id
                                        /\ HandleOf(e) = HandleOf(asked[c]) /\ e.reply = conn'[c].reply
    BY Zenon, <1>1 DEF AllowedImpliesAudited
  <2>1. CASE c \in told
    <3>1. ctl[k].phase # "refused" /\ conn'[c].reply = ctl[k].reply
      BY Zenon, <1>8, <2>1 DEF ReplyOf
    <3>2. Entry(ctl[k]) \in ledger
      BY Zenon, <1>2, <1>4, <3>1 DEF IInv, OpInv
    <3>3. ctl[k].op = "resolve" /\ Parked(c, ctl[k].id, HandleOf(ctl[k]))
      BY Zenon, <1>4, <1>9, <2>1 DEF IInv, FlightInv
    <3>4. /\ Entry(ctl[k]).op = "resolve" /\ Entry(ctl[k]).epoch = conn[c].epoch
          /\ Entry(ctl[k]).id = conn[c].id /\ HandleOf(Entry(ctl[k])) = HandleOf(asked[c])
          /\ Entry(ctl[k]).reply = ctl[k].reply
      BY Zenon, <3>3 DEF Parked, Entry, HandleOf
    <3>5. conn'[c].id = conn[c].id /\ conn'[c].epoch = conn[c].epoch
      BY Zenon, <1>8, <2>1
    <3> QED  BY Zenon, <3>1, <3>2, <3>4, <3>5
  <2>2. CASE c \notin told
    <3>1. conn'[c] = conn[c]
      BY Zenon, <1>5, <2>2
    <3>2. AllowedImpliesAudited
      BY Zenon DEF IInv
    <3> QED  BY <3>1, <3>2 DEF AllowedImpliesAudited
  <2> QED  BY Zenon, <2>1, <2>2
<1>23. GrantsAreAudited' /\ WindowFromDecision'
  BY <1>1, GrantFrame, Zenon
<1>24. SilentRepeatsADecision'
  BY ZenonT(60), <1>1, <1>5, <1>8 DEF IInv, SilentRepeatsADecision
<1>25. RememberedBeforeReply'
  <2> SUFFICES ASSUME NEW c \in Callers, conn'[c].state = "answered", conn'[c].epoch = restarts',
                      conn'[c].reply \in {"remembered", "window"}
               PROVE  Kept(HandleOf(asked[c]))
    BY <1>1, Zenon DEF RememberedBeforeReply, Kept
  <2>1. CASE c \in told
    <3>1. ctl[k].phase # "refused" /\ ctl[k].reply \in {"remembered", "window"}
      BY Zenon, <1>8, <2>1 DEF ReplyOf
    <3>2. ctl[k].op = "resolve" /\ Parked(c, ctl[k].id, HandleOf(ctl[k]))
      BY ZenonT(60), <1>4, <1>9, <2>1 DEF IInv, FlightInv
    <3>3. ctl[k].phase = "reply"
      BY <1>2, <1>4, <3>1, <3>2, Zenon DEF IInv, OpInv
    <3> QED  BY Zenon, <3>2, <3>3 DEF IInv, RecordedInv, Parked
  <2>2. CASE c \notin told
    BY Zenon, <1>1, <1>5, <2>2 DEF IInv, RememberedBeforeReply, Kept
  <2> QED  BY <2>1, <2>2, Zenon
<1> QED  BY <1>13, <1>15, <1>16, <1>17, <1>19, <1>20, <1>21, <1>22, <1>23, <1>24, <1>25, Zenon DEF IInv
-----------------------------------------------------------------------------
(* Decisions: what resolve, confer and revoke start with, and the audit of a
   revocation. *)

LEMMA RevokeAuditStep ==
    ASSUME IInv, NEW k \in Handlers, RevokeAudit(k)
    PROVE  IInv'
<1>1. UNCHANGED <<queue, nextId, waiters, grants, conn, asked, kg, now, restarts, managed, revoked>>
  BY Zenon DEF RevokeAudit
<1>2. ctl[k].phase = "revoking" /\ ledger' \in {ledger, ledger \cup {Entry(ctl[k])}}
  BY Zenon DEF RevokeAudit
<1>3. TypeOK
  BY Zenon DEF IInv
<1>4. ctl[k] # Idle /\ ctl[k] \in Ops
  BY <1>2, <1>3, BusyOp, Zenon
<1>5. ctl' = [ctl EXCEPT ![k] = Idle] /\ overtaken' = overtaken \ {k}
  BY Zenon DEF RevokeAudit, Finish
<1>6. ctl'[k] = Idle /\ \A j \in Handlers : j # k => ctl'[j] = ctl[j]
  BY <1>3, <1>5, Zenon DEF TypeOK
<1>7. ledger \subseteq ledger'
  BY <1>2, Zenon
<1>8. TypeOK'
  <2>1. ledger' \subseteq Entries
    BY <1>2, <1>3, <1>4, EntryType DEF TypeOK
  <2>2. ctl' \in [Handlers -> Ops \cup {Idle}]
    BY <1>3, <1>5, Zenon DEF TypeOK
  <2> QED  BY <1>1, <1>3, <1>5, <2>1, <2>2, Zenon DEF TypeOK
<1>9. FlightInv'
  BY SMTT(60), <1>1, <1>6 DEF IInv, FlightInv, Parked, HandleOf
<1>10. OpInv'
  BY SMTT(60), <1>1, <1>6, <1>7 DEF IInv, OpInv, Entry
<1>11. RecordedInv'
  BY SMTT(60), <1>1, <1>6 DEF IInv, RecordedInv, Kept, Idle, HandleOf
<1>12. NoOrphanedCaller'
  <2>1. ctl[k].waiting = {}
    BY <1>2, <1>4, Zenon DEF IInv, OpInv, FlightInv
  <2> QED  BY SMTT(60), <1>1, <1>6, <2>1 DEF IInv, NoOrphanedCaller
<1>13. EpochInv' /\ AllowedImpliesAudited' /\ SilentRepeatsADecision'
  BY <1>1, <1>7, ConnFrame, Zenon
<1>14. GrantsAreAudited' /\ WindowFromDecision'
  BY <1>1, <1>7, GrantFrame, Zenon
<1>15. FreshInv' /\ ParkInv' /\ OneDialogPerQuestion'
  BY <1>1, QueueFrame, Zenon
<1>16. RememberedBeforeReply'
  BY <1>1, KeptFrame, Zenon DEF Kept
<1> QED  BY <1>8, <1>9, <1>10, <1>11, <1>12, <1>13, <1>14, <1>15, <1>16, Zenon DEF IInv
-----------------------------------------------------------------------------
(* The steps that begin an operation. *)

\* A handler that was idle serves operation o.
Starts(k, o) ==
    /\ ctl[k] = Idle
    /\ ctl' \in [Handlers -> Ops \cup {Idle}]
    /\ ctl'[k] = o /\ o # Idle
    /\ \A j \in Handlers : j # k => ctl'[j] = ctl[j]

LEMMA BeginStep ==
    ASSUME TypeOK, NEW k \in Handlers, NEW o \in Ops, Begin(k, o)
    PROVE  Starts(k, o)
<1>1. o # Idle
  BY DEF Ops, Idle
<1> QED  BY <1>1, Zenon DEF TypeOK, Begin, Starts

\* A management call is counted up to its bound.
LEMMA ManagedType ==
    ASSUME managed \in 0 .. MaxManaged, managed < MaxManaged, managed' = managed + 1
    PROVE  managed' \in 0 .. MaxManaged
BY ClockAssumption

\* A caller waits for a pending request or for an operation: neither is lost
\* when an idle handler starts another operation.
LEMMA BeginOrphansNobody ==
    ASSUME NoOrphanedCaller, UNCHANGED <<queue, waiters, conn>>,
           NEW k \in Handlers, NEW o, Starts(k, o)
    PROVE  NoOrphanedCaller'
<1>1. \A j \in Handlers : ctl[j] # Idle => ctl'[j] = ctl[j]
  BY Zenon DEF Starts
<1> QED  BY <1>1 DEF NoOrphanedCaller

\* The invariants about operations, when one begins before its audit.
LEMMA BeginFrame ==
    ASSUME IInv, UNCHANGED <<conn, asked, restarts, ledger>>,
           NEW k \in Handlers, NEW o \in Ops, Starts(k, o),
           o.phase \in {"audit", "revoking"},
           \A c \in o.waiting : o.op = "resolve" /\ Parked(c, o.id, HandleOf(o)),
           \A g \in o.grant : /\ Authorises(Entry(o), g)
                              /\ g.lifetime = "until" => g.at = o.at + GESTURE_WINDOW,
           o.op = "resolve" /\ o.reply \in {"remembered", "window"} => o.grant # {},
           o.phase = "revoking" => o.op = "revoke",
           \A h : Kept(h) => Kept(h)'
    PROVE  FlightInv' /\ OpInv' /\ RecordedInv'
<1>1. \A j \in Handlers : ctl'[j] = o \/ ctl'[j] = ctl[j]
  BY Zenon DEF Starts
<1>2. FlightInv'
  <2> SUFFICES ASSUME NEW j \in Handlers, ctl'[j] # Idle, NEW c \in ctl'[j].waiting
               PROVE  (ctl[j].op = "resolve" /\ Parked(c, ctl[j].id, HandleOf(ctl[j])))'
    BY Zenon DEF FlightInv
  <2>1. ctl'[j].op = "resolve" /\ Parked(c, ctl'[j].id, HandleOf(ctl'[j]))
    BY ZenonT(60), <1>1 DEF IInv, FlightInv
  <2> QED  BY Zenon, <2>1 DEF Parked, HandleOf
<1>3. OpInv'
  <2> SUFFICES ASSUME NEW j \in Handlers, ctl'[j] # Idle
               PROVE  (/\ ctl[j].phase \in {"audited", "persist", "reply"} => Entry(ctl[j]) \in ledger
                       /\ \A g \in ctl[j].grant :
                             /\ Authorises(Entry(ctl[j]), g)
                             /\ g.lifetime = "until" => g.at = ctl[j].at + GESTURE_WINDOW
                       /\ ctl[j].op = "resolve" /\ ctl[j].reply \in {"remembered", "window"}
                            => ctl[j].grant # {}
                       /\ ctl[j].phase = "revoking" => ctl[j].op = "revoke")'
    BY Zenon DEF OpInv
  <2>1. OpInv
    BY Zenon DEF IInv
  <2>2. Entry(ctl[j])' = Entry(ctl'[j])
    BY Zenon DEF Entry
  <2>3. /\ ctl'[j].phase \in {"audited", "persist", "reply"} => Entry(ctl'[j]) \in ledger
        /\ \A g \in ctl'[j].grant :
              /\ Authorises(Entry(ctl'[j]), g)
              /\ g.lifetime = "until" => g.at = ctl'[j].at + GESTURE_WINDOW
        /\ ctl'[j].op = "resolve" /\ ctl'[j].reply \in {"remembered", "window"}
             => ctl'[j].grant # {}
        /\ ctl'[j].phase = "revoking" => ctl'[j].op = "revoke"
    BY SMTT(60), <1>1, <2>1 DEF OpInv
  <2> QED  BY Zenon, <2>2, <2>3
<1>4. RecordedInv'
  <2> SUFFICES ASSUME NEW j \in Handlers, ctl'[j].phase \in {"persist", "reply"}
               PROVE  Kept(HandleOf(ctl[j]))'
    BY ZenonT(60) DEF RecordedInv
  <2>1. ctl'[j] = ctl[j]
    BY <1>1, Zenon
  <2>2. Kept(HandleOf(ctl[j]))
    BY Zenon, <2>1 DEF IInv, RecordedInv
  <2>3. Kept(HandleOf(ctl'[j]))
    BY <2>1, <2>2, Zenon
  <2> QED  BY ZenonT(60), <2>1, <2>3 DEF Kept, HandleOf
<1> QED  BY SMTT(60), <1>2, <1>3, <1>4

\* The waiters leave with the request, the decision is stamped with its instant.
LEMMA ResolveStep ==
    ASSUME IInv, NEW k \in Handlers, NEW p \in queue, NEW outcome \in Outcomes,
           Resolve(k, p, outcome)
    PROVE  IInv'
<1> DEFINE reply == GateRemember(p.req.kind, outcome)
           minted == MintGrant(p.req, reply, now)
           o == [phase |-> "audit", op |-> "resolve", id |-> p.id, who |-> p.req.who,
                 what |-> p.req.what, reply |-> reply, grant |-> minted,
                 waiting |-> WaitingFor(p.id), at |-> now]
<1>1. /\ UNCHANGED <<nextId, grants, conn, asked, ledger, kg, now, restarts, managed, revoked, overtaken>>
      /\ Begin(k, o)
      /\ queue' = queue \ {p} /\ waiters' = {w \in waiters : w[1] # p.id}
  BY Zenon DEF Resolve, outside, history
<1>2. TypeOK
  BY Zenon DEF IInv
<1>3. p \in Pending /\ p.id \in Nat /\ p.req \in Requests /\ now \in Nat
  BY <1>2, ClockAssumption DEF TypeOK, Pending
<1>4. p.req.who \in Apps /\ p.req.what \in Whats
  BY <1>3, Zenon DEF Requests
<1>5. reply \in Outcomes
  BY GateType, Zenon
<1> HIDE DEF reply
<1>6. /\ minted \in SUBSET Grants
      /\ reply \in {"remembered", "window"} => minted # {}
      /\ \A g \in minted : /\ HandleOf(g) = HandleOf(p.req)
                           /\ g.lifetime \in {"until", "persistent"}
                           /\ g.lifetime = "until" => reply = "window" /\ g.at = now + GESTURE_WINDOW
                           /\ g.lifetime = "persistent" => reply = "remembered"
  BY <1>3, <1>5, MintFacts, Zenon
<1> HIDE DEF minted
<1>7. WaitingFor(p.id) \in SUBSET Callers /\ \A c \in WaitingFor(p.id) : <<p.id, c>> \in waiters
  BY Zenon DEF WaitingFor
<1>8. o \in Ops
  BY Zenon, <1>3, <1>4, <1>5, <1>6, <1>7 DEF Ops
<1>9. /\ o.phase = "audit" /\ o.op = "resolve" /\ o.id = p.id /\ HandleOf(o) = HandleOf(p.req)
      /\ o.reply = reply /\ o.grant = minted /\ o.waiting = WaitingFor(p.id) /\ o.at = now
  BY Zenon DEF HandleOf
<1>10. Entry(o).op = "resolve" /\ Entry(o).reply = reply /\ HandleOf(Entry(o)) = HandleOf(p.req)
  BY Zenon, <1>9 DEF Entry, HandleOf
<1> HIDE DEF o
<1>11. Starts(k, o)
  BY Zenon, <1>1, <1>2, <1>8, BeginStep
<1>12. TypeOK'
  BY ZenonT(60), <1>1, <1>2, <1>11 DEF TypeOK, Starts
<1>13. FlightInv' /\ OpInv' /\ RecordedInv'
  <2>1. \A c \in o.waiting : Parked(c, o.id, HandleOf(o))
    BY ZenonT(60), <1>7, <1>9 DEF IInv, ParkInv
  <2>2. \A g \in o.grant : Authorises(Entry(o), g)
    BY <1>6, <1>9, <1>10, Zenon DEF Authorises
  <2>3. \A h : Kept(h) => Kept(h)'
    BY <1>1, Zenon DEF Kept
  <2> QED  BY <1>1, <1>6, <1>8, <1>9, <1>11, <2>1, <2>2, <2>3, BeginFrame, Zenon
<1>14. FreshInv'
  BY Zenon, <1>1 DEF IInv, FreshInv
<1>15. ParkInv'
  BY SMTT(60), <1>1 DEF IInv, ParkInv, Parked
<1>16. OneDialogPerQuestion'
  BY Zenon, <1>1 DEF IInv, OneDialogPerQuestion
<1>17. NoOrphanedCaller'
  <2> SUFFICES ASSUME NEW c \in Callers, conn[c].state = "waiting"
               PROVE  (\/ <<conn[c].id, c>> \in waiters /\ \E q \in queue : q.id = conn[c].id
                       \/ \E j \in Handlers : ctl[j] # Idle /\ c \in ctl[j].waiting)'
    BY <1>1, Zenon DEF NoOrphanedCaller
  <2>1. CASE <<conn[c].id, c>> \in waiters /\ \E q \in queue : q.id = conn[c].id
    <3>1. CASE conn[c].id = p.id
      <4>1. c \in WaitingFor(p.id)
        BY Zenon, <2>1, <3>1 DEF WaitingFor
      <4> QED  BY <1>9, <1>11, <4>1, Zenon DEF Starts
    <3>2. CASE conn[c].id # p.id
      BY Zenon, <1>1, <2>1, <3>2
    <3> QED  BY Zenon, <3>1, <3>2
  <2>2. CASE \E j \in Handlers : ctl[j] # Idle /\ c \in ctl[j].waiting
    BY Zenon, <1>11, <2>2 DEF Starts
  <2> QED  BY Zenon, <2>1, <2>2 DEF IInv, NoOrphanedCaller
<1>18. EpochInv' /\ AllowedImpliesAudited' /\ SilentRepeatsADecision'
  BY Zenon, <1>1, ConnFrame
<1>19. GrantsAreAudited' /\ WindowFromDecision'
  BY Zenon, <1>1, GrantFrame
<1>20. RememberedBeforeReply'
  BY <1>1, KeptFrame, Zenon DEF Kept
<1> QED  BY ZenonT(60), <1>12, <1>13, <1>14, <1>15, <1>16, <1>17, <1>18, <1>19, <1>20 DEF IInv

LEMMA ConferStep ==
    ASSUME IInv, NEW k \in Handlers, NEW app \in Apps, NEW path \in Paths, Confer(k, app, path)
    PROVE  IInv'
<1> DEFINE g == ConferredGrant(app, path)
           o == [phase |-> "audit", op |-> "confer", id |-> 0, who |-> app, what |-> path,
                 reply |-> "once", grant |-> {g}, waiting |-> {}, at |-> now]
<1>1. /\ UNCHANGED <<queue, nextId, waiters, grants, conn, asked, ledger, kg, now, restarts, revoked, overtaken>>
      /\ Begin(k, o) /\ managed < MaxManaged /\ managed' = managed + 1
  BY ZenonT(60) DEF Confer, Manage, history
<1>2. TypeOK
  BY Zenon DEF IInv
<1>3. path \in Whats /\ now \in Nat
  BY <1>2, SetsAssumption, ClockAssumption DEF TypeOK
<1>4. g \in Grants /\ g.lifetime = "session" /\ HandleOf(g) = <<app, path>>
  BY Zenon, <1>3 DEF ConferredGrant, Grants, HandleOf
<1> HIDE DEF g
<1>5. o \in Ops
  BY ZenonT(60), <1>3, <1>4 DEF Ops, Outcomes
<1>6. /\ o.phase = "audit" /\ o.op = "confer" /\ o.waiting = {} /\ o.grant = {g}
      /\ Entry(o).op = "confer" /\ HandleOf(Entry(o)) = <<app, path>>
  BY Zenon DEF Entry, HandleOf
<1> HIDE DEF o
<1>7. Starts(k, o)
  BY Zenon, <1>1, <1>2, <1>5, BeginStep
<1>8. TypeOK'
  <2>1. managed' \in 0 .. MaxManaged
    <3>1. managed \in 0 .. MaxManaged
      BY Zenon, <1>2 DEF TypeOK
    <3> QED  BY Zenon, <1>1, <3>1, ManagedType
  <2> QED  BY Zenon, <1>1, <1>2, <1>7, <2>1 DEF TypeOK, Starts
<1>9. FlightInv' /\ OpInv' /\ RecordedInv'
  <2>1. Authorises(Entry(o), g)
    BY <1>4, <1>6, Zenon DEF Authorises
  <2>2. \A h : Kept(h) => Kept(h)'
    BY Zenon, <1>1 DEF Kept
  <2> QED  BY Zenon, <1>1, <1>4, <1>5, <1>6, <1>7, <2>1, <2>2, BeginFrame
<1>10. NoOrphanedCaller'
  <2>1. NoOrphanedCaller
    BY Zenon DEF IInv
  <2> QED  BY Zenon, <1>1, <1>7, <2>1, BeginOrphansNobody
<1>11. FreshInv' /\ ParkInv' /\ OneDialogPerQuestion'
  BY <1>1, QueueFrame, Zenon
<1>12. EpochInv' /\ AllowedImpliesAudited' /\ SilentRepeatsADecision'
  BY <1>1, ConnFrame, Zenon
<1>13. GrantsAreAudited' /\ WindowFromDecision'
  BY <1>1, GrantFrame, Zenon
<1>14. RememberedBeforeReply'
  BY Zenon, <1>1, KeptFrame DEF Kept
<1> QED  BY ZenonT(60), <1>8, <1>9, <1>10, <1>11, <1>12, <1>13, <1>14 DEF IInv

LEMMA RevokeStep ==
    ASSUME IInv, NEW k \in Handlers, NEW g \in grants, Revoke(k, g)
    PROVE  IInv'
<1> DEFINE o == [phase |-> "revoking", op |-> "revoke", id |-> 0, who |-> g.who, what |-> g.what,
                 reply |-> "denied", grant |-> {}, waiting |-> {}, at |-> now]
<1>1. /\ UNCHANGED <<queue, nextId, waiters, conn, asked, ledger, kg, now, restarts>>
      /\ Begin(k, o) /\ managed < MaxManaged /\ managed' = managed + 1
      /\ grants' = grants \ {g} /\ revoked' = revoked \cup {HandleOf(g)}
      /\ overtaken' = overtaken \cup {j \in Handlers : Deciding(ctl[j], HandleOf(g))}
  BY ZenonT(60) DEF Revoke, Manage
<1>2. TypeOK
  BY ZenonT(60) DEF IInv
<1>3. g \in Grants /\ now \in Nat
  <2>1. g \in Grants /\ now \in 0 .. MaxTime
    BY Zenon, <1>2 DEF TypeOK
  <2> QED  BY <2>1, ClockAssumption
<1>4. g.who \in Apps /\ g.what \in Whats
  BY ZenonT(60), <1>3 DEF Grants
<1>5. o \in Ops
  BY SMTT(60), <1>3, <1>4 DEF Ops, Outcomes
<1>6. o.phase = "revoking" /\ o.op = "revoke" /\ o.waiting = {} /\ o.grant = {}
  BY Zenon
<1> HIDE DEF o
<1>7. Starts(k, o)
  BY Zenon, <1>1, <1>2, <1>5, BeginStep
<1>8. TypeOK'
  <2>1. managed' \in 0 .. MaxManaged
    <3>1. managed \in 0 .. MaxManaged
      BY Zenon, <1>2 DEF TypeOK
    <3> QED  BY Zenon, <1>1, <3>1, ManagedType
  <2>2. revoked' \subseteq Handles
    <3>1. HandleOf(g) \in Handles
      BY Zenon, <1>4 DEF Handles, HandleOf
    <3>2. revoked \subseteq Handles
      BY Zenon, <1>2 DEF TypeOK
    <3> QED  BY Zenon, <1>1, <3>1, <3>2
  <2>3. overtaken' \subseteq Handlers /\ grants' \subseteq Grants
    BY <1>1, <1>2, Zenon DEF TypeOK
  <2> QED  BY ZenonT(60), <1>1, <1>2, <1>7, <2>1, <2>2, <2>3 DEF TypeOK, Starts
<1>9. \A h : Kept(h) => Kept(h)'
  BY Zenon, <1>1 DEF Kept
<1>10. FlightInv' /\ OpInv' /\ RecordedInv'
  BY Zenon, <1>1, <1>5, <1>6, <1>7, <1>9, BeginFrame
<1>11. NoOrphanedCaller'
  <2>1. NoOrphanedCaller
    BY Zenon DEF IInv
  <2> QED  BY Zenon, <1>1, <1>7, <2>1, BeginOrphansNobody
<1>12. FreshInv' /\ ParkInv' /\ OneDialogPerQuestion'
  BY Zenon, <1>1, QueueFrame
<1>13. EpochInv' /\ AllowedImpliesAudited' /\ SilentRepeatsADecision'
  BY Zenon, <1>1, ConnFrame
<1>14. GrantsAreAudited' /\ WindowFromDecision'
  BY Zenon, <1>1 DEF IInv, GrantsAreAudited, WindowFromDecision
<1>15. RememberedBeforeReply'
  BY <1>1, <1>9, KeptFrame, Zenon
<1> QED  BY ZenonT(60), <1>8, <1>10, <1>11, <1>12, <1>13, <1>14, <1>15 DEF IInv

(* Intake. *)

\* A connection that was idle is in no waiter list of a pending request and is
\* awaited by no operation.
LEMMA IdleIsUnknown ==
    ASSUME IInv, NEW c \in Callers, conn[c].state = "idle"
    PROVE  /\ \A p \in queue : <<p.id, c>> \notin waiters
           /\ \A k \in Handlers : ctl[k] # Idle => c \notin ctl[k].waiting
BY Zenon DEF IInv, ParkInv, FlightInv, Parked

\* The intake steps that settle a connection at once.
LEMMA SettleFrame ==
    ASSUME IInv, UNCHANGED <<memory, outside, history>>, NEW c \in Callers,
           NEW x \in {"closed", "covered", "uncovered", "silent"},
           conn' = [conn EXCEPT ![c].state = x],
           asked' \in [Callers -> Requests \cup {NoRequest}],
           \A d \in Callers : d # c \/ conn[c].state # "idle" => asked'[d] = asked[d],
           x = "silent" => asked'[c].kind = "ordinary" /\ ~asked'[c].external,
           x \in {"silent", "covered"} =>
              \/ x = "silent" /\ asked'[c].who \in autonomous_apps
              \/ \E e \in ledger : HandleOf(e) = HandleOf(asked'[c])
                                   /\ (e.op = "confer" \/ e.reply \in {"remembered", "window"})
    PROVE  IInv'
<1>1. UNCHANGED <<queue, nextId, waiters, grants, ctl, ledger, kg, now, restarts, managed, revoked, overtaken>>
  BY Zenon DEF memory, outside, history
<1>2. TypeOK
  BY Zenon DEF IInv
<1>3. conn[c] \in Conns /\ conn'[c] = [conn[c] EXCEPT !.state = x]
  BY <1>2, Zenon DEF TypeOK
<1>4. /\ conn'[c] \in Conns /\ conn'[c].state = x /\ conn'[c].id = conn[c].id
      /\ conn'[c].epoch = conn[c].epoch
  BY <1>3 DEF Conns
<1>5. \A d \in Callers : d # c => conn'[d] = conn[d]
  BY <1>2, Zenon DEF TypeOK
<1>6. TypeOK'
  <2>1. conn' \in [Callers -> Conns]
    BY <1>2, <1>4, <1>5, Zenon DEF TypeOK
  <2> QED  BY <1>1, <1>2, <2>1, Zenon DEF TypeOK
<1>7. \A d \in Callers : \A id, h : (d # c \/ conn[c].state # "idle") /\ Parked(d, id, h) =>
         conn'[d].state # "idle" /\ conn'[d].id = id /\ conn'[d].epoch = restarts
         /\ HandleOf(asked'[d]) = h
  BY <1>4, <1>5, Zenon DEF Parked
<1>8. FreshInv' /\ OneDialogPerQuestion'
  BY Zenon, <1>1 DEF IInv, FreshInv, OneDialogPerQuestion
<1>9. ParkInv'
  <2> SUFFICES ASSUME NEW p \in queue, NEW d \in Callers, <<p.id, d>> \in waiters
               PROVE  Parked(d, p.id, HandleOf(p.req))'
    BY <1>1, Zenon DEF ParkInv
  <2>1. Parked(d, p.id, HandleOf(p.req)) /\ (d # c \/ conn[c].state # "idle")
    BY Zenon, IdleIsUnknown DEF IInv, ParkInv
  <2> QED  BY <1>1, <1>7, <2>1, Zenon DEF Parked, HandleOf
<1>10. FlightInv'
  <2> SUFFICES ASSUME NEW k \in Handlers, ctl[k] # Idle, NEW d \in ctl[k].waiting
               PROVE  (ctl[k].op = "resolve" /\ Parked(d, ctl[k].id, HandleOf(ctl[k])))'
    BY <1>1, Zenon DEF FlightInv
  <2>1. d \in Callers
    BY <1>2, OpType, Zenon DEF Ops
  <2>2. ctl[k].op = "resolve" /\ Parked(d, ctl[k].id, HandleOf(ctl[k]))
    BY Zenon DEF IInv, FlightInv
  <2>3. d # c \/ conn[c].state # "idle"
    BY Zenon, IdleIsUnknown
  <2> QED  BY SMTT(60), <1>1, <1>7, <2>1, <2>2, <2>3 DEF Parked, HandleOf
<1>11. OpInv' /\ RecordedInv'
  BY <1>1 DEF IInv, OpInv, RecordedInv, Kept, Entry
<1>12. EpochInv'
  BY SMTT(60), <1>1, <1>4, <1>5 DEF IInv, EpochInv
<1>13. NoOrphanedCaller'
  BY SMTT(60), <1>1, <1>4, <1>5 DEF IInv, NoOrphanedCaller
<1>14. AllowedImpliesAudited' /\ RememberedBeforeReply'
  BY <1>1, <1>4, <1>5 DEF IInv, AllowedImpliesAudited, RememberedBeforeReply
<1>15. GrantsAreAudited' /\ WindowFromDecision'
  BY Zenon, <1>1, GrantFrame
<1>16. SilentRepeatsADecision'
  BY <1>1, <1>4, <1>5 DEF IInv, SilentRepeatsADecision
<1> QED  BY Zenon, <1>6, <1>8, <1>9, <1>10, <1>11, <1>12, <1>13, <1>14, <1>15, <1>16 DEF IInv

\* A covered request has an audited answer for its handle.
LEMMA CoveredFacts ==
    ASSUME IInv, NEW r, Covered(r)
    PROVE  \E e \in ledger : HandleOf(e) = HandleOf(r)
                             /\ (e.op = "confer" \/ e.reply \in {"remembered", "window"})
<1>1. PICK g \in grants : HandleOf(g) = HandleOf(r)
  BY Zenon DEF Covered
<1>2. g.lifetime \in {"until", "persistent", "session"}
  BY Zenon DEF IInv, TypeOK, Grants
<1>3. PICK e \in ledger : Authorises(e, g)
  BY Zenon DEF IInv, GrantsAreAudited
<1> QED  BY <1>1, <1>2, <1>3, Zenon DEF Authorises

\* Only an ordinary request that nobody triggered from outside needs no dialog.
LEMMA NoDialogFacts ==
    ASSUME NEW r \in Requests, NeedsNoDialog(r)
    PROVE  /\ r.kind = "ordinary" /\ ~r.external
           /\ r.who \in autonomous_apps \/ Covered(r)
<1>1. Decide(r) # "RequireConfirmation" /\ (Tier(r) = "silent" => Decide(r) = "Proceed")
  BY Zenon DEF NeedsNoDialog, Tier, Decide
<1>2. r.kind = "ordinary" /\ ~r.external /\ (Decide(r) = "Proceed" => r.who \in autonomous_apps)
  BY <1>1, Zenon DEF Decide
<1> QED  BY <1>1, <1>2, Zenon DEF NeedsNoDialog

LEMMA ClosingSteps ==
    ASSUME IInv, NEW c \in Callers, IntakeDropped(c) \/ CallerLeaves(c)
    PROVE  IInv'
<1>1. UNCHANGED <<memory, asked, outside, history>> /\ conn' = [conn EXCEPT ![c].state = "closed"]
  BY Zenon DEF IntakeDropped, CallerLeaves
<1>2. asked' \in [Callers -> Requests \cup {NoRequest}]
  BY <1>1, Zenon DEF IInv, TypeOK
<1> QED  BY Zenon, <1>1, <1>2, SettleFrame

\* What Receive does to the requests asked.
LEMMA ReceiveFacts ==
    ASSUME TypeOK, NEW c \in Callers, NEW b \in Bodies, Receive(c, b)
    PROVE  /\ conn[c].state = "idle"
           /\ asked' \in [Callers -> Requests \cup {NoRequest}]
           /\ asked'[c] = Assemble(b)
           /\ \A d \in Callers : d # c => asked'[d] = asked[d]
           /\ UNCHANGED <<grants, ctl, ledger, kg, now, restarts, managed, revoked, overtaken>>
BY AssembleType, Zenon DEF Receive, TypeOK, outside, history

LEMMA SettlingSteps ==
    ASSUME IInv, NEW c \in Callers, NEW b \in Bodies, IntakeCheck(c, b) \/ IntakeSilent(c, b)
    PROVE  IInv'
<1> DEFINE r == Assemble(b)
<1>1. UNCHANGED <<queue, nextId, waiters>> /\ Receive(c, b)
  BY Zenon DEF IntakeCheck, IntakeSilent
<1>2. /\ conn[c].state = "idle"
      /\ asked' \in [Callers -> Requests \cup {NoRequest}]
      /\ asked'[c] = r
      /\ \A d \in Callers : d # c => asked'[d] = asked[d]
      /\ UNCHANGED <<grants, ctl, ledger, kg, now, restarts, managed, revoked, overtaken>>
  BY <1>1, ReceiveFacts, Zenon DEF IInv
<1>3. UNCHANGED <<memory, outside, history>>
  BY <1>1, <1>2, Zenon DEF memory, outside, history
<1>4. r \in Requests
  BY AssembleType, Zenon
<1> HIDE DEF r
<1>5. CASE IntakeCheck(c, b)
  <2>1. PICK x \in {"covered", "uncovered"} :
          conn' = [conn EXCEPT ![c].state = x] /\ (x = "covered" => Covered(r))
    BY Zenon, <1>5 DEF IntakeCheck, r
  <2>2. x = "covered" => \E e \in ledger : HandleOf(e) = HandleOf(r)
                           /\ (e.op = "confer" \/ e.reply \in {"remembered", "window"})
    BY <2>1, CoveredFacts, Zenon
  <2> QED  BY Zenon, <1>2, <1>3, <2>1, <2>2, SettleFrame
<1>6. CASE IntakeSilent(c, b)
  <2>1. conn' = [conn EXCEPT ![c].state = "silent"] /\ NeedsNoDialog(r)
    BY <1>6, Zenon DEF IntakeSilent, r
  <2>2. r.kind = "ordinary" /\ ~r.external /\ (r.who \in autonomous_apps \/ Covered(r))
    BY <1>4, <2>1, NoDialogFacts, Zenon
  <2>3. r.who \in autonomous_apps
          \/ \E e \in ledger : HandleOf(e) = HandleOf(r)
                               /\ (e.op = "confer" \/ e.reply \in {"remembered", "window"})
    BY <2>2, CoveredFacts, Zenon
  <2> QED  BY Zenon, <1>2, <1>3, <2>1, <2>2, <2>3, SettleFrame
<1> QED  BY <1>5, <1>6, Zenon

\* A caller is parked under the request p, which is pending or new.
LEMMA ParkingSteps ==
    ASSUME IInv, NEW c \in Callers, NEW b \in Bodies, IntakeJoins(c, b) \/ IntakeQueues(c, b)
    PROVE  IInv'
<1> DEFINE r == Assemble(b)
<1>1. Receive(c, b) /\ ~NeedsNoDialog(r)
  BY Zenon DEF IntakeJoins, IntakeQueues
<1>2. /\ conn[c].state = "idle"
      /\ asked' \in [Callers -> Requests \cup {NoRequest}]
      /\ asked'[c] = r
      /\ \A d \in Callers : d # c => asked'[d] = asked[d]
      /\ UNCHANGED <<grants, ctl, ledger, kg, now, restarts, managed, revoked, overtaken>>
  BY <1>1, ReceiveFacts, Zenon DEF IInv
<1>3. TypeOK /\ FreshInv /\ OneDialogPerQuestion /\ restarts \in Nat /\ nextId \in Nat
  BY ClockAssumption DEF IInv, TypeOK
<1>4. r \in Requests
  BY AssembleType, Zenon
<1>5. Tier(r) \in {"standard", "highstakes"}
  BY <1>1, DialogTier, Zenon
<1> HIDE DEF r
<1>6. PICK p \in queue' :
        /\ p \in Pending /\ queue' = queue \cup {p} /\ HandleOf(p.req) = HandleOf(r)
        /\ p \in queue \/ (p.id = nextId /\ \A q \in queue : ~SameQuestion(q.req, p.req))
        /\ nextId' \in Nat /\ nextId <= nextId' /\ p.id < nextId'
        /\ Park(c, p.id)
  <2>1. CASE IntakeJoins(c, b)
    <3>1. PICK p \in queue : SameQuestion(p.req, r) /\ Park(c, p.id)
      BY <2>1, Zenon DEF IntakeJoins, r
    <3>2. UNCHANGED <<queue, nextId>>
      BY <2>1, Zenon DEF IntakeJoins
    <3>3. HandleOf(p.req) = HandleOf(r)
      BY <3>1, Zenon DEF SameQuestion, HandleOf
    <3>4. p \in Pending /\ p.id < nextId
      BY <1>3, Zenon DEF TypeOK, FreshInv
    <3>5. nextId' \in Nat /\ nextId <= nextId' /\ p.id < nextId' /\ queue' = queue \cup {p} /\ p \in queue'
      BY <1>3, <3>2, <3>4
    <3> QED  BY <3>1, <3>3, <3>4, <3>5, Zenon
  <2>2. CASE IntakeQueues(c, b)
    <3> DEFINE p == [id |-> nextId, req |-> r, tier |-> Tier(r)]
    <3>1. /\ queue' = queue \cup {p} /\ nextId' = nextId + 1 /\ Park(c, nextId)
          /\ \A q \in queue : ~SameQuestion(q.req, r)
      BY <2>2, Zenon DEF IntakeQueues, r
    <3>2. p \in Pending /\ p.id = nextId /\ p.req = r
      BY <1>3, <1>4, <1>5, Zenon DEF Pending
    <3> HIDE DEF p
    <3>3. p \in queue' /\ nextId' \in Nat /\ nextId <= nextId' /\ p.id < nextId'
      BY <1>3, <3>1, <3>2
    <3> QED  BY <3>1, <3>2, <3>3, Zenon
  <2> QED  BY <2>1, <2>2, Zenon
<1> DEFINE new == [state |-> "waiting", id |-> p.id, epoch |-> restarts, reply |-> "none"]
<1>7. waiters' = waiters \cup {<<p.id, c>>} /\ conn' = [conn EXCEPT ![c] = new]
  BY <1>6, Zenon DEF Park
<1>8. p.id \in Nat
  BY <1>6, Zenon DEF Pending
<1>9. new \in Conns /\ new.state = "waiting" /\ new.id = p.id /\ new.epoch = restarts
  BY <1>3, <1>8, Zenon DEF Conns
<1> HIDE DEF new
<1>10. conn'[c] = new /\ \A d \in Callers : d # c => conn'[d] = conn[d]
  BY Zenon, <1>3, <1>7 DEF TypeOK
<1>11. TypeOK'
  <2>1. conn' \in [Callers -> Conns]
    BY <1>3, <1>7, <1>9, Zenon DEF TypeOK
  <2>2. queue' \subseteq Pending /\ waiters' \subseteq Nat \X Callers
    BY <1>3, <1>6, <1>7, <1>8 DEF TypeOK
  <2> QED  BY Zenon, <1>2, <1>3, <1>6, <2>1, <2>2 DEF TypeOK
<1>12. FreshInv'
  <2>1. \A q \in queue : q.id \in Nat /\ q.id < nextId
    BY <1>3, Zenon DEF TypeOK, FreshInv, Pending
  <2>2. \A w \in waiters : w[1] \in Nat /\ w[1] < nextId
    BY <1>3, Zenon DEF TypeOK, FreshInv
  <2>3. \A q \in queue' : q.id < nextId'
    BY <1>3, <1>6, <2>1
  <2>4. \A w \in waiters' : w[1] < nextId'
    BY <1>3, <1>6, <1>7, <2>2
  <2>5. \A q, s \in queue' : q.id = s.id => q = s
    BY SMTT(60), <1>3, <1>6, <2>1 DEF FreshInv
  <2> QED  BY <2>3, <2>4, <2>5, Zenon DEF FreshInv
<1>13. OneDialogPerQuestion'
  BY <1>3, <1>6 DEF OneDialogPerQuestion, SameQuestion
<1>14. ParkInv'
  <2> SUFFICES ASSUME NEW q \in queue', NEW d \in Callers, <<q.id, d>> \in waiters'
               PROVE  Parked(d, q.id, HandleOf(q.req))'
    BY ZenonT(60) DEF ParkInv
  <2>1. CASE <<q.id, d>> \in waiters
    <3>1. q.id < nextId /\ q.id \in Nat
      BY <1>3, <2>1, Zenon DEF FreshInv, TypeOK
    <3>2. q \in queue
      BY SMTT(60), <1>3, <1>6, <3>1
    <3>3. Parked(d, q.id, HandleOf(q.req)) /\ d # c
      BY ZenonT(60), <1>2, <2>1, <3>2, IdleIsUnknown DEF IInv, ParkInv
    <3> QED  BY ZenonT(60), <1>2, <1>10, <3>3 DEF Parked, HandleOf
  <2>2. CASE <<q.id, d>> \notin waiters
    <3>1. d = c /\ q.id = p.id
      BY <1>7, <2>2, Zenon
    <3>2. q = p
      BY Zenon, <1>6, <1>12, <3>1 DEF FreshInv
    <3> QED  BY Zenon, <1>2, <1>6, <1>9, <1>10, <3>1, <3>2 DEF Parked, HandleOf
  <2> QED  BY <2>1, <2>2, Zenon
<1>15. FlightInv'
  <2> SUFFICES ASSUME NEW k \in Handlers, ctl[k] # Idle, NEW d \in ctl[k].waiting
               PROVE  (ctl[k].op = "resolve" /\ Parked(d, ctl[k].id, HandleOf(ctl[k])))'
    BY Zenon, <1>2 DEF FlightInv
  <2>1. d \in Callers /\ d # c
    BY Zenon, <1>2, <1>3, OpType, IdleIsUnknown DEF Ops
  <2>2. ctl[k].op = "resolve" /\ Parked(d, ctl[k].id, HandleOf(ctl[k]))
    BY ZenonT(60) DEF IInv, FlightInv
  <2> QED  BY Zenon, <1>2, <1>10, <2>1, <2>2 DEF Parked, HandleOf
<1>16. OpInv' /\ RecordedInv'
  <2>1. \A h : Kept(h) => Kept(h)'
    BY Zenon, <1>2 DEF Kept
  <2> QED  BY Zenon, <1>2, <2>1, OpFrame
<1>17. EpochInv'
  BY SMTT(60), <1>2, <1>3, <1>9, <1>10 DEF IInv, EpochInv
<1>18. NoOrphanedCaller'
  <2> SUFFICES ASSUME NEW d \in Callers, conn'[d].state = "waiting"
               PROVE  (\/ <<conn[d].id, d>> \in waiters /\ \E q \in queue : q.id = conn[d].id
                       \/ \E k \in Handlers : ctl[k] # Idle /\ d \in ctl[k].waiting)'
    BY Zenon DEF NoOrphanedCaller
  <2>1. CASE d = c
    BY SMTT(60), <1>6, <1>7, <1>9, <1>10, <2>1
  <2>2. CASE d # c
    <3>1. conn'[d] = conn[d]
      BY <1>10, <2>2, Zenon
    <3>2. NoOrphanedCaller /\ queue \subseteq queue' /\ waiters \subseteq waiters'
      BY ZenonT(60), <1>6, <1>7 DEF IInv
    <3> QED  BY <1>2, <3>1, <3>2 DEF NoOrphanedCaller
  <2> QED  BY <2>1, <2>2, Zenon
<1>19. AllowedImpliesAudited' /\ RememberedBeforeReply'
  <2>1. \A d \in Callers : conn'[d].state = "answered" => conn'[d] = conn[d]
    BY SMTT(60), <1>9, <1>10
  <2>2. AllowedImpliesAudited'
    BY SMTT(60), <1>2, <2>1 DEF IInv, AllowedImpliesAudited
  <2>3. RememberedBeforeReply'
    BY <1>2, <2>1, Zenon DEF IInv, RememberedBeforeReply
  <2> QED  BY <2>2, <2>3, Zenon
<1>20. GrantsAreAudited' /\ WindowFromDecision'
  BY ZenonT(60), <1>2, GrantFrame
<1>21. SilentRepeatsADecision'
  BY SMTT(60), <1>2, <1>9, <1>10 DEF IInv, SilentRepeatsADecision
<1> QED  BY Zenon, <1>11, <1>12, <1>13, <1>14, <1>15, <1>16, <1>17, <1>18, <1>19, <1>20, <1>21 DEF IInv
-----------------------------------------------------------------------------
(* The clock and the restart. *)

LEMMA TickStep ==
    ASSUME IInv, Tick \/ UNCHANGED vars
    PROVE  IInv'
<1>1. UNCHANGED <<queue, nextId, waiters, grants, ctl, conn, asked, ledger, kg, restarts, managed,
                  revoked, overtaken>>
  BY Zenon DEF Tick, vars, memory, outside, history
<1>2. TypeOK'
  <2>1. now' = now \/ (now < MaxTime /\ now' = now + 1)
    BY Zenon DEF Tick, vars, outside
  <2>2. now' \in 0 .. MaxTime
    BY <2>1, ClockAssumption DEF IInv, TypeOK
  <2> QED  BY <1>1, <2>2, Zenon DEF IInv, TypeOK
<1>3. FreshInv' /\ ParkInv' /\ OneDialogPerQuestion'
  BY ZenonT(60), <1>1, QueueFrame
<1>4. FlightInv' /\ OpInv' /\ RecordedInv' /\ NoOrphanedCaller'
  <2>1. FlightInv'
    BY SMTT(60), <1>1 DEF IInv, FlightInv, Parked
  <2>2. \A h : Kept(h) => Kept(h)'
    BY Zenon, <1>1 DEF Kept
  <2>3. OpInv' /\ RecordedInv'
    BY Zenon, <1>1, <2>2, OpFrame
  <2>4. NoOrphanedCaller'
    BY <1>1, Zenon DEF IInv, NoOrphanedCaller
  <2> QED  BY ZenonT(60), <2>1, <2>3, <2>4
<1>5. EpochInv' /\ AllowedImpliesAudited' /\ SilentRepeatsADecision'
  BY <1>1, ConnFrame, Zenon
<1>6. GrantsAreAudited' /\ WindowFromDecision'
  BY <1>1, GrantFrame, Zenon
<1>7. RememberedBeforeReply'
  BY <1>1, KeptFrame, Zenon DEF Kept
<1> QED  BY Zenon, <1>2, <1>3, <1>4, <1>5, <1>6, <1>7 DEF IInv

\* The memory is gone, the ledger, the graph and the answers given are not.
LEMMA RestartStep ==
    ASSUME IInv, Restart
    PROVE  IInv'
<1>1. /\ UNCHANGED <<asked, ledger, kg, now, managed>>
      /\ queue' = {} /\ nextId' = 0 /\ waiters' = {} /\ grants' = {} /\ revoked' = {} /\ overtaken' = {}
      /\ restarts < MaxRestarts /\ restarts' = restarts + 1
      /\ ctl' = [k \in Handlers |-> Idle]
  BY Zenon DEF Restart
<1>2. TypeOK /\ restarts \in Nat
  BY ClockAssumption DEF IInv, TypeOK
<1>3. \A c \in Callers : /\ conn[c] \in Conns
                         /\ conn[c].state = "waiting" => conn'[c] = [conn[c] EXCEPT !.state = "closed"]
                         /\ conn[c].state # "waiting" => conn'[c] = conn[c]
  BY <1>2, Zenon DEF Restart, TypeOK
<1>4. \A c \in Callers : /\ conn'[c] \in Conns /\ conn'[c].epoch = conn[c].epoch
                         /\ conn'[c].state # "waiting"
                         /\ conn'[c].state # "closed" => conn'[c] = conn[c]
  BY ZenonT(60), <1>3 DEF Conns
<1>5. TypeOK'
  <2>1. conn' \in [Callers -> Conns]
    <3>1. conn' = [c \in Callers |-> conn'[c]]
      BY Zenon DEF Restart
    <3> QED  BY <1>4, <3>1, Zenon
  <2>2. restarts' \in 0 .. MaxRestarts
    BY <1>1, <1>2, ClockAssumption
  <2> QED  BY <1>1, <1>2, <2>1, <2>2, Zenon DEF TypeOK
<1>6. FreshInv' /\ ParkInv' /\ OneDialogPerQuestion'
  BY <1>1, Zenon DEF FreshInv, ParkInv, OneDialogPerQuestion
<1>7. FlightInv' /\ OpInv' /\ RecordedInv'
  BY <1>1, Zenon DEF FlightInv, OpInv, RecordedInv, Idle
<1>8. NoOrphanedCaller'
  BY <1>4, Zenon DEF NoOrphanedCaller
<1>9. \A c \in Callers : conn'[c].epoch < restarts' /\ conn'[c].epoch \in Nat
  BY <1>1, <1>2, <1>4 DEF IInv, EpochInv, Conns
<1>10. EpochInv' /\ RememberedBeforeReply'
  BY SMTT(60), <1>1, <1>2, <1>9 DEF EpochInv, RememberedBeforeReply
<1>11. AllowedImpliesAudited'
  BY SMTT(60), <1>1, <1>4 DEF IInv, AllowedImpliesAudited
<1>12. SilentRepeatsADecision'
  BY Zenon, <1>1, <1>4 DEF IInv, SilentRepeatsADecision
<1>13. GrantsAreAudited' /\ WindowFromDecision'
  BY <1>1, Zenon DEF IInv, GrantsAreAudited, WindowFromDecision
<1> QED  BY <1>5, <1>6, <1>7, <1>8, <1>10, <1>11, <1>12, <1>13, Zenon DEF IInv
-----------------------------------------------------------------------------
(* The theorems. *)

LEMMA NextIInv ==
    ASSUME IInv, [Next]_vars
    PROVE  IInv'
<1>1. CASE \E c \in Callers : Intake(c) \/ IntakeDropped(c) \/ CallerLeaves(c)
  <2>1. PICK c \in Callers : Intake(c) \/ IntakeDropped(c) \/ CallerLeaves(c)
    BY <1>1, Zenon
  <2>2. CASE Intake(c)
    BY <2>2, SettlingSteps, ParkingSteps, Zenon DEF Intake
  <2>3. CASE IntakeDropped(c) \/ CallerLeaves(c)
    BY <2>3, ClosingSteps, Zenon
  <2> QED  BY <2>1, <2>2, <2>3, Zenon
<1>2. CASE \E k \in Handlers, p \in queue, outcome \in Outcomes : Resolve(k, p, outcome)
  BY <1>2, ResolveStep, Zenon
<1>3. CASE \E k \in Handlers, app \in Apps, path \in Paths : Confer(k, app, path)
  BY <1>3, ConferStep, Zenon
<1>4. CASE \E k \in Handlers, g \in grants : Revoke(k, g)
  BY <1>4, RevokeStep, Zenon
<1>5. CASE \E k \in Handlers : Serve(k)
  <2>1. PICK k \in Handlers : Serve(k)
    BY <1>5, Zenon
  <2>2. CASE AuditOk(k) \/ AuditErr(k)
    BY <2>2, AuditSteps, Zenon
  <2>3. CASE Record(k) \/ Persist(k)
    BY <2>3, RecordStep, PersistStep, Zenon
  <2>4. CASE Reply(k) \/ RevokeAudit(k)
    BY <2>4, ReplyStep, RevokeAuditStep, Zenon
  <2> QED  BY <2>1, <2>2, <2>3, <2>4, Zenon DEF Serve
<1>6. CASE Tick \/ UNCHANGED vars
  BY <1>6, TickStep, Zenon
<1>7. CASE Restart
  BY <1>7, RestartStep, Zenon
<1> QED  BY Zenon, <1>1, <1>2, <1>3, <1>4, <1>5, <1>6, <1>7 DEF Next

\* IInv holds in every reachable state, whatever the sets and the bounds are.
THEOREM Invariance == Spec => []IInv
BY InitIInv, NextIInv, PTL DEF Spec

\* The broker's state keeps its types.
THEOREM TypeCorrect == Spec => []TypeOK
<1>1. IInv => TypeOK
  BY Zenon DEF IInv
<1> QED  BY <1>1, Invariance, PTL

\* A caller whose connection is held open always has its dialog in the queue or
\* its answer on the way (SharedState::resolve takes waiters and request together).
THEOREM NoCallerForgotten == Spec => []NoOrphanedCaller
<1>1. IInv => NoOrphanedCaller
  BY Zenon DEF IInv
<1> QED  BY <1>1, Invariance, PTL

\* Audit before act: no caller is told to proceed without a ledger entry of that
\* outcome for its own identity, scope and dialog (SharedState::resolve).
THEOREM AuditBeforeAct == Spec => []AllowedImpliesAudited
<1>1. IInv => AllowedImpliesAudited
  BY Zenon DEF IInv
<1> QED  BY <1>1, Invariance, PTL

\* enqueue never leaves two pending requests that ask the same question.
THEOREM QuestionsAreUnique == Spec => []OneDialogPerQuestion
<1>1. IInv => OneDialogPerQuestion
  BY Zenon DEF IInv
<1> QED  BY <1>1, Invariance, PTL

\* Every grant of the store and every Grant node of the graph has an audited
\* decision or gesture behind it, across restarts and failed audits.
THEOREM NoUnauditedAuthority == Spec => []GrantsAreAudited
<1>1. IInv => GrantsAreAudited
  BY Zenon DEF IInv
<1> QED  BY <1>1, Invariance, PTL

\* A window ends GESTURE_WINDOW after the instant of its audited decision,
\* whatever the audit and the locks cost in between.
THEOREM WindowsFromDecision == Spec => []WindowFromDecision
<1>1. IInv => WindowFromDecision
  BY Zenon DEF IInv
<1> QED  BY <1>1, Invariance, PTL

\* A silent grant stands in for ordinary requests only and repeats an audited
\* answer for exactly its app, class and scope.
THEOREM SilenceRepeats == Spec => []SilentRepeatsADecision
<1>1. IInv => SilentRepeatsADecision
  BY Zenon DEF IInv
<1> QED  BY <1>1, Invariance, PTL

\* The store has the grant of whoever was told that the answer is remembered,
\* until it is revoked or the broker restarts.
THEOREM RememberedIsStored == Spec => []RememberedBeforeReply
<1>1. IInv => RememberedBeforeReply
  BY Zenon DEF IInv
<1> QED  BY <1>1, Invariance, PTL

-----------------------------------------------------------------------------
(* The shell in front of the broker.                                       *)

Views == [id : Nat, req : Requests, tier : {"standard", "highstakes"}, epoch : Nat]
Calls == [state : {"idle", "sent", "served", "failed"}, view : SUBSET Views]
Clicks == [state : {"sent", "failed", "serving"}, view : Views, outcome : Outcomes]

ShellTypes ==
    /\ current \subseteq Views
    /\ answered \subseteq Nat
    /\ poll \in [Polls -> Calls]
    /\ click \in [Handlers -> Clicks \cup {NoClick}]
    /\ decided \subseteq Nat \X Nat

\* In lifetime r of the broker, with queue Q and counter n, view v is from an
\* earlier lifetime or the only question its id stands for.
KnownIn(v, r, n, Q) ==
    \/ v.epoch < r
    \/ v.epoch = r /\ v.id < n /\ \A p \in Q : p.id = v.id => p.req = v.req

Known(v) == KnownIn(v, restarts, nextId, queue)

\* The views on screen, in poll replies and in clicks on their way.
OnHand ==
    current \cup (UNION {poll[f].view : f \in Polls})
      \cup {click[k].view : k \in {j \in Handlers : click[j] # NoClick}}

\* Wherever a view is kept, its id still means what it meant.
LifeInv ==
    /\ \A v \in OnHand : Known(v)
    /\ \A k \in Handlers : click[k].state = "serving" => ctl[k] # Idle
    /\ AnswersOfThisLifetime

PendingIn(id, Q) == \E p \in Q : p.id = id
Unserved(c) == c # NoClick /\ c.state \in {"sent", "failed"}

\* What is decided has left the queue for good.
DecidedGone == \A d \in decided : d[1] = 0 /\ d[2] < nextId /\ ~PendingIn(d[2], queue)

\* What is on screen is pending and was not clicked.
ScreenPending == \A v \in current : v.id \notin answered /\ PendingIn(v.id, queue)

\* What was clicked and did not reach the broker is pending, and clicked once.
ClicksPending ==
    \A k \in Handlers : Unserved(click[k]) =>
        /\ click[k].view.id \in answered /\ PendingIn(click[k].view.id, queue)
        /\ \A j \in Handlers : Unserved(click[j]) /\ j # k => click[j].view.id # click[k].view.id

\* What a reply in flight shows was clicked or is pending; while one that shows
\* nothing is in flight nothing is on screen or clicked.
RepliesPending ==
    \A f \in Polls : poll[f].state = "served" =>
        /\ \A v \in poll[f].view : v.id \in answered \/ PendingIn(v.id, queue)
        /\ poll[f].view = {} => current = {} /\ \A k \in Handlers : ~Unserved(click[k])

\* In the broker's first lifetime, with one poll at a time.
DownInv ==
    restarts = 0 /\ (\A f, g \in Polls : f = g) =>
        DecidedGone /\ ScreenPending /\ ClicksPending /\ RepliesPending

SInv == IInv /\ ShellTypes /\ LifeInv /\ DownInv
-----------------------------------------------------------------------------
(* The broker behind the shell. *)

\* A click that is on its way is a full record.
LEMMA BusyClick ==
    ASSUME ShellTypes, NEW k \in Handlers, click[k].state # "idle"
    PROVE  click[k] \in Clicks /\ click[k] # NoClick
<1>1. click[k] \in Clicks \cup {NoClick}
  BY Zenon DEF ShellTypes
<1>2. NoClick.state = "idle"
  BY Zenon DEF NoClick
<1> QED  BY <1>1, <1>2, Zenon

\* Every step of the shell is a step of the broker or leaves it alone.
LEMMA ShellStepIsBrokerStep ==
    ASSUME ShellTypes, [ShellNext]_shellVars
    PROVE  [Next]_vars
<1>1. CASE \E c \in Callers : Asks(c)
  BY <1>1, Zenon DEF Asks, Next
<1>2. CASE \E f \in Polls : PollSend(f) \/ PollServe(f) \/ PollReturns(f) \/ PollFails(f)
  BY <1>2, Zenon DEF PollSend, PollServe, PollReturns, PollFails
<1>3. CASE \E k \in Handlers, outcome \in Outcomes : Click(k, outcome)
  BY <1>3, Zenon DEF Click
<1>4. ASSUME NEW k \in Handlers, Deliver(k) PROVE [Next]_vars
  <2>1. CASE \E p \in queue : Resolve(k, p, click[k].outcome)
    <3>1. click[k].state # "idle"
      BY <1>4, Zenon DEF Deliver
    <3>2. click[k].outcome \in Outcomes
      BY <3>1, BusyClick, Zenon DEF Clicks
    <3> QED  BY <2>1, <3>2, Zenon DEF Next
  <2> QED  BY <1>4, <2>1, Zenon DEF Deliver
<1>5. CASE \E k \in Handlers : ClickLost(k) \/ ClickFails(k)
  BY <1>5, Zenon DEF ClickLost, ClickFails
<1>6. CASE \E k \in Handlers : ShellServe(k)
  BY <1>6, Zenon DEF ShellServe, Next
<1>7. CASE ShellRestart
  BY <1>7, Zenon DEF ShellRestart, Next
<1>8. CASE UNCHANGED shellVars
  BY <1>8, Zenon DEF shellVars
<1> QED  BY <1>1, <1>2, <1>3, <1>4, <1>5, <1>6, <1>7, <1>8, Zenon DEF ShellNext

\* What a step of the broker does to its ids: a restart empties the queue, any
\* other step adds at most a request with the next id.
LEMMA QueueMoves ==
    ASSUME IInv, [Next]_vars
    PROVE  /\ restarts \in Nat /\ restarts' \in Nat /\ nextId \in Nat /\ nextId' \in Nat
           /\ \/ restarts' = restarts + 1 /\ queue' = {}
              \/ /\ restarts' = restarts /\ nextId <= nextId'
                 /\ \A p \in queue' : p \in queue \/ p.id = nextId
<1>1. IInv'
  BY NextIInv, Zenon
<1>2. restarts \in Nat /\ restarts' \in Nat /\ nextId \in Nat /\ nextId' \in Nat
  BY <1>1, ClockAssumption DEF IInv, TypeOK
<1>3. CASE UNCHANGED <<restarts, nextId, queue>>
  BY <1>2, <1>3
<1>4. CASE UNCHANGED <<restarts, nextId>> /\ queue' \subseteq queue
  BY <1>2, <1>4
<1>5. ASSUME NEW c \in Callers, NEW b \in Bodies, IntakeQueues(c, b)
      PROVE  /\ restarts' = restarts /\ nextId' = nextId + 1
             /\ queue' = queue \cup {[id |-> nextId, req |-> Assemble(b), tier |-> Tier(Assemble(b))]}
  BY <1>5, Zenon DEF IntakeQueues, Receive, outside
<1>6. CASE \E c \in Callers, b \in Bodies : IntakeQueues(c, b)
  BY <1>2, <1>5, <1>6
<1>7. ASSUME NEW c \in Callers, Intake(c) \/ IntakeDropped(c) \/ CallerLeaves(c)
      PROVE  \/ UNCHANGED <<restarts, nextId, queue>>
             \/ \E d \in Callers, b \in Bodies : IntakeQueues(d, b)
  BY <1>7, Zenon DEF Intake, IntakeDropped, CallerLeaves, IntakeCheck, IntakeSilent, IntakeJoins,
                     Receive, outside, memory
<1>8. ASSUME NEW k \in Handlers, Serve(k) PROVE UNCHANGED <<restarts, nextId, queue>>
  BY <1>8, Zenon DEF Serve, AuditOk, AuditErr, Record, Persist, Reply, RevokeAudit, outside
<1>9. ASSUME NEW k \in Handlers, NEW p \in queue, NEW outcome, Resolve(k, p, outcome)
      PROVE  UNCHANGED <<restarts, nextId>> /\ queue' \subseteq queue
  BY <1>9, Zenon DEF Resolve, outside
<1>10. ASSUME NEW k \in Handlers, (\E app \in Apps, path \in Paths : Confer(k, app, path))
                                   \/ (\E g \in grants : Revoke(k, g))
       PROVE  UNCHANGED <<restarts, nextId, queue>>
  BY <1>10, Zenon DEF Confer, Revoke
<1>11. CASE Restart
  BY <1>2, <1>11, Zenon DEF Restart
<1>12. Tick \/ UNCHANGED vars => UNCHANGED <<restarts, nextId, queue>>
  BY Zenon DEF Tick, vars, memory, outside
<1> QED
  BY <1>3, <1>4, <1>6, <1>7, <1>8, <1>9, <1>10, <1>11, <1>12, Zenon DEF Next

\* What an id of a view means does not change.
LEMMA KnownStays ==
    ASSUME IInv, [Next]_vars, NEW v \in Views, Known(v)
    PROVE  KnownIn(v, restarts', nextId', queue')
<1>1. v.id \in Nat /\ v.epoch \in Nat
  BY Zenon DEF Views
<1> QED  BY <1>1, QueueMoves DEF Known, KnownIn

\* front_view's snapshot.
LEMMA FrontView ==
    ASSUME IInv, NEW p \in queue
    PROVE  View(p) \in Views /\ View(p).id = p.id /\ Known(View(p))
<1>1. p \in Pending /\ restarts \in Nat
  BY ClockAssumption DEF IInv, TypeOK
<1>2. /\ View(p) \in Views
      /\ View(p).id = p.id /\ View(p).req = p.req /\ View(p).epoch = restarts
  BY <1>1, Zenon DEF View, Views, Pending
<1>3. p.id < nextId /\ \A q \in queue : q.id = p.id => q.req = p.req
  BY Zenon DEF IInv, FreshInv
<1> QED  BY <1>2, <1>3, Zenon DEF Known, KnownIn
-----------------------------------------------------------------------------
(* What the shell's steps do to its own state. *)

\* Handler k's click becomes c, the others stay.
ClickBecomes(k, c) ==
    /\ click' \in [Handlers -> Clicks \cup {NoClick}]
    /\ click'[k] = c
    /\ \A j \in Handlers : j # k => click'[j] = click[j]

\* A click that only changes its state keeps its view.
LEMMA ClickMoves ==
    ASSUME ShellTypes, NEW k \in Handlers, click[k].state = "sent",
           NEW x \in {"failed", "serving"}, click' = [click EXCEPT ![k].state = x]
    PROVE  /\ click[k] \in Clicks /\ click[k] # NoClick
           /\ ClickBecomes(k, [click[k] EXCEPT !.state = x])
           /\ click'[k] # NoClick /\ click'[k].state = x /\ click'[k].view = click[k].view
<1>1. click[k] \in Clicks /\ click[k] # NoClick
  BY BusyClick, Zenon
<1> DEFINE c == [click[k] EXCEPT !.state = x]
<1>2. c \in Clicks /\ c.state = x /\ c.view = click[k].view
  BY <1>1, Zenon DEF Clicks
<1>3. click' = [click EXCEPT ![k] = c] /\ click \in [Handlers -> Clicks \cup {NoClick}]
  BY Zenon DEF ShellTypes
<1>4. c # NoClick
  <2>1. NoClick.state = "idle"
    BY Zenon DEF NoClick
  <2> QED  BY <1>2, <2>1, Zenon
<1> HIDE DEF c
<1>5. ClickBecomes(k, c) /\ click'[k] = c
  BY <1>2, <1>3, Zenon DEF ClickBecomes
<1> QED  BY <1>1, <1>2, <1>4, <1>5, Zenon DEF c

\* A click that ends.
LEMMA ClickEnds ==
    ASSUME ShellTypes, NEW k \in Handlers, click' = [click EXCEPT ![k] = NoClick]
    PROVE  ClickBecomes(k, NoClick)
BY Zenon DEF ShellTypes, ClickBecomes

\* A click on view v.
LEMMA ClickBegins ==
    ASSUME ShellTypes, NEW k \in Handlers, NEW outcome \in Outcomes, NEW v \in current,
           click' = [click EXCEPT ![k] = [state |-> "sent", view |-> v, outcome |-> outcome]]
    PROVE  /\ ClickBecomes(k, [state |-> "sent", view |-> v, outcome |-> outcome])
           /\ click'[k].state = "sent" /\ click'[k].view = v /\ v \in Views
<1> DEFINE c == [state |-> "sent", view |-> v, outcome |-> outcome]
<1>1. v \in Views
  BY Zenon DEF ShellTypes
<1>2. c \in Clicks /\ c.state = "sent" /\ c.view = v
  BY <1>1, Zenon DEF Clicks
<1>3. click \in [Handlers -> Clicks \cup {NoClick}]
  BY Zenon DEF ShellTypes
<1> HIDE DEF c
<1>4. ClickBecomes(k, c) /\ click'[k] = c
  BY <1>2, <1>3, Zenon DEF ClickBecomes, c
<1> QED  BY <1>1, <1>2, <1>4, Zenon DEF c

\* A poll that is sent, served, or over.
LEMMA PollMoves ==
    ASSUME IInv, ShellTypes, NEW f \in Polls, PollSend(f) \/ PollServe(f) \/ PollReturns(f) \/ PollFails(f)
    PROVE  /\ poll' \in [Polls -> Calls]
           /\ \A g \in Polls : g # f => poll'[g] = poll[g]
           /\ PollSend(f) => poll'[f].state = "sent" /\ poll'[f].view = poll[f].view
           /\ PollServe(f) =>
                /\ poll'[f].state = "served"
                /\ poll'[f].view = {View(p) : p \in {q \in queue : IsFront(q)}}
           /\ PollReturns(f) \/ PollFails(f) => poll'[f].state = "idle" /\ poll'[f].view = {}
<1>1. poll \in [Polls -> Calls] /\ poll[f] \in Calls
  BY Zenon DEF ShellTypes
<1>2. CASE PollSend(f)
  <2> DEFINE c == [poll[f] EXCEPT !.state = "sent"]
  <2>1. c \in Calls /\ c.state = "sent" /\ c.view = poll[f].view
    BY <1>1, Zenon DEF Calls
  <2>2. poll' = [poll EXCEPT ![f] = c]
    BY <1>2, Zenon DEF PollSend
  <2> HIDE DEF c
  <2>3. poll' \in [Polls -> Calls] /\ poll'[f] = c /\ \A g \in Polls : g # f => poll'[g] = poll[g]
    BY <1>1, <2>1, <2>2, Zenon
  <2>4. poll[f].state = "idle"
    BY <1>2, Zenon DEF PollSend
  <2>5. ~PollServe(f) /\ ~PollReturns(f) /\ ~PollFails(f)
    BY <2>4, Zenon DEF PollServe, PollReturns, PollFails
  <2> QED  BY <2>1, <2>3, <2>5, Zenon
<1>3. CASE PollServe(f)
  <2> DEFINE V == {View(p) : p \in {q \in queue : IsFront(q)}}
             c == [state |-> "served", view |-> V]
  <2>1. V \in SUBSET Views
    BY FrontView, Zenon
  <2>2. poll' = [poll EXCEPT ![f] = c]
    BY <1>3, Zenon DEF PollServe
  <2>6. c.state = "served" /\ c.view = V
    BY Zenon
  <2> HIDE DEF V
  <2>7. c \in Calls
    BY <2>1, Zenon DEF Calls
  <2> HIDE DEF c
  <2>3. poll' \in [Polls -> Calls] /\ poll'[f] = c /\ \A g \in Polls : g # f => poll'[g] = poll[g]
    BY <1>1, <2>7, <2>2, Zenon
  <2>4. poll[f].state = "sent"
    BY <1>3, Zenon DEF PollServe
  <2>5. ~PollSend(f) /\ ~PollReturns(f) /\ ~PollFails(f)
    BY <2>4, Zenon DEF PollSend, PollReturns, PollFails
  <2> QED  BY <2>3, <2>5, <2>6, Zenon DEF V
<1>4. CASE PollReturns(f) \/ PollFails(f)
  <2>1. Quiet \in Calls /\ Quiet.state = "idle" /\ Quiet.view = {}
    BY Zenon DEF Quiet, Calls
  <2>2. poll' = [poll EXCEPT ![f] = Quiet] /\ poll[f].state \in {"served", "failed"}
    BY <1>4, Zenon DEF PollReturns, PollFails
  <2>3. poll' \in [Polls -> Calls] /\ poll'[f] = Quiet /\ \A g \in Polls : g # f => poll'[g] = poll[g]
    BY <1>1, <2>1, <2>2, Zenon
  <2>4. ~PollSend(f) /\ ~PollServe(f)
    BY <2>2, Zenon DEF PollSend, PollServe
  <2> QED  BY <2>1, <2>3, <2>4, Zenon
<1> QED  BY <1>2, <1>3, <1>4, Zenon

\* A restart fails the calls that have no reply yet and keeps their views.
LEMMA RestartMoves ==
    ASSUME ShellTypes, ShellRestart
    PROVE  /\ UNCHANGED <<current, answered, decided>>
           /\ poll' \in [Polls -> Calls] /\ \A f \in Polls : poll'[f].view = poll[f].view
           /\ click' \in [Handlers -> Clicks \cup {NoClick}]
           /\ \A k \in Handlers : click'[k] # NoClick =>
                 /\ click[k] # NoClick /\ click'[k].state = "failed"
                 /\ click'[k].view = click[k].view
           /\ \A k \in Handlers : click'[k].state # "serving"
<1>1. UNCHANGED <<current, answered, decided>>
  BY Zenon DEF ShellRestart
<1>2. \A f \in Polls : poll'[f] \in Calls /\ poll'[f].view = poll[f].view
  <2> TAKE f \in Polls
  <2>1. poll[f] \in Calls
    BY Zenon DEF ShellTypes
  <2>2. poll'[f] = IF poll[f].state = "sent" THEN [poll[f] EXCEPT !.state = "failed"] ELSE poll[f]
    BY Zenon DEF ShellRestart
  <2> QED  BY <2>1, <2>2, Zenon DEF Calls
<1>3. poll' \in [Polls -> Calls]
  <2>1. poll' = [f \in Polls |-> poll'[f]]
    BY Zenon DEF ShellRestart
  <2> QED  BY <1>2, <2>1, Zenon
<1>4. \A k \in Handlers : /\ click'[k] \in Clicks \cup {NoClick}
                          /\ click'[k] # NoClick =>
                               /\ click[k] # NoClick /\ click'[k].state = "failed"
                               /\ click'[k].view = click[k].view
  <2> TAKE k \in Handlers
  <2>1. click[k] \in Clicks \cup {NoClick}
    BY Zenon DEF ShellTypes
  <2>2. click'[k] = IF click[k] = NoClick THEN NoClick ELSE [click[k] EXCEPT !.state = "failed"]
    BY Zenon DEF ShellRestart
  <2>3. CASE click[k] = NoClick
    BY <2>2, <2>3, Zenon
  <2>4. CASE click[k] # NoClick
    <3>1. click[k] \in Clicks /\ click'[k] = [click[k] EXCEPT !.state = "failed"]
      BY <2>1, <2>2, <2>4, Zenon
    <3> QED  BY <2>4, <3>1, Zenon DEF Clicks
  <2> QED  BY <2>3, <2>4, Zenon
<1>5. click' \in [Handlers -> Clicks \cup {NoClick}]
  <2>1. click' = [k \in Handlers |-> click'[k]]
    BY Zenon DEF ShellRestart
  <2> QED  BY <1>4, <2>1, Zenon
<1>6. \A k \in Handlers : click'[k].state # "serving"
  <2>1. NoClick.state = "idle"
    BY Zenon DEF NoClick
  <2> QED  BY <1>4, <2>1
<1> QED  BY <1>1, <1>2, <1>3, <1>4, <1>5, <1>6, Zenon

\* An answer that reaches the broker: its request is pending, or nothing happens.
LEMMA DeliverMoves ==
    ASSUME ShellTypes, NEW k \in Handlers, Deliver(k)
    PROVE  /\ UNCHANGED <<current, answered, poll>> /\ click[k] \in Clicks /\ click[k].state = "sent"
           /\ \/ /\ \E p \in queue : /\ p.id = click[k].view.id
                                     /\ Resolve(k, p, click[k].outcome)
                                     /\ decided' = decided \cup {<<restarts, p.id>>}
                 /\ ClickBecomes(k, [click[k] EXCEPT !.state = "serving"])
                 /\ click'[k].state = "serving" /\ click'[k].view = click[k].view
              \/ /\ \A p \in queue : p.id # click[k].view.id
                 /\ ClickBecomes(k, NoClick)
                 /\ UNCHANGED <<vars, decided>>
<1>1. UNCHANGED <<current, answered, poll>> /\ click[k].state = "sent"
  BY Zenon DEF Deliver
<1>2. click[k] \in Clicks
  BY <1>1, BusyClick
<1>3. CASE \E p \in queue : /\ p.id = click[k].view.id
                            /\ Resolve(k, p, click[k].outcome)
                            /\ click' = [click EXCEPT ![k].state = "serving"]
                            /\ decided' = decided \cup {<<restarts, p.id>>}
  <2>1. click' = [click EXCEPT ![k].state = "serving"]
    BY <1>3, Zenon
  <2>2. /\ ClickBecomes(k, [click[k] EXCEPT !.state = "serving"])
        /\ click'[k].state = "serving" /\ click'[k].view = click[k].view
    BY <1>1, <2>1, ClickMoves, Zenon
  <2> QED  BY <1>1, <1>2, <1>3, <2>2, Zenon
<1>4. CASE /\ \A p \in queue : p.id # click[k].view.id
           /\ click' = [click EXCEPT ![k] = NoClick]
           /\ UNCHANGED <<vars, decided>>
  BY <1>1, <1>2, <1>4, ClickEnds, Zenon
<1> QED  BY <1>3, <1>4, Zenon DEF Deliver

\* An answer that is lost, or whose loss the shell learns of.
LEMMA LostMoves ==
    ASSUME ShellTypes, NEW k \in Handlers, ClickLost(k)
    PROVE  /\ UNCHANGED <<vars, current, answered, poll, decided>> /\ click[k] \in Clicks
           /\ ClickBecomes(k, [click[k] EXCEPT !.state = "failed"]) /\ click[k].state = "sent"
           /\ click'[k].state = "failed" /\ click'[k].view = click[k].view
<1>1. /\ UNCHANGED <<vars, current, answered, poll, decided>> /\ click[k].state = "sent"
      /\ click' = [click EXCEPT ![k].state = "failed"]
  BY Zenon DEF ClickLost
<1>2. /\ ClickBecomes(k, [click[k] EXCEPT !.state = "failed"]) /\ click[k] \in Clicks
      /\ click'[k].state = "failed" /\ click'[k].view = click[k].view
  BY <1>1, ClickMoves, Zenon
<1> QED  BY <1>1, <1>2, Zenon

LEMMA FailsMoves ==
    ASSUME ShellTypes, NEW k \in Handlers, ClickFails(k)
    PROVE  /\ UNCHANGED <<vars, current, poll, decided>> /\ click[k] \in Clicks
           /\ answered' = answered \ {click[k].view.id} /\ click[k].state = "failed"
           /\ ClickBecomes(k, NoClick)
<1>1. click[k].state = "failed"
  BY Zenon DEF ClickFails
<1>2. click[k] \in Clicks
  BY <1>1, BusyClick
<1> QED  BY <1>1, <1>2, ClickEnds, Zenon DEF ClickFails

\* A step of the broker on an answer: the last one is its reply to the shell.
LEMMA ServeMoves ==
    ASSUME ShellTypes, NEW k \in Handlers, ShellServe(k)
    PROVE  /\ UNCHANGED <<current, answered, poll, decided>>
           /\ \/ ctl'[k] # Idle /\ UNCHANGED click
              \/ ctl'[k] = Idle /\ ClickBecomes(k, NoClick)
BY ClickEnds, Zenon DEF ShellServe
-----------------------------------------------------------------------------
(* The types, and the views. *)

LEMMA TypesStep ==
    ASSUME IInv, ShellTypes, [ShellNext]_shellVars
    PROVE  ShellTypes'
<1>0. TypeOK /\ restarts \in Nat
  BY ClockAssumption DEF IInv, TypeOK
<1>1. ASSUME UNCHANGED shell PROVE ShellTypes'
  BY <1>1, Zenon DEF shell, ShellTypes
<1>2. ASSUME NEW f \in Polls, PollSend(f) \/ PollServe(f) \/ PollReturns(f) \/ PollFails(f)
      PROVE  ShellTypes'
  <2>1. poll' \in [Polls -> Calls] /\ UNCHANGED <<click, decided>>
    BY <1>2, PollMoves, Zenon DEF PollSend, PollServe, PollReturns, PollFails
  <2>2. CASE PollReturns(f)
    <3>1. poll[f].view \subseteq Views
      BY Zenon DEF ShellTypes, Calls
    <3> QED  BY <2>1, <2>2, <3>1, Zenon DEF PollReturns, Show, ShellTypes
  <2>3. CASE ~PollReturns(f)
    <3>1. answered' = answered /\ current' \in {current, {}}
      BY <1>2, <2>3, Zenon DEF PollSend, PollServe, PollFails
    <3> QED  BY <2>1, <3>1, Zenon DEF ShellTypes
  <2> QED  BY <2>2, <2>3, Zenon
<1>3. ASSUME NEW k \in Handlers, NEW outcome \in Outcomes, Click(k, outcome) PROVE ShellTypes'
  <2>1. PICK v \in current :
           /\ answered' = answered \cup {v.id}
           /\ click' = [click EXCEPT ![k] = [state |-> "sent", view |-> v, outcome |-> outcome]]
    BY <1>3, Zenon DEF Click
  <2>2. v \in Views /\ ClickBecomes(k, [state |-> "sent", view |-> v, outcome |-> outcome])
    BY <2>1, ClickBegins, Zenon
  <2>3. v.id \in Nat /\ click' \in [Handlers -> Clicks \cup {NoClick}]
    BY <2>2, Zenon DEF Views, ClickBecomes
  <2> QED  BY <1>3, <2>1, <2>3, Zenon DEF Click, ShellTypes
<1>4. ASSUME NEW k \in Handlers, Deliver(k) PROVE ShellTypes'
  <2>1. UNCHANGED <<current, answered, poll>> /\ click' \in [Handlers -> Clicks \cup {NoClick}]
    BY <1>4, DeliverMoves, Zenon DEF ClickBecomes
  <2>2. decided' = decided \/ \E p \in queue : decided' = decided \cup {<<restarts, p.id>>}
    BY <1>4, DeliverMoves, Zenon
  <2>3. \A p \in queue : p.id \in Nat
    BY <1>0, Zenon DEF TypeOK, Pending
  <2>4. decided' \subseteq Nat \X Nat
    BY <1>0, <2>2, <2>3 DEF ShellTypes
  <2> QED  BY <2>1, <2>4, Zenon DEF ShellTypes
<1>5. ASSUME NEW k \in Handlers, ClickLost(k) \/ ClickFails(k) \/ ShellServe(k) PROVE ShellTypes'
  <2>1. UNCHANGED <<current, poll, decided>> /\ click' \in [Handlers -> Clicks \cup {NoClick}]
    BY <1>5, LostMoves, FailsMoves, ServeMoves, Zenon DEF ClickBecomes, ShellTypes
  <2>2. answered' \subseteq answered
    BY <1>5, LostMoves, FailsMoves, ServeMoves, Zenon
  <2> QED  BY <2>1, <2>2, Zenon DEF ShellTypes
<1>6. CASE ShellRestart
  BY <1>6, RestartMoves, Zenon DEF ShellTypes
<1>7. (\E c \in Callers : Asks(c)) \/ UNCHANGED shellVars => UNCHANGED shell
  BY Zenon DEF Asks, shellVars
<1> QED  BY <1>1, <1>2, <1>3, <1>4, <1>5, <1>6, <1>7, Zenon DEF ShellNext

\* Every view comes from a front_view: a step keeps views, drops them or takes a
\* snapshot of a pending request.
LEMMA ViewsMove ==
    ASSUME IInv, ShellTypes, [ShellNext]_shellVars
    PROVE  OnHand' \subseteq OnHand \cup {View(p) : p \in queue}
<1> SUFFICES ASSUME NEW v, \/ v \in current'
                           \/ \E f \in Polls : v \in poll'[f].view
                           \/ \E k \in Handlers : click'[k] # NoClick /\ v = click'[k].view
             PROVE  v \in OnHand \cup {View(p) : p \in queue}
  BY DEF OnHand
<1> DEFINE Was == \/ v \in current
                  \/ \E f \in Polls : v \in poll[f].view
                  \/ \E k \in Handlers : click[k] # NoClick /\ v = click[k].view
<1>a. Was => v \in OnHand
  BY DEF OnHand
<1> SUFFICES Was \/ v \in {View(p) : p \in queue}
  BY <1>a, Zenon
<1>1. CASE UNCHANGED shell
  BY <1>1, Zenon DEF shell
<1>2. ASSUME NEW f \in Polls, PollSend(f) \/ PollServe(f) \/ PollReturns(f) \/ PollFails(f)
      PROVE  Was \/ v \in {View(p) : p \in queue}
  <2>1. click' = click /\ current' \in {current, {}, poll[f].view}
    BY <1>2, Zenon DEF PollSend, PollServe, PollReturns, PollFails, Show
  <2>2. \A g \in Polls : g # f => poll'[g] = poll[g]
    BY <1>2, PollMoves, Zenon
  <2>3. \/ poll'[f].view \in {poll[f].view, {}}
        \/ poll'[f].view = {View(p) : p \in {q \in queue : IsFront(q)}}
    BY <1>2, PollMoves, Zenon
  <2>4. CASE v \in current'
    BY <2>1, <2>4, Zenon
  <2>5. CASE \E g \in Polls : v \in poll'[g].view
    <3>1. PICK g \in Polls : v \in poll'[g].view
      BY <2>5, Zenon
    <3>2. CASE g = f
      BY <2>3, <3>1, <3>2, Zenon
    <3>3. CASE g # f
      BY <2>2, <3>1, <3>3, Zenon
    <3> QED  BY <3>2, <3>3, Zenon
  <2>6. CASE \E k \in Handlers : click'[k] # NoClick /\ v = click'[k].view
    BY <2>1, <2>6, Zenon
  <2> QED  BY <2>4, <2>5, <2>6, Zenon
<1>3. ASSUME NEW k \in Handlers, NEW outcome \in Outcomes, Click(k, outcome) PROVE Was
  <2>1. PICK w \in current :
           click' = [click EXCEPT ![k] = [state |-> "sent", view |-> w, outcome |-> outcome]]
    BY <1>3, Zenon DEF Click
  <2>2. click'[k].view = w /\ \A j \in Handlers : j # k => click'[j] = click[j]
    BY <2>1, ClickBegins, Zenon DEF ClickBecomes
  <2>3. current' = {} /\ poll' = poll
    BY <1>3, Zenon DEF Click
  <2> QED  BY <2>2, <2>3, Zenon
<1>4. ASSUME NEW k \in Handlers, Deliver(k) \/ ClickLost(k) \/ ClickFails(k) \/ ShellServe(k)
      PROVE  Was
  <2>1. UNCHANGED <<current, poll>>
    BY <1>4, DeliverMoves, LostMoves, FailsMoves, ServeMoves, Zenon
  <2>2. \/ UNCHANGED click
        \/ /\ \A j \in Handlers : j # k => click'[j] = click[j]
           /\ click'[k] = NoClick \/ (click[k] \in Clicks /\ click[k].state \in {"sent", "failed"} /\ click'[k].view = click[k].view)
    BY <1>4, DeliverMoves, LostMoves, FailsMoves, ServeMoves, Zenon DEF ClickBecomes
  <2>3. click[k].state \in {"sent", "failed"} => click[k] # NoClick
    BY BusyClick
  <2> QED  BY <2>1, <2>2, <2>3, Zenon
<1>5. CASE ShellRestart
  BY <1>5, RestartMoves, Zenon
<1>6. (\E c \in Callers : Asks(c)) \/ UNCHANGED shellVars => UNCHANGED shell
  BY Zenon DEF Asks, shellVars
<1> QED  BY <1>1, <1>2, <1>3, <1>4, <1>5, <1>6, Zenon DEF ShellNext

\* The views have the type of views.
LEMMA OnHandTypes ==
    ASSUME ShellTypes
    PROVE  OnHand \subseteq Views
<1>1. \A k \in Handlers : click[k] # NoClick => click[k].view \in Views
  BY Zenon DEF ShellTypes, Clicks
<1>2. \A f \in Polls : poll[f].view \subseteq Views
  BY Zenon DEF ShellTypes, Calls
<1> QED  BY <1>1, <1>2 DEF OnHand, ShellTypes

LEMMA KnownStep ==
    ASSUME IInv, ShellTypes, LifeInv, [ShellNext]_shellVars
    PROVE  \A v \in OnHand' : KnownIn(v, restarts', nextId', queue')
<1> TAKE v \in OnHand'
<1>1. v \in OnHand \cup {View(p) : p \in queue}
  BY ViewsMove, Zenon
<1>2. v \in Views /\ Known(v)
  BY <1>1, OnHandTypes, FrontView, Zenon DEF LifeInv
<1>3. [Next]_vars
  BY ShellStepIsBrokerStep, Zenon
<1> QED  BY <1>2, <1>3, KnownStays, Zenon
-----------------------------------------------------------------------------
(* An answer lands on the question that was on screen. *)

\* An operation on its way keeps its request until it is over.
LEMMA ServedOp ==
    ASSUME IInv, NEW k \in Handlers, Serve(k)
    PROVE  /\ restarts' = restarts
           /\ \A j \in Handlers : j # k => ctl'[j] = ctl[j]
           /\ \/ ctl'[k] = Idle
              \/ /\ ctl'[k] # Idle /\ ctl[k] # Idle /\ ctl'[k].id = ctl[k].id
                 /\ HandleOf(ctl'[k]) = HandleOf(ctl[k])
<1>0. TypeOK /\ ctl \in [Handlers -> Ops \cup {Idle}]
  BY Zenon DEF IInv, TypeOK
<1>1. restarts' = restarts
  BY Zenon DEF Serve, AuditOk, AuditErr, Record, Persist, Reply, RevokeAudit, outside
<1>2. CASE Reply(k) \/ RevokeAudit(k)
  <2>1. ctl' = [ctl EXCEPT ![k] = Idle]
    BY <1>2, Zenon DEF Reply, RevokeAudit, Finish
  <2> QED  BY <1>0, <1>1, <2>1, Zenon
<1>3. CASE AuditOk(k) \/ AuditErr(k) \/ Record(k) \/ Persist(k)
  <2>1. \E x \in {"audited", "refused", "persist", "reply"} : ctl' = [ctl EXCEPT ![k].phase = x]
    BY <1>3, Zenon DEF AuditOk, AuditErr, Record, Persist
  <2>2. ctl[k].phase # "idle"
    BY <1>3, Zenon DEF AuditOk, AuditErr, Record, Persist
  <2>3. \E x : Moves(k, x)
    BY <1>0, <1>1, <2>1, <2>2, PhaseStep, Zenon
  <2> QED  BY <1>1, <2>3, Zenon DEF Moves
<1> QED  BY <1>2, <1>3, Zenon DEF Serve

\* Handler j's answer, if it is being served, is to what its user saw.
Serves(c, o, r) ==
    c.state = "serving" =>
        /\ o # Idle
        /\ c.view.epoch = r => o.id = c.view.id /\ HandleOf(o) = HandleOf(c.view.req)

LEMMA ServesStep ==
    ASSUME IInv, ShellTypes, LifeInv, [ShellNext]_shellVars, NEW j \in Handlers
    PROVE  Serves(click'[j], ctl'[j], restarts')
<1>1. Serves(click[j], ctl[j], restarts)
  BY Zenon DEF LifeInv, AnswersOfThisLifetime, ResolvesItsView, Serves
<1>2. CASE click'[j] = click[j] /\ ctl'[j] = ctl[j] /\ restarts' = restarts
  BY <1>1, <1>2, Zenon
<1>3. CASE click'[j].state # "serving"
  BY <1>3, Zenon DEF Serves
<1>n. NoClick.state = "idle"
  BY Zenon DEF NoClick
<1>v. UNCHANGED vars => UNCHANGED <<ctl, restarts, queue>>
  BY Zenon DEF vars, memory, outside
<1>4. ASSUME NEW c \in Callers, Asks(c) PROVE UNCHANGED <<click, ctl, restarts>>
  <2>1. UNCHANGED click
    BY <1>4, Zenon DEF Asks, shell
  <2>2. Intake(c) => UNCHANGED <<ctl, restarts>>
    BY Zenon DEF Intake, IntakeCheck, IntakeSilent, IntakeJoins, IntakeQueues, Receive, outside
  <2>3. CallerLeaves(c) => UNCHANGED <<ctl, restarts>>
    BY Zenon DEF CallerLeaves, memory, outside
  <2> QED  BY <1>4, <2>1, <2>2, <2>3, Zenon DEF Asks
<1>5. ASSUME NEW f \in Polls, PollSend(f) \/ PollServe(f) \/ PollReturns(f) \/ PollFails(f)
      PROVE  UNCHANGED <<click, ctl, restarts>>
  BY <1>5, <1>v, Zenon DEF PollSend, PollServe, PollReturns, PollFails
<1>6. ASSUME NEW k \in Handlers, NEW outcome \in Outcomes, Click(k, outcome)
      PROVE  Serves(click'[j], ctl'[j], restarts')
  <2>1. PICK w \in current :
           click' = [click EXCEPT ![k] = [state |-> "sent", view |-> w, outcome |-> outcome]]
    BY <1>6, Zenon DEF Click
  <2>2. click'[k].state = "sent" /\ \A i \in Handlers : i # k => click'[i] = click[i]
    BY <2>1, ClickBegins, Zenon DEF ClickBecomes
  <2>3. UNCHANGED <<ctl, restarts>>
    BY <1>6, <1>v, Zenon DEF Click
  <2> QED  BY <1>2, <1>3, <2>2, <2>3
<1>7. ASSUME NEW k \in Handlers, Deliver(k) PROVE Serves(click'[j], ctl'[j], restarts')
  <2>1. CASE ClickBecomes(k, NoClick) /\ UNCHANGED vars
    BY <1>2, <1>3, <1>n, <1>v, <2>1 DEF ClickBecomes
  <2>2. ASSUME NEW p \in queue, p.id = click[k].view.id, Resolve(k, p, click[k].outcome),
               ClickBecomes(k, [click[k] EXCEPT !.state = "serving"]),
               click'[k].view = click[k].view, click[k] \in Clicks, click[k].state = "sent"
        PROVE  Serves(click'[j], ctl'[j], restarts')
    <3>1. /\ restarts' = restarts
          /\ \A i \in Handlers : i # k => ctl'[i] = ctl[i] /\ click'[i] = click[i]
      BY <2>2, Zenon DEF Resolve, Begin, outside, IInv, TypeOK, ClickBecomes
    <3>2. /\ ctl'[k].phase = "audit" /\ ctl'[k].id = p.id
          /\ ctl'[k].who = p.req.who /\ ctl'[k].what = p.req.what
      BY <2>2, Zenon DEF Resolve, Begin, IInv, TypeOK
    <3>3. ctl'[k] # Idle /\ HandleOf(ctl'[k]) = HandleOf(p.req)
      BY <3>2 DEF Idle, HandleOf
    <3>4. click[k] # NoClick
      BY <1>n, <2>2
    <3>5. Known(click[k].view)
      BY <3>4, Zenon DEF LifeInv, OnHand
    <3>6. click[k].view.epoch \in Nat /\ restarts \in Nat
      BY <2>2, ClockAssumption DEF Clicks, Views, IInv, TypeOK
    <3>7. click[k].view.epoch = restarts => p.req = click[k].view.req
      BY <2>2, <3>5, <3>6 DEF Known, KnownIn
    <3>8. CASE j = k
      BY <2>2, <3>1, <3>2, <3>3, <3>7, <3>8, Zenon DEF Serves
    <3> QED  BY <1>2, <3>1, <3>8, Zenon
  <2> QED  BY <1>7, <2>1, <2>2, DeliverMoves, Zenon
<1>8. ASSUME NEW k \in Handlers, ClickLost(k) \/ ClickFails(k)
      PROVE  Serves(click'[j], ctl'[j], restarts')
  <2>1. /\ UNCHANGED <<ctl, restarts>>
        /\ \A i \in Handlers : i # k => click'[i] = click[i]
        /\ click'[k] = NoClick \/ click'[k].state = "failed"
    BY <1>8, <1>v, LostMoves, FailsMoves, Zenon DEF ClickBecomes
  <2> QED  BY <1>2, <1>3, <1>n, <2>1
<1>9. ASSUME NEW k \in Handlers, ShellServe(k) PROVE Serves(click'[j], ctl'[j], restarts')
  <2>1. Serve(k)
    BY <1>9, Zenon DEF ShellServe
  <2>2. /\ \A i \in Handlers : i # k => click'[i] = click[i]
        /\ (ctl'[k] = Idle /\ click'[k] = NoClick) \/ (ctl'[k] # Idle /\ click'[k] = click[k])
    BY <1>9, ServeMoves, Zenon DEF ClickBecomes
  <2>3. CASE j # k
    BY <1>2, <2>1, <2>2, <2>3, ServedOp, Zenon
  <2>4. CASE j = k /\ ctl'[k] = Idle
    BY <1>3, <1>n, <2>2, <2>4
  <2>5. CASE j = k /\ ctl'[k] # Idle
    <3>1. ctl'[k].id = ctl[k].id /\ HandleOf(ctl'[k]) = HandleOf(ctl[k]) /\ restarts' = restarts
      BY <2>1, <2>5, ServedOp, Zenon
    <3> QED  BY <1>1, <2>2, <2>5, <3>1, Zenon DEF Serves
  <2> QED  BY <2>3, <2>4, <2>5, Zenon
<1>10. CASE ShellRestart
  BY <1>3, <1>10, RestartMoves, Zenon
<1>11. UNCHANGED shellVars => UNCHANGED <<click, ctl, restarts>>
  BY <1>v, Zenon DEF shellVars, shell
<1> QED  BY <1>2, <1>4, <1>5, <1>6, <1>7, <1>8, <1>9, <1>10, <1>11, Zenon DEF ShellNext

LEMMA LifeStep ==
    ASSUME IInv, ShellTypes, LifeInv, [ShellNext]_shellVars
    PROVE  LifeInv'
<1>1. \A v \in OnHand' : Known(v)'
  BY KnownStep, Zenon DEF Known
<1>2. \A j \in Handlers : Serves(click'[j], ctl'[j], restarts')
  BY ServesStep, Zenon
<1> QED  BY <1>1, <1>2 DEF LifeInv, AnswersOfThisLifetime, ResolvesItsView, Serves
-----------------------------------------------------------------------------
(* An answered dialog stays down. *)

\* A queue that is not empty has a front.
LEMMA HasFront ==
    ASSUME TypeOK, queue # {}
    PROVE  \E p \in queue : IsFront(p)
<1> DEFINE High == {p \in queue : p.tier = "highstakes"}
           Top == IF High # {} THEN High ELSE queue
           Ids == {p.id : p \in Top}
<1>1. \A p \in queue : p.id \in Nat /\ p.tier \in {"standard", "highstakes"}
  BY Zenon DEF TypeOK, Pending
<1>2. Top # {} /\ Top \subseteq queue
  BY Zenon
<1>3. \A p \in Top, q \in queue : \/ q \in Top /\ p.tier = q.tier
                                  \/ p.tier = "highstakes" /\ q.tier = "standard"
  BY <1>1, Zenon
<1> HIDE DEF Top
<1>4. Ids # {} /\ Ids \subseteq Nat
  BY <1>1, <1>2, Zenon
<1>5. IsWellFoundedOn(OpToRel(<, Nat), Nat)
  BY NatLessThanWellFounded, Zenon
<1>6. \E x \in Ids : \A y \in Ids : <<y, x>> \notin OpToRel(<, Nat)
  <2> HIDE DEF Ids
  <2> QED  BY <1>4, <1>5, WFMin, Zenon
<1>7. \E x \in Ids : \A y \in Ids : ~(y < x)
  BY <1>4, <1>6, Zenon DEF OpToRel
<1>8. PICK p \in Top : \A q \in Top : ~(q.id < p.id)
  BY <1>7, Zenon
<1>9. ASSUME NEW q \in queue PROVE Ahead(p, q)
  <2>1. tier_rank["highstakes"] = 2 /\ tier_rank["standard"] = 1
    BY Zenon DEF tier_rank
  <2>2. CASE q \in Top /\ p.tier = q.tier
    <3>1. p.id <= q.id
      BY <1>1, <1>2, <1>8, <2>2
    <3> QED  BY <2>2, <3>1, Zenon DEF Ahead
  <2>3. CASE p.tier = "highstakes" /\ q.tier = "standard"
    BY <2>1, <2>3 DEF Ahead
  <2> QED  BY <1>3, <2>2, <2>3, Zenon
<1> QED  BY <1>2, <1>9, Zenon DEF IsFront

\* The steps that add to the queue at most, and to nothing else.
LEMMA DownFrame ==
    ASSUME DecidedGone, ScreenPending, ClicksPending, RepliesPending,
           nextId \in Nat, nextId' \in Nat, nextId <= nextId', decided \subseteq Nat \X Nat,
           queue \subseteq queue', \A p \in queue' : p \in queue \/ p.id = nextId,
           UNCHANGED <<current, answered, poll, decided>>,
           \A k \in Handlers : Unserved(click'[k]) =>
               Unserved(click[k]) /\ click'[k].view = click[k].view
    PROVE  DecidedGone' /\ ScreenPending' /\ ClicksPending' /\ RepliesPending'
<1>1. \A id : PendingIn(id, queue) => PendingIn(id, queue')
  BY Zenon DEF PendingIn
<1>2. DecidedGone'
  <2> SUFFICES ASSUME NEW d \in decided PROVE d[1] = 0 /\ d[2] < nextId' /\ ~PendingIn(d[2], queue')
    BY Zenon DEF DecidedGone, PendingIn
  <2>1. d[2] \in Nat /\ d[1] = 0 /\ d[2] < nextId /\ ~PendingIn(d[2], queue)
    BY Zenon DEF DecidedGone
  <2>2. d[2] # nextId /\ d[2] < nextId'
    BY <2>1
  <2> QED  BY <2>1, <2>2, Zenon DEF PendingIn
<1>3. ScreenPending'
  BY <1>1, Zenon DEF ScreenPending, PendingIn
<1>4. ClicksPending'
  <2> SUFFICES ASSUME NEW k \in Handlers, Unserved(click'[k])
               PROVE  /\ click'[k].view.id \in answered' /\ PendingIn(click'[k].view.id, queue')
                      /\ \A j \in Handlers : Unserved(click'[j]) /\ j # k =>
                            click'[j].view.id # click'[k].view.id
    BY Zenon DEF ClicksPending, Unserved, PendingIn
  <2> QED  BY <1>1, Zenon DEF ClicksPending
<1>5. RepliesPending'
  <2> SUFFICES ASSUME NEW f \in Polls, poll'[f].state = "served"
               PROVE  /\ \A v \in poll'[f].view : v.id \in answered' \/ PendingIn(v.id, queue')
                      /\ poll'[f].view = {} => current' = {} /\ \A k \in Handlers : ~Unserved(click'[k])
    BY Zenon DEF RepliesPending, Unserved, PendingIn
  <2> QED  BY <1>1, Zenon DEF RepliesPending
<1> QED  BY <1>2, <1>3, <1>4, <1>5, Zenon

\* An answer that reaches the broker takes its request out of the queue.
LEMMA DeliverDown ==
    ASSUME DecidedGone, ScreenPending, ClicksPending, RepliesPending, FreshInv,
           NEW k \in Handlers, Unserved(click[k]), ~Unserved(click'[k]),
           NEW p \in queue, p.id = click[k].view.id, restarts = 0,
           queue' = queue \ {p}, nextId' = nextId, decided' = decided \cup {<<restarts, p.id>>},
           UNCHANGED <<current, answered, poll>>,
           \A j \in Handlers : j # k => click'[j] = click[j]
    PROVE  DecidedGone' /\ ScreenPending' /\ ClicksPending' /\ RepliesPending'
<1>1. \A id : id # p.id => (PendingIn(id, queue) <=> PendingIn(id, queue'))
  BY Zenon DEF PendingIn
<1>2. ~PendingIn(p.id, queue') /\ p.id < nextId
  BY Zenon DEF PendingIn, FreshInv
<1>3. p.id \in answered
  BY Zenon DEF ClicksPending
<1>4. DecidedGone'
  <2> SUFFICES ASSUME NEW d \in decided' PROVE d[1] = 0 /\ d[2] < nextId' /\ ~PendingIn(d[2], queue')
    BY Zenon DEF DecidedGone, PendingIn
  <2>1. CASE d = <<restarts, p.id>>
    BY <1>2, <2>1
  <2>2. CASE d \in decided
    BY <2>2, Zenon DEF DecidedGone, PendingIn
  <2> QED  BY <2>1, <2>2, Zenon
<1>5. ScreenPending'
  <2> SUFFICES ASSUME NEW v \in current PROVE v.id \notin answered /\ PendingIn(v.id, queue')
    BY Zenon DEF ScreenPending, PendingIn
  <2> QED  BY <1>1, <1>3, Zenon DEF ScreenPending
<1>6. ClicksPending'
  <2> SUFFICES ASSUME NEW j \in Handlers, Unserved(click'[j])
               PROVE  /\ click'[j].view.id \in answered' /\ PendingIn(click'[j].view.id, queue')
                      /\ \A i \in Handlers : Unserved(click'[i]) /\ i # j =>
                            click'[i].view.id # click'[j].view.id
    BY Zenon DEF ClicksPending, Unserved, PendingIn
  <2>1. j # k /\ click'[j] = click[j]
    BY Zenon
  <2>2. click[j].view.id # p.id
    BY <2>1, Zenon DEF ClicksPending
  <2> QED  BY <1>1, <2>1, <2>2, Zenon DEF ClicksPending
<1>7. RepliesPending'
  <2> SUFFICES ASSUME NEW f \in Polls, poll'[f].state = "served"
               PROVE  /\ \A v \in poll'[f].view : v.id \in answered' \/ PendingIn(v.id, queue')
                      /\ poll'[f].view = {} => current' = {} /\ \A j \in Handlers : ~Unserved(click'[j])
    BY Zenon DEF RepliesPending, Unserved, PendingIn
  <2> QED  BY <1>1, <1>3, Zenon DEF RepliesPending
<1> QED  BY <1>4, <1>5, <1>6, <1>7, Zenon

\* The catch forgets a click whose request is still pending.
LEMMA FailsDown ==
    ASSUME ShellTypes, DecidedGone, ScreenPending, ClicksPending, RepliesPending,
           NEW k \in Handlers, ClickFails(k)
    PROVE  DecidedGone' /\ ScreenPending' /\ ClicksPending' /\ RepliesPending'
<1>1. /\ UNCHANGED <<queue, nextId, current, poll, decided>>
      /\ answered' = answered \ {click[k].view.id} /\ click'[k] = NoClick
      /\ \A j \in Handlers : j # k => click'[j] = click[j]
  BY FailsMoves, Zenon DEF ClickBecomes, vars, memory
<1>2. Unserved(click[k])
  BY FailsMoves, BusyClick DEF Unserved
<1>3. ~Unserved(click'[k]) /\ PendingIn(click[k].view.id, queue)
  BY <1>1, <1>2, Zenon DEF Unserved, ClicksPending
<1>4. DecidedGone' /\ ScreenPending'
  BY <1>1, Zenon DEF DecidedGone, ScreenPending, PendingIn
<1>5. ClicksPending'
  <2> SUFFICES ASSUME NEW j \in Handlers, Unserved(click'[j])
               PROVE  /\ click'[j].view.id \in answered' /\ PendingIn(click'[j].view.id, queue)
                      /\ \A i \in Handlers : Unserved(click'[i]) /\ i # j =>
                            click'[i].view.id # click'[j].view.id
    BY <1>1, Zenon DEF ClicksPending, Unserved, PendingIn
  <2>1. j # k /\ click'[j] = click[j]
    BY <1>1, <1>3, Zenon
  <2> QED  BY <1>1, <1>2, <1>3, <2>1, Zenon DEF ClicksPending
<1>6. RepliesPending'
  <2> SUFFICES ASSUME NEW f \in Polls, poll[f].state = "served"
               PROVE  /\ \A v \in poll[f].view : v.id \in answered' \/ PendingIn(v.id, queue)
                      /\ poll[f].view = {} => current = {} /\ \A j \in Handlers : ~Unserved(click'[j])
    BY <1>1, Zenon DEF RepliesPending, Unserved, PendingIn
  <2> QED  BY <1>1, <1>2, <1>3, Zenon DEF RepliesPending
<1> QED  BY <1>4, <1>5, <1>6, Zenon

\* A click takes the dialog down and marks its id.
LEMMA ClickDown ==
    ASSUME ShellTypes, DecidedGone, ScreenPending, ClicksPending, RepliesPending,
           NEW k \in Handlers, NEW outcome \in Outcomes, Click(k, outcome)
    PROVE  DecidedGone' /\ ScreenPending' /\ ClicksPending' /\ RepliesPending'
<1>1. PICK w \in current :
         /\ answered' = answered \cup {w.id}
         /\ click' = [click EXCEPT ![k] = [state |-> "sent", view |-> w, outcome |-> outcome]]
  BY Zenon DEF Click
<1>2. click'[k].view = w /\ \A j \in Handlers : j # k => click'[j] = click[j]
  BY <1>1, ClickBegins, Zenon DEF ClickBecomes
<1>3. UNCHANGED <<queue, nextId, poll, decided>> /\ current' = {}
  BY Zenon DEF Click, vars, memory
<1>4. w.id \notin answered /\ PendingIn(w.id, queue)
  BY Zenon DEF ScreenPending
<1>5. DecidedGone' /\ ScreenPending'
  BY <1>3, Zenon DEF DecidedGone, ScreenPending, PendingIn
<1>6. ClicksPending'
  <2> SUFFICES ASSUME NEW j \in Handlers, Unserved(click'[j])
               PROVE  /\ click'[j].view.id \in answered' /\ PendingIn(click'[j].view.id, queue)
                      /\ \A i \in Handlers : Unserved(click'[i]) /\ i # j =>
                            click'[i].view.id # click'[j].view.id
    BY <1>3, Zenon DEF ClicksPending, Unserved, PendingIn
  <2>1. \A i \in Handlers : Unserved(click'[i]) /\ i # k =>
           click'[i] = click[i] /\ Unserved(click[i]) /\ click[i].view.id \in answered
    BY <1>2, Zenon DEF ClicksPending
  <2>2. \A i \in Handlers : Unserved(click'[i]) /\ i # k => click'[i].view.id # w.id
    BY <1>4, <2>1, Zenon
  <2>3. CASE j = k
    <3>1. click'[j].view.id = w.id
      BY <1>2, <2>3, Zenon
    <3>2. w.id \in answered'
      BY <1>1, Zenon
    <3> QED  BY <1>4, <2>2, <2>3, <3>1, <3>2, Zenon
  <2>4. CASE j # k
    <3>1. click[j].view.id \in answered' /\ PendingIn(click[j].view.id, queue)
      BY <1>1, <2>1, <2>4, Zenon DEF ClicksPending
    <3>2. ASSUME NEW i \in Handlers, Unserved(click'[i]), i # j
          PROVE  click'[i].view.id # click'[j].view.id
      <4>1. CASE i = k
        BY <1>2, <2>2, <2>4, <4>1, Zenon
      <4>2. CASE i # k
        BY <2>1, <2>4, <3>2, <4>2, Zenon DEF ClicksPending
      <4> QED  BY <4>1, <4>2, Zenon
    <3> QED  BY <2>1, <2>4, <3>1, <3>2, Zenon
  <2> QED  BY <2>3, <2>4, Zenon
<1>7. RepliesPending'
  <2> SUFFICES ASSUME NEW f \in Polls, poll[f].state = "served"
               PROVE  /\ \A v \in poll[f].view : v.id \in answered' \/ PendingIn(v.id, queue)
                      /\ poll[f].view # {}
    BY <1>3, Zenon DEF RepliesPending, Unserved, PendingIn
  <2> QED  BY <1>1, Zenon DEF RepliesPending
<1> QED  BY <1>5, <1>6, <1>7, Zenon

\* One poll at a time: while it is not served, no reply is in flight.
LEMMA PollDown ==
    ASSUME IInv, ShellTypes, DecidedGone, ScreenPending, ClicksPending, RepliesPending,
           \A f, g \in Polls : f = g,
           NEW f \in Polls, PollSend(f) \/ PollServe(f) \/ PollReturns(f) \/ PollFails(f)
    PROVE  DecidedGone' /\ ScreenPending' /\ ClicksPending' /\ RepliesPending'
<1>1. UNCHANGED <<queue, nextId, click, decided>>
  BY Zenon DEF PollSend, PollServe, PollReturns, PollFails, vars, memory
<1>2. DecidedGone'
  BY <1>1, Zenon DEF DecidedGone, PendingIn
<1>3. poll'[f].state # "served" => RepliesPending'
  BY Zenon DEF RepliesPending
<1>4. CASE PollSend(f) \/ PollFails(f)
  <2>1. answered' = answered /\ current' \subseteq current
    BY <1>4, Zenon DEF PollSend, PollFails
  <2>2. poll'[f].state # "served"
    BY <1>4, PollMoves
  <2>3. ScreenPending' /\ ClicksPending'
    BY <1>1, <2>1, Zenon DEF ScreenPending, ClicksPending, PendingIn, Unserved
  <2> QED  BY <1>2, <1>3, <2>2, <2>3, Zenon
<1>5. CASE PollServe(f)
  <2>1. UNCHANGED <<current, answered>>
    BY <1>5, Zenon DEF PollServe
  <2>2. ScreenPending' /\ ClicksPending'
    BY <1>1, <2>1, Zenon DEF ScreenPending, ClicksPending, PendingIn, Unserved
  <2>3. poll'[f].view = {View(p) : p \in {q \in queue : IsFront(q)}}
    BY <1>5, PollMoves, Zenon
  <2>4. \A v \in poll'[f].view : PendingIn(v.id, queue)
    BY <2>3, FrontView, Zenon DEF PendingIn
  <2>5. ASSUME poll'[f].view = {} PROVE current = {} /\ \A k \in Handlers : ~Unserved(click[k])
    <3>1. \A p \in queue : ~IsFront(p)
      BY <2>3, <2>5, Zenon
    <3>2. queue = {}
      BY <3>1, HasFront, Zenon DEF IInv
    <3> QED  BY <3>2, Zenon DEF ScreenPending, ClicksPending, PendingIn
  <2>6. RepliesPending'
    <3> SUFFICES /\ \A v \in poll'[f].view : v.id \in answered' \/ PendingIn(v.id, queue)
                 /\ poll'[f].view = {} => current = {} /\ \A k \in Handlers : ~Unserved(click[k])
      BY <1>1, <2>1, Zenon DEF RepliesPending, PendingIn, Unserved
    <3> QED  BY <2>4, <2>5, Zenon
  <2> QED  BY <1>2, <2>2, <2>6, Zenon
<1>6. CASE PollReturns(f)
  <2>1. poll'[f].state # "served" /\ poll[f].state = "served" /\ Show(poll[f].view)
    BY <1>6, PollMoves, Zenon DEF PollReturns
  <2>2. CASE poll[f].view = {} /\ answered' = {} /\ current' = {}
    <3>1. \A k \in Handlers : ~Unserved(click[k])
      BY <2>1, <2>2, Zenon DEF RepliesPending
    <3>2. ScreenPending' /\ ClicksPending'
      BY <1>1, <2>2, <3>1, Zenon DEF ScreenPending, ClicksPending, Unserved
    <3> QED  BY <1>2, <1>3, <2>1, <3>2, Zenon
  <2>3. CASE UNCHANGED <<answered, current>>
    <3>1. ScreenPending' /\ ClicksPending'
      BY <1>1, <2>3, Zenon DEF ScreenPending, ClicksPending, PendingIn, Unserved
    <3> QED  BY <1>2, <1>3, <2>1, <3>1, Zenon
  <2>4. CASE (\A v \in poll[f].view : v.id \notin answered) /\ current' = poll[f].view /\ UNCHANGED answered
    <3>1. \A v \in poll[f].view : PendingIn(v.id, queue)
      BY <2>1, <2>4, Zenon DEF RepliesPending
    <3>2. ScreenPending'
      BY <1>1, <2>4, <3>1, Zenon DEF ScreenPending, PendingIn
    <3>3. ClicksPending'
      BY <1>1, <2>4, Zenon DEF ClicksPending, PendingIn, Unserved
    <3> QED  BY <1>2, <1>3, <2>1, <3>2, <3>3, Zenon
  <2> QED  BY <2>1, <2>2, <2>3, <2>4, Zenon DEF Show
<1> QED  BY <1>4, <1>5, <1>6, Zenon

LEMMA DownStep ==
    ASSUME IInv, ShellTypes, DownInv, [ShellNext]_shellVars
    PROVE  DownInv'
<1> SUFFICES ASSUME restarts' = 0, \A f, g \in Polls : f = g
             PROVE  DecidedGone' /\ ScreenPending' /\ ClicksPending' /\ RepliesPending'
  BY Zenon DEF DownInv
<1>1. [Next]_vars
  BY ShellStepIsBrokerStep, Zenon
<1>2. /\ restarts \in Nat /\ nextId \in Nat /\ nextId' \in Nat
      /\ restarts' = restarts /\ nextId <= nextId'
      /\ \A p \in queue' : p \in queue \/ p.id = nextId
  BY <1>1, QueueMoves
<1>3. DecidedGone /\ ScreenPending /\ ClicksPending /\ RepliesPending /\ restarts = 0
  BY <1>2, Zenon DEF DownInv
<1>n. ~Unserved(NoClick)
  BY Zenon DEF Unserved
<1>v. UNCHANGED vars => UNCHANGED <<queue, nextId>>
  BY Zenon DEF vars, memory
<1>4. ASSUME queue \subseteq queue', UNCHANGED <<current, answered, poll, decided>>,
             \A k \in Handlers : Unserved(click'[k]) =>
                 Unserved(click[k]) /\ click'[k].view = click[k].view
      PROVE  DecidedGone' /\ ScreenPending' /\ ClicksPending' /\ RepliesPending'
  BY <1>2, <1>3, <1>4, DownFrame, Zenon DEF ShellTypes
<1>5. ASSUME UNCHANGED shell, queue \subseteq queue'
      PROVE  DecidedGone' /\ ScreenPending' /\ ClicksPending' /\ RepliesPending'
  BY <1>4, <1>5, Zenon DEF shell
<1>6. ASSUME NEW c \in Callers, Asks(c) PROVE UNCHANGED shell /\ queue \subseteq queue'
  <2>1. Intake(c) => queue \subseteq queue'
    BY Zenon DEF Intake, IntakeCheck, IntakeSilent, IntakeJoins, IntakeQueues
  <2>2. CallerLeaves(c) => queue \subseteq queue'
    BY Zenon DEF CallerLeaves, memory
  <2> QED  BY <1>6, <2>1, <2>2, Zenon DEF Asks
<1>7. ASSUME NEW k \in Handlers, Deliver(k)
      PROVE  DecidedGone' /\ ScreenPending' /\ ClicksPending' /\ RepliesPending'
  <2>1. /\ UNCHANGED <<current, answered, poll>> /\ click[k] # NoClick
        /\ \A j \in Handlers : j # k => click'[j] = click[j]
    BY <1>7, DeliverMoves, BusyClick, Zenon DEF ClickBecomes
  <2>2. Unserved(click[k])
    BY <1>7, <2>1, DeliverMoves, Zenon DEF Unserved
  <2>3. CASE click'[k] = NoClick /\ UNCHANGED <<vars, decided>>
    <3>1. queue \subseteq queue'
      BY <1>v, <2>3, Zenon
    <3>2. \A j \in Handlers : Unserved(click'[j]) =>
             Unserved(click[j]) /\ click'[j].view = click[j].view
      BY <1>n, <2>1, <2>3, Zenon
    <3> QED  BY <1>4, <2>1, <2>3, <3>1, <3>2, Zenon
  <2>4. ASSUME click'[k].state = "serving", NEW p \in queue, p.id = click[k].view.id,
               Resolve(k, p, click[k].outcome), decided' = decided \cup {<<restarts, p.id>>}
        PROVE  DecidedGone' /\ ScreenPending' /\ ClicksPending' /\ RepliesPending'
    <3>1. ~Unserved(click'[k])
      BY <2>4 DEF Unserved
    <3>2. queue' = queue \ {p} /\ nextId' = nextId
      BY <2>4, Zenon DEF Resolve
    <3>3. FreshInv
      BY Zenon DEF IInv
    <3> QED  BY <1>3, <2>1, <2>2, <2>4, <3>1, <3>2, <3>3, DeliverDown, Zenon
  <2>5. \/ \E p \in queue : /\ p.id = click[k].view.id /\ Resolve(k, p, click[k].outcome)
                            /\ decided' = decided \cup {<<restarts, p.id>>}
                            /\ click'[k].state = "serving"
        \/ click'[k] = NoClick /\ UNCHANGED <<vars, decided>>
    BY <1>7, DeliverMoves, Zenon DEF ClickBecomes
  <2> QED  BY <2>3, <2>4, <2>5, Zenon
<1>8. ASSUME NEW k \in Handlers, ClickLost(k) \/ ShellServe(k)
      PROVE  DecidedGone' /\ ScreenPending' /\ ClicksPending' /\ RepliesPending'
  <2>1. /\ UNCHANGED <<current, answered, poll, decided>>
        /\ \A j \in Handlers : j # k => click'[j] = click[j]
    BY <1>8, LostMoves, ServeMoves, Zenon DEF ClickBecomes
  <2>2. queue \subseteq queue'
    <3>1. ClickLost(k) => queue \subseteq queue'
      BY <1>v, LostMoves, Zenon
    <3>2. Serve(k) => queue \subseteq queue'
      BY Zenon DEF Serve, AuditOk, AuditErr, Record, Persist, Reply, RevokeAudit
    <3> QED  BY <1>8, <3>1, <3>2, Zenon DEF ShellServe
  <2>3. Unserved(click'[k]) => Unserved(click[k]) /\ click'[k].view = click[k].view
    <3>1. ClickLost(k) => Unserved(click[k]) /\ click'[k].view = click[k].view
      BY LostMoves, BusyClick, Zenon DEF Unserved
    <3>2. ShellServe(k) => click'[k] = NoClick \/ click'[k] = click[k]
      BY ServeMoves, Zenon DEF ClickBecomes
    <3> QED  BY <1>8, <1>n, <3>1, <3>2, Zenon
  <2> QED  BY <1>4, <2>1, <2>2, <2>3, Zenon
<1>9. ASSUME NEW f \in Polls, PollSend(f) \/ PollServe(f) \/ PollReturns(f) \/ PollFails(f)
      PROVE  DecidedGone' /\ ScreenPending' /\ ClicksPending' /\ RepliesPending'
  BY <1>3, <1>9, PollDown, Zenon
<1>10. ASSUME NEW k \in Handlers, ClickFails(k)
       PROVE  DecidedGone' /\ ScreenPending' /\ ClicksPending' /\ RepliesPending'
  BY <1>3, <1>10, FailsDown, Zenon
<1>11. ASSUME NEW k \in Handlers, NEW outcome \in Outcomes, Click(k, outcome)
       PROVE  DecidedGone' /\ ScreenPending' /\ ClicksPending' /\ RepliesPending'
  BY <1>3, <1>11, ClickDown, Zenon
<1>12. ~ShellRestart
  BY <1>2 DEF ShellRestart, Restart
<1>13. UNCHANGED shellVars => UNCHANGED shell /\ queue \subseteq queue'
  BY <1>v, Zenon DEF shellVars
<1> QED
  BY <1>5, <1>6, <1>7, <1>8, <1>9, <1>10, <1>11, <1>12, <1>13, Zenon DEF ShellNext
-----------------------------------------------------------------------------
(* The theorems. *)

LEMMA InitSInv == ShellInit => SInv
<1> SUFFICES ASSUME ShellInit PROVE SInv
  BY Zenon
<1>1. IInv
  BY InitIInv, Zenon DEF ShellInit
<1>2. ShellTypes
  <2>1. Quiet \in Calls
    BY Zenon DEF Quiet, Calls
  <2> QED  BY <2>1, Zenon DEF ShellInit, ShellTypes
<1>3. /\ \A k \in Handlers : click[k] = NoClick
      /\ \A f \in Polls : poll[f].view = {} /\ poll[f].state # "served"
      /\ current = {} /\ decided = {}
  BY DEF ShellInit, Quiet
<1>4. LifeInv
  <2>1. OnHand = {}
    BY <1>3, Zenon DEF OnHand
  <2>2. \A k \in Handlers : click[k].state # "serving"
    BY <1>3 DEF NoClick
  <2> QED  BY <2>1, <2>2, Zenon DEF LifeInv, AnswersOfThisLifetime
<1>5. DownInv
  BY <1>3, Zenon DEF DownInv, DecidedGone, ScreenPending, ClicksPending, RepliesPending, Unserved
<1> QED  BY <1>1, <1>2, <1>4, <1>5, Zenon DEF SInv

\* SInv holds in every reachable state of the broker behind the shell.
THEOREM ShellInvariance == ShellSpec => []SInv
<1>1. SInv /\ [ShellNext]_shellVars => SInv'
  BY ShellStepIsBrokerStep, NextIInv, TypesStep, LifeStep, DownStep, Zenon DEF SInv
<1> QED  BY <1>1, InitSInv, PTL DEF ShellSpec

\* The shell asks nothing of the broker that ConsentBroker does not allow: every
\* behaviour of the two together is one of the broker, so that what is proved of
\* the broker holds behind the shell (consent.ts only polls and resolves by id).
THEOREM ShellKeepsTheBroker == ShellSpec => Spec
<1>1. SInv /\ [ShellNext]_shellVars => [Next]_vars
  BY ShellStepIsBrokerStep, Zenon DEF SInv
<1>2. ShellInit => Init
  BY Zenon DEF ShellInit
<1> QED  BY <1>1, <1>2, ShellInvariance, PTL DEF ShellSpec, Spec

\* Within one lifetime of the broker an answer lands on the question that was on
\* screen, whatever the queue did between the poll, the click and the delivery.
THEOREM ShellAnswersWhatWasSeen == ShellSpec => []AnswersOfThisLifetime
<1>1. SInv => AnswersOfThisLifetime
  BY Zenon DEF SInv, LifeInv
<1> QED  BY <1>1, ShellInvariance, PTL

\* With polls that do not overlap, a dialog whose answer reached the broker is
\* not shown again before the broker restarts (the answered set of consent.ts).
THEOREM ShellKeepsAnsweredDown == ShellSpec => []AnsweredStaysDown
<1>1. ASSUME SInv, restarts = 0, \A f, g \in Polls : f = g, NEW v \in current
      PROVE  <<v.epoch, v.id>> \notin decided
  <2>1. PendingIn(v.id, queue) /\ \A d \in decided : ~PendingIn(d[2], queue)
    BY <1>1, Zenon DEF SInv, DownInv, ScreenPending, DecidedGone
  <2>2. \A d \in decided : d[2] # v.id
    BY <2>1, Zenon
  <2> QED  BY <2>2
<1>2. SInv => AnsweredStaysDown
  BY <1>1, Zenon DEF AnsweredStaysDown
<1> QED  BY <1>2, ShellInvariance, PTL
=============================================================================
