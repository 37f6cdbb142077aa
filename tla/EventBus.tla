------------------------------ MODULE EventBus ------------------------------
(***************************************************************************)
(* One event bus (daemons/event-bus): producer connections dispatch their  *)
(* events to the registered consumers, each with a bounded channel; the    *)
(* last message of every state topic is retained for consumers that        *)
(* register later.                                                         *)
(*                                                                         *)
(* Every connection is a task of a multi-threaded runtime.  The registry's *)
(* two locks are modelled by who holds them between two steps: a dispatch  *)
(* reads the consumer list for a whole delivery loop, a registration reads *)
(* the retained map while it waits for the consumer list.                  *)
(***************************************************************************)
EXTENDS Naturals, Sequences, FiniteSets

CONSTANTS Producers,        \* producer connections
          Conns,            \* consumer connections
          Uids, Root, Apps, Ids, Topics,
          StateTopics,      \* the topics named <domain>.state
          All, NoEvent,
          producer,         \* per producer: attested uid and app, publish scope, what it emits
          consumer,         \* per consumer: uid, id and filter it sends, types, scope, exempt
          UID_OBSERVERS, PUBLISH_ORIGINATORS,
          enforce_pubsub,
          CONSUMER_BUFFER,
          Early,            \* producers the supervisor knows from the start
          Readers,          \* consumers that keep reading their socket
          MaxSent           \* per producer: bound on its events

ASSUME PeersAssumption ==
    /\ producer \in [Producers -> [uid : Uids, app : Apps, scope : SUBSET Topics,
                                 emits : SUBSET (Topics \X Uids)]]
    /\ consumer \in [Conns -> [uid : Uids, id : Ids, filter : Uids \cup {All},
                               types : SUBSET Topics, scope : SUBSET Topics, exempt : BOOLEAN]]

\* The kernel layer runs as root.
ASSUME ObserversAssumption ==
    \A p \in Producers : producer[p].app \in UID_OBSERVERS => producer[p].uid = Root

ASSUME BusAssumption ==
    /\ Root \in Uids /\ All \notin Uids
    /\ StateTopics \subseteq Topics /\ IsFiniteSet(StateTopics) /\ Cardinality(StateTopics) \in Nat
    /\ Readers \subseteq Conns /\ Early \subseteq Producers
    /\ CONSUMER_BUFFER \in Nat \ {0} /\ MaxSent \in [Producers -> Nat] /\ enforce_pubsub \in BOOLEAN

VARIABLES
    known,      \* producers the session supervisor has registered
    task,       \* per producer: the state of handle_producer
    event,      \* per producer: the event being dispatched
    sent,       \* per producer: how many events it sent
    retained,   \* ConsumerRegistry::retained
    consumers,  \* ConsumerRegistry::consumers
    conn,       \* per consumer: the state of handle_consumer
    channel,    \* per consumer: its channel
    gone,       \* consumers whose peer has left
    last        \* per consumer, producer and state topic: the last event offered

vars == <<known, task, event, sent, retained, consumers, conn, channel, gone, last>>
-----------------------------------------------------------------------------
\* subject is whom the event is about, which only its producer knows.
Events == [from : Producers, seq : Nat, topic : Topics, uid : Uids, subject : Uids]

ASSUME NoEventAssumption == NoEvent \notin Events

Tasks == [pc : {"away", "reading", "retain", "acquire", "deliver"}, named : BOOLEAN,
          forwards : BOOLEAN, at : Nat]

Snapshots == Producers \X StateTopics

TypeOK ==
    /\ known \subseteq Producers
    /\ task \in [Producers -> Tasks]
    /\ event \in [Producers -> Events \cup {NoEvent}]
    /\ sent \in [Producers -> Nat]
    /\ retained \in [StateTopics -> Events \cup {NoEvent}]
    /\ consumers \in Seq(Conns)
    /\ conn \in [Conns -> {"new", "registering", "live", "closing", "closed"}]
    /\ channel \in [Conns -> Seq(Events)]
    /\ \A k \in Conns : Len(channel[k]) <= CONSUMER_BUFFER
    /\ gone \subseteq Conns
    /\ last \in [Conns -> [Snapshots -> Events \cup {NoEvent}]]

Away == [pc |-> "away", named |-> FALSE, forwards |-> FALSE, at |-> 0]

Init ==
    /\ known = Early
    /\ task = [p \in Producers |-> Away]
    /\ event = [p \in Producers |-> NoEvent]
    /\ sent = [p \in Producers |-> 0]
    /\ retained = [t \in StateTopics |-> NoEvent]
    /\ consumers = << >>
    /\ conn = [k \in Conns |-> "new"]
    /\ channel = [k \in Conns |-> << >>]
    /\ gone = {}
    /\ last = [k \in Conns |-> [s \in Snapshots |-> NoEvent]]
-----------------------------------------------------------------------------
(* Who may receive what. *)

\* Mutant: the claim is honoured.
ClampToClaim(claimed, attested) == claimed

\* clamp_uid_filter: root keeps what it claims.
clamp_uid_filter(claimed, attested) == IF attested = Root THEN claimed ELSE attested

\* UidFilter::accepts.
accepts(filter, uid) == filter = All \/ uid = filter

\* permitted_subscriptions: in shadow mode everything asked for.
Subscribed(k) ==
    IF enforce_pubsub /\ ~consumer[k].exempt
    THEN consumer[k].types \cap consumer[k].scope ELSE consumer[k].types

Wants(k, e) ==
    /\ e.topic \in Subscribed(k)
    /\ accepts(clamp_uid_filter(consumer[k].filter, consumer[k].uid), e.uid)

\* Mutant: the channel grows without a limit.
SendAlways(c, e) == Append(c, e)

\* try_send: an event for a full channel is dropped.
Send(c, e) == IF Len(c) < CONSUMER_BUFFER THEN Append(c, e) ELSE c

Offered(k, e) ==
    IF e.topic \in StateTopics THEN [last[k] EXCEPT ![<<e.from, e.topic>>] = e] ELSE last[k]
-----------------------------------------------------------------------------
(* Producers. *)

\* The supervisor registers the peer, before or after it connects.
Identify(p) ==
    /\ p \notin known
    /\ known' = known \cup {p}
    /\ UNCHANGED <<task, event, sent, retained, consumers, conn, channel, gone, last>>

Connect(p) ==
    /\ task[p].pc = "away"
    /\ task' = [task EXCEPT ![p] = [pc |-> "reading", named |-> p \in known,
                                    forwards |-> p \in known /\ producer[p].app \in UID_OBSERVERS,
                                    at |-> 0]]
    /\ UNCHANGED <<known, event, sent, retained, consumers, conn, channel, gone, last>>

\* An observer declares the uid it saw; nobody else is about another user.
Subject(p, declared) ==
    IF producer[p].app \in UID_OBSERVERS THEN declared ELSE producer[p].uid

\* EBK-2: restamp unless the peer was an observer when it connected.
Stamp(p, declared) == IF task[p].forwards THEN declared ELSE producer[p].uid

\* An unresolved peer is looked up again, once per event.
NamedNow(p) == task[p].named \/ p \in known

Held(p) == ~(NamedNow(p) /\ producer[p].app \in PUBLISH_ORIGINATORS)
publish_allowed(p, topic) == NamedNow(p) /\ topic \in producer[p].scope

Read(p, pc) ==
    /\ task[p].pc = "reading"
    /\ task' = [task EXCEPT ![p].named = NamedNow(p), ![p].pc = pc]
    /\ UNCHANGED <<known, retained, consumers, conn, channel, gone, last>>

\* dispatch retains a snapshot before it takes the consumer list.
AfterRead(topic) == IF topic \in StateTopics THEN "retain" ELSE "acquire"

Publish(p, topic, declared) ==
    /\ ~enforce_pubsub \/ ~Held(p) \/ publish_allowed(p, topic)
    /\ Read(p, AfterRead(topic))
    /\ sent[p] < MaxSent[p]
    /\ sent' = [sent EXCEPT ![p] = @ + 1]
    /\ event' = [event EXCEPT ![p] =
          [from |-> p, seq |-> sent[p] + 1, topic |-> topic, uid |-> Stamp(p, declared),
           subject |-> Subject(p, declared)]]

\* The event lacks a field, or is outside the scope in enforce mode.
PublishDropped(p) == Read(p, "reading") /\ UNCHANGED <<event, sent>>

\* Mutant: the first snapshot of a topic is kept.
RetainFirst(p) ==
    /\ task[p].pc = "retain"
    /\ \A k \in Conns : conn[k] # "registering"
    /\ retained' = [retained EXCEPT ![event[p].topic] = IF @ = NoEvent THEN event[p] ELSE @]
    /\ task' = [task EXCEPT ![p].pc = "acquire"]
    /\ UNCHANGED <<known, event, sent, consumers, conn, channel, gone, last>>

\* The retained write lock: no registration is reading the map.
Retain(p) ==
    /\ task[p].pc = "retain"
    /\ \A k \in Conns : conn[k] # "registering"
    /\ retained' = [retained EXCEPT ![event[p].topic] = event[p]]
    /\ task' = [task EXCEPT ![p].pc = "acquire"]
    /\ UNCHANGED <<known, event, sent, consumers, conn, channel, gone, last>>

\* The delivery loop stands at position i of the consumer list, or is over.
Loop(p, i) ==
    IF i <= Len(consumers)
    THEN task' = [task EXCEPT ![p].pc = "deliver", ![p].at = i] /\ UNCHANGED event
    ELSE /\ task' = [task EXCEPT ![p].pc = "reading", ![p].at = 0]
         /\ event' = [event EXCEPT ![p] = NoEvent]

\* The consumer list is not written to: writers hold it within one step only.
Acquire(p) ==
    /\ task[p].pc = "acquire"
    /\ Loop(p, 1)
    /\ UNCHANGED <<known, sent, retained, consumers, conn, channel, gone, last>>

\* Mutant: the loop waits for room in the channel.
OfferWaiting(p) ==
    LET k == consumers[task[p].at] IN
    /\ task[p].pc = "deliver"
    /\ Wants(k, event[p]) => Len(channel[k]) < CONSUMER_BUFFER
    /\ channel' = [channel EXCEPT ![k] = IF Wants(k, event[p]) THEN Send(@, event[p]) ELSE @]
    /\ last' = [last EXCEPT ![k] = IF Wants(k, event[p]) THEN Offered(k, event[p]) ELSE @]
    /\ Loop(p, task[p].at + 1)
    /\ UNCHANGED <<known, sent, retained, consumers, conn, gone>>

Offer(p) ==
    LET k == consumers[task[p].at] IN
    /\ task[p].pc = "deliver"
    /\ channel' = [channel EXCEPT ![k] = IF Wants(k, event[p]) THEN Send(@, event[p]) ELSE @]
    /\ last' = [last EXCEPT ![k] = IF Wants(k, event[p]) THEN Offered(k, event[p]) ELSE @]
    /\ Loop(p, task[p].at + 1)
    /\ UNCHANGED <<known, sent, retained, consumers, conn, gone>>

Leave(p) ==
    /\ task[p].pc = "reading"
    /\ task' = [task EXCEPT ![p] = Away]
    /\ UNCHANGED <<known, event, sent, retained, consumers, conn, channel, gone, last>>
-----------------------------------------------------------------------------
(* Consumers. *)

\* The consumer list is not being read by a delivery loop.
ListFree == \A p \in Producers : task[p].pc # "deliver"

\* register, first lock: the retained map.
Register(k) ==
    /\ conn[k] = "new"
    /\ conn' = [conn EXCEPT ![k] = "registering"]
    /\ UNCHANGED <<known, task, event, sent, retained, consumers, channel, gone, last>>

\* The sequences that list every element of S once; S has at most n.
Listings(S, n) ==
    {s \in UNION {[1 .. m -> S] : m \in 0 .. n} :
        /\ {s[i] : i \in DOMAIN s} = S
        /\ \A i, j \in DOMAIN s : s[i] = s[j] => i = j}

\* The snapshots to replay, in the order the map yields them.
Replays(k) ==
    Listings({retained[t] : t \in {s \in StateTopics : retained[s] # NoEvent /\ Wants(k, retained[s])}},
             Cardinality(StateTopics))

\* register, second lock: replay and push in one section.
Insert(k) ==
    /\ conn[k] = "registering"
    /\ ListFree
    /\ \E s \in Replays(k) :
          /\ channel' = [channel EXCEPT ![k] =
                SubSeq(s, 1, IF Len(s) < CONSUMER_BUFFER THEN Len(s) ELSE CONSUMER_BUFFER)]
          /\ last' = [last EXCEPT ![k] = [x \in Snapshots |->
                IF retained[x[2]] \in {s[i] : i \in DOMAIN s} /\ retained[x[2]].from = x[1]
                THEN retained[x[2]] ELSE @[x]]]
    /\ consumers' = Append(consumers, k)
    /\ conn' = [conn EXCEPT ![k] = "live"]
    /\ UNCHANGED <<known, task, event, sent, retained, gone>>

\* The peer exits; the bus learns of it when it next writes.
PeerLeaves(k) ==
    /\ conn[k] = "live" /\ k \notin gone
    /\ gone' = gone \cup {k}
    /\ UNCHANGED <<known, task, event, sent, retained, consumers, conn, channel, last>>

\* One event of the channel goes to the socket.
Forward(k) ==
    /\ conn[k] = "live" /\ channel[k] # << >>
    /\ channel' = [channel EXCEPT ![k] = Tail(@)]
    /\ conn' = [conn EXCEPT ![k] = IF k \in gone THEN "closing" ELSE @]
    /\ UNCHANGED <<known, task, event, sent, retained, consumers, gone, last>>

Listed(k) == \E i \in DOMAIN consumers : consumers[i] = k

\* Mutant: an ended channel is not noticed while the peer is there.
CutOffIfGone(k) ==
    /\ conn[k] = "live" /\ channel[k] = << >> /\ ~Listed(k) /\ k \in gone
    /\ conn' = [conn EXCEPT ![k] = "closing"]
    /\ UNCHANGED <<known, task, event, sent, retained, consumers, channel, gone, last>>

\* The sender was dropped and the channel is empty: recv returns None.
CutOff(k) ==
    /\ conn[k] = "live" /\ channel[k] = << >> /\ ~Listed(k)
    /\ conn' = [conn EXCEPT ![k] = "closing"]
    /\ UNCHANGED <<known, task, event, sent, retained, consumers, channel, gone, last>>

\* Mutant: the entries that should stay are the ones removed.
SameEntryInverted(j, k) == consumer[j].id # consumer[k].id

\* An entry is found by the id its consumer chose.
SameEntry(j, k) == consumer[j].id = consumer[k].id

\* Vec::retain: the entries other than k's, in the order they have.
Others(k) ==
    LET kept == {i \in DOMAIN consumers : ~SameEntry(consumers[i], k)}
        inOrder == {f \in Listings(kept, Len(consumers)) : \A i, j \in DOMAIN f : i < j => f[i] < f[j]}
    IN  {[i \in DOMAIN f |-> consumers[f[i]]] : f \in inOrder}

\* unregister, and the end of the connection.
Unregister(k) ==
    /\ conn[k] = "closing"
    /\ ListFree
    /\ consumers' \in Others(k)
    /\ conn' = [conn EXCEPT ![k] = "closed"]
    /\ channel' = [channel EXCEPT ![k] = << >>]
    /\ UNCHANGED <<known, task, event, sent, retained, gone, last>>
-----------------------------------------------------------------------------
Dispatch(p) == Retain(p) \/ Acquire(p) \/ Offer(p)

Handle(k) == Insert(k) \/ CutOff(k) \/ Unregister(k)

Next ==
    \/ \E p \in Producers :
          \/ Identify(p) \/ Connect(p) \/ Leave(p) \/ PublishDropped(p) \/ Dispatch(p)
          \/ \E m \in producer[p].emits : Publish(p, m[1], m[2])
    \/ \E k \in Conns :
          Register(k) \/ PeerLeaves(k) \/ Forward(k) \/ Handle(k)

Spec == Init /\ [][Next]_vars

\* The runtime polls every task whose lock is free.  Nothing makes a consumer
\* read its socket except its own wish.
Fairness ==
    /\ \A p \in Producers : WF_vars(Dispatch(p))
    /\ \A k \in Conns : WF_vars(Handle(k) \/ (k \in Readers /\ Forward(k)))

FairSpec == Spec /\ Fairness
-----------------------------------------------------------------------------
(* Properties. *)

\* A user's consumers never receive an event about another user, whatever its
\* producer declared and whatever filter the consumer claimed.
UidIsolation ==
    \A k \in Conns : consumer[k].uid # Root =>
        \A i \in DOMAIN channel[k] : channel[k][i].subject = consumer[k].uid

\* The event of producer p is still to be offered to consumer k.
OnItsWay(p, k) ==
    \/ task[p].pc = "acquire"
    \/ task[p].pc = "deliver" /\ \E i \in DOMAIN consumers : i >= task[p].at /\ consumers[i] = k

\* A consumer gets the retained snapshot from one side or the other: what the
\* map holds is the last of its producer's snapshots that a registered consumer
\* was offered, or it is on its way there.
NeverNeither ==
    \A k \in Conns, t \in StateTopics :
        LET e == retained[t] IN
        Listed(k) /\ e # NoEvent /\ Wants(k, e) =>
            last[k][<<e.from, t>>] = e \/ (event[e.from] = e /\ OnItsWay(e.from, k))

\* The list follows the connections: one that has ended left no entry behind,
\* and one that is served stays listed unless another connection with its id
\* ended.
ServedIsListed ==
    \A k \in Conns :
        /\ Listed(k) => conn[k] \in {"live", "closing"}
        /\ conn[k] = "live" /\ ~Listed(k) =>
              \E j \in Conns \ {k} : consumer[j].id = consumer[k].id /\ conn[j] = "closed"

\* A slow consumer does not stall the bus: every event taken from a producer is
\* dispatched to the end and the producer is read again.
NothingStalls ==
    \A p \in Producers : task[p].pc \in {"retain", "acquire", "deliver"} ~> task[p].pc = "reading"

\* A consumer that reads and was dropped from the list is disconnected, so that
\* it can register again, and does not wait on a silent socket for ever.
CutOffIsNoticed ==
    \A k \in Readers : conn[k] = "live" /\ ~Listed(k) ~> conn[k] = "closed"
=============================================================================
