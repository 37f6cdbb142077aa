-------------------------- MODULE EventBusProofs --------------------------
(***************************************************************************)
(* Theorems about EventBus, for every set of producers, consumers, users   *)
(* and topics, every buffer size and both modes of enforcement.            *)
(***************************************************************************)
EXTENDS EventBus, TLAPS

Busy == {"retain", "acquire", "deliver"}

\* A producer that dispatches has its own event in hand, a snapshot while it
\* waits for the map, and stands at an entry of the list while it delivers.
DispatchInv ==
    \A p \in Producers :
        /\ task[p].pc \in Busy => event[p] \in Events /\ event[p].from = p
        /\ task[p].pc = "retain" => event[p].topic \in StateTopics
        /\ task[p].pc = "deliver" => task[p].at \in 1 .. Len(consumers)
        /\ task[p].forwards => producer[p].app \in UID_OBSERVERS

\* What the bus says of an event is true, or it says root.
Truthful(e) == e.subject = e.uid \/ e.uid = Root

\* Nothing untrue is in hand, in the map or in a channel, and a channel holds
\* only what its consumer may have.
StampInv ==
    /\ \A p \in Producers : event[p] # NoEvent => Truthful(event[p])
    /\ \A t \in StateTopics : retained[t] # NoEvent => Truthful(retained[t])
    /\ \A k \in Conns : \A i \in DOMAIN channel[k] :
          Truthful(channel[k][i]) /\ Wants(k, channel[k][i])

\* The map is keyed by topic, and a dispatch past the map finds its own event
\* there unless another producer has replaced it since.
MapInv ==
    /\ \A t \in StateTopics : retained[t] # NoEvent => retained[t].topic = t
    /\ \A p \in Producers, t \in StateTopics :
          /\ task[p].pc \in {"acquire", "deliver"} /\ event[p].topic = t
          /\ retained[t] # NoEvent /\ retained[t].from = p
          => retained[t] = event[p]

IInv ==
    /\ TypeOK /\ DispatchInv /\ StampInv /\ MapInv
    /\ NeverNeither /\ ServedIsListed
-----------------------------------------------------------------------------
(* Operators. *)

\* The replay of a registration has every snapshot it is to have, and no more.
LEMMA ReplaysAll ==
  ASSUME TypeOK, NEW k \in Conns, NEW s \in Replays(k)
  PROVE  /\ s \in Seq(Events)
         /\ \A i \in DOMAIN s : \E t \in StateTopics :
               s[i] = retained[t] /\ retained[t] # NoEvent /\ Wants(k, retained[t])
         /\ \A t \in StateTopics : retained[t] # NoEvent /\ Wants(k, retained[t]) =>
               \E i \in DOMAIN s : s[i] = retained[t]
<1> DEFINE R == {retained[t] : t \in {x \in StateTopics : retained[x] # NoEvent /\ Wants(k, retained[x])}}
<1>1. /\ s \in UNION {[1 .. m -> R] : m \in 0 .. Cardinality(StateTopics)}
      /\ {s[i] : i \in DOMAIN s} = R
  BY Zenon DEF Replays, Listings
<1>2. R \subseteq Events
  BY Zenon DEF TypeOK
<1>3. \A r \in R : \E t \in StateTopics :
          r = retained[t] /\ retained[t] # NoEvent /\ Wants(k, retained[t])
  BY Zenon
<1>4. \A t \in StateTopics : retained[t] # NoEvent /\ Wants(k, retained[t]) => retained[t] \in R
  BY Zenon
<1> HIDE DEF R
<1>5. PICK m \in 0 .. Cardinality(StateTopics) : s \in [1 .. m -> R]
  BY <1>1, Zenon
<1>6. m \in Nat
  BY BusAssumption
<1>7. s \in Seq(Events)
  BY <1>2, <1>5, <1>6
<1> QED
  BY <1>1, <1>3, <1>4, <1>7, Zenon

\* What is left of the list are exactly the entries with another id.
LEMMA OthersStay ==
  ASSUME TypeOK, NEW k \in Conns, NEW s \in Others(k)
  PROVE  /\ s \in Seq(Conns)
         /\ \A i \in DOMAIN s : \E j \in DOMAIN consumers :
               s[i] = consumers[j] /\ ~SameEntry(consumers[j], k)
         /\ \A j \in DOMAIN consumers : ~SameEntry(consumers[j], k) =>
               \E i \in DOMAIN s : s[i] = consumers[j]
<1> DEFINE kept == {i \in DOMAIN consumers : ~SameEntry(consumers[i], k)}
<1>1. PICK f \in Listings(kept, Len(consumers)) : s = [i \in DOMAIN f |-> consumers[f[i]]]
  BY Zenon DEF Others
<1>2. Len(consumers) \in Nat /\ \A i \in DOMAIN consumers : consumers[i] \in Conns
  BY DEF TypeOK
<1>3. /\ f \in UNION {[1 .. m -> kept] : m \in 0 .. Len(consumers)}
      /\ {f[i] : i \in DOMAIN f} = kept
  BY <1>1, Zenon DEF Listings
<1>4. \A j \in kept : j \in DOMAIN consumers /\ ~SameEntry(consumers[j], k)
  BY Zenon
<1>5. \A j \in DOMAIN consumers : ~SameEntry(consumers[j], k) => j \in kept
  BY Zenon
<1> HIDE DEF kept
<1>6. PICK m \in 0 .. Len(consumers) : f \in [1 .. m -> kept]
  BY <1>3, Zenon
<1>7. m \in Nat /\ s \in [1 .. m -> Conns]
  BY <1>1, <1>2, <1>4, <1>6
<1>8. s \in Seq(Conns)
  BY <1>7
<1>9. DOMAIN f = DOMAIN s /\ \A i \in DOMAIN s : s[i] = consumers[f[i]]
  BY <1>1, Zenon
<1>10. \A i \in DOMAIN s : f[i] \in kept
  BY <1>3, <1>9, Zenon
<1>11. \A j \in kept : \E i \in DOMAIN s : f[i] = j
  BY <1>3, <1>9, Zenon
<1>12. ASSUME NEW i \in DOMAIN s
       PROVE  \E j \in DOMAIN consumers : s[i] = consumers[j] /\ ~SameEntry(consumers[j], k)
  <2>1. f[i] \in DOMAIN consumers /\ ~SameEntry(consumers[f[i]], k) /\ s[i] = consumers[f[i]]
    BY <1>4, <1>9, <1>10, Zenon
  <2> QED
    BY <2>1, Zenon
<1>13. ASSUME NEW j \in DOMAIN consumers, ~SameEntry(consumers[j], k)
       PROVE  \E i \in DOMAIN s : s[i] = consumers[j]
  <2>1. PICK i \in DOMAIN s : f[i] = j
    BY <1>5, <1>11, <1>13, Zenon
  <2>2. s[i] = consumers[j]
    BY <1>9, <2>1, Zenon
  <2> QED
    BY <2>2, Zenon
<1> QED
  BY <1>8, <1>12, <1>13, Zenon

\* try_send appends or drops, and never exceeds the buffer.
LEMMA SendBounded ==
  ASSUME NEW c \in Seq(Events), Len(c) <= CONSUMER_BUFFER, NEW e \in Events
  PROVE  /\ Send(c, e) \in Seq(Events) /\ Len(Send(c, e)) <= CONSUMER_BUFFER
         /\ \A i \in DOMAIN Send(c, e) :
               Send(c, e)[i] = e \/ (i \in DOMAIN c /\ Send(c, e)[i] = c[i])
  BY BusAssumption DEF Send
-----------------------------------------------------------------------------
(* Types. *)

\* The records of a producer task keep their type.
LEMMA TaskTypes ==
  ASSUME TypeOK, NEW p \in Producers
  PROVE  /\ task[p] \in Tasks /\ Away \in Tasks
         /\ \A pc \in {"away", "reading", "retain", "acquire", "deliver"} :
              /\ \A b \in BOOLEAN : [task EXCEPT ![p].named = b, ![p].pc = pc] \in [Producers -> Tasks]
              /\ \A i \in Nat : [task EXCEPT ![p].pc = pc, ![p].at = i] \in [Producers -> Tasks]
              /\ [task EXCEPT ![p].pc = pc] \in [Producers -> Tasks]
<1>1. task \in [Producers -> Tasks] /\ task[p] \in Tasks
  BY Zenon DEF TypeOK
<1>2. Away \in Tasks
  BY Zenon DEF Away, Tasks
<1> SUFFICES ASSUME NEW pc \in {"away", "reading", "retain", "acquire", "deliver"}
             PROVE  /\ \A b \in BOOLEAN : [task EXCEPT ![p].named = b, ![p].pc = pc] \in [Producers -> Tasks]
                    /\ \A i \in Nat : [task EXCEPT ![p].pc = pc, ![p].at = i] \in [Producers -> Tasks]
                    /\ [task EXCEPT ![p].pc = pc] \in [Producers -> Tasks]
  BY <1>1, <1>2, Zenon
<1>3. ASSUME NEW b \in BOOLEAN
      PROVE  [task EXCEPT ![p].named = b, ![p].pc = pc] \in [Producers -> Tasks]
  <2>1. [[task[p] EXCEPT !.named = b] EXCEPT !.pc = pc] \in Tasks
    BY <1>1, Zenon DEF Tasks
  <2> QED
    BY <1>1, <2>1, Zenon
<1>4. ASSUME NEW i \in Nat
      PROVE  [task EXCEPT ![p].pc = pc, ![p].at = i] \in [Producers -> Tasks]
  <2>1. [[task[p] EXCEPT !.pc = pc] EXCEPT !.at = i] \in Tasks
    BY <1>1, Zenon DEF Tasks
  <2> QED
    BY <1>1, <2>1, Zenon
<1>5. [task EXCEPT ![p].pc = pc] \in [Producers -> Tasks]
  <2>1. [task[p] EXCEPT !.pc = pc] \in Tasks
    BY <1>1, Zenon DEF Tasks
  <2> QED
    BY <1>1, <2>1, Zenon
<1> QED
  BY <1>3, <1>4, <1>5, Zenon

\* Publishing makes a well-formed event, which says the truth or root.
LEMMA PublishedEvent ==
  ASSUME TypeOK, DispatchInv, NEW p \in Producers, NEW m \in producer[p].emits,
         Publish(p, m[1], m[2])
  PROVE  /\ event'[p] \in Events /\ event'[p].from = p /\ event'[p].topic = m[1]
         /\ Truthful(event'[p])
         /\ \A q \in Producers : q # p => event'[q] = event[q]
<1>1. m[1] \in Topics /\ m[2] \in Uids /\ producer[p].uid \in Uids
  BY PeersAssumption
<1>2. Stamp(p, m[2]) \in Uids /\ Subject(p, m[2]) \in Uids
  BY <1>1, Zenon DEF Stamp, Subject
<1>3. sent[p] + 1 \in Nat
  BY DEF TypeOK
<1>4. Subject(p, m[2]) = Stamp(p, m[2]) \/ Stamp(p, m[2]) = Root
  BY ObserversAssumption, Zenon DEF Stamp, Subject, DispatchInv
<1>5. event' = [event EXCEPT ![p] =
          [from |-> p, seq |-> sent[p] + 1, topic |-> m[1], uid |-> Stamp(p, m[2]),
           subject |-> Subject(p, m[2])]]
  BY Zenon DEF Publish
<1>6. event'[p] = [from |-> p, seq |-> sent[p] + 1, topic |-> m[1], uid |-> Stamp(p, m[2]),
           subject |-> Subject(p, m[2])]
  BY <1>5, Zenon DEF TypeOK
<1> QED
  BY <1>1, <1>2, <1>3, <1>4, <1>5, <1>6, Zenon DEF Events, Truthful, TypeOK

\* One turn of the delivery loop keeps the types of the task and of its event.
LEMMA LoopTypes ==
  ASSUME TypeOK, NEW p \in Producers, NEW i \in Nat, Loop(p, i)
  PROVE  /\ task' \in [Producers -> Tasks]
         /\ event' \in [Producers -> Events \cup {NoEvent}]
<1>1. CASE i <= Len(consumers)
  <2>1. task' = [task EXCEPT ![p].pc = "deliver", ![p].at = i] /\ event' = event
    BY <1>1, Zenon DEF Loop
  <2> QED
    BY <2>1, TaskTypes, Zenon DEF TypeOK
<1>2. CASE ~(i <= Len(consumers))
  <2>1. /\ task' = [task EXCEPT ![p].pc = "reading", ![p].at = 0]
        /\ event' = [event EXCEPT ![p] = NoEvent]
    BY <1>2, Zenon DEF Loop
  <2> QED
    BY <2>1, TaskTypes, Zenon DEF TypeOK
<1> QED
  BY <1>1, <1>2, Zenon

\* What a delivery does to the channel and to the record of offers.
LEMMA OfferedTypes ==
  ASSUME TypeOK, NEW k \in Conns, NEW e \in Events
  PROVE  Offered(k, e) \in [Snapshots -> Events \cup {NoEvent}]
  BY Zenon DEF Offered, TypeOK, Snapshots, Events

\* A replay is cut to the buffer.
LEMMA ReplayCut ==
  ASSUME NEW s \in Seq(Events)
  PROVE  LET c == SubSeq(s, 1, IF Len(s) < CONSUMER_BUFFER THEN Len(s) ELSE CONSUMER_BUFFER)
         IN  /\ c \in Seq(Events) /\ Len(c) <= CONSUMER_BUFFER
             /\ \A i \in DOMAIN c : i \in DOMAIN s /\ c[i] = s[i]
<1> DEFINE n == IF Len(s) < CONSUMER_BUFFER THEN Len(s) ELSE CONSUMER_BUFFER
           c == SubSeq(s, 1, n)
<1>1. Len(s) \in Nat /\ n \in Nat /\ n <= Len(s) /\ n <= CONSUMER_BUFFER
  BY BusAssumption
<1> HIDE DEF n
<1>2. c \in Seq(Events) /\ Len(c) = n /\ \A i \in 1 .. n : c[i] = s[i]
  BY <1>1
<1>3. DOMAIN c = 1 .. n /\ DOMAIN s = 1 .. Len(s)
  BY <1>2
<1> QED
  BY <1>1, <1>2, <1>3 DEF n

\* Reading moves one producer and nothing else of its task but its name.
LEMMA ReadFrame ==
  ASSUME TypeOK, NEW p \in Producers, NEW pc, Read(p, pc)
  PROVE  /\ task[p].pc = "reading" /\ task'[p].pc = pc
         /\ task'[p].forwards = task[p].forwards
         /\ \A q \in Producers : q # p => task'[q] = task[q]
<1>1. task \in [Producers -> Tasks] /\ task[p] \in Tasks
  BY Zenon DEF TypeOK
<1>2. task' = [task EXCEPT ![p].named = NamedNow(p), ![p].pc = pc]
  BY Zenon DEF Read
<1>3. task'[p] = [[task[p] EXCEPT !.named = NamedNow(p)] EXCEPT !.pc = pc]
  BY <1>1, <1>2, Zenon
<1>4. /\ [[task[p] EXCEPT !.named = NamedNow(p)] EXCEPT !.pc = pc].pc = pc
      /\ [[task[p] EXCEPT !.named = NamedNow(p)] EXCEPT !.pc = pc].forwards = task[p].forwards
  BY <1>1, Zenon DEF Tasks
<1> QED
  BY <1>1, <1>2, <1>3, <1>4, Zenon DEF Read

\* A turn of the loop moves one producer to position i, or ends its dispatch.
LEMMA LoopFrame ==
  ASSUME TypeOK, NEW p \in Producers, NEW i \in Nat, Loop(p, i)
  PROVE  /\ task'[p].forwards = task[p].forwards
         /\ i <= Len(consumers) =>
               task'[p].pc = "deliver" /\ task'[p].at = i /\ event'[p] = event[p]
         /\ i > Len(consumers) => task'[p].pc = "reading" /\ event'[p] = NoEvent
         /\ \A q \in Producers : q # p => task'[q] = task[q] /\ event'[q] = event[q]
<1>1. task \in [Producers -> Tasks] /\ task[p] \in Tasks /\ Len(consumers) \in Nat
  BY DEF TypeOK
<1>2. ASSUME NEW pc, NEW at, task' = [task EXCEPT ![p].pc = pc, ![p].at = at]
      PROVE  /\ task'[p].pc = pc /\ task'[p].at = at /\ task'[p].forwards = task[p].forwards
             /\ \A q \in Producers : q # p => task'[q] = task[q]
  <2>1. task'[p] = [[task[p] EXCEPT !.pc = pc] EXCEPT !.at = at]
    BY <1>1, <1>2, Zenon
  <2>2. LET r == [[task[p] EXCEPT !.pc = pc] EXCEPT !.at = at]
        IN  r.pc = pc /\ r.at = at /\ r.forwards = task[p].forwards
    BY <1>1, Zenon DEF Tasks
  <2> QED
    BY <1>1, <1>2, <2>1, <2>2, Zenon
<1>3. CASE i <= Len(consumers)
  <2>1. task' = [task EXCEPT ![p].pc = "deliver", ![p].at = i] /\ event' = event
    BY <1>3, Zenon DEF Loop
  <2>2. /\ task'[p].pc = "deliver" /\ task'[p].at = i /\ task'[p].forwards = task[p].forwards
        /\ \A q \in Producers : q # p => task'[q] = task[q]
    BY <1>2, <2>1, Zenon
  <2> QED
    BY <1>1, <1>3, <2>1, <2>2
<1>4. CASE i > Len(consumers)
  <2>1. /\ task' = [task EXCEPT ![p].pc = "reading", ![p].at = 0]
        /\ event' = [event EXCEPT ![p] = NoEvent]
    BY <1>1, <1>4 DEF Loop
  <2>2. /\ task'[p].pc = "reading" /\ task'[p].forwards = task[p].forwards
        /\ \A q \in Producers : q # p => task'[q] = task[q]
    BY <1>2, <2>1, Zenon
  <2>3. event'[p] = NoEvent /\ \A q \in Producers : q # p => event'[q] = event[q]
    BY <2>1, Zenon DEF TypeOK
  <2> QED
    BY <1>1, <1>4, <2>2, <2>3
<1> QED
  BY <1>1, <1>3, <1>4

\* Retaining puts the event in the map and moves on to the list.
LEMMA RetainFrame ==
  ASSUME TypeOK, DispatchInv, NEW p \in Producers, Retain(p)
  PROVE  /\ task[p].pc = "retain" /\ event[p] \in Events /\ event[p].topic \in StateTopics
         /\ task'[p].pc = "acquire" /\ task'[p].forwards = task[p].forwards
         /\ \A q \in Producers : q # p => task'[q] = task[q]
         /\ retained'[event[p].topic] = event[p]
         /\ \A t \in StateTopics : t # event[p].topic => retained'[t] = retained[t]
         /\ retained' \in [StateTopics -> Events \cup {NoEvent}]
<1>1. /\ task \in [Producers -> Tasks] /\ task[p] \in Tasks
      /\ retained \in [StateTopics -> Events \cup {NoEvent}]
  BY Zenon DEF TypeOK
<1>2. task[p].pc = "retain" /\ event[p] \in Events /\ event[p].topic \in StateTopics
  BY Zenon DEF Retain, DispatchInv, Busy
<1>3. task'[p] = [task[p] EXCEPT !.pc = "acquire"] /\ \A q \in Producers : q # p => task'[q] = task[q]
  BY <1>1, Zenon DEF Retain
<1>4. [task[p] EXCEPT !.pc = "acquire"].pc = "acquire"
      /\ [task[p] EXCEPT !.pc = "acquire"].forwards = task[p].forwards
  BY <1>1, Zenon DEF Tasks
<1> QED
  BY <1>1, <1>2, <1>3, <1>4, Zenon DEF Retain

\* Who stands where: what the steps of producers do to their tasks.
LEMMA OwnTaskFrame ==
  ASSUME TypeOK, NEW p \in Producers
  PROVE  /\ Connect(p) =>
               /\ task[p].pc = "away" /\ task'[p].pc = "reading"
               /\ task'[p].forwards => producer[p].app \in UID_OBSERVERS
         /\ Leave(p) => task[p].pc = "reading" /\ task'[p] = Away
         /\ Connect(p) \/ Leave(p) =>
               \A q \in Producers : q # p => task'[q] = task[q]
<1>1. task \in [Producers -> Tasks]
  BY Zenon DEF TypeOK
<1>2. ASSUME Connect(p)
      PROVE  /\ task[p].pc = "away" /\ task'[p].pc = "reading"
             /\ task'[p].forwards => producer[p].app \in UID_OBSERVERS
             /\ \A q \in Producers : q # p => task'[q] = task[q]
  <2> DEFINE named == p \in known
             forwards == p \in known /\ producer[p].app \in UID_OBSERVERS
  <2>1. task'[p] = [pc |-> "reading", named |-> named, forwards |-> forwards, at |-> 0]
    BY <1>1, <1>2, Zenon DEF Connect
  <2>2. task'[p].pc = "reading" /\ task'[p].forwards = forwards
    <3> HIDE DEF named, forwards
    <3> QED
      BY <2>1
  <2> QED
    BY <1>1, <1>2, <2>2, Zenon DEF Connect
<1>3. ASSUME Leave(p)
      PROVE  /\ task[p].pc = "reading" /\ task'[p] = Away
             /\ \A q \in Producers : q # p => task'[q] = task[q]
  BY <1>1, <1>3, Zenon DEF Leave
<1> QED
  BY <1>2, <1>3, Zenon

\* One delivery: the entry it is for, and what it does to it and to no other.
LEMMA OfferFrame ==
  ASSUME TypeOK, DispatchInv, NEW p \in Producers, Offer(p)
  PROVE  LET k == consumers[task[p].at] IN
         /\ k \in Conns /\ task[p].pc = "deliver" /\ task[p].at \in 1 .. Len(consumers)
         /\ event[p] \in Events /\ event[p].from = p
         /\ channel'[k] = IF Wants(k, event[p]) THEN Send(channel[k], event[p]) ELSE channel[k]
         /\ last'[k] = IF Wants(k, event[p]) THEN Offered(k, event[p]) ELSE last[k]
         /\ \A j \in Conns : j # k => channel'[j] = channel[j] /\ last'[j] = last[j]
         /\ channel' \in [Conns -> Seq(Events)]
         /\ \A j \in Conns : Len(channel'[j]) <= CONSUMER_BUFFER
         /\ last' \in [Conns -> [Snapshots -> Events \cup {NoEvent}]]
<1> DEFINE k == consumers[task[p].at]
           e == event[p]
<1>1. task[p].pc = "deliver" /\ task[p].at \in 1 .. Len(consumers) /\ e \in Events /\ e.from = p
  BY Zenon DEF Offer, DispatchInv, Busy
<1>2. k \in Conns
  BY <1>1 DEF TypeOK
<1>3. /\ channel' = [channel EXCEPT ![k] = IF Wants(k, e) THEN Send(channel[k], e) ELSE channel[k]]
      /\ last' = [last EXCEPT ![k] = IF Wants(k, e) THEN Offered(k, e) ELSE last[k]]
  BY Zenon DEF Offer
<1> HIDE DEF k, e
<1>4. Offered(k, e) \in [Snapshots -> Events \cup {NoEvent}]
  BY <1>1, <1>2, OfferedTypes, Zenon
<1>5. Send(channel[k], e) \in Seq(Events) /\ Len(Send(channel[k], e)) <= CONSUMER_BUFFER
  BY <1>1, <1>2, SendBounded, Zenon DEF TypeOK
<1>6. /\ channel'[k] = IF Wants(k, e) THEN Send(channel[k], e) ELSE channel[k]
      /\ last'[k] = IF Wants(k, e) THEN Offered(k, e) ELSE last[k]
      /\ \A j \in Conns : j # k => channel'[j] = channel[j] /\ last'[j] = last[j]
  BY <1>2, <1>3, Zenon DEF TypeOK
<1>7. channel' \in [Conns -> Seq(Events)]
  BY <1>3, <1>5, Zenon DEF TypeOK
<1>8. last' \in [Conns -> [Snapshots -> Events \cup {NoEvent}]]
  BY <1>3, <1>4, Zenon DEF TypeOK
<1>9. \A j \in Conns : Len(channel'[j]) <= CONSUMER_BUFFER
  BY <1>5, <1>6, Zenon DEF TypeOK
<1> QED
  BY <1>1, <1>2, <1>6, <1>7, <1>8, <1>9, Zenon DEF k, e

\* One registration: what the new consumer is given, and that no other is.
LEMMA InsertFrame ==
  ASSUME TypeOK, NEW k \in Conns, Insert(k)
  PROVE  /\ channel' \in [Conns -> Seq(Events)]
         /\ \A j \in Conns : Len(channel'[j]) <= CONSUMER_BUFFER
         /\ last' \in [Conns -> [Snapshots -> Events \cup {NoEvent}]]
         /\ \A j \in Conns : j # k => channel'[j] = channel[j] /\ last'[j] = last[j]
         /\ \A i \in DOMAIN channel'[k] : \E t \in StateTopics :
               /\ channel'[k][i] = retained[t]
               /\ retained[t] # NoEvent /\ Wants(k, retained[t])
         /\ \A t \in StateTopics : retained[t] # NoEvent /\ Wants(k, retained[t]) =>
               last'[k][<<retained[t].from, t>>] = retained[t]
<1>1. PICK s \in Replays(k) :
          /\ channel' = [channel EXCEPT ![k] =
                SubSeq(s, 1, IF Len(s) < CONSUMER_BUFFER THEN Len(s) ELSE CONSUMER_BUFFER)]
          /\ last' = [last EXCEPT ![k] = [x \in Snapshots |->
                IF retained[x[2]] \in {s[i] : i \in DOMAIN s} /\ retained[x[2]].from = x[1]
                THEN retained[x[2]] ELSE last[k][x]]]
  BY Zenon DEF Insert
<1> DEFINE c == SubSeq(s, 1, IF Len(s) < CONSUMER_BUFFER THEN Len(s) ELSE CONSUMER_BUFFER)
           l == [x \in Snapshots |->
                  IF retained[x[2]] \in {s[i] : i \in DOMAIN s} /\ retained[x[2]].from = x[1]
                  THEN retained[x[2]] ELSE last[k][x]]
<1>2. /\ s \in Seq(Events)
      /\ \A i \in DOMAIN s : \E t \in StateTopics :
            s[i] = retained[t] /\ retained[t] # NoEvent /\ Wants(k, retained[t])
      /\ \A t \in StateTopics : retained[t] # NoEvent /\ Wants(k, retained[t]) =>
            \E i \in DOMAIN s : s[i] = retained[t]
  BY ReplaysAll, Zenon
<1>3. /\ c \in Seq(Events) /\ Len(c) <= CONSUMER_BUFFER
      /\ \A i \in DOMAIN c : i \in DOMAIN s /\ c[i] = s[i]
  BY <1>2, ReplayCut, Zenon
<1>4. l \in [Snapshots -> Events \cup {NoEvent}]
  BY DEF TypeOK, Snapshots
<1>5. channel' = [channel EXCEPT ![k] = c] /\ last' = [last EXCEPT ![k] = l]
  BY <1>1, Zenon
<1>6. ASSUME NEW t \in StateTopics, retained[t] # NoEvent, Wants(k, retained[t])
      PROVE  l[<<retained[t].from, t>>] = retained[t]
  <2>1. retained[t] \in {s[i] : i \in DOMAIN s}
    BY <1>2, <1>6, Zenon
  <2>2. retained[t].from \in Producers
    BY <1>6, Zenon DEF TypeOK, Events
  <2>3. <<retained[t].from, t>> \in Snapshots
    BY <2>2, Zenon DEF Snapshots
  <2> QED
    BY <2>1, <2>3, Zenon
<1> HIDE DEF c, l
<1>7. /\ channel'[k] = c /\ last'[k] = l
      /\ \A j \in Conns : j # k => channel'[j] = channel[j] /\ last'[j] = last[j]
  BY <1>5, Zenon DEF TypeOK
<1>8. channel' \in [Conns -> Seq(Events)]
  BY <1>3, <1>5, Zenon DEF TypeOK
<1>9. last' \in [Conns -> [Snapshots -> Events \cup {NoEvent}]]
  BY <1>4, <1>5, Zenon DEF TypeOK
<1>10. \A j \in Conns : Len(channel'[j]) <= CONSUMER_BUFFER
  BY <1>3, <1>7, Zenon DEF TypeOK
<1> QED
  BY <1>2, <1>3, <1>6, <1>7, <1>8, <1>9, <1>10

\* What the two writers of the consumer list do to it.
LEMMA ListFrame ==
  ASSUME TypeOK, NEW k \in Conns
  PROVE  /\ Insert(k) => /\ consumers' \in Seq(Conns)
                         /\ \A j \in Conns : Listed(j)' <=> Listed(j) \/ j = k
         /\ Unregister(k) => /\ consumers' \in Seq(Conns)
                             /\ \A j \in Conns : Listed(j)' <=> Listed(j) /\ ~SameEntry(j, k)
<1>1. consumers \in Seq(Conns)
  BY Zenon DEF TypeOK
<1>2. ASSUME Insert(k)
      PROVE  /\ consumers' \in Seq(Conns)
             /\ \A j \in Conns : Listed(j)' <=> Listed(j) \/ j = k
  <2>1. consumers' = Append(consumers, k)
    BY <1>2, Zenon DEF Insert
  <2>2. /\ consumers' \in Seq(Conns)
        /\ DOMAIN consumers = 1 .. Len(consumers) /\ DOMAIN consumers' = 1 .. Len(consumers) + 1
        /\ \A i \in 1 .. Len(consumers) : consumers'[i] = consumers[i]
        /\ consumers'[Len(consumers) + 1] = k
        /\ Len(consumers) \in Nat
    BY <1>1, <2>1
  <2>3. \A i \in DOMAIN consumers' : i \in DOMAIN consumers \/ i = Len(consumers) + 1
    BY <2>2
  <2>4. Len(consumers) + 1 \in DOMAIN consumers' /\ DOMAIN consumers \subseteq DOMAIN consumers'
    BY <2>2
  <2> QED
    BY <2>2, <2>3, <2>4, Zenon DEF Listed
<1>3. ASSUME Unregister(k)
      PROVE  /\ consumers' \in Seq(Conns)
             /\ \A j \in Conns : Listed(j)' <=> Listed(j) /\ ~SameEntry(j, k)
  <2>1. consumers' \in Others(k)
    BY <1>3, Zenon DEF Unregister
  <2>2. /\ consumers' \in Seq(Conns)
        /\ \A i \in DOMAIN consumers' : \E j \in DOMAIN consumers :
              consumers'[i] = consumers[j] /\ ~SameEntry(consumers[j], k)
        /\ \A j \in DOMAIN consumers : ~SameEntry(consumers[j], k) =>
              \E i \in DOMAIN consumers' : consumers'[i] = consumers[j]
    BY <2>1, OthersStay, Zenon
  <2> QED
    BY <2>2, Zenon DEF Listed
<1> QED
  BY <1>2, <1>3, Zenon

\* Every step keeps the types and the bound on the channels.
LEMMA TypeStep ==
  ASSUME TypeOK, DispatchInv, [Next]_vars
  PROVE  TypeOK'
<1>1. CASE UNCHANGED vars
  BY <1>1, Zenon DEF TypeOK, vars
<1>2. ASSUME NEW p \in Producers, Identify(p) PROVE TypeOK'
  BY <1>2, Zenon DEF TypeOK, Identify
<1>3. ASSUME NEW p \in Producers, Connect(p) PROVE TypeOK'
  <2> DEFINE r == [pc |-> "reading", named |-> p \in known,
                   forwards |-> p \in known /\ producer[p].app \in UID_OBSERVERS, at |-> 0]
  <2>1. r \in Tasks
    <3>1. (p \in known) \in BOOLEAN /\ (p \in known /\ producer[p].app \in UID_OBSERVERS) \in BOOLEAN
      OBVIOUS
    <3> QED
      BY <3>1, Zenon DEF Tasks
  <2>2. task' = [task EXCEPT ![p] = r]
    BY <1>3, Zenon DEF Connect
  <2> HIDE DEF r
  <2>3. task' \in [Producers -> Tasks]
    BY <2>1, <2>2, Zenon DEF TypeOK
  <2> QED
    BY <1>3, <2>3, Zenon DEF TypeOK, Connect
<1>4. ASSUME NEW p \in Producers, Leave(p) PROVE TypeOK'
  BY <1>4, TaskTypes, Zenon DEF TypeOK, Leave
<1>5. ASSUME NEW p \in Producers, NEW pc \in {"reading", "retain", "acquire"}, Read(p, pc)
      PROVE  task' \in [Producers -> Tasks]
  <2>1. NamedNow(p) \in BOOLEAN
    BY TaskTypes, Zenon DEF NamedNow, Tasks
  <2> QED
    BY <1>5, <2>1, TaskTypes, Zenon DEF Read
<1>6. ASSUME NEW p \in Producers, PublishDropped(p) PROVE TypeOK'
  BY <1>5, <1>6, Zenon DEF TypeOK, PublishDropped, Read
<1>7. ASSUME NEW p \in Producers, NEW m \in producer[p].emits, Publish(p, m[1], m[2]) PROVE TypeOK'
  <2>1. task' \in [Producers -> Tasks]
    BY <1>5, <1>7, Zenon DEF Publish, AfterRead
  <2>2. event' \in [Producers -> Events \cup {NoEvent}]
    <3>1. event'[p] \in Events /\ DOMAIN event' = Producers
      BY <1>7, PublishedEvent, Zenon DEF TypeOK, Publish
    <3>2. \A q \in Producers : q # p => event'[q] = event[q]
      BY <1>7, PublishedEvent, Zenon
    <3>3. event' = [q \in DOMAIN event' |-> event'[q]]
      BY <1>7, Zenon DEF Publish, TypeOK
    <3> QED
      BY <3>1, <3>2, <3>3, Zenon DEF TypeOK
  <2>3. sent' \in [Producers -> Nat]
    BY <1>7 DEF TypeOK, Publish
  <2> QED
    BY <1>7, <2>1, <2>2, <2>3, Zenon DEF TypeOK, Publish, Read
<1>8. ASSUME NEW p \in Producers, Retain(p) PROVE TypeOK'
  BY <1>8, TaskTypes, RetainFrame, Zenon DEF TypeOK, Retain
<1>9. ASSUME NEW p \in Producers, Acquire(p) PROVE TypeOK'
  BY <1>9, LoopTypes, Zenon DEF TypeOK, Acquire
<1>10. ASSUME NEW p \in Producers, Offer(p) PROVE TypeOK'
  <2>1. task[p].at + 1 \in Nat
    <3>1. task[p] \in Tasks
      BY Zenon DEF TypeOK
    <3> QED
      BY <3>1 DEF Tasks
  <2>2. task' \in [Producers -> Tasks] /\ event' \in [Producers -> Events \cup {NoEvent}]
    BY <1>10, <2>1, LoopTypes, Zenon DEF Offer
  <2>3. /\ channel' \in [Conns -> Seq(Events)]
        /\ \A j \in Conns : Len(channel'[j]) <= CONSUMER_BUFFER
        /\ last' \in [Conns -> [Snapshots -> Events \cup {NoEvent}]]
    BY <1>10, OfferFrame, Zenon
  <2> QED
    BY <1>10, <2>2, <2>3, Zenon DEF TypeOK, Offer
<1>11. ASSUME NEW k \in Conns, Register(k) \/ PeerLeaves(k) \/ CutOff(k) PROVE TypeOK'
  BY <1>11, Zenon DEF TypeOK, Register, PeerLeaves, CutOff
<1>12. ASSUME NEW k \in Conns, Forward(k) PROVE TypeOK'
  <2>1. channel[k] \in Seq(Events) /\ channel[k] # << >> /\ Len(channel[k]) <= CONSUMER_BUFFER
    BY <1>12, Zenon DEF TypeOK, Forward
  <2>2. Tail(channel[k]) \in Seq(Events) /\ Len(Tail(channel[k])) <= CONSUMER_BUFFER
    BY <2>1, BusAssumption
  <2> QED
    BY <1>12, <2>2, Zenon DEF TypeOK, Forward
<1>13. ASSUME NEW k \in Conns, Insert(k) PROVE TypeOK'
  BY <1>13, InsertFrame, ListFrame, Zenon DEF TypeOK, Insert
<1>14. ASSUME NEW k \in Conns, Unregister(k) PROVE TypeOK'
  <2>1. << >> \in Seq(Events) /\ Len(<< >>) <= CONSUMER_BUFFER
    BY BusAssumption
  <2> QED
    BY <1>14, <2>1, ListFrame, Zenon DEF TypeOK, Unregister
<1> QED
  BY <1>1, <1>2, <1>3, <1>4, <1>6, <1>7, <1>8, <1>9, <1>10, <1>11, <1>12, <1>13, <1>14, Zenon
     DEF Next, Dispatch, Handle
-----------------------------------------------------------------------------
(* Dispatch. *)

\* Every step keeps what a dispatching producer has in hand.
LEMMA DispatchStep ==
  ASSUME TypeOK, DispatchInv, [Next]_vars
  PROVE  DispatchInv'
<1> DEFINE Fine(q) ==
      /\ task[q].pc \in Busy => event[q] \in Events /\ event[q].from = q
      /\ task[q].pc = "retain" => event[q].topic \in StateTopics
      /\ task[q].pc = "deliver" => task[q].at \in 1 .. Len(consumers)
      /\ task[q].forwards => producer[q].app \in UID_OBSERVERS
<1> SUFFICES ASSUME NEW q \in Producers PROVE Fine(q)'
  BY Zenon DEF DispatchInv
<1>a. Fine(q)
  BY Zenon DEF DispatchInv
<1>b. ASSUME task'[q] = task[q], event'[q] = event[q], consumers' = consumers
      PROVE  Fine(q)'
  BY <1>a, <1>b, Zenon
<1>c. ASSUME task' = task, event' = event, ListFree
      PROVE  Fine(q)'
  BY <1>a, <1>c, Zenon DEF ListFree
<1>1. CASE UNCHANGED vars
  BY <1>1, <1>b, Zenon DEF vars
<1>2. ASSUME NEW p \in Producers, Identify(p) PROVE Fine(q)'
  BY <1>2, <1>b, Zenon DEF Identify
<1>3. ASSUME NEW p \in Producers, Connect(p) PROVE Fine(q)'
  <2>1. event' = event /\ consumers' = consumers
    BY <1>3, Zenon DEF Connect
  <2>2. CASE q = p
    BY <1>3, <2>2, OwnTaskFrame, Zenon DEF Busy
  <2> QED
    BY <1>3, <1>b, <2>1, <2>2, OwnTaskFrame, Zenon
<1>4. ASSUME NEW p \in Producers, Leave(p) PROVE Fine(q)'
  <2>1. event' = event /\ consumers' = consumers
    BY <1>4, Zenon DEF Leave
  <2>2. CASE q = p
    BY <1>4, <2>2, OwnTaskFrame DEF Busy, Away
  <2> QED
    BY <1>4, <1>b, <2>1, <2>2, OwnTaskFrame, Zenon
<1>5. ASSUME NEW p \in Producers, PublishDropped(p) PROVE Fine(q)'
  <2>1. event' = event /\ consumers' = consumers
    BY <1>5, Zenon DEF PublishDropped, Read
  <2>2. CASE q = p
    BY <1>5, <1>a, <2>2, ReadFrame, Zenon DEF Busy, PublishDropped
  <2> QED
    BY <1>5, <1>b, <2>1, <2>2, ReadFrame, Zenon DEF PublishDropped
<1>6. ASSUME NEW p \in Producers, NEW m \in producer[p].emits, Publish(p, m[1], m[2]) PROVE Fine(q)'
  <2>1. consumers' = consumers /\ Read(p, AfterRead(m[1]))
    BY <1>6, Zenon DEF Publish, Read
  <2>2. CASE q = p
    <3>1. event'[p] \in Events /\ event'[p].from = p /\ event'[p].topic = m[1]
      BY <1>6, PublishedEvent, Zenon
    <3>2. task'[p].pc = AfterRead(m[1]) /\ task'[p].forwards = task[p].forwards
      BY <2>1, ReadFrame, Zenon
    <3>3. task'[p].pc = "retain" => m[1] \in StateTopics
      BY <3>2, Zenon DEF AfterRead
    <3>4. task'[p].pc # "deliver"
      BY <3>2, Zenon DEF AfterRead
    <3> QED
      BY <1>a, <2>2, <3>1, <3>2, <3>3, <3>4, Zenon
  <2>3. CASE q # p
    BY <1>6, <1>b, <2>1, <2>3, ReadFrame, PublishedEvent
  <2> QED
    BY <2>2, <2>3, Zenon
<1>7. ASSUME NEW p \in Producers, Retain(p) PROVE Fine(q)'
  <2>1. event' = event /\ consumers' = consumers
    BY <1>7, Zenon DEF Retain
  <2>2. CASE q = p
    BY <1>7, <1>a, <2>1, <2>2, RetainFrame, Zenon DEF Busy
  <2> QED
    BY <1>7, <1>b, <2>1, <2>2, RetainFrame, Zenon
<1>8. ASSUME NEW p \in Producers, NEW i \in Nat \ {0}, Loop(p, i), task[p].pc \in Busy,
             consumers' = consumers
      PROVE  Fine(q)'
  <2>1. Len(consumers) \in Nat
    BY DEF TypeOK
  <2>2. CASE q = p
    BY <1>8, <1>a, <2>1, <2>2, LoopFrame DEF Busy
  <2>3. CASE q # p
    BY <1>8, <1>b, <2>3, LoopFrame, Zenon
  <2> QED
    BY <2>2, <2>3, Zenon
<1>9. ASSUME NEW p \in Producers, Acquire(p) PROVE Fine(q)'
  BY <1>8, <1>9 DEF Acquire, Busy
<1>10. ASSUME NEW p \in Producers, Offer(p) PROVE Fine(q)'
  <2>1. task[p].at + 1 \in Nat \ {0} /\ task[p].pc \in Busy
    BY <1>10, OfferFrame DEF Busy
  <2> QED
    BY <1>8, <1>10, <2>1, Zenon DEF Offer
<1>11. ASSUME NEW k \in Conns, Register(k) \/ PeerLeaves(k) \/ CutOff(k) \/ Forward(k) PROVE Fine(q)'
  BY <1>11, <1>b, Zenon DEF Register, PeerLeaves, CutOff, Forward
<1>12. ASSUME NEW k \in Conns, Insert(k) \/ Unregister(k) PROVE Fine(q)'
  BY <1>12, <1>c, Zenon DEF Insert, Unregister
<1> HIDE DEF Fine
<1> QED
  BY <1>1, <1>2, <1>3, <1>4, <1>5, <1>6, <1>7, <1>9, <1>10, <1>11, <1>12, Zenon
     DEF Next, Dispatch, Handle
-----------------------------------------------------------------------------
(* Stamps. *)

\* Every step keeps the truth of what the bus says of its events.
LEMMA StampStep ==
  ASSUME TypeOK, DispatchInv, StampInv, [Next]_vars
  PROVE  StampInv'
<1> DEFINE Hands == \A p \in Producers : event[p] # NoEvent => Truthful(event[p])
           Maps == \A t \in StateTopics : retained[t] # NoEvent => Truthful(retained[t])
           Has(c, k) == \A i \in DOMAIN c : Truthful(c[i]) /\ Wants(k, c[i])
           Channels == \A k \in Conns : Has(channel[k], k)
<1>a. Hands /\ Maps /\ Channels
  BY Zenon DEF StampInv
<1> SUFFICES Hands' /\ Maps' /\ Channels'
  BY Zenon DEF StampInv, Wants, clamp_uid_filter, Subscribed, accepts
<1>b. ASSUME event' = event, retained' = retained, channel' = channel
      PROVE  Hands' /\ Maps' /\ Channels'
  BY <1>a, <1>b, Zenon DEF Wants
<1>1. CASE UNCHANGED vars
  BY <1>1, <1>b, Zenon DEF vars
<1>2. ASSUME NEW p \in Producers, Identify(p) \/ Connect(p) \/ Leave(p) \/ PublishDropped(p)
      PROVE  Hands' /\ Maps' /\ Channels'
  BY <1>2, <1>b, Zenon DEF Identify, Connect, Leave, PublishDropped, Read
<1>3. ASSUME NEW p \in Producers, NEW m \in producer[p].emits, Publish(p, m[1], m[2])
      PROVE  Hands' /\ Maps' /\ Channels'
  <2>1. retained' = retained /\ channel' = channel
    BY <1>3, Zenon DEF Publish, Read
  <2>2. Hands'
    BY <1>3, <1>a, PublishedEvent, Zenon
  <2> QED
    BY <1>a, <2>1, <2>2, Zenon
<1>4. ASSUME NEW p \in Producers, Retain(p)
      PROVE  Hands' /\ Maps' /\ Channels'
  <2>1. event' = event /\ channel' = channel
    BY <1>4, Zenon DEF Retain
  <2>2. Maps'
    BY <1>4, <1>a, RetainFrame, NoEventAssumption
  <2> QED
    BY <1>a, <2>1, <2>2, Zenon
<1>5. ASSUME NEW p \in Producers, NEW i \in Nat, Loop(p, i)
      PROVE  Hands'
  <2>1. Len(consumers) \in Nat
    BY DEF TypeOK
  <2>2. /\ event'[p] = event[p] \/ event'[p] = NoEvent
        /\ \A q \in Producers : q # p => event'[q] = event[q]
    BY <1>5, <2>1, LoopFrame
  <2> QED
    BY <1>a, <2>2, Zenon
<1>6. ASSUME NEW p \in Producers, Acquire(p)
      PROVE  Hands' /\ Maps' /\ Channels'
  BY <1>6, <1>a, <1>5, Zenon DEF Acquire
<1>7. ASSUME NEW p \in Producers, Offer(p)
      PROVE  Hands' /\ Maps' /\ Channels'
  <2> DEFINE k == consumers[task[p].at]
             e == event[p]
  <2>1. /\ k \in Conns /\ task[p].at \in 1 .. Len(consumers) /\ e \in Events
        /\ channel'[k] = IF Wants(k, e) THEN Send(channel[k], e) ELSE channel[k]
        /\ \A j \in Conns : j # k => channel'[j] = channel[j]
    BY <1>7, OfferFrame
  <2>2. Hands' /\ retained' = retained
    BY <1>5, <1>7, <2>1 DEF Offer
  <2> HIDE DEF k
  <2>3. Truthful(e)
    BY <1>a, <2>1, NoEventAssumption, Zenon
  <2> HIDE DEF e
  <2>4. Has(channel[k], k) /\ channel[k] \in Seq(Events) /\ Len(channel[k]) <= CONSUMER_BUFFER
    BY <1>a, <2>1, Zenon DEF TypeOK
  <2>5. CASE Wants(k, e)
    <3>1. \A i \in DOMAIN Send(channel[k], e) :
             Send(channel[k], e)[i] = e
             \/ (i \in DOMAIN channel[k] /\ Send(channel[k], e)[i] = channel[k][i])
      BY <2>1, <2>4, SendBounded, Zenon
    <3>2. Has(Send(channel[k], e), k)
      BY <2>3, <2>4, <2>5, <3>1, Zenon
    <3> QED
      BY <1>a, <2>1, <2>2, <2>5, <3>2, Zenon
  <2>6. CASE ~Wants(k, e)
    BY <1>a, <2>1, <2>2, <2>6, Zenon
  <2> QED
    BY <2>5, <2>6, Zenon
<1>8. ASSUME NEW k \in Conns, Register(k) \/ PeerLeaves(k) \/ CutOff(k)
      PROVE  Hands' /\ Maps' /\ Channels'
  BY <1>8, <1>b, Zenon DEF Register, PeerLeaves, CutOff
<1>9. ASSUME NEW k \in Conns, Forward(k)
      PROVE  Hands' /\ Maps' /\ Channels'
  <2>1. /\ event' = event /\ retained' = retained /\ channel'[k] = Tail(channel[k])
        /\ \A j \in Conns : j # k => channel'[j] = channel[j]
    BY <1>9, Zenon DEF Forward, TypeOK
  <2>2. channel[k] \in Seq(Events) /\ channel[k] # << >>
    BY <1>9, Zenon DEF Forward, TypeOK
  <2>3. \A i \in DOMAIN Tail(channel[k]) : i + 1 \in DOMAIN channel[k]
           /\ Tail(channel[k])[i] = channel[k][i + 1]
    BY <2>2
  <2>4. Has(Tail(channel[k]), k)
    BY <1>a, <2>3, Zenon
  <2> QED
    BY <1>a, <2>1, <2>4, Zenon
<1>10. ASSUME NEW k \in Conns, Insert(k)
       PROVE  Hands' /\ Maps' /\ Channels'
  <2>1. event' = event /\ retained' = retained
    BY <1>10, Zenon DEF Insert
  <2>2. /\ \A j \in Conns : j # k => channel'[j] = channel[j]
        /\ \A i \in DOMAIN channel'[k] : \E t \in StateTopics :
              /\ channel'[k][i] = retained[t]
              /\ retained[t] # NoEvent /\ Wants(k, retained[t])
    BY <1>10, InsertFrame, Zenon
  <2>3. Has(channel'[k], k)
    BY <1>a, <2>2, Zenon
  <2> QED
    BY <1>a, <2>1, <2>2, <2>3, Zenon
<1>11. ASSUME NEW k \in Conns, Unregister(k)
       PROVE  Hands' /\ Maps' /\ Channels'
  <2>1. /\ event' = event /\ retained' = retained /\ channel'[k] = << >>
        /\ \A j \in Conns : j # k => channel'[j] = channel[j]
    BY <1>11, Zenon DEF Unregister, TypeOK
  <2> QED
    BY <1>a, <2>1
<1> HIDE DEF Hands, Maps, Channels
<1> QED
  BY <1>1, <1>2, <1>3, <1>4, <1>6, <1>7, <1>8, <1>9, <1>10, <1>11, Zenon
     DEF Next, Dispatch, Handle
-----------------------------------------------------------------------------
(* The retained map. *)

\* Every step keeps what the map holds for a producer that is past it.
LEMMA MapStep ==
  ASSUME TypeOK, DispatchInv, MapInv, [Next]_vars
  PROVE  MapInv'
<1> DEFINE Keyed == \A t \in StateTopics : retained[t] # NoEvent => retained[t].topic = t
           Past(p) == task[p].pc \in {"acquire", "deliver"}
           Own(p) == \A t \in StateTopics :
              Past(p) /\ event[p].topic = t /\ retained[t] # NoEvent /\ retained[t].from = p
              => retained[t] = event[p]
<1>a. Keyed /\ \A p \in Producers : Own(p)
  BY Zenon DEF MapInv
<1>k. Keyed'
  <2>1. ASSUME NEW p \in Producers, Retain(p) PROVE Keyed'
    BY <1>a, <2>1, RetainFrame
  <2>2. CASE retained' = retained
    BY <1>a, <2>2, Zenon
  <2> QED
    BY <2>1, <2>2, Zenon DEF Next, Dispatch, Handle, vars, Identify, Connect, Leave, PublishDropped, Publish,
       Read, Acquire, Offer, Register, PeerLeaves, CutOff, Forward, Insert, Unregister
<1> SUFFICES ASSUME NEW q \in Producers PROVE Own(q)'
  BY <1>k, Zenon DEF MapInv
<1>b. ASSUME retained' = retained, event'[q] = event[q], Past(q)' => Past(q)
      PROVE  Own(q)'
  BY <1>a, <1>b, Zenon
<1>c. ASSUME retained' = retained, ~Past(q)'
      PROVE  Own(q)'
  BY <1>a, <1>c, Zenon
<1>1. CASE UNCHANGED vars
  BY <1>1, <1>b, Zenon DEF vars
<1>2. ASSUME NEW p \in Producers, Identify(p) PROVE Own(q)'
  BY <1>2, <1>b, Zenon DEF Identify
<1>3. ASSUME NEW p \in Producers, Connect(p) \/ Leave(p) PROVE Own(q)'
  <2>1. retained' = retained /\ event' = event
    BY <1>3, Zenon DEF Connect, Leave
  <2>2. Past(q)' => Past(q)
    BY <1>3, OwnTaskFrame DEF Away
  <2> QED
    BY <1>b, <2>1, <2>2, Zenon
<1>4. ASSUME NEW p \in Producers, PublishDropped(p) PROVE Own(q)'
  <2>1. retained' = retained /\ event' = event /\ Read(p, "reading")
    BY <1>4, Zenon DEF PublishDropped, Read
  <2>2. Past(q)' => Past(q)
    BY <2>1, ReadFrame, Zenon
  <2> QED
    BY <1>b, <2>1, <2>2, Zenon
<1>5. ASSUME NEW p \in Producers, NEW m \in producer[p].emits, Publish(p, m[1], m[2])
      PROVE  Own(q)'
  <2>1. retained' = retained /\ Read(p, AfterRead(m[1]))
    BY <1>5, Zenon DEF Publish, Read
  <2>2. CASE q = p
    <3>1. event'[p].topic = m[1]
      BY <1>5, PublishedEvent, Zenon
    <3>2. Past(p)' => m[1] \notin StateTopics
      BY <2>1, ReadFrame DEF AfterRead
    <3> QED
      BY <1>a, <2>1, <2>2, <3>1, <3>2, Zenon
  <2>3. CASE q # p
    BY <1>5, <1>b, <2>1, <2>3, ReadFrame, PublishedEvent
  <2> QED
    BY <2>2, <2>3, Zenon
<1>6. ASSUME NEW p \in Producers, Retain(p) PROVE Own(q)'
  <2>1. event' = event /\ event[p].from = p
    BY <1>6, Zenon DEF Retain, DispatchInv, Busy
  <2>2. /\ event[p].topic \in StateTopics /\ retained'[event[p].topic] = event[p]
        /\ \A t \in StateTopics : t # event[p].topic => retained'[t] = retained[t]
        /\ \A r \in Producers : r # p => task'[r] = task[r]
    BY <1>6, RetainFrame, Zenon
  <2>3. CASE q = p
    BY <2>1, <2>2, <2>3, Zenon
  <2>4. CASE q # p
    BY <1>a, <2>1, <2>2, <2>4
  <2> QED
    BY <2>3, <2>4, Zenon
<1>7. ASSUME NEW p \in Producers, NEW i \in Nat, Loop(p, i), Past(p), retained' = retained
      PROVE  Own(q)'
  <2>1. Len(consumers) \in Nat
    BY DEF TypeOK
  <2>2. CASE q = p /\ i <= Len(consumers)
    BY <1>7, <1>b, <2>1, <2>2, LoopFrame, Zenon
  <2>3. CASE q = p /\ i > Len(consumers)
    BY <1>7, <1>c, <2>1, <2>3, LoopFrame, Zenon
  <2>4. CASE q # p
    BY <1>7, <1>b, <2>4, LoopFrame, Zenon
  <2> QED
    BY <2>1, <2>2, <2>3, <2>4
<1>8. ASSUME NEW p \in Producers, Acquire(p) PROVE Own(q)'
  BY <1>7, <1>8, Zenon DEF Acquire
<1>9. ASSUME NEW p \in Producers, Offer(p) PROVE Own(q)'
  <2>1. task[p].at + 1 \in Nat
    BY <1>9, OfferFrame
  <2> QED
    BY <1>7, <1>9, <2>1, Zenon DEF Offer
<1>10. ASSUME NEW k \in Conns,
              Register(k) \/ PeerLeaves(k) \/ CutOff(k) \/ Forward(k) \/ Insert(k) \/ Unregister(k)
       PROVE  Own(q)'
  BY <1>10, <1>b, Zenon DEF Register, PeerLeaves, CutOff, Forward, Insert, Unregister
<1> HIDE DEF Keyed, Own
<1> QED
  BY <1>1, <1>2, <1>3, <1>4, <1>5, <1>6, <1>8, <1>9, <1>10, Zenon DEF Next, Dispatch, Handle
-----------------------------------------------------------------------------
(* Replay and delivery. *)

\* Every step keeps a wanted snapshot offered or on its way.
LEMMA NeitherStep ==
  ASSUME TypeOK, DispatchInv, MapInv, NeverNeither, [Next]_vars
  PROVE  NeverNeither'
<1> DEFINE Had(c, s) == last[c][<<retained[s].from, s>>] = retained[s]
           Coming(c, s) == /\ event[retained[s].from] = retained[s]
                           /\ OnItsWay(retained[s].from, c)
<1> SUFFICES ASSUME NEW k \in Conns, NEW t \in StateTopics,
                    Listed(k)', retained'[t] # NoEvent, Wants(k, retained'[t])
             PROVE  Had(k, t)' \/ Coming(k, t)'
  BY Zenon DEF NeverNeither
<1> DEFINE e == retained[t]
           Stays == \A q \in Producers :
                       OnItsWay(q, k) => event'[q] = event[q] /\ OnItsWay(q, k)'
<1>t. /\ Len(consumers) \in Nat /\ DOMAIN consumers = 1 .. Len(consumers)
      /\ e # NoEvent => e \in Events /\ e.from \in Producers
      /\ last \in [Conns -> [Snapshots -> Events \cup {NoEvent}]]
  BY DEF TypeOK, Events
<1>a. Listed(k) /\ e # NoEvent /\ Wants(k, e) => Had(k, t) \/ Coming(k, t)
  BY Zenon DEF NeverNeither
<1>b. ASSUME retained'[t] = e, Listed(k), last'[k] = last[k], Stays
      PROVE  Had(k, t)' \/ Coming(k, t)'
  <2>1. e.from \in Producers /\ (Had(k, t) \/ Coming(k, t))
    BY <1>a, <1>b, <1>t, Zenon
  <2>2. CASE Had(k, t)
    BY <1>b, <2>2, Zenon
  <2>3. CASE Coming(k, t)
    <3>1. event'[e.from] = e /\ OnItsWay(e.from, k)
      BY <1>b, <2>1, <2>3, Zenon
    <3>2. ASSUME NEW q \in Producers, q = e.from PROVE Coming(k, t)'
      <4>1. OnItsWay(q, k)' /\ event'[q] = e
        BY <1>b, <3>1, <3>2, Zenon
      <4>2. retained'[t].from = q
        BY <1>b, <3>2, Zenon
      <4> QED
        BY <1>b, <4>1, <4>2, Zenon
    <3> QED
      BY <2>1, <3>2, Zenon
  <2> QED
    BY <2>1, <2>2, <2>3, Zenon
<1>c. ASSUME NEW p \in Producers, consumers' = consumers, ~OnItsWay(p, k),
             \A q \in Producers : q # p => task'[q] = task[q] /\ event'[q] = event[q]
      PROVE  Stays
  BY <1>c, Zenon DEF OnItsWay
<1>1. CASE UNCHANGED vars
  BY <1>1, <1>b, Zenon DEF vars, OnItsWay, Listed
<1>2. ASSUME NEW p \in Producers, Identify(p) PROVE Had(k, t)' \/ Coming(k, t)'
  BY <1>2, <1>b, Zenon DEF Identify, OnItsWay, Listed
<1>3. ASSUME NEW p \in Producers, Connect(p) \/ Leave(p) PROVE Had(k, t)' \/ Coming(k, t)'
  <2>1. retained' = retained /\ event' = event /\ consumers' = consumers /\ last' = last
    BY <1>3, Zenon DEF Connect, Leave
  <2>2. ~OnItsWay(p, k)
    BY <1>3, OwnTaskFrame, Zenon DEF OnItsWay
  <2>3. \A q \in Producers : q # p => task'[q] = task[q]
    BY <1>3, OwnTaskFrame, Zenon
  <2> QED
    BY <1>b, <1>c, <1>t, <2>1, <2>2, <2>3, Zenon DEF Listed
<1>4. ASSUME NEW p \in Producers,
             PublishDropped(p) \/ \E m \in producer[p].emits : Publish(p, m[1], m[2])
      PROVE  Had(k, t)' \/ Coming(k, t)'
  <2>1. retained' = retained /\ consumers' = consumers /\ last' = last /\ task[p].pc = "reading"
    BY <1>4, Zenon DEF PublishDropped, Publish, Read
  <2>2. ~OnItsWay(p, k)
    BY <2>1, Zenon DEF OnItsWay
  <2>3. \A q \in Producers : q # p => task'[q] = task[q] /\ event'[q] = event[q]
    BY <1>4, ReadFrame, PublishedEvent DEF PublishDropped, Publish
  <2> QED
    BY <1>b, <1>c, <1>t, <2>1, <2>2, <2>3, Zenon DEF Listed
<1>5. ASSUME NEW p \in Producers, Retain(p) PROVE Had(k, t)' \/ Coming(k, t)'
  <2>1. event' = event /\ consumers' = consumers /\ last' = last
    BY <1>5, Zenon DEF Retain
  <2>2. /\ task[p].pc = "retain" /\ task'[p].pc = "acquire"
        /\ retained'[event[p].topic] = event[p]
        /\ \A s \in StateTopics : s # event[p].topic => retained'[s] = retained[s]
        /\ \A q \in Producers : q # p => task'[q] = task[q]
    BY <1>5, RetainFrame, Zenon
  <2>3. CASE t = event[p].topic
    <3>1. retained'[t].from = p /\ event'[p] = retained'[t]
      BY <2>1, <2>2, <2>3, Zenon DEF DispatchInv, Busy
    <3>2. OnItsWay(p, k)'
      BY <2>2, Zenon DEF OnItsWay
    <3> QED
      BY <3>1, <3>2, Zenon
  <2>4. CASE t # event[p].topic
    <3>1. ~OnItsWay(p, k) /\ retained'[t] = e
      BY <2>2, <2>4, Zenon DEF OnItsWay
    <3>2. Stays
      BY <1>c, <2>1, <2>2, <3>1, Zenon
    <3>3. Listed(k)
      BY <2>1, Zenon DEF Listed
    <3> QED
      BY <1>b, <2>1, <3>1, <3>2, <3>3, Zenon
  <2> QED
    BY <2>3, <2>4, Zenon
<1>6. ASSUME NEW p \in Producers, Acquire(p) PROVE Had(k, t)' \/ Coming(k, t)'
  <2>1. /\ retained' = retained /\ consumers' = consumers /\ last' = last
        /\ Loop(p, 1) /\ Listed(k)
    BY <1>6, Zenon DEF Acquire, Listed
  <2>2. 1 <= Len(consumers)
    BY <1>t, <2>1 DEF Listed
  <2>3. /\ task'[p].pc = "deliver" /\ task'[p].at = 1 /\ event'[p] = event[p]
        /\ \A q \in Producers : q # p => task'[q] = task[q] /\ event'[q] = event[q]
    BY <2>1, <2>2, LoopFrame
  <2>4. OnItsWay(p, k)'
    BY <1>t, <2>1, <2>3 DEF OnItsWay, Listed
  <2>5. \A q \in Producers : q # p /\ OnItsWay(q, k) => OnItsWay(q, k)'
    BY <2>1, <2>3, Zenon DEF OnItsWay
  <2>6. Stays
    BY <2>3, <2>4, <2>5, Zenon
  <2> QED
    BY <1>b, <2>1, <2>6, Zenon
<1>7. ASSUME NEW p \in Producers, Offer(p) PROVE Had(k, t)' \/ Coming(k, t)'
  <2> DEFINE at == task[p].at
             j == consumers[at]
             o == event[p]
  <2>1. /\ retained' = retained /\ consumers' = consumers /\ Loop(p, at + 1) /\ Listed(k)
        /\ retained'[t] = e /\ e # NoEvent /\ Wants(k, e) /\ e \in Events /\ e.from \in Producers
    BY <1>7, <1>t, Zenon DEF Offer, Listed
  <2>2. /\ j \in Conns /\ task[p].pc = "deliver" /\ at \in 1 .. Len(consumers)
        /\ o \in Events /\ o.from = p
        /\ last'[j] = IF Wants(j, o) THEN Offered(j, o) ELSE last[j]
        /\ \A c \in Conns : c # j => last'[c] = last[c]
    <3>1. LET c == consumers[task[p].at] IN
          /\ c \in Conns /\ task[p].pc = "deliver" /\ task[p].at \in 1 .. Len(consumers)
          /\ event[p] \in Events /\ event[p].from = p
          /\ last'[c] = IF Wants(c, event[p]) THEN Offered(c, event[p]) ELSE last[c]
          /\ \A d \in Conns : d # c => channel'[d] = channel[d] /\ last'[d] = last[d]
      BY <1>7, OfferFrame, Zenon
    <3> QED
      BY <3>1, Zenon
  <2>3. \A q \in Producers : q # p => task'[q] = task[q] /\ event'[q] = event[q]
    BY <2>1, <2>2, LoopFrame
  <2>4. ASSUME e.from = p, o.topic = t
        PROVE  e = o
    BY <2>1, <2>2, <2>4, Zenon DEF MapInv
  <2>5. e.topic = t
    BY <2>1, Zenon DEF MapInv
  <2>6. <<e.from, t>> \in Snapshots
    BY <2>1, Zenon DEF Snapshots
  <2>7. CASE k = j /\ e = o
    <3>1. last'[k] = [last[k] EXCEPT ![<<o.from, o.topic>>] = o]
      BY <2>1, <2>2, <2>5, <2>7, Zenon DEF Offered
    <3>2. last'[k][<<e.from, t>>] = e
      <4>1. last[k] \in [Snapshots -> Events \cup {NoEvent}]
        BY Zenon DEF TypeOK
      <4>2. <<o.from, o.topic>> = <<e.from, t>> /\ o = e
        BY <2>5, <2>7, Zenon
      <4>3. last'[k] = [last[k] EXCEPT ![<<e.from, t>>] = e]
        BY <3>1, <4>2, Zenon
      <4> HIDE DEF o, j, at
      <4> QED
        BY <2>6, <4>1, <4>3, Zenon
    <3> QED
      BY <2>1, <3>2, Zenon
  <2>8. CASE k = j /\ e # o
    <3>1. <<e.from, t>> # <<o.from, o.topic>>
      BY <2>2, <2>4, <2>8, Zenon
    <3>2. last'[k][<<e.from, t>>] = last[k][<<e.from, t>>]
      <4>1. CASE Wants(k, o) /\ o.topic \in StateTopics
        <5>1. last'[k] = [last[k] EXCEPT ![<<o.from, o.topic>>] = o]
          BY <2>2, <2>8, <4>1, Zenon DEF Offered
        <5> QED
          BY <1>t, <2>6, <3>1, <5>1, Zenon
      <4>2. CASE ~(Wants(k, o) /\ o.topic \in StateTopics)
        BY <2>2, <2>8, <4>2, Zenon DEF Offered
      <4> QED
        BY <4>1, <4>2, Zenon
    <3>3. CASE Had(k, t)
      BY <2>1, <3>2, <3>3, Zenon
    <3>4. CASE Coming(k, t)
      <4>1. e.from # p
        BY <2>8, <3>4, Zenon
      <4>2. ASSUME NEW q \in Producers, q = e.from PROVE Coming(k, t)'
        <5>1. task'[q] = task[q] /\ event'[q] = event[q]
          BY <2>3, <4>1, <4>2, Zenon
        <5>2. OnItsWay(q, k)' /\ event'[q] = e
          BY <2>1, <3>4, <4>2, <5>1, Zenon DEF OnItsWay
        <5>3. retained'[t].from = q
          BY <2>1, <4>2, Zenon
        <5> QED
          BY <2>1, <5>2, <5>3, Zenon
      <4> QED
        BY <2>1, <4>2, Zenon
    <3> QED
      BY <1>a, <2>1, <3>3, <3>4, Zenon
  <2>9. CASE k # j
    <3>1. last'[k] = last[k]
      BY <2>2, <2>9, Zenon
    <3>2. ASSUME OnItsWay(p, k)
          PROVE  event'[p] = event[p] /\ OnItsWay(p, k)'
      <4>1. PICK i \in DOMAIN consumers : i >= at /\ consumers[i] = k
        BY <2>2, <3>2, Zenon DEF OnItsWay
      <4>2. i # at
        BY <2>9, <4>1, Zenon
      <4>3. i >= at + 1 /\ at + 1 <= Len(consumers)
        BY <1>t, <2>2, <4>1, <4>2
      <4>4. task'[p].pc = "deliver" /\ task'[p].at = at + 1 /\ event'[p] = event[p]
        BY <2>1, <2>2, <4>3, LoopFrame
      <4> QED
        BY <2>1, <4>1, <4>3, <4>4, Zenon DEF OnItsWay
    <3>3. Stays
      <4>1. \A q \in Producers : q # p /\ OnItsWay(q, k) => OnItsWay(q, k)'
        BY <2>1, <2>3, Zenon DEF OnItsWay
      <4> QED
        BY <2>3, <3>2, <4>1, Zenon
    <3> QED
      BY <1>b, <2>1, <3>1, <3>3, Zenon
  <2> QED
    BY <2>7, <2>8, <2>9, Zenon
<1>8. ASSUME NEW c \in Conns, Register(c) \/ PeerLeaves(c) \/ CutOff(c) \/ Forward(c)
      PROVE  Had(k, t)' \/ Coming(k, t)'
  <2>1. /\ retained' = retained /\ consumers' = consumers /\ last' = last
        /\ task' = task /\ event' = event
    BY <1>8, Zenon DEF Register, PeerLeaves, CutOff, Forward
  <2> QED
    BY <1>b, <2>1, Zenon DEF Listed, OnItsWay
<1>9. ASSUME ListFree, task' = task, event' = event
      PROVE  Stays
  BY <1>9, Zenon DEF OnItsWay, ListFree
<1>10. ASSUME NEW c \in Conns, Insert(c) PROVE Had(k, t)' \/ Coming(k, t)'
  <2>1. retained' = retained /\ task' = task /\ event' = event /\ ListFree
    BY <1>10, Zenon DEF Insert
  <2>2. CASE c = k
    <3>1. last'[k][<<e.from, t>>] = e
      BY <1>10, <2>1, <2>2, InsertFrame, Zenon
    <3> QED
      BY <2>1, <3>1, Zenon
  <2>3. CASE c # k
    <3>1. last'[k] = last[k]
      BY <1>10, <2>3, InsertFrame, Zenon
    <3>2. Listed(k)
      BY <1>10, <2>3, ListFrame, Zenon
    <3> QED
      BY <1>b, <1>9, <2>1, <3>1, <3>2, Zenon
  <2> QED
    BY <2>2, <2>3, Zenon
<1>11. ASSUME NEW c \in Conns, Unregister(c) PROVE Had(k, t)' \/ Coming(k, t)'
  <2>1. retained' = retained /\ task' = task /\ event' = event /\ last' = last /\ ListFree
    BY <1>11, Zenon DEF Unregister
  <2>2. Listed(k)
    BY <1>11, ListFrame, Zenon
  <2> QED
    BY <1>b, <1>9, <2>1, <2>2, Zenon
<1>12. Had(k, t)' \/ Coming(k, t)'
  <2> HIDE DEF Had, Coming
  <2> QED
    BY <1>1, <1>2, <1>3, <1>4, <1>5, <1>6, <1>7, <1>8, <1>10, <1>11, Zenon DEF Next, Dispatch, Handle
<1> QED
  BY <1>12, Zenon
-----------------------------------------------------------------------------
(* The consumer list. *)

\* Every step keeps the list and the connections together.
LEMMA ListedStep ==
  ASSUME TypeOK, ServedIsListed, [Next]_vars
  PROVE  ServedIsListed'
<1> DEFINE Served(c) ==
      /\ Listed(c) => conn[c] \in {"live", "closing"}
      /\ conn[c] = "live" /\ ~Listed(c) =>
            \E j \in Conns \ {c} : consumer[j].id = consumer[c].id /\ conn[j] = "closed"
<1> SUFFICES ASSUME NEW c \in Conns PROVE Served(c)'
  BY Zenon DEF ServedIsListed
<1>a. Served(c) /\ conn \in [Conns -> {"new", "registering", "live", "closing", "closed"}]
  BY Zenon DEF ServedIsListed, TypeOK
<1>1. CASE consumers' = consumers /\ conn' = conn
  BY <1>1, <1>a, Zenon DEF Listed
<1>2. ASSUME NEW k \in Conns, consumers' = consumers,
             \/ conn[k] = "new" /\ conn' = [conn EXCEPT ![k] = "registering"]
             \/ conn[k] = "live" /\ conn' = [conn EXCEPT ![k] = "closing"]
      PROVE  Served(c)'
  <2>1. Listed(c)' <=> Listed(c)
    BY <1>2, Zenon DEF Listed
  <2>2. \A j \in Conns : conn[j] = "closed" => conn'[j] = "closed"
    BY <1>2, <1>a, Zenon
  <2>3. /\ conn[c] \in {"live", "closing"} => conn'[c] \in {"live", "closing"}
        /\ conn'[c] = "live" => conn[c] = "live"
    BY <1>2, <1>a, Zenon
  <2> QED
    BY <1>a, <2>1, <2>2, <2>3, Zenon
<1>3. ASSUME NEW k \in Conns, Register(k) \/ CutOff(k) \/ Forward(k) \/ PeerLeaves(k)
      PROVE  Served(c)'
  <2>1. CASE Register(k) \/ CutOff(k)
    BY <1>2, <2>1, Zenon DEF Register, CutOff
  <2>2. CASE PeerLeaves(k)
    BY <1>1, <2>2, Zenon DEF PeerLeaves
  <2>3. CASE Forward(k) /\ k \in gone
    BY <1>2, <2>3, Zenon DEF Forward
  <2>4. CASE Forward(k) /\ k \notin gone
    <3>1. conn' = conn /\ consumers' = consumers
      BY <1>a, <2>4, Zenon DEF Forward
    <3> QED
      BY <1>1, <3>1, Zenon
  <2> QED
    BY <1>3, <2>1, <2>2, <2>3, <2>4, Zenon
<1>4. ASSUME NEW k \in Conns, Insert(k) PROVE Served(c)'
  <2>1. Listed(c)' <=> Listed(c) \/ c = k
    BY <1>4, ListFrame, Zenon
  <2>2. conn[k] = "registering" /\ conn' = [conn EXCEPT ![k] = "live"]
    BY <1>4, Zenon DEF Insert
  <2>3. \A j \in Conns : conn[j] = "closed" => conn'[j] = "closed"
    BY <1>a, <2>2, Zenon
  <2>4. CASE c = k
    BY <1>a, <2>1, <2>2, <2>4, Zenon
  <2>5. CASE c # k
    BY <1>a, <2>1, <2>2, <2>3, <2>5, Zenon
  <2> QED
    BY <2>4, <2>5, Zenon
<1>5. ASSUME NEW k \in Conns, Unregister(k) PROVE Served(c)'
  <2>1. Listed(c)' <=> Listed(c) /\ ~SameEntry(c, k)
    BY <1>5, ListFrame, Zenon
  <2>2. conn[k] = "closing" /\ conn' = [conn EXCEPT ![k] = "closed"]
    BY <1>5, Zenon DEF Unregister
  <2>3. \A j \in Conns : conn[j] = "closed" => conn'[j] = "closed"
    BY <1>a, <2>2, Zenon
  <2>4. conn'[k] = "closed"
    BY <1>a, <2>2, Zenon
  <2>5. CASE c = k
    BY <2>1, <2>4, <2>5, Zenon DEF SameEntry
  <2>6. CASE c # k /\ SameEntry(c, k)
    BY <1>a, <2>1, <2>2, <2>4, <2>6, Zenon DEF SameEntry
  <2>7. CASE c # k /\ ~SameEntry(c, k)
    BY <1>a, <2>1, <2>2, <2>3, <2>7, Zenon
  <2> QED
    BY <2>5, <2>6, <2>7, Zenon
<1>6. ASSUME NEW p \in Producers,
             \/ Identify(p) \/ Connect(p) \/ Leave(p) \/ PublishDropped(p) \/ Dispatch(p)
             \/ \E m \in producer[p].emits : Publish(p, m[1], m[2])
      PROVE  Served(c)'
  BY <1>1, <1>6, Zenon DEF Identify, Connect, Leave, PublishDropped, Publish, Read, Dispatch, Retain,
     Acquire, Offer
<1>7. CASE UNCHANGED vars
  BY <1>1, <1>7, Zenon DEF vars
<1> HIDE DEF Served
<1> QED
  BY <1>3, <1>4, <1>5, <1>6, <1>7, Zenon DEF Next, Handle
-----------------------------------------------------------------------------
(* The theorems. *)

\* The bus starts with nobody connected and nothing retained.
LEMMA InitHolds == Init => IInv
<1> SUFFICES ASSUME Init PROVE IInv
  BY Zenon
<1>1. TypeOK
  <2>1. Away \in Tasks
    BY Zenon DEF Away, Tasks
  <2>2. task \in [Producers -> Tasks]
    BY <2>1, Zenon DEF Init
  <2>3. << >> \in Seq(Events) /\ << >> \in Seq(Conns) /\ Len(<< >>) <= CONSUMER_BUFFER
    BY BusAssumption
  <2>4. /\ channel \in [Conns -> Seq(Events)] /\ consumers \in Seq(Conns)
        /\ \A k \in Conns : Len(channel[k]) <= CONSUMER_BUFFER
    BY <2>3, Zenon DEF Init
  <2> QED
    BY <2>2, <2>4, BusAssumption, Zenon DEF Init, TypeOK
<1>2. \A p \in Producers : task[p].pc = "away" /\ task[p].forwards = FALSE
  BY Zenon DEF Init, Away
<1>3. ~\E k \in Conns : Listed(k)
  BY DEF Init, Listed
<1>4. DispatchInv
  BY <1>2, Zenon DEF DispatchInv, Busy
<1>5. StampInv
  BY DEF Init, StampInv
<1>6. MapInv
  BY Zenon DEF Init, MapInv
<1>7. NeverNeither
  BY <1>3, Zenon DEF NeverNeither
<1>8. ServedIsListed
  BY <1>3, Zenon DEF ServedIsListed, Init
<1> QED
  BY <1>1, <1>4, <1>5, <1>6, <1>7, <1>8, Zenon DEF IInv

\* The inductive invariant holds in every reachable state of the bus.
LEMMA IInvAlways == Spec => []IInv
<1>1. IInv /\ [Next]_vars => IInv'
  BY TypeStep, DispatchStep, StampStep, MapStep, NeitherStep, ListedStep, Zenon DEF IInv
<1> QED
  BY <1>1, InitHolds, PTL DEF Spec

\* Types, and no channel ever holds more than CONSUMER_BUFFER events, however
\* slowly its consumer reads.
THEOREM BusTypes == Spec => []TypeOK
<1>1. IInv => TypeOK
  BY Zenon DEF IInv
<1> QED
  BY <1>1, IInvAlways, PTL

\* No consumer of a user is ever sent an event about another user, whatever
\* producers declare, consumers claim, and when the supervisor learns who a
\* producer is.
THEOREM BusIsolatesUsers == Spec => []UidIsolation
<1>1. IInv => UidIsolation
  <2> SUFFICES ASSUME IInv, NEW k \in Conns, consumer[k].uid # Root, NEW i \in DOMAIN channel[k]
               PROVE  channel[k][i].subject = consumer[k].uid
    BY Zenon DEF UidIsolation
  <2>1. Truthful(channel[k][i]) /\ Wants(k, channel[k][i])
    BY Zenon DEF IInv, StampInv
  <2>2. consumer[k].uid \in Uids /\ All \notin Uids
    BY PeersAssumption, BusAssumption, Zenon
  <2>3. channel[k][i].uid = consumer[k].uid
    BY <2>1, <2>2, Zenon DEF Wants, clamp_uid_filter, accepts
  <2> QED
    BY <2>1, <2>3, Zenon DEF Truthful
<1> QED
  BY <1>1, IInvAlways, PTL

\* A snapshot a registered consumer should have was offered to it, by the
\* replay of its registration or by a delivery loop, or is on its way.
THEOREM BusLosesNoSnapshot == Spec => []NeverNeither
<1>1. IInv => NeverNeither
  BY Zenon DEF IInv
<1> QED
  BY <1>1, IInvAlways, PTL

\* Ended connections leave no entry behind, and a served one loses its entry
\* only to another connection with its id.
THEOREM BusListsTheServed == Spec => []ServedIsListed
<1>1. IInv => ServedIsListed
  BY Zenon DEF IInv
<1> QED
  BY <1>1, IInvAlways, PTL
===========================================================================
