------------------------- MODULE AuditLedgerProofs -------------------------
(***************************************************************************)
(* Theorems about AuditLedger, for every set of requests and every bound   *)
(* on crashes and damages.                                                 *)
(***************************************************************************)
EXTENDS AuditLedger, WellFoundedInduction, TLAPS

\* The request r is among the payloads a chain hash commits to.
Commits(hash, r) == \E k \in 1 .. Len(hash) : hash[k] = r

\* At most one request holds the ledger mutex, and only in a serving daemon.
MutexInv ==
    /\ \A r, q \in Requests :
          (srv[r] \in {"insert", "seal"} /\ srv[q] \in {"insert", "seal"}) => r = q
    /\ \A r \in Requests : srv[r] \in {"insert", "seal"} => mode = "serving"
    /\ \A r \in Requests : srv[r] = "seal" => nextIndex > 0

\* Indexes are a primary key and stay below the in-memory head, also in the
\* files a stopped daemon leaves behind.
KeyInv ==
    /\ \A a, b \in rows : a.idx = b.idx => a = b
    /\ \A row \in rows : row.idx < nextIndex

\* What the chain of a serving daemon, or of an undamaged ledger, looks like.
ChainInv ==
    (mode = "serving" \/ damage = {}) =>
        /\ Verify(rows)
        /\ IndexesOf(rows) = 0 .. nextIndex - 1
        /\ \A row \in rows : row.idx + 1 = nextIndex => row.hash = prevHash
        /\ rows = {} => prevHash = GENESIS_PREV_HASH

\* The request that is about to be sealed is the last entry.
SealInv ==
    \A r \in Requests : srv[r] = "seal" =>
        /\ \E row \in rows : row.payload = r /\ row.idx + 1 = nextIndex
        /\ Commits(prevHash, r)

\* Without damage each checkpoint names an entry, and the visible one is never
\* behind the durable one.
SealsRow(cp) == cp = None \/ \E row \in rows : Checkpoint(row) = cp

CheckpointInv ==
    damage = {} =>
        /\ SealsRow(checkpoint)
        /\ SealsRow(durable)
        /\ checkpoint = None => durable = None

CommitsToAcked(hash) == \A r \in Requests : cli[r] = "acked" => Commits(hash, r)

\* A witness that can still convict: it commits to every acknowledged request,
\* or it was destroyed and the daemon has not been serving since.
Convicts(cp) ==
    \/ CommitsToAcked(cp.hash)
    \/ mode # "serving" /\ cp = Corrupt
    \/ mode # "serving" /\ cp = None /\ rows # {}

LossInv ==
    "wiped" \notin damage =>
        /\ Convicts(checkpoint)
        /\ durable = checkpoint \/ CommitsToAcked(durable.hash)
        /\ mode = "serving" =>
              \A r \in Requests : cli[r] = "acked" => Recorded(r) /\ Commits(prevHash, r)

IInv ==
    /\ TypeOK /\ MutexInv /\ KeyInv /\ ChainInv /\ SealInv
    /\ CheckpointInv /\ LossInv /\ AckedIsWitnessed /\ FalseAlarmOnlyBeforeFirstSeal
-----------------------------------------------------------------------------
(* Facts about naturals, chains and the last row. *)

\* A nonempty set of naturals has a least element.
LEMMA LeastNatural ==
    ASSUME NEW T, T \subseteq Nat, T # {}
    PROVE  \E x \in T : \A y \in T : x <= y
<1>1. IsWellFoundedOn(OpToRel(<, Nat), Nat)
  BY Zenon, NatLessThanWellFounded
<1>2. \E x \in T : \A y \in T : <<y, x>> \notin OpToRel(<, Nat)
  BY Zenon, <1>1, WFMin
<1>3. \E x \in T : \A y \in T : ~(y < x)
  BY Zenon, <1>2 DEF OpToRel
<1> QED
  BY <1>3

\* Induction over the naturals for membership in a set.
LEMMA SetInduction ==
    ASSUME NEW S, 0 \in S, \A n \in Nat : n \in S => n + 1 \in S
    PROVE  \A n \in Nat : n \in S
<1> SUFFICES ASSUME \E n \in Nat : n \notin S PROVE FALSE
  OBVIOUS
<1> DEFINE T == {n \in Nat : n \notin S}
<1>1. T \subseteq Nat /\ T # {}
  OBVIOUS
<1> HIDE DEF T
<1>2. PICK x \in T : \A y \in T : x <= y
  BY Zenon, <1>1, LeastNatural
<1>3. x \in Nat /\ x \notin S /\ x # 0
  BY <1>1 DEF T
<1>4. x - 1 \in Nat /\ x - 1 \notin T
  BY <1>1, <1>2, <1>3
<1>5. x - 1 \in S
  BY <1>4 DEF T
<1> QED
  BY <1>3, <1>4, <1>5

\* A nonempty table whose indexes are bounded has a last row, which is the one
\* load_head reads.
LEMMA LastRowIsLast ==
    ASSUME NEW R, R \subseteq Rows, R # {},
           NEW n \in Nat, \A row \in R : row.idx < n
    PROVE  IsLast(LastRow(R), R)
<1> DEFINE T == {m \in Nat : \A row \in R : row.idx <= m}
<1>1. \A row \in R : row.idx \in Nat
  BY DEF Rows
<1>2. T \subseteq Nat /\ n \in T
  BY <1>1
<1> HIDE DEF T
<1>3. PICK m \in T : \A k \in T : m <= k
  BY Zenon, <1>2, LeastNatural
<1>4. m \in Nat /\ \A row \in R : row.idx <= m
  BY DEF T
<1>5. \E row \in R : row.idx = m
  <2> SUFFICES ASSUME \A row \in R : row.idx # m PROVE FALSE
    OBVIOUS
  <2>1. \A row \in R : row.idx < m
    BY <1>1, <1>4
  <2>2. m - 1 \in Nat /\ \A row \in R : row.idx <= m - 1
    BY <1>1, <1>4, <2>1
  <2>3. m - 1 \in T
    BY <2>2 DEF T
  <2> QED
    BY <1>3, <1>4, <2>2, <2>3
<1>6. \E row \in R : IsLast(row, R)
  BY <1>4, <1>5 DEF IsLast
<1> QED
  BY <1>6 DEF LastRow, IsLast

\* Every request a row's hash commits to has a row in a table that verifies.
LEMMA ChainContains ==
    ASSUME NEW R, R \subseteq Rows, Verify(R), NEW row \in R,
           NEW r, Commits(row.hash, r)
    PROVE  \E other \in R : other.payload = r
<1> DEFINE Contains(x) == \A k \in 1 .. Len(x.hash) : \E other \in R : other.payload = x.hash[k]
           S == {n \in Nat : \A x \in R : x.idx = n => Contains(x)}
<1>1. \A x \in R : /\ x.idx \in Nat /\ x.prev \in Hashes /\ x.payload \in Requests
                   /\ x.hash = Append(x.prev, x.payload)
  BY DEF Verify, Rows, EntryHash
<1>2. 0 \in S
  <2> SUFFICES ASSUME NEW x \in R, x.idx = 0 PROVE Contains(x)
    OBVIOUS
  <2>1. x.hash = Append(<<>>, x.payload)
    BY <1>1 DEF Verify, GENESIS_PREV_HASH
  <2> QED
    BY <1>1, <2>1
<1>3. \A n \in Nat : n \in S => n + 1 \in S
  <2> SUFFICES ASSUME NEW n \in Nat, n \in S, NEW x \in R, x.idx = n + 1,
                      NEW k \in 1 .. Len(x.hash)
               PROVE  \E other \in R : other.payload = x.hash[k]
    BY SMTT(60)
  <2>1. n \in 0 .. x.idx
    OBVIOUS
  <2>2. PICK before \in R : before.idx = n
    BY <2>1 DEF Verify, IndexesOf
  <2>3. x.prev = before.hash
    BY SMTT(60), <1>1, <2>2 DEF Verify
  <2>4. x.hash = Append(before.hash, x.payload) /\ before.hash \in Hashes
    BY Zenon, <1>1, <2>3
  <2>5. CASE k = Len(before.hash) + 1
    BY <1>1, <2>4, <2>5 DEF Hashes
  <2>6. CASE k \in 1 .. Len(before.hash)
    <3>1. x.hash[k] = before.hash[k]
      BY <2>4, <2>6 DEF Hashes
    <3> QED
      BY <2>2, <2>6, <3>1
  <2> QED
    BY <2>4, <2>5, <2>6 DEF Hashes
<1> HIDE DEF S
<1>4. \A n \in Nat : n \in S
  BY <1>2, <1>3, SetInduction
<1>5. row.idx \in S
  BY <1>1, <1>4
<1>6. Contains(row)
  BY <1>5 DEF S
<1> QED
  BY <1>6 DEF Commits

\* A later row's hash commits to whatever an earlier row's hash commits to.
LEMMA ChainGrows ==
    ASSUME NEW R, R \subseteq Rows, Verify(R),
           \A x, y \in R : x.idx = y.idx => x = y,
           NEW a \in R, NEW r, Commits(a.hash, r),
           NEW b \in R, a.idx <= b.idx
    PROVE  Commits(b.hash, r)
<1> DEFINE S == {n \in Nat : \A x \in R : (x.idx = n /\ a.idx <= n) => Commits(x.hash, r)}
<1>1. \A x \in R : /\ x.idx \in Nat /\ x.prev \in Hashes /\ x.payload \in Requests
                   /\ x.hash = Append(x.prev, x.payload)
  BY DEF Verify, Rows, EntryHash
<1>2. 0 \in S
  BY <1>1
<1>3. \A n \in Nat : n \in S => n + 1 \in S
  <2> SUFFICES ASSUME NEW n \in Nat, n \in S, NEW x \in R, x.idx = n + 1, a.idx <= n + 1
               PROVE  Commits(x.hash, r)
    OBVIOUS
  <2>1. CASE a.idx = n + 1
    BY <2>1
  <2>2. CASE a.idx <= n
    <3>1. n \in 0 .. x.idx
      OBVIOUS
    <3>2. PICK before \in R : before.idx = n
      BY <3>1 DEF Verify, IndexesOf
    <3>3. x.prev = before.hash
      BY SMTT(60), <1>1, <3>2 DEF Verify
    <3>4. x.hash = Append(before.hash, x.payload) /\ before.hash \in Hashes
      BY <1>1, <3>3
    <3>5. Commits(before.hash, r)
      BY <2>2, <3>2
    <3> QED
      BY SMTT(60), <1>1, <3>4, <3>5 DEF Commits, Hashes
  <2> QED
    BY <1>1, <2>1, <2>2
<1> HIDE DEF S
<1>4. \A n \in Nat : n \in S
  BY <1>2, <1>3, SetInduction
<1>5. b.idx \in S
  BY <1>1, <1>4
<1> QED
  BY <1>5 DEF S
-----------------------------------------------------------------------------
(* The inductive invariant, action by action. *)

LEMMA InitIInv == Init => IInv
<1> SUFFICES ASSUME Init PROVE IInv
  OBVIOUS
<1>1. TypeOK
  BY BoundsAssumption DEF Init, TypeOK, Rows, Checkpoints, Hashes, None, GENESIS_PREV_HASH
<1>2. MutexInv /\ KeyInv /\ SealInv /\ LossInv /\ AckedIsWitnessed
  BY DEF Init, MutexInv, KeyInv, SealInv, LossInv, Convicts, CommitsToAcked,
         AckedIsWitnessed
<1>3. CheckpointInv /\ FalseAlarmOnlyBeforeFirstSeal
  BY DEF Init, CheckpointInv, SealsRow, FalseAlarmOnlyBeforeFirstSeal
<1>4. ChainInv
  BY DEF Init, ChainInv, Verify, IndexesOf
<1> QED
  BY <1>1, <1>2, <1>3, <1>4 DEF IInv

\* A step that touches neither the files nor the head, acknowledges nothing and
\* brings no request to its checkpoint, keeps everything but types and mutex.
LEMMA QuietStep ==
    ASSUME IInv, TypeOK', MutexInv',
           UNCHANGED <<files, mode, verdict, head, history>>,
           \A r \in Requests : cli'[r] = "acked" => cli[r] = "acked",
           \A r \in Requests : srv'[r] = "seal" => srv[r] = "seal"
    PROVE  IInv'
<1> USE DEF IInv, files, head, history
<1>1. KeyInv' /\ ChainInv' /\ CheckpointInv' /\ FalseAlarmOnlyBeforeFirstSeal'
  BY DEF KeyInv, ChainInv, CheckpointInv, SealsRow, FalseAlarmOnlyBeforeFirstSeal, Verify,
         IndexesOf
<1>2. SealInv'
  BY DEF SealInv
<1>3. AckedIsWitnessed'
  BY DEF AckedIsWitnessed, Witnessed
<1>4. LossInv'
  BY DEF LossInv, Convicts, CommitsToAcked, Recorded
<1> QED
  BY <1>1, <1>2, <1>3, <1>4

LEMMA SubmitStep ==
    ASSUME IInv, NEW r \in Requests, Submit(r) \/ SubmitRefused(r) \/ SubmitTimeout(r)
    PROVE  IInv'
<1> USE DEF Submit, SubmitRefused, SubmitTimeout, IInv
<1>1. UNCHANGED <<files, mode, verdict, head, history>>
  OBVIOUS
<1>2. TypeOK'
  BY <1>1 DEF TypeOK, files, head, history
<1>3. MutexInv'
  BY <1>1 DEF MutexInv, TypeOK, files, head, history
<1>4. \A q \in Requests : /\ cli'[q] = "acked" => cli[q] = "acked"
                          /\ srv'[q] = "seal" => srv[q] = "seal"
  BY DEF TypeOK
<1> QED
  BY <1>1, <1>2, <1>3, <1>4, QuietStep

LEMMA RefuseStep ==
    ASSUME IInv, NEW r \in Requests, Refuse(r) \/ Lock(r) \/ InsertFails(r)
    PROVE  IInv'
<1> USE DEF Refuse, Lock, InsertFails, Finish, Tell, IInv
<1>1. UNCHANGED <<files, mode, verdict, head, history>>
  OBVIOUS
<1>2. TypeOK'
  BY SMTT(60), <1>1 DEF TypeOK, files, head, history
<1>3. MutexInv'
  BY <1>1 DEF MutexInv, TypeOK, files, head, history, Locked
<1>4. \A q \in Requests : /\ cli'[q] = "acked" => cli[q] = "acked"
                          /\ srv'[q] = "seal" => srv[q] = "seal"
  BY DEF TypeOK
<1> QED
  BY <1>1, <1>2, <1>3, <1>4, QuietStep

LEMMA InsertStep ==
    ASSUME IInv, NEW r \in Requests, Insert(r)
    PROVE  IInv'
<1> DEFINE new == Row(nextIndex, prevHash, r)
<1>1. /\ rows' = rows \cup {new} /\ nextIndex' = nextIndex + 1
      /\ prevHash' = Append(prevHash, r) /\ srv[r] = "insert"
      /\ srv' = [srv EXCEPT ![r] = "seal"]
      /\ UNCHANGED <<checkpoint, durable, mode, verdict, cli, crashes, damage, damages>>
  BY DEF Insert, EntryHash, history
<1>2. TypeOK /\ MutexInv /\ KeyInv /\ ChainInv /\ SealInv /\ CheckpointInv /\ LossInv
  BY DEF IInv
<1>3. /\ new \in Rows /\ new.idx = nextIndex /\ new.payload = r /\ new.prev = prevHash
      /\ new.hash = Append(prevHash, r) /\ new.hash \in Hashes
  BY <1>2 DEF Row, Rows, TypeOK, EntryHash, Hashes
<1>4. mode = "serving" /\ nextIndex \in Nat /\ prevHash \in Seq(Requests)
  BY <1>1, <1>2 DEF MutexInv, TypeOK, Hashes
<1> HIDE DEF new
<1>5. TypeOK'
  BY <1>1, <1>2, <1>3, <1>4 DEF TypeOK, Hashes
<1>6. MutexInv'
  BY <1>1, <1>2, <1>4 DEF MutexInv, TypeOK
<1>7. KeyInv'
  <2>1. \A row \in rows : row.idx \in Nat /\ row.idx < nextIndex
    BY <1>2 DEF KeyInv, TypeOK, Rows
  <2> QED
    BY SMTT(60), <1>1, <1>2, <1>3, <1>4, <2>1 DEF KeyInv
<1>8. ChainInv'
  <2>1. /\ Verify(rows) /\ IndexesOf(rows) = 0 .. nextIndex - 1
        /\ \A row \in rows : row.idx \in Nat /\ row.idx < nextIndex
        /\ \A row \in rows : row.idx + 1 = nextIndex => row.hash = prevHash
        /\ rows = {} => prevHash = GENESIS_PREV_HASH
    BY <1>2, <1>4 DEF ChainInv, KeyInv, TypeOK, Rows
  <2>2. IndexesOf(rows') = IndexesOf(rows) \cup {nextIndex}
    BY <1>1, <1>3 DEF IndexesOf
  <2>3. IndexesOf(rows') = 0 .. nextIndex' - 1
    <3>1. (0 .. nextIndex - 1) \cup {nextIndex} = 0 .. nextIndex
      BY <1>4
    <3>2. nextIndex' - 1 = nextIndex
      BY <1>1, <1>4
    <3> QED
      BY <2>1, <2>2, <3>1, <3>2
  <2>4. nextIndex = 0 => prevHash = GENESIS_PREV_HASH
    BY <2>1
  <2>5. \A row \in rows' : \A i \in 0 .. row.idx : i \in IndexesOf(rows')
    BY SMTT(60), <1>1, <1>3, <1>4, <2>1, <2>3
  <2>6. \A row \in rows' : row.hash = EntryHash(row.prev, row.payload)
    BY Zenon, <1>1, <1>3, <2>1 DEF Verify, EntryHash
  <2>7. \A row \in rows' :
          IF row.idx = 0 THEN row.prev = GENESIS_PREV_HASH
          ELSE \A before \in rows' : before.idx + 1 = row.idx => row.prev = before.hash
    <3> SUFFICES ASSUME NEW row \in rows'
                 PROVE  /\ row.idx = 0 => row.prev = GENESIS_PREV_HASH
                        /\ row.idx # 0 => \A before \in rows' :
                              before.idx + 1 = row.idx => row.prev = before.hash
      OBVIOUS
    <3>1. CASE row = new
      BY SMTT(60), <1>1, <1>3, <1>4, <2>1, <2>4, <3>1
    <3>2. CASE row \in rows
      <4>1. row.idx = 0 => row.prev = GENESIS_PREV_HASH
        BY <2>1, <3>2 DEF Verify
      <4>2. row.idx # 0 => \A before \in rows :
                before.idx + 1 = row.idx => row.prev = before.hash
        BY <2>1, <3>2 DEF Verify
      <4>3. new.idx + 1 # row.idx
        BY <1>3, <1>4, <2>1, <3>2
      <4> QED
        BY <1>1, <4>1, <4>2, <4>3
    <3> QED
      BY <1>1, <3>1, <3>2
  <2>8. Verify(rows')
    BY Zenon, <2>5, <2>6, <2>7 DEF Verify
  <2>9. \A row \in rows' : row.idx + 1 = nextIndex' => row.hash = prevHash'
    BY SMTT(60), <1>1, <1>3, <1>4, <2>1
  <2>10. Verify(rows)' /\ IndexesOf(rows)' = IndexesOf(rows')
    BY <2>8 DEF Verify, IndexesOf
  <2> QED
    BY <1>1, <2>3, <2>9, <2>10 DEF ChainInv
<1>9. SealInv'
  <2> SUFFICES ASSUME NEW q \in Requests, srv'[q] = "seal"
               PROVE  /\ \E row \in rows' : row.payload = q /\ row.idx + 1 = nextIndex'
                      /\ Commits(prevHash', q)
    BY DEF SealInv, Commits
  <2>1. q = r
    BY <1>1, <1>2 DEF MutexInv, TypeOK
  <2> QED
    BY <1>1, <1>3, <1>4, <2>1 DEF Commits
<1>10. CheckpointInv'
  BY Zenon, <1>1, <1>2 DEF CheckpointInv, SealsRow
<1>11. LossInv'
  <2>1. \A q \in Requests : Commits(prevHash, q) => Commits(prevHash', q)
    BY <1>1, <1>4 DEF Commits
  <2>2. \A q \in Requests : Recorded(q) => Recorded(q)'
    BY <1>1 DEF Recorded
  <2>3. \A q \in Requests : Commits(prevHash, q)' <=> Commits(prevHash', q)
    BY Zenon DEF Commits
  <2> QED
    BY <1>1, <1>2, <1>4, <2>1, <2>2, <2>3 DEF LossInv, Convicts, CommitsToAcked, Commits
<1>12. AckedIsWitnessed'
  BY <1>1 DEF IInv, AckedIsWitnessed, Witnessed
<1>13. FalseAlarmOnlyBeforeFirstSeal'
  BY SMTT(60), <1>1 DEF IInv, FalseAlarmOnlyBeforeFirstSeal
<1> QED
  BY <1>5, <1>6, <1>7, <1>8, <1>9, <1>10, <1>11, <1>12, <1>13 DEF IInv

\* The checkpoint of the entry being sealed names its row and commits to every
\* request acknowledged so far, and to the one being sealed.
LEMMA SealOfFacts ==
    ASSUME IInv, NEW r \in Requests, srv[r] = "seal"
    PROVE  /\ mode = "serving" /\ SealOf(r) \in Checkpoints /\ SealOf(r) # None
           /\ \E row \in rows : row.payload = r /\ Checkpoint(row) = SealOf(r)
           /\ \A row \in rows : row.idx <= SealOf(r).index
           /\ Commits(SealOf(r).hash, r)
           /\ "wiped" \notin damage =>
                 \A q \in Requests : cli[q] = "acked" => Commits(SealOf(r).hash, q)
<1>1. TypeOK /\ MutexInv /\ KeyInv /\ ChainInv /\ SealInv /\ LossInv
  BY DEF IInv
<1>2. mode = "serving" /\ nextIndex \in Nat /\ nextIndex > 0 /\ prevHash \in Seq(Requests)
  BY <1>1 DEF MutexInv, TypeOK, Hashes
<1>3. SealOf(r) = [index |-> nextIndex - 1, hash |-> prevHash]
  BY DEF SealOf
<1>4. Commits(prevHash, r)
  BY <1>1 DEF SealInv
<1>5. prevHash # <<>>
  BY <1>2, <1>4 DEF Commits
<1>6. SealOf(r) \in Checkpoints /\ SealOf(r) # None
  BY <1>2, <1>3, <1>5 DEF Checkpoints, Hashes, None
<1>7. PICK row \in rows : row.payload = r /\ row.idx + 1 = nextIndex
  BY <1>1 DEF SealInv
<1>8. row.hash = prevHash
  BY <1>1, <1>2, <1>7 DEF ChainInv
<1>9. row.idx \in Nat /\ row.idx = nextIndex - 1
  BY SMTT(60), <1>1, <1>2, <1>7 DEF TypeOK, Rows
<1>10. Checkpoint(row) = SealOf(r)
  BY <1>3, <1>8, <1>9 DEF Checkpoint
<1>11. \A other \in rows : other.idx \in Nat /\ other.idx < nextIndex
  BY <1>1 DEF KeyInv, TypeOK, Rows
<1>12. \A other \in rows : other.idx <= SealOf(r).index
  BY <1>2, <1>3, <1>11
<1>13. "wiped" \notin damage => \A q \in Requests : cli[q] = "acked" => Commits(SealOf(r).hash, q)
  BY <1>1, <1>2, <1>3 DEF LossInv
<1> QED
  BY <1>2, <1>3, <1>4, <1>6, <1>7, <1>10, <1>12, <1>13

LEMMA SealStep ==
    ASSUME IInv, NEW r \in Requests, Seal(r)
    PROVE  IInv'
<1> DEFINE cp == SealOf(r)
<1>1. /\ srv[r] = "seal" /\ checkpoint' = cp /\ durable' = cp
      /\ srv' = [srv EXCEPT ![r] = "done"]
      /\ cli' = IF cli[r] = "waiting" THEN [cli EXCEPT ![r] = "acked"] ELSE cli
      /\ UNCHANGED <<rows, mode, verdict, nextIndex, prevHash, crashes, damage, damages>>
  BY DEF Seal, Finish, Tell, head, history
<1>2. TypeOK /\ MutexInv /\ KeyInv /\ ChainInv /\ SealInv /\ CheckpointInv /\ LossInv
  BY DEF IInv
<1>3. /\ mode = "serving" /\ cp \in Checkpoints /\ cp # None
      /\ \E row \in rows : row.payload = r /\ Checkpoint(row) = cp
      /\ \A row \in rows : row.idx <= cp.index
      /\ Commits(cp.hash, r)
      /\ "wiped" \notin damage => \A q \in Requests : cli[q] = "acked" => Commits(cp.hash, q)
  BY <1>1, SealOfFacts
<1>4. \A q \in Requests : cli'[q] = "acked" => (cli[q] = "acked" \/ q = r)
  BY Zenon, <1>1, <1>2 DEF TypeOK
<1> HIDE DEF cp
<1>5. TypeOK'
  BY Zenon, <1>1, <1>2, <1>3 DEF TypeOK
<1>6. MutexInv' /\ SealInv'
  BY SMTT(60), <1>1, <1>2 DEF MutexInv, SealInv, TypeOK, Commits
<1>7. KeyInv' /\ ChainInv'
  BY <1>1, <1>2 DEF KeyInv, ChainInv, Verify, IndexesOf
<1>8. CheckpointInv'
  BY <1>1, <1>3 DEF CheckpointInv, SealsRow
<1>9. AckedIsWitnessed'
  <2> SUFFICES ASSUME damage = {}, NEW q \in Requests, cli'[q] = "acked"
               PROVE  \E row \in rows : row.payload = q /\ row.idx <= cp.index
    BY <1>1, <1>3 DEF AckedIsWitnessed, Witnessed
  <2>1. CASE q = r
    BY Zenon, <1>3, <2>1
  <2>2. CASE cli[q] = "acked"
    BY <1>3, <2>2 DEF IInv, AckedIsWitnessed, Witnessed
  <2> QED
    BY <1>4, <2>1, <2>2
<1>10. LossInv'
  <2> SUFFICES ASSUME "wiped" \notin damage, NEW q \in Requests, cli'[q] = "acked"
               PROVE  /\ Commits(cp.hash, q) /\ Commits(prevHash, q)
                      /\ \E row \in rows : row.payload = q
    BY <1>1 DEF LossInv, Convicts, CommitsToAcked, Recorded, Commits
  <2>1. CASE q = r
    BY Zenon, <1>1, <1>2, <1>3, <2>1 DEF SealInv
  <2>2. CASE cli[q] = "acked"
    BY <1>2, <1>3, <2>2 DEF LossInv, Recorded
  <2> QED
    BY <1>4, <2>1, <2>2
<1>11. FalseAlarmOnlyBeforeFirstSeal'
  BY <1>1, <1>3 DEF FalseAlarmOnlyBeforeFirstSeal
<1> QED
  BY <1>5, <1>6, <1>7, <1>8, <1>9, <1>10, <1>11 DEF IInv

LEMMA SealFailsStep ==
    ASSUME IInv, NEW r \in Requests, SealFails(r)
    PROVE  IInv'
<1> DEFINE cp == SealOf(r)
<1>1. /\ srv[r] = "seal" /\ checkpoint' \in {checkpoint, cp} /\ durable' = durable
      /\ srv' = [srv EXCEPT ![r] = "done"]
      /\ cli' = IF cli[r] = "waiting" THEN [cli EXCEPT ![r] = "failed"] ELSE cli
      /\ UNCHANGED <<rows, mode, verdict, nextIndex, prevHash, crashes, damage, damages>>
  BY DEF SealFails, Finish, Tell, head, history
<1>2. TypeOK /\ MutexInv /\ KeyInv /\ ChainInv /\ SealInv /\ CheckpointInv /\ LossInv
  BY DEF IInv
<1>3. /\ mode = "serving" /\ cp \in Checkpoints /\ cp # None
      /\ \E row \in rows : row.payload = r /\ Checkpoint(row) = cp
      /\ "wiped" \notin damage => \A q \in Requests : cli[q] = "acked" => Commits(cp.hash, q)
  BY <1>1, SealOfFacts
<1>4. \A q \in Requests : cli'[q] = "acked" => cli[q] = "acked"
  BY Zenon, <1>1, <1>2 DEF TypeOK
<1> HIDE DEF cp
<1>5. TypeOK'
  BY Zenon, <1>1, <1>2, <1>3 DEF TypeOK
<1>6. MutexInv' /\ SealInv'
  BY SMTT(60), <1>1, <1>2 DEF MutexInv, SealInv, TypeOK, Commits
<1>7. KeyInv' /\ ChainInv'
  BY <1>1, <1>2 DEF KeyInv, ChainInv, Verify, IndexesOf
<1>8. CheckpointInv'
  BY Zenon, <1>1, <1>2, <1>3 DEF CheckpointInv, SealsRow
<1>9. AckedIsWitnessed'
  BY Zenon, <1>1, <1>4 DEF IInv, AckedIsWitnessed, Witnessed
<1>10. LossInv'
  BY SMTT(60), <1>1, <1>2, <1>3, <1>4 DEF LossInv, Convicts, CommitsToAcked, Recorded, Commits
<1>11. FalseAlarmOnlyBeforeFirstSeal'
  BY <1>1, <1>3 DEF FalseAlarmOnlyBeforeFirstSeal
<1> QED
  BY <1>5, <1>6, <1>7, <1>8, <1>9, <1>10, <1>11 DEF IInv

LEMMA StopStep ==
    ASSUME IInv, NEW cp \in {checkpoint, durable}, Stop(cp)
    PROVE  IInv'
<1>1. /\ crashes < MaxCrashes /\ crashes' = crashes + 1 /\ mode' = "down" /\ checkpoint' = cp
      /\ srv' = [r \in Requests |-> IF srv[r] = "idle" THEN "idle" ELSE "done"]
      /\ cli' = [r \in Requests |-> IF cli[r] = "waiting" THEN "failed" ELSE cli[r]]
      /\ UNCHANGED <<rows, durable, verdict, nextIndex, prevHash, damage, damages>>
  BY DEF Stop, head
<1>2. TypeOK /\ KeyInv /\ ChainInv /\ CheckpointInv /\ LossInv
  BY DEF IInv
<1>3. \A q \in Requests : /\ cli'[q] = "acked" => cli[q] = "acked"
                          /\ srv'[q] \notin {"insert", "seal"}
  BY SMTT(60), <1>1
<1>4. TypeOK'
  BY <1>1, <1>2, BoundsAssumption DEF TypeOK
<1>5. MutexInv' /\ SealInv'
  BY Zenon, <1>3 DEF MutexInv, SealInv
<1>6. KeyInv' /\ ChainInv'
  BY Zenon, <1>1, <1>2 DEF KeyInv, ChainInv, Verify, IndexesOf
<1>7. CheckpointInv'
  BY <1>1, <1>2 DEF CheckpointInv, SealsRow
<1>8. AckedIsWitnessed'
  BY Zenon, <1>1, <1>3 DEF IInv, AckedIsWitnessed, Witnessed
<1>9. LossInv'
  BY <1>1, <1>2, <1>3 DEF LossInv, Convicts, CommitsToAcked, Commits
<1>10. FalseAlarmOnlyBeforeFirstSeal'
  BY <1>1 DEF FalseAlarmOnlyBeforeFirstSeal
<1> QED
  BY <1>4, <1>5, <1>6, <1>7, <1>8, <1>9, <1>10 DEF IInv

\* The head Ledger::open loads is a head of the table, above every index in it,
\* and for a table that verifies it is the end of an unbroken chain.
LEMMA LoadHeadFacts ==
    ASSUME IInv, LoadHead
    PROVE  /\ nextIndex' \in Nat /\ prevHash' \in Hashes
           /\ \A row \in rows : row.idx < nextIndex'
           /\ rows # {} => /\ LastRow(rows) \in rows
                           /\ \A row \in rows : row.idx <= LastRow(rows).idx
                           /\ Checkpoint(LastRow(rows)) \in Checkpoints
           /\ Verify(rows) => /\ IndexesOf(rows) = 0 .. nextIndex' - 1
                              /\ \A row \in rows : row.idx + 1 = nextIndex' => row.hash = prevHash'
           /\ rows = {} => prevHash' = GENESIS_PREV_HASH
<1>1. /\ rows \subseteq Rows /\ nextIndex \in Nat
      /\ \A row \in rows : row.idx \in Nat /\ row.idx < nextIndex /\ row.hash \in Hashes
      /\ \A a, b \in rows : a.idx = b.idx => a = b
  BY Zenon DEF IInv, TypeOK, KeyInv, Rows
<1>2. CASE rows = {}
  <2>1. nextIndex' = 0 /\ prevHash' = <<>>
    BY <1>2 DEF LoadHead, GENESIS_PREV_HASH
  <2>2. IndexesOf(rows) = {}
    BY <1>2 DEF IndexesOf
  <2>3. 0 .. 0 - 1 = {}
    OBVIOUS
  <2> QED
    BY SMTT(60), <1>2, <2>1, <2>2, <2>3 DEF Hashes, GENESIS_PREV_HASH
<1>3. CASE rows # {}
  <2> DEFINE last == LastRow(rows)
  <2>1. nextIndex' = last.idx + 1 /\ prevHash' = last.hash
    BY <1>3 DEF LoadHead
  <2>2. last \in rows /\ \A row \in rows : row.idx <= last.idx
    BY <1>1, <1>3, LastRowIsLast DEF IsLast
  <2> HIDE DEF last
  <2>3. last.idx \in Nat /\ last.hash \in Hashes
    BY <1>1, <2>2
  <2>4. Checkpoint(last) \in Checkpoints
    BY <2>3 DEF Checkpoint, Checkpoints
  <2>5. Verify(rows) => IndexesOf(rows) = 0 .. last.idx
    <3> SUFFICES ASSUME Verify(rows), NEW i PROVE i \in IndexesOf(rows) <=> i \in 0 .. last.idx
      BY DEF IndexesOf
    <3>1. ASSUME i \in 0 .. last.idx PROVE i \in IndexesOf(rows)
      BY <2>2, <3>1 DEF Verify
    <3>2. ASSUME i \in IndexesOf(rows) PROVE i \in 0 .. last.idx
      BY SMTT(60), <1>1, <2>2, <2>3, <3>2 DEF IndexesOf
    <3> QED
      BY <3>1, <3>2
  <2>6. \A row \in rows : row.idx + 1 = nextIndex' => row.hash = prevHash'
    BY <1>1, <2>1, <2>2, <2>3
  <2>7. nextIndex' - 1 = last.idx
    BY <2>1, <2>3
  <2>8. \A row \in rows : row.idx < nextIndex'
    BY <1>1, <2>1, <2>2, <2>3
  <2>9. LastRow(rows) = last
    BY DEF last
  <2> QED
    BY SMTT(60), <1>3, <2>1, <2>2, <2>3, <2>4, <2>5, <2>6, <2>7, <2>8, <2>9
<1> QED
  BY Zenon, <1>2, <1>3

\* A row of a table that verifies is no stand-in for a missing checkpoint.
LEMMA SealedHashNotEmpty ==
    ASSUME NEW R, R \subseteq Rows, Verify(R), NEW row \in R
    PROVE  Checkpoint(row) # None /\ Checkpoint(row) # Corrupt
<1>1. row.hash = Append(row.prev, row.payload) /\ row.prev \in Seq(Requests) /\ row.payload \in Requests
  BY DEF Verify, EntryHash, Rows, Hashes
<1>2. row.hash # <<>>
  BY SMTT(60), <1>1
<1> QED
  BY <1>2 DEF Checkpoint, None, Corrupt

LEMMA StartStep ==
    ASSUME IInv, NEW v, Start(v)
    PROVE  IInv'
<1>1. /\ mode = "down" /\ v = StartupVerdict(checkpoint, rows) /\ v \in {"tampered", "genesis"}
      /\ LoadHead /\ verdict' = v /\ mode' = (IF v = "tampered" THEN "frozen" ELSE "serving")
      /\ UNCHANGED <<rows, checkpoint, durable, srv, cli, crashes, damage, damages>>
  BY DEF Start, files, history
<1>2. TypeOK /\ MutexInv /\ KeyInv /\ ChainInv /\ CheckpointInv /\ LossInv
  BY DEF IInv
<1>3. /\ nextIndex' \in Nat /\ prevHash' \in Hashes
      /\ \A row \in rows : row.idx < nextIndex'
      /\ Verify(rows) => /\ IndexesOf(rows) = 0 .. nextIndex' - 1
                         /\ \A row \in rows : row.idx + 1 = nextIndex' => row.hash = prevHash'
      /\ rows = {} => prevHash' = GENESIS_PREV_HASH
  BY <1>1, LoadHeadFacts
<1>4. \A q \in Requests : srv'[q] \notin {"insert", "seal"}
  BY <1>1, <1>2 DEF MutexInv, TypeOK
<1>5. v = "genesis" => checkpoint = None /\ rows = {} /\ Verify(rows)
  BY Zenon, <1>1 DEF StartupVerdict, AssessStartup
<1>6. TypeOK'
  BY <1>1, <1>2, <1>3 DEF TypeOK
<1>7. MutexInv' /\ SealInv'
  BY <1>4 DEF MutexInv, SealInv
<1>8. KeyInv'
  BY Zenon, <1>1, <1>2, <1>3 DEF KeyInv
<1>9. ChainInv'
  <2>1. (mode' = "serving" \/ damage = {}) => Verify(rows)
    BY Zenon, <1>1, <1>2, <1>5 DEF ChainInv
  <2>2. Verify(rows)' <=> Verify(rows)
    BY Zenon, <1>1 DEF Verify, IndexesOf
  <2>3. IndexesOf(rows)' = IndexesOf(rows)
    BY ZenonT(60), <1>1 DEF IndexesOf
  <2> QED
    BY <1>1, <1>3, <2>1, <2>2, <2>3 DEF ChainInv
<1>10. CheckpointInv' /\ AckedIsWitnessed'
  BY <1>1, <1>2 DEF IInv, CheckpointInv, SealsRow, AckedIsWitnessed, Witnessed
<1>11. LossInv'
  <2>1. CASE v = "tampered"
    BY ZenonT(60), <1>1, <1>2, <2>1 DEF LossInv, Convicts, CommitsToAcked, Commits
  <2>2. CASE v = "genesis"
    <3>1. "wiped" \notin damage => \A q \in Requests : cli[q] # "acked"
      <4>1. checkpoint.hash = <<>> /\ checkpoint # Corrupt
        BY SMTT(60), <1>5, <2>2 DEF None, Corrupt
      <4>2. "wiped" \notin damage => CommitsToAcked(checkpoint.hash)
        BY ZenonT(60), <1>2, <1>5, <2>2, <4>1 DEF LossInv, Convicts
      <4> QED
        BY <4>1, <4>2 DEF CommitsToAcked, Commits
    <3> QED
      BY ZenonT(60), <1>1, <3>1 DEF LossInv, Convicts, CommitsToAcked
  <2> QED
    BY ZenonT(60), <1>1, <2>1, <2>2
<1>12. FalseAlarmOnlyBeforeFirstSeal'
  <2> SUFFICES ASSUME v = "tampered", damage = {} PROVE durable = None
    BY <1>1 DEF FalseAlarmOnlyBeforeFirstSeal
  <2>1. Verify(rows) /\ rows \subseteq Rows
    BY <1>2 DEF ChainInv, TypeOK
  <2>2. AssessStartup(checkpoint, rows) = "tampered"
    BY <1>1, <2>1 DEF StartupVerdict
  <2>3. checkpoint = None
    BY Zenon, <1>2, <2>1, <2>2, SealedHashNotEmpty DEF AssessStartup, CheckpointInv, SealsRow
  <2> QED
    BY <1>2, <2>3 DEF CheckpointInv
<1> QED
  BY Zenon, <1>6, <1>7, <1>8, <1>9, <1>10, <1>11, <1>12 DEF IInv

\* When the checkpoint is consistent with a table that verifies, every
\* acknowledged request has its row, and the last row commits to it.
LEMMA ConsistentFacts ==
    ASSUME IInv, StartupVerdict(checkpoint, rows) = "consistent", LoadHead
    PROVE  /\ Verify(rows) /\ rows # {}
           /\ LastRow(rows) \in rows /\ prevHash' = LastRow(rows).hash
           /\ Checkpoint(LastRow(rows)) # None
           /\ "wiped" \notin damage =>
                 /\ CommitsToAcked(checkpoint.hash)
                 /\ CommitsToAcked(LastRow(rows).hash)
                 /\ \A q \in Requests : cli[q] = "acked" => Recorded(q)
<1>1. Verify(rows) /\ checkpoint # None /\ checkpoint # Corrupt
  BY DEF StartupVerdict, AssessStartup
<1>2. PICK row \in rows : Checkpoint(row) = checkpoint
  BY <1>1 DEF StartupVerdict, AssessStartup
<1>3. rows # {} /\ prevHash' = LastRow(rows).hash
  BY <1>2 DEF LoadHead
<1>4. LastRow(rows) \in rows /\ row.idx <= LastRow(rows).idx
  BY <1>2, <1>3, LoadHeadFacts
<1>5. rows \subseteq Rows /\ \A a, b \in rows : a.idx = b.idx => a = b
  BY DEF IInv, TypeOK, KeyInv
<1>6. Checkpoint(LastRow(rows)) # None
  BY <1>1, <1>4, <1>5, SealedHashNotEmpty
<1>7. row.hash = checkpoint.hash
  BY Zenon, <1>2 DEF Checkpoint
<1>8. ASSUME "wiped" \notin damage, NEW q \in Requests, cli[q] = "acked"
      PROVE  Commits(checkpoint.hash, q) /\ Commits(LastRow(rows).hash, q) /\ Recorded(q)
  <2>1. Commits(checkpoint.hash, q)
    BY Zenon, <1>1, <1>8 DEF IInv, LossInv, Convicts, CommitsToAcked
  <2>2. Commits(row.hash, q)
    BY <1>7, <2>1
  <2>3. Recorded(q)
    BY <1>1, <1>5, <2>2, ChainContains DEF Recorded
  <2>4. Commits(LastRow(rows).hash, q)
    BY <1>1, <1>4, <1>5, <2>2, ChainGrows
  <2> QED
    BY <2>1, <2>3, <2>4
<1> QED
  BY <1>1, <1>3, <1>4, <1>6, <1>8 DEF CommitsToAcked

LEMMA ReseedStep ==
    ASSUME IInv, StartReseeds \/ StartReseedFails
    PROVE  IInv'
<1> DEFINE last == LastRow(rows)
           cp == Checkpoint(last)
<1>1. /\ mode = "down" /\ StartupVerdict(checkpoint, rows) = "consistent" /\ LoadHead
      /\ checkpoint' \in {checkpoint, cp} /\ durable' \in {durable, cp}
      /\ mode' = "serving" => checkpoint' = cp /\ durable' = cp
      /\ mode' \in {"serving", "frozen"} /\ verdict' \in {"consistent", "unwritable"}
      /\ durable' = cp => checkpoint' = cp \/ durable = cp
      /\ UNCHANGED <<rows, srv, cli, crashes, damage, damages>>
  BY DEF StartReseeds, StartReseedFails, history
<1>2. TypeOK /\ MutexInv /\ KeyInv /\ CheckpointInv /\ LossInv /\ AckedIsWitnessed
  BY Zenon DEF IInv
<1>3. /\ Verify(rows) /\ last \in rows /\ prevHash' = last.hash /\ cp # None
      /\ "wiped" \notin damage =>
            /\ CommitsToAcked(checkpoint.hash)
            /\ CommitsToAcked(last.hash)
            /\ \A q \in Requests : cli[q] = "acked" => Recorded(q)
  BY ZenonT(60), <1>1, ConsistentFacts
<1>4. /\ nextIndex' \in Nat /\ prevHash' \in Hashes
      /\ \A row \in rows : row.idx < nextIndex'
      /\ \A row \in rows : row.idx <= last.idx
      /\ cp \in Checkpoints
      /\ IndexesOf(rows) = 0 .. nextIndex' - 1
      /\ \A row \in rows : row.idx + 1 = nextIndex' => row.hash = prevHash'
      /\ rows # {}
  BY <1>1, <1>3, LoadHeadFacts
<1>5. cp.index = last.idx /\ cp.hash = last.hash
  BY Zenon DEF Checkpoint
<1>6. \A q \in Requests : srv'[q] \notin {"insert", "seal"}
  BY Zenon, <1>1, <1>2 DEF MutexInv, TypeOK
<1> HIDE DEF last, cp
<1>7. TypeOK'
  BY <1>1, <1>2, <1>4 DEF TypeOK
<1>8. MutexInv' /\ SealInv'
  BY Zenon, <1>6 DEF MutexInv, SealInv
<1>9. KeyInv'
  BY Zenon, <1>1, <1>2, <1>4 DEF KeyInv
<1>10. ChainInv'
  <2>1. Verify(rows)' <=> Verify(rows)
    BY <1>1 DEF Verify, IndexesOf
  <2>2. IndexesOf(rows)' = IndexesOf(rows)
    BY Zenon, <1>1 DEF IndexesOf
  <2> QED
    BY ZenonT(60), <1>1, <1>3, <1>4, <2>1, <2>2 DEF ChainInv
<1>11. CheckpointInv'
  <2>1. \E row \in rows : Checkpoint(row) = cp
    BY <1>3 DEF cp
  <2>2. checkpoint # None
    BY Zenon, <1>1 DEF StartupVerdict, AssessStartup
  <2> QED
    BY Zenon, <1>1, <1>2, <1>3, <2>1, <2>2 DEF CheckpointInv, SealsRow
<1>12. AckedIsWitnessed'
  <2> SUFFICES ASSUME damage = {}, NEW q \in Requests, cli[q] = "acked"
               PROVE  /\ durable' # None
                      /\ \E row \in rows : row.payload = q /\ row.idx <= durable'.index
    BY <1>1 DEF AckedIsWitnessed, Witnessed
  <2>1. durable # None /\ \E row \in rows : row.payload = q /\ row.idx <= durable.index
    BY ZenonT(60), <1>2 DEF AckedIsWitnessed, Witnessed
  <2> QED
    BY Zenon, <1>1, <1>3, <1>4, <1>5, <2>1
<1>13. LossInv'
  BY SMTT(60), <1>1, <1>2, <1>3, <1>5 DEF LossInv, Convicts, CommitsToAcked, Commits, Recorded
<1>14. FalseAlarmOnlyBeforeFirstSeal'
  BY <1>1 DEF FalseAlarmOnlyBeforeFirstSeal
<1> QED
  BY Zenon, <1>7, <1>8, <1>9, <1>10, <1>11, <1>12, <1>13, <1>14 DEF IInv

LEMMA DamageStep ==
    ASSUME IInv, LoseRows \/ EditRow \/ LoseCheckpoint
    PROVE  IInv'
<1>1. PICK R, cp, what :
        /\ Damage(R, cp, what)
        /\ what \in {"rows", "checkpoint"}
        /\ R \subseteq Rows
        /\ cp = checkpoint \/ (cp \in {None, Corrupt} /\ R = rows)
        /\ \A a, b \in R : a.idx = b.idx => a = b
        /\ \A row \in R : row.idx < nextIndex
  <2>1. rows \subseteq Rows /\ \A a, b \in rows : a.idx = b.idx => a = b
    BY DEF IInv, TypeOK, KeyInv
  <2>2. \A row \in rows : row.idx < nextIndex
    BY DEF IInv, KeyInv
  <2>3. CASE LoseRows
    BY <2>1, <2>2, <2>3 DEF LoseRows
  <2>4. CASE LoseCheckpoint
    BY <2>1, <2>2, <2>4 DEF LoseCheckpoint
  <2>5. CASE EditRow
    <3>1. PICK row \in rows, p \in Requests :
            Damage((rows \ {row}) \cup {[row EXCEPT !.payload = p]}, checkpoint, "rows")
      BY Zenon, <2>5 DEF EditRow
    <3>2. [row EXCEPT !.payload = p] \in Rows /\ [row EXCEPT !.payload = p].idx = row.idx
      BY <2>1 DEF Rows
    <3> DEFINE R == (rows \ {row}) \cup {[row EXCEPT !.payload = p]}
    <3>3. R \subseteq Rows /\ \A a, b \in R : a.idx = b.idx => a = b
      BY Zenon, <2>1, <3>2
    <3>4. \A other \in R : other.idx < nextIndex
      BY Zenon, <2>2, <3>2
    <3>5. Damage(R, checkpoint, "rows")
      BY Zenon, <3>1
    <3> HIDE DEF R
    <3> QED
      BY <3>3, <3>4, <3>5
  <2> QED
    BY <2>3, <2>4, <2>5
<1>2. /\ mode = "down" /\ damages < MaxDamage /\ damages' = damages + 1 /\ rows' = R
      /\ checkpoint' = cp /\ durable' = (IF cp = checkpoint THEN durable ELSE cp)
      /\ damage' = damage \cup {what} \cup (IF R = {} /\ cp = None THEN {"wiped"} ELSE {})
      /\ UNCHANGED <<mode, verdict, nextIndex, prevHash, srv, cli, crashes>>
  BY <1>1 DEF Damage, head
<1>3. TypeOK /\ MutexInv /\ LossInv
  BY DEF IInv
<1>4. damage' # {}
  BY <1>2
<1>5. cp \in Checkpoints
  <2>1. None \in Checkpoints /\ Corrupt \in Checkpoints
    BY SMTT(60) DEF Checkpoints, Hashes, None, Corrupt
  <2> QED
    BY Zenon, <1>1, <1>3, <2>1 DEF TypeOK
<1>6. TypeOK'
  <2>1. damage' \subseteq {"rows", "checkpoint", "wiped"}
    BY Zenon, <1>1, <1>2, <1>3 DEF TypeOK
  <2>2. damages' \in 0 .. MaxDamage
    BY SMTT(60), <1>2, <1>3, BoundsAssumption DEF TypeOK
  <2> QED
    BY Zenon, <1>1, <1>2, <1>3, <1>5, <2>1, <2>2 DEF TypeOK
<1>7. MutexInv' /\ SealInv'
  BY Zenon, <1>2, <1>3 DEF MutexInv, SealInv
<1>8. KeyInv'
  BY Zenon, <1>1, <1>2 DEF KeyInv
<1>9. ChainInv' /\ CheckpointInv' /\ AckedIsWitnessed' /\ FalseAlarmOnlyBeforeFirstSeal'
  BY Zenon, <1>2, <1>4 DEF ChainInv, CheckpointInv, AckedIsWitnessed, FalseAlarmOnlyBeforeFirstSeal
<1>10. LossInv'
  <2> SUFFICES ASSUME "wiped" \notin damage'
               PROVE  Convicts(checkpoint)' /\ (durable' = checkpoint' \/ CommitsToAcked(durable.hash)')
    BY Zenon, <1>2 DEF LossInv
  <2>1. "wiped" \notin damage /\ ~(R = {} /\ cp = None)
    BY Zenon, <1>2
  <2>2. CommitsToAcked(durable.hash) /\ cp = checkpoint => CommitsToAcked(durable.hash)'
    BY <1>2 DEF CommitsToAcked, Commits
  <2>3. Convicts(checkpoint)'
    <3>1. CASE cp = checkpoint
      BY Zenon, <1>2, <1>3, <2>1, <3>1 DEF LossInv, Convicts, CommitsToAcked, Commits
    <3>2. CASE cp \in {None, Corrupt}
      BY Zenon, <1>2, <2>1, <3>2 DEF Convicts
    <3> QED
      BY Zenon, <1>1, <3>1, <3>2
  <2> QED
    BY Zenon, <1>2, <1>3, <2>1, <2>2, <2>3 DEF LossInv
<1> QED
  BY Zenon, <1>6, <1>7, <1>8, <1>9, <1>10 DEF IInv
-----------------------------------------------------------------------------
(* The theorems. *)

LEMMA NextIInv == IInv /\ [Next]_vars => IInv'
<1> SUFFICES ASSUME IInv, [Next]_vars PROVE IInv'
  BY Zenon
<1>1. CASE UNCHANGED vars
  <2>1. MutexInv' /\ TypeOK'
    BY <1>1 DEF IInv, MutexInv, TypeOK, vars, files, head, history
  <2> QED
    BY Zenon, <1>1, <2>1, QuietStep DEF vars
<1>2. ASSUME NEW r \in Requests, Submit(r) \/ SubmitRefused(r) \/ SubmitTimeout(r) PROVE IInv'
  BY <1>2, SubmitStep
<1>3. ASSUME NEW r \in Requests, Record(r) PROVE IInv'
  BY <1>3, RefuseStep, InsertStep, SealStep, SealFailsStep DEF Record
<1>4. CASE Startup
  BY <1>4, StartStep, ReseedStep DEF Startup
<1>5. CASE Crash \/ PowerLoss
  BY <1>5, StopStep DEF Crash, PowerLoss
<1>6. CASE LoseRows \/ EditRow \/ LoseCheckpoint
  BY <1>6, DamageStep
<1> QED
  BY <1>1, <1>2, <1>3, <1>4, <1>5, <1>6 DEF Next

\* The invariant of the audit daemon is inductive, for every set of requests
\* and every number of crashes and damages.
THEOREM Invariance == Spec => []IInv
<1> QED
  BY InitIInv, NextIInv, PTL DEF Spec

\* Every variable of the daemon keeps its type; in particular the head loaded
\* by Ledger::open from a damaged table is still an index and a hash.
THEOREM TypeCorrect == Spec => []TypeOK
<1>1. IInv => TypeOK
  BY DEF IInv
<1> QED
  BY <1>1, Invariance, PTL

\* Audit before act: through crashes and power losses an acknowledged request
\* stays in the ledger, at an index the durable checkpoint covers.
THEOREM AckedWitnessedAlways == Spec => []AckedIsWitnessed
<1>1. IInv => AckedIsWitnessed
  BY DEF IInv
<1> QED
  BY <1>1, Invariance, PTL

\* Tamper evidence: a daemon that accepts appends still has every entry it ever
\* acknowledged, unless table and checkpoint were removed together.
THEOREM LossDetectedAlways == Spec => []AckedLossIsDetected
<1>1. IInv => AckedLossIsDetected
  BY Zenon DEF IInv, LossInv, AckedLossIsDetected
<1> QED
  BY <1>1, Invariance, PTL

\* The in-memory head of a serving daemon is the end of a verifying chain.
THEOREM HeadMatchesAlways == Spec => []HeadMatchesTable
<1>1. IInv => HeadMatchesTable
  BY DEF IInv, ChainInv, KeyInv, HeadMatchesTable
<1> QED
  BY <1>1, Invariance, PTL

\* Crashes, power losses and failed writes alone never produce a tampering
\* verdict once a checkpoint exists.
THEOREM FalseAlarmBounded == Spec => []FalseAlarmOnlyBeforeFirstSeal
<1>1. IInv => FalseAlarmOnlyBeforeFirstSeal
  BY DEF IInv
<1> QED
  BY <1>1, Invariance, PTL

\* A ledger frozen at startup keeps its table and checkpoint as they were found
\* for as long as the daemon runs: no request can be past the frozen check.
THEOREM FrozenUntouchedAlways == Spec => FrozenIsUntouched
<1>1. IInv /\ [Next]_vars => [mode = "frozen" /\ mode' = "frozen" => UNCHANGED files]_vars
  <2> SUFFICES ASSUME IInv, Next, mode = "frozen", mode' = "frozen" PROVE UNCHANGED files
    OBVIOUS
  <2>1. \A r \in Requests : srv[r] \notin {"insert", "seal"}
    BY DEF IInv, MutexInv
  <2> QED
    BY <2>1 DEF Next, Record, Startup, Submit, SubmitRefused, SubmitTimeout, Refuse, Lock,
                Insert, InsertFails, Seal, SealFails, Start, StartReseeds, StartReseedFails,
                Crash, PowerLoss, Stop, LoseRows, EditRow, LoseCheckpoint, Damage
<1> QED
  BY <1>1, Invariance, PTL DEF Spec, FrozenIsUntouched
-----------------------------------------------------------------------------
(***************************************************************************)
(* The audit daemon implements AppendLog.  The argument uses the same      *)
(* inductive invariant: a step of the daemon writes at the end,            *)
(* acknowledges what is in the table, opens or closes, happens while the   *)
(* daemon does not serve, or leaves the abstract log alone.                *)
(***************************************************************************)

\* Rows are keyed by their index, so the payload at an index is that row's.
LEMMA PayloadOfRow ==
  ASSUME KeyInv, NEW row \in rows
  PROVE  PayloadAt(rows, row.idx) = row.payload
<1>1. \A other \in rows : other.idx = row.idx => other = row
  BY DEF KeyInv
<1>2. \E other \in rows : other.idx = row.idx
  OBVIOUS
<1>3. (CHOOSE other \in rows : other.idx = row.idx) \in rows
  BY <1>2
<1>4. (CHOOSE other \in rows : other.idx = row.idx).idx = row.idx
  BY <1>2
<1> QED
  BY <1>1, <1>3, <1>4 DEF PayloadAt

\* What the daemon calls recorded is what the abstract log contains.
LEMMA RecordedIsContained ==
  ASSUME KeyInv, NEW r, Recorded(r)
  PROVE  Log!Contains(r)
<1>1. PICK row \in rows : row.payload = r
  BY DEF Recorded
<1>2. row.idx \in IndexesOf(rows)
  BY DEF IndexesOf
<1> QED
  BY <1>1, <1>2, PayloadOfRow DEF Log!Contains

\* The initial ledger is the empty, closed log.
LEMMA InitLog == Init => Log!Init
<1> SUFFICES ASSUME Init PROVE Log!Init
  OBVIOUS
<1>1. IndexesOf(rows) = {}
  BY DEF Init, IndexesOf
<1>2. [i \in IndexesOf(rows) |-> PayloadAt(rows, i)] = <<>>
  BY <1>1
<1> QED
  BY <1>2 DEF Init, Log!Init

\* The acknowledged requests, and a step that leaves the abstract log alone.
Acked == {r \in Requests : cli[r] = "acked"}

LEMMA Stutter ==
  ASSUME rows' = rows, (mode' = "serving") = (mode = "serving"), Acked' = Acked,
         ("wiped" \in damage)' = ("wiped" \in damage)
  PROVE  UNCHANGED Log!vars
BY DEF Log!vars, Acked

\* Telling a producer anything but that its entry is in acknowledges nothing.
LEMMA TellFails ==
  ASSUME TypeOK, NEW r \in Requests, Tell(r, "failed")
  PROVE  Acked' = Acked
BY DEF Tell, Acked, TypeOK

\* append(): the committed INSERT is a write at the end of the log.
LEMMA InsertWrites ==
  ASSUME IInv, IInv', NEW r \in Requests, Insert(r)
  PROVE  Log!Write(r)
<1> DEFINE row == Row(nextIndex, prevHash, r)
           L == [i \in IndexesOf(rows) |-> PayloadAt(rows, i)]
<1>1. mode = "serving" /\ mode' = "serving"
  BY DEF IInv, MutexInv, Insert
<1>2. rows' = rows \cup {row} /\ row.idx = nextIndex /\ row.payload = r
  BY DEF Insert, Row
<1>3. IndexesOf(rows') = IndexesOf(rows) \cup {nextIndex}
  BY <1>2 DEF IndexesOf
<1>4. IndexesOf(rows) = 0 .. nextIndex - 1 /\ nextIndex \in Nat
  BY <1>1 DEF IInv, ChainInv, TypeOK
<1>5. KeyInv /\ KeyInv'
  BY DEF IInv
<1>6. PayloadAt(rows', nextIndex) = r
  <2>1. \A other \in rows' : other.idx = row.idx => other = row
    BY <1>2, <1>5 DEF KeyInv
  <2>2. (CHOOSE other \in rows' : other.idx = nextIndex) = row
    BY <1>2, <2>1
  <2> QED
    BY <1>2, <2>2, Zenon DEF PayloadAt
<1>7. ASSUME NEW i \in IndexesOf(rows) PROVE PayloadAt(rows', i) = PayloadAt(rows, i)
  <2>1. PICK old \in rows : old.idx = i
    BY DEF IndexesOf
  <2>2. \A other \in rows' : other.idx = i => other = old
    BY <1>2, <1>5, <2>1 DEF KeyInv
  <2>3. (CHOOSE other \in rows' : other.idx = i) = old
    BY <1>2, <2>1, <2>2
  <2>4. (CHOOSE other \in rows : other.idx = i) = old
    BY <1>2, <2>1, <2>2
  <2> QED
    BY <2>3, <2>4, Zenon DEF PayloadAt
<1>8. L' = [i \in IndexesOf(rows) \cup {nextIndex} |-> IF i = nextIndex THEN r ELSE L[i]]
  <2>1. nextIndex \notin IndexesOf(rows)
    BY <1>4
  <2>2. L' = [i \in IndexesOf(rows') |-> PayloadAt(rows', i)]
    OBVIOUS
  <2> QED
    BY <1>3, <1>6, <1>7, <2>1, <2>2
<1>9. Log!End(nextIndex)
  BY <1>4 DEF Log!End
<1>10. UNCHANGED <<(mode = "serving"), Acked, ("wiped" \in damage)>>
  BY <1>1 DEF Insert, history, Acked
<1>11. DOMAIN L = IndexesOf(rows) /\ DOMAIN L' = IndexesOf(rows) \cup {nextIndex}
  BY <1>8
<1> QED
  BY <1>1, <1>8, <1>9, <1>10, <1>11 DEF Log!Write, Acked

\* record(): Appended is answered for an entry that is in the log.
LEMMA SealAcknowledges ==
  ASSUME IInv, NEW r \in Requests, Seal(r)
  PROVE  Log!Acknowledge(r) \/ UNCHANGED Log!vars
<1>1. mode = "serving" /\ mode' = mode /\ rows' = rows /\ damage' = damage
  BY DEF IInv, MutexInv, Seal, history
<1>2. Log!Contains(r)
  <2>1. Recorded(r)
    BY DEF IInv, SealInv, Seal, Recorded
  <2> QED
    BY <2>1, RecordedIsContained DEF IInv
<1>3. CASE cli[r] = "waiting"
  <2>1. Acked' = Acked \cup {r}
    BY <1>3 DEF Seal, Finish, Tell, Acked, IInv, TypeOK
  <2>2. [i \in IndexesOf(rows) |-> PayloadAt(rows, i)]' = [i \in IndexesOf(rows) |-> PayloadAt(rows, i)]
    BY <1>1 DEF IndexesOf, PayloadAt
  <2> QED
    BY <1>1, <1>2, <2>1, <2>2 DEF Log!Acknowledge, Acked
<1>4. CASE cli[r] # "waiting"
  <2>1. Acked' = Acked
    BY <1>4 DEF Seal, Finish, Tell, Acked
  <2> QED
    BY <1>1, <2>1, Stutter
<1> QED
  BY <1>3, <1>4

\* The daemon stops: a serving ledger is closed, a frozen one already was.
LEMMA StopCloses ==
  ASSUME IInv, NEW cp, Stop(cp)
  PROVE  Log!Close \/ UNCHANGED Log!vars
<1>1. rows' = rows /\ damage' = damage /\ mode' = "down"
  BY DEF Stop
<1>2. Acked' = Acked
  BY DEF Stop, Acked, IInv, TypeOK
<1>3. CASE mode = "serving"
  <2>1. [i \in IndexesOf(rows) |-> PayloadAt(rows, i)]' = [i \in IndexesOf(rows) |-> PayloadAt(rows, i)]
    BY <1>1 DEF IndexesOf, PayloadAt
  <2> QED
    BY <1>1, <1>2, <1>3, <2>1 DEF Log!Close, Acked
<1>4. CASE mode # "serving"
  BY <1>1, <1>2, <1>4, Stutter
<1> QED
  BY <1>3, <1>4

\* main(): a start that ends in serving opens a log without gaps that has
\* every acknowledged entry; the other starts leave it closed.
LEMMA StartOpens ==
  ASSUME IInv, IInv', mode = "down", mode' \in {"serving", "frozen"},
         rows' = rows, cli' = cli, damage' = damage
  PROVE  Log!Open \/ UNCHANGED Log!vars
<1>1. Acked' = Acked
  BY DEF Acked
<1>2. CASE mode' = "serving"
  <2>1. [i \in IndexesOf(rows) |-> PayloadAt(rows, i)]' = [i \in IndexesOf(rows) |-> PayloadAt(rows, i)]
    BY DEF IndexesOf, PayloadAt
  <2>2. Log!Gapless
    <3>1. IndexesOf(rows) = 0 .. nextIndex' - 1 /\ nextIndex' \in Nat
      BY <1>2 DEF IInv, ChainInv, TypeOK
    <3> QED
      BY <3>1 DEF Log!Gapless
  <2>3. "wiped" \in damage \/ \A r \in Acked : Log!Contains(r)
    <3>1. "wiped" \in damage \/ \A r \in Acked : Recorded(r)
      BY <1>2 DEF IInv, LossInv, Acked, Recorded
    <3> QED
      BY <3>1, RecordedIsContained DEF IInv
  <2> QED
    BY <1>1, <1>2, <2>1, <2>2, <2>3 DEF Log!Open, Acked
<1>3. CASE mode' = "frozen"
  BY <1>1, <1>3, Stutter
<1> QED
  BY <1>2, <1>3

\* Every step of the daemon is a step of the log or leaves it alone.
LEMMA NextLog ==
  ASSUME IInv, IInv', [Next]_vars
  PROVE  [Log!Next]_Log!vars
<1>1. CASE UNCHANGED vars
  <2>1. Acked' = Acked
    BY <1>1 DEF vars, Acked
  <2> QED
    BY <1>1, <2>1, Stutter DEF vars, files, history
<1>2. ASSUME NEW r \in Requests,
             Submit(r) \/ SubmitRefused(r) \/ SubmitTimeout(r) \/ Lock(r)
      PROVE  UNCHANGED Log!vars
  <2>1. Acked' = Acked
    BY <1>2 DEF Submit, SubmitRefused, SubmitTimeout, Lock, Acked, IInv, TypeOK
  <2> QED
    BY <1>2, <2>1, Stutter DEF Submit, SubmitRefused, SubmitTimeout, Lock, files, history
<1>3. ASSUME NEW r \in Requests, Refuse(r) \/ InsertFails(r) \/ SealFails(r)
      PROVE  UNCHANGED Log!vars
  <2>1. Tell(r, "failed") /\ rows' = rows /\ mode' = mode /\ damage' = damage
    BY <1>3 DEF Refuse, InsertFails, SealFails, Finish, files, history
  <2>2. Acked' = Acked
    BY <2>1, TellFails DEF IInv
  <2> QED
    BY <2>1, <2>2, Stutter
<1>4. ASSUME NEW r \in Requests, Record(r) PROVE [Log!Next]_Log!vars
  BY <1>2, <1>3, <1>4, InsertWrites, SealAcknowledges DEF Record, Log!Next
<1>5. CASE Startup
  <2>1. /\ mode = "down" /\ mode' \in {"serving", "frozen"}
        /\ rows' = rows /\ cli' = cli /\ damage' = damage
    BY <1>5 DEF Startup, Start, StartReseeds, StartReseedFails, files, history
  <2> QED
    BY <2>1, StartOpens DEF Log!Next
<1>6. CASE Crash \/ PowerLoss
  BY <1>6, StopCloses DEF Crash, PowerLoss, Log!Next
<1>7. CASE LoseRows \/ EditRow \/ LoseCheckpoint
  <2>1. mode = "down" /\ mode' = mode /\ cli' = cli /\ damage \subseteq damage'
    BY <1>7 DEF LoseRows, EditRow, LoseCheckpoint, Damage
  <2>2. Log!Damage
    BY <2>1 DEF Log!Damage
  <2> QED
    BY <2>2 DEF Log!Next
<1> QED
  BY <1>1, <1>2, <1>4, <1>5, <1>6, <1>7 DEF Next

\* The audit daemon implements the sealed log: its table, its checkpoint and
\* its startup check, through crashes, power losses and damage at rest, behave
\* like a log that only grows and is never served without an acknowledged entry.
THEOREM LedgerImplementsAppendLog == Spec => ImplementsAppendLog
<1> QED
  BY InitLog, NextLog, Invariance, PTL DEF Spec, ImplementsAppendLog, Log!Spec
=============================================================================
