------------------------ MODULE WorkerManagerProofs ------------------------
(***************************************************************************)
(* Proofs that the bookkeeping of the detail panel's workers is right, for *)
(* every number of workers, every limit and every set of views.  The       *)
(* invariant Good is about a manager record, so that it follows through    *)
(* the chains of run_worker, discard_worker and cancels that one slot of   *)
(* the panel performs.                                                     *)
(***************************************************************************)
EXTENDS WorkerManager, TLAPS, FiniteSetTheorems, SequenceTheorems

(* Right but for a free slot that the queue has not been offered yet.       *)
Loose(m) ==
    /\ m \in Manager
    /\ Cardinality(m.workers) <= MaxWorkers /\ Len(m.pending) <= MaxPending
    /\ Queued(m) \cap m.running = {}
    /\ \A i, j \in DOMAIN m.pending : m.pending[i].worker = m.pending[j].worker => i = j
    /\ m.workers \cup m.host \subseteq m.running

Good(m) == Loose(m) /\ (m.pending # <<>> => Cardinality(m.workers) = MaxWorkers)

(* The workers a manager has any record of.                                 *)
Known(m) == Queued(m) \cup m.running

(* How the queue may change but for show_details, which empties it: its     *)
(* first k workers have been started, the others are the first in the new   *)
(* queue, and unless all were started nothing else was.                     *)
Follows(m, n) ==
    /\ m.running \subseteq n.running
    /\ \E k \in 0..Len(m.pending) :
          /\ \A i \in 1..k : m.pending[i].worker \in n.running
          /\ \A i \in (k + 1)..Len(m.pending) :
                i - k \in DOMAIN n.pending /\ n.pending[i - k] = m.pending[i]
          /\ k < Len(m.pending) =>
                n.running = m.running \cup {m.pending[i].worker : i \in 1..k}
----------------------------------------------------------------------------
LEMMA ManagerType ==
    ASSUME NEW m \in Manager
    PROVE  /\ IsFiniteSet(m.workers) /\ Cardinality(m.workers) \in Nat
           /\ m.workers \subseteq Workers /\ m.host \subseteq Workers /\ m.running \subseteq Workers
           /\ m.pending \in Seq(Entry) /\ Len(m.pending) \in Nat
           /\ m.pending \in [1..Len(m.pending) -> Entry]
           /\ DOMAIN m.pending = 1..Len(m.pending)
  <1>1. /\ m.workers \subseteq Workers /\ m.host \subseteq Workers /\ m.running \subseteq Workers
        /\ m.pending \in Seq(Entry)
    BY DEF Manager
  <1>2. IsFiniteSet(m.workers) /\ Cardinality(m.workers) \in Nat
    BY <1>1, FS_Subset, FS_CardinalityType, ManagerAssumption
  <1> QED
    BY <1>1, <1>2, LenProperties

LEMMA SmallerFacts ==
    ASSUME NEW a \in Nat, NEW b \in Nat
    PROVE  /\ Smaller(a, b) \in Nat /\ Smaller(a, b) <= a /\ Smaller(a, b) <= b
           /\ (b < a => Smaller(a, b) = b)
  BY DEF Smaller

(* What starting the workers of some entries changes.                       *)
LEMMA StartedFacts ==
    ASSUME NEW m \in Manager, NEW entries \in SUBSET Entry
    PROVE  LET ws == {e.worker : e \in entries}
               n == Started(m, entries)
           IN  /\ n \in Manager
               /\ n.workers = m.workers \cup ws /\ n.running = m.running \cup ws
               /\ n.pending = m.pending
               /\ m.host \subseteq n.host /\ n.host \subseteq m.host \cup ws
<1> DEFINE ws == {e.worker : e \in entries}
           hs == {w \in ws : [worker |-> w, host |-> TRUE] \in entries}
<1>1. /\ ws \subseteq Workers /\ hs \subseteq ws
      /\ m.workers \subseteq Workers /\ m.host \subseteq Workers /\ m.running \subseteq Workers
      /\ m.pending \in Seq(Entry)
  BY DEF Manager, Entry
<1>2. Started(m, entries) = [m EXCEPT !.workers = m.workers \cup ws, !.host = m.host \cup hs,
                                      !.running = m.running \cup ws]
  BY Zenon DEF Started
<1> HIDE DEF ws, hs
<1>3. Started(m, entries) = [workers |-> m.workers \cup ws, host |-> m.host \cup hs,
                             pending |-> m.pending, running |-> m.running \cup ws]
  BY <1>2 DEF Manager
<1>4. Started(m, entries) \in Manager
  BY <1>1, <1>3 DEF Manager
<1> QED BY <1>1, <1>3, <1>4 DEF ws

(* _pump fills the free slots from the head of the queue: afterwards either *)
(* the queue is empty or no slot is free.                                   *)
LEMMA PumpFacts ==
    ASSUME NEW m, Loose(m)
    PROVE  /\ Good(Pump(m))
           /\ Known(Pump(m)) \subseteq Known(m)
           /\ m.running \subseteq Pump(m).running
           /\ Pump(m).workers \subseteq m.workers \cup Queued(m)
           /\ Follows(m, Pump(m))
  <1> DEFINE q == m.pending
             free == MaxWorkers - Cardinality(m.workers)
             k == Smaller(Len(q), free)
             heads == {q[i] : i \in 1..k}
             ws == {e.worker : e \in heads}
             s == Started(m, heads)
             f == [i \in 1..k |-> q[i].worker]
  <1>1. /\ m \in Manager
        /\ IsFiniteSet(m.workers) /\ Cardinality(m.workers) \in Nat
        /\ m.workers \subseteq Workers /\ m.running \subseteq Workers
        /\ q \in Seq(Entry) /\ Len(q) \in Nat /\ q \in [1..Len(q) -> Entry]
        /\ DOMAIN q = 1..Len(q)
    BY ManagerType DEF Loose
  <1>2. free \in Nat /\ k \in Nat /\ k <= Len(q) /\ k <= free
        /\ (k < Len(q) => k = free)
    BY <1>1, ManagerAssumption DEF Loose, Smaller
  <1>3. \A i \in 1..k : i \in 1..Len(q) /\ q[i] \in Entry /\ q[i].worker \in Queued(m)
    BY <1>1, <1>2 DEF Queued
  <1>4. heads \in SUBSET Entry /\ ws = {q[i].worker : i \in 1..k}
    BY <1>3
  <1>5. \A i, j \in 1..Len(q) : q[i].worker = q[j].worker => i = j
    BY <1>1 DEF Loose
  <1>6. ws \cap m.running = {} /\ ws \subseteq Queued(m)
    BY <1>3, <1>4 DEF Loose
  <1>7. IsFiniteSet(ws) /\ Cardinality(ws) = k
    <2>1. f \in Surjection(1..k, ws)
      BY <1>4 DEF Surjection
    <2>2. f \in Injection(1..k, ws)
      BY <2>1, <1>3, <1>5 DEF Surjection, Injection, IsInjective
    <2>3. IsFiniteSet(1..k) /\ Cardinality(1..k) = k
      BY <1>2, FS_Interval
    <2> QED
      BY <2>1, <2>2, <2>3, FS_Surjection
  <1>8. /\ s \in Manager
        /\ s.workers = m.workers \cup ws /\ s.running = m.running \cup ws
        /\ s.pending = q
        /\ m.host \subseteq s.host /\ s.host \subseteq m.host \cup ws
    BY <1>1, <1>4, StartedFacts
  <1>9. Cardinality(s.workers) = Cardinality(m.workers) + k
    <2>1. m.workers \cap ws = {}
      BY <1>6 DEF Loose
    <2>2. Cardinality(m.workers \cap ws) = 0
      BY <2>1, FS_EmptySet
    <2> HIDE DEF ws, k, s
    <2>3. Cardinality(m.workers \cup ws) =
            Cardinality(m.workers) + Cardinality(ws) - Cardinality(m.workers \cap ws)
      BY <1>1, <1>7, FS_Union
    <2> QED
      BY <1>1, <1>2, <1>7, <1>8, <2>2, <2>3
  <1> DEFINE rest == SubSeq(q, k + 1, Len(q))
             n == Pump(m)
  <1>10. n = [s EXCEPT !.pending = SubSeq(s.pending, k + 1, Len(s.pending))]
    BY DEF Pump
  <1>11. n = [s EXCEPT !.pending = rest]
    BY <1>8, <1>10
  <1>12. /\ rest \in Seq(Entry)
         /\ Len(rest) = Len(q) - k
         /\ \A i \in 1..Len(rest) : k + i \in 1..Len(q) /\ rest[i] = q[k + i]
         /\ DOMAIN rest = 1..Len(rest)
    <2>1. /\ rest \in Seq(Entry)
          /\ Len(rest) = IF k + 1 <= Len(q) THEN Len(q) - (k + 1) + 1 ELSE 0
          /\ \A i \in 1..(Len(q) - (k + 1) + 1) : rest[i] = q[(k + 1) + i - 1]
      <3>1. k + 1 \in Int /\ Len(q) \in Int /\ \A i \in (k + 1)..Len(q) : q[i] \in Entry
        BY <1>1, <1>2
      <3> QED
        BY <3>1, SubSeqProperties
    <2>2. Len(rest) = Len(q) - k
      BY <2>1, <1>1, <1>2
    <2>3. ASSUME NEW i \in 1..Len(rest)
          PROVE  k + i \in 1..Len(q) /\ rest[i] = q[k + i]
      <3>1. i \in Nat /\ i >= 1 /\ i <= Len(q) - k
        BY <2>2, <1>1, <1>2
      <3>2. (k + 1) + i - 1 = k + i /\ i \in 1..(Len(q) - (k + 1) + 1) /\ k + i \in 1..Len(q)
        BY <3>1, <1>1, <1>2
      <3> QED
        BY <2>1, <3>2
    <2>4. DOMAIN rest = 1..Len(rest)
      BY <2>1, LenProperties
    <2> QED
      BY <2>1, <2>2, <2>3, <2>4
  <1> HIDE DEF rest, s, n, ws, free, k, f, heads
  <1>13. /\ n.workers = s.workers /\ n.running = s.running /\ n.host = s.host
         /\ n.pending = rest /\ n \in Manager
    BY <1>8, <1>11, <1>12 DEF Manager
  <1>14. \A i \in DOMAIN n.pending :
            /\ n.pending[i].worker \in Queued(m)
            /\ n.pending[i].worker \notin ws
    <2> SUFFICES ASSUME NEW i \in 1..Len(rest)
                 PROVE  rest[i].worker \in Queued(m) /\ rest[i].worker \notin ws
      BY <1>12, <1>13
    <2>1. k + i \in 1..Len(q) /\ rest[i] = q[k + i] /\ k + i > k
      BY <1>12, <1>2
    <2>2. q[k + i].worker \in Queued(m)
      BY <2>1, <1>1 DEF Queued
    <2>3. \A j \in 1..k : q[j].worker # q[k + i].worker
      <3> SUFFICES ASSUME NEW j \in 1..k, q[j].worker = q[k + i].worker PROVE FALSE
        OBVIOUS
      <3>1. j = k + i
        BY <1>3, <1>5, <2>1
      <3> QED
        BY <3>1, <2>1, <1>2
    <2> QED
      BY <2>1, <2>2, <2>3, <1>4
  <1>15. Queued(n) \subseteq Queued(m) /\ Queued(n) \cap n.running = {}
    BY <1>14, <1>13, <1>8 DEF Queued, Loose
  <1>16. \A i, j \in DOMAIN n.pending : n.pending[i].worker = n.pending[j].worker => i = j
    <2> SUFFICES ASSUME NEW i \in 1..Len(rest), NEW j \in 1..Len(rest),
                        rest[i].worker = rest[j].worker
                 PROVE  i = j
      BY <1>12, <1>13
    <2>1. k + i \in 1..Len(q) /\ k + j \in 1..Len(q)
          /\ rest[i] = q[k + i] /\ rest[j] = q[k + j]
      BY <1>12
    <2>2. k + i = k + j
      BY <2>1, <1>5
    <2> QED
      BY <2>2, <1>2
  <1>17. Cardinality(n.workers) <= MaxWorkers /\ Len(n.pending) <= MaxPending
    BY <1>1, <1>2, <1>9, <1>12, <1>13, ManagerAssumption DEF Loose, free
  <1>18. n.pending # <<>> => Cardinality(n.workers) = MaxWorkers
    <2> SUFFICES ASSUME rest # <<>> PROVE Cardinality(n.workers) = MaxWorkers
      BY <1>13
    <2>1. Len(rest) \in Nat \ {0}
      BY <1>12, EmptySeq
    <2>2. k = MaxWorkers - Cardinality(m.workers)
      BY <2>1, <1>1, <1>2, <1>12 DEF free
    <2> QED
      BY <2>2, <1>1, <1>9, <1>13, ManagerAssumption
  <1>19. n.workers \cup n.host \subseteq n.running
    BY <1>8, <1>13 DEF Loose
  <1>20. Loose(n)
    BY <1>13, <1>15, <1>16, <1>17, <1>19 DEF Loose
  <1>21. Follows(m, n)
    <2>1. m.running \subseteq n.running /\ n.running = m.running \cup ws
      BY <1>8, <1>13
    <2>2. k \in 0..Len(m.pending) /\ ws = {m.pending[i].worker : i \in 1..k}
      BY <1>1, <1>2, <1>4
    <2>3. ASSUME NEW i \in (k + 1)..Len(m.pending)
          PROVE  i - k \in DOMAIN n.pending /\ n.pending[i - k] = m.pending[i]
      <3>1. i - k \in 1..Len(rest) /\ k + (i - k) = i
        BY <1>1, <1>2, <1>12
      <3> QED
        BY <3>1, <1>12, <1>13
    <2> QED
      BY <2>1, <2>2, <2>3 DEF Follows
  <1> QED
    BY <1>6, <1>8, <1>13, <1>15, <1>18, <1>20, <1>21 DEF Good, Known, n
----------------------------------------------------------------------------
(* An unchanged queue and the same threads follow; what follows a follower  *)
(* follows.                                                                 *)
LEMMA FollowsRefl ==
    ASSUME NEW m \in Manager, NEW n \in Manager,
           n.pending = m.pending, n.running = m.running
    PROVE  Follows(m, n)
  <1>1. Len(m.pending) \in Nat /\ DOMAIN m.pending = 1..Len(m.pending)
    BY ManagerType
  <1> QED
    BY <1>1 DEF Follows

LEMMA FollowsTrans ==
    ASSUME NEW m \in Manager, NEW n \in Manager, NEW p \in Manager,
           Follows(m, n), Follows(n, p)
    PROVE  Follows(m, p)
  <1>1. /\ Len(m.pending) \in Nat /\ DOMAIN m.pending = 1..Len(m.pending)
        /\ Len(n.pending) \in Nat /\ DOMAIN n.pending = 1..Len(n.pending)
        /\ Len(p.pending) \in Nat /\ DOMAIN p.pending = 1..Len(p.pending)
    BY ManagerType
  <1>2. m.running \subseteq n.running /\ n.running \subseteq p.running
    BY DEF Follows
  <1>3. PICK k \in 0..Len(m.pending) :
          /\ \A i \in 1..k : m.pending[i].worker \in n.running
          /\ \A i \in (k + 1)..Len(m.pending) :
                i - k \in DOMAIN n.pending /\ n.pending[i - k] = m.pending[i]
          /\ k < Len(m.pending) =>
                n.running = m.running \cup {m.pending[i].worker : i \in 1..k}
    BY DEF Follows
  <1>4. PICK l \in 0..Len(n.pending) :
          /\ \A i \in 1..l : n.pending[i].worker \in p.running
          /\ \A i \in (l + 1)..Len(n.pending) :
                i - l \in DOMAIN p.pending /\ p.pending[i - l] = n.pending[i]
          /\ l < Len(n.pending) =>
                p.running = n.running \cup {n.pending[i].worker : i \in 1..l}
    BY DEF Follows
  <1>5. ASSUME NEW i \in 1..Len(m.pending), i <= k + l
        PROVE  m.pending[i].worker \in p.running
    <2>1. CASE i <= k
      BY <2>1, <1>1, <1>2, <1>3
    <2>2. CASE ~(i <= k)
      <3>1. i - k \in 1..l /\ i \in (k + 1)..Len(m.pending)
        BY <2>2, <1>1, <1>5
      <3> QED
        BY <3>1, <1>3, <1>4
    <2> QED
      BY <2>1, <2>2
  <1>6. CASE k + l <= Len(m.pending)
    <2>1. k + l \in 0..Len(m.pending)
      BY <1>1, <1>6
    <2>2. \A i \in 1..(k + l) : m.pending[i].worker \in p.running
      BY <1>1, <1>5, <1>6
    <2>3. ASSUME NEW i \in (k + l + 1)..Len(m.pending)
          PROVE  i - (k + l) \in DOMAIN p.pending /\ p.pending[i - (k + l)] = m.pending[i]
      <3>1. i \in (k + 1)..Len(m.pending) /\ (i - k) - l = i - (k + l)
        BY <1>1
      <3>2. i - k \in DOMAIN n.pending /\ n.pending[i - k] = m.pending[i]
        BY <3>1, <1>3
      <3>3. i - k \in (l + 1)..Len(n.pending)
        BY <3>2, <1>1
      <3> QED
        BY <3>1, <3>2, <3>3, <1>4
    <2>4. ASSUME k + l < Len(m.pending)
          PROVE  p.running = m.running \cup {m.pending[i].worker : i \in 1..(k + l)}
      <3>1. k < Len(m.pending) /\ Len(m.pending) \in (k + 1)..Len(m.pending)
        BY <1>1, <2>4
      <3>2. Len(m.pending) - k \in DOMAIN n.pending
        BY <3>1, <1>3
      <3>3. l < Len(n.pending)
        BY <3>2, <1>1, <2>4
      <3>4. p.running = m.running \cup {m.pending[i].worker : i \in 1..k}
                                 \cup {n.pending[i].worker : i \in 1..l}
        BY <3>1, <3>3, <1>3, <1>4
      <3>5. ASSUME NEW i \in 1..l
            PROVE  n.pending[i] = m.pending[k + i] /\ k + i \in 1..(k + l)
        <4>1. k + i \in (k + 1)..Len(m.pending) /\ (k + i) - k = i /\ k + i \in 1..(k + l)
          BY <1>1, <2>4
        <4> QED
          BY <4>1, <1>3
      <3>6. ASSUME NEW i \in 1..(k + l), ~(i \in 1..k)
            PROVE  i - k \in 1..l /\ n.pending[i - k] = m.pending[i]
        <4>1. i - k \in 1..l /\ k + (i - k) = i
          BY <1>1, <3>6
        <4> QED
          BY <4>1, <3>5
      <3>7. \A i \in 1..k : i \in 1..(k + l)
        BY <1>1
      <3>8. {m.pending[i].worker : i \in 1..(k + l)} \subseteq
               {m.pending[i].worker : i \in 1..k} \cup {n.pending[i].worker : i \in 1..l}
        BY <3>6
      <3>9. {m.pending[i].worker : i \in 1..k} \subseteq {m.pending[i].worker : i \in 1..(k + l)}
        BY <3>7
      <3>10. {n.pending[i].worker : i \in 1..l} \subseteq {m.pending[i].worker : i \in 1..(k + l)}
        BY <3>5
      <3> QED
        BY <3>4, <3>8, <3>9, <3>10
    <2> QED
      BY <2>1, <2>2, <2>3, <2>4, <1>2 DEF Follows
  <1>7. CASE ~(k + l <= Len(m.pending))
    <2>1. \A i \in 1..Len(m.pending) : m.pending[i].worker \in p.running
      BY <1>1, <1>5, <1>7
    <2> DEFINE a == Len(m.pending)
    <2>2. a \in 0..a /\ ~(a < a) /\ (a + 1)..a = {}
      BY <1>1
    <2> QED
      BY <2>1, <2>2, <1>2 DEF Follows
  <1> QED
    BY <1>6, <1>7
----------------------------------------------------------------------------
(* What NoOvertaking says of a manager before and after a step.             *)
FirstComeFirst(m, n) ==
    LET started == n.running \ m.running
    IN  /\ \A i, j \in DOMAIN m.pending :
              i < j /\ m.pending[j].worker \in started => m.pending[i].worker \notin Queued(n)
        /\ ~(started \subseteq Queued(m)) => Queued(m) \cap Queued(n) = {}

(* A queue that follows has let nobody overtake.                            *)
LEMMA FollowersInOrder ==
    ASSUME NEW m, Good(m), NEW n, Good(n), Follows(m, n)
    PROVE  FirstComeFirst(m, n)
  <1> DEFINE started == n.running \ m.running
  <1>1. /\ m \in Manager /\ n \in Manager
        /\ Len(m.pending) \in Nat /\ DOMAIN m.pending = 1..Len(m.pending)
        /\ Queued(n) \cap n.running = {}
    BY ManagerType DEF Good, Loose
  <1>2. PICK k \in 0..Len(m.pending) :
          /\ \A i \in 1..k : m.pending[i].worker \in n.running
          /\ \A i \in (k + 1)..Len(m.pending) :
                i - k \in DOMAIN n.pending /\ n.pending[i - k] = m.pending[i]
          /\ k < Len(m.pending) =>
                n.running = m.running \cup {m.pending[i].worker : i \in 1..k}
    BY DEF Follows
  <1>3. \A i \in 1..k : m.pending[i].worker \notin Queued(n)
    BY <1>1, <1>2
  <1>4. \A i \in (k + 1)..Len(m.pending) : m.pending[i].worker \in Queued(n)
    BY <1>2 DEF Queued
  <1>5. ASSUME NEW i \in DOMAIN m.pending, NEW j \in DOMAIN m.pending,
               i < j, m.pending[j].worker \in started
        PROVE  m.pending[i].worker \notin Queued(n)
    <2>1. ~(j \in (k + 1)..Len(m.pending))
      BY <1>1, <1>4, <1>5
    <2>2. i \in 1..k
      BY <2>1, <1>1, <1>5
    <2> QED
      BY <2>2, <1>3
  <1>6. ASSUME ~(started \subseteq Queued(m))
        PROVE  Queued(m) \cap Queued(n) = {}
    <2>1. \A i \in 1..k : m.pending[i].worker \in Queued(m)
      BY <1>1 DEF Queued
    <2>2. k = Len(m.pending)
      BY <2>1, <1>1, <1>2, <1>6
    <2> QED
      BY <2>2, <1>1, <1>3 DEF Queued
  <1> QED
    BY <1>5, <1>6 DEF FirstComeFirst

(* What TakesTurns says of a manager before and after a step: whoever still *)
(* waits is no further back, and is further ahead if sooner is asked for.   *)
InTurn(m, n, sooner) ==
    \A i \in DOMAIN m.pending :
        m.pending[i].worker \in Queued(n)
        => \E j \in DOMAIN n.pending :
             n.pending[j] = m.pending[i] /\ j <= i /\ (sooner => j < i)

LEMMA FollowersInTurn ==
    ASSUME NEW m, Good(m), NEW n, Good(n), Follows(m, n)
    PROVE  InTurn(m, n, FALSE)
  <1>1. /\ Len(m.pending) \in Nat /\ DOMAIN m.pending = 1..Len(m.pending)
        /\ Queued(n) \cap n.running = {}
    BY ManagerType DEF Good, Loose
  <1>2. PICK k \in 0..Len(m.pending) :
          /\ \A i \in 1..k : m.pending[i].worker \in n.running
          /\ \A i \in (k + 1)..Len(m.pending) :
                i - k \in DOMAIN n.pending /\ n.pending[i - k] = m.pending[i]
    BY DEF Follows
  <1>3. ASSUME NEW i \in DOMAIN m.pending, m.pending[i].worker \in Queued(n)
        PROVE  \E j \in DOMAIN n.pending : n.pending[j] = m.pending[i] /\ j <= i
    <2>1. i \in (k + 1)..Len(m.pending) /\ i - k <= i
      BY <1>1, <1>2, <1>3
    <2> QED
      BY <2>1, <1>2
  <1> QED
    BY <1>3 DEF InTurn

(* discard_worker and the cancels keep the bookkeeping right and take note  *)
(* of no new worker.                                                        *)
LEMMA DiscardFacts ==
    ASSUME NEW m, Good(m), NEW w
    PROVE  /\ Good(Discard(m, w))
           /\ Known(Discard(m, w)) \subseteq Known(m)
           /\ m.running \subseteq Discard(m, w).running
           /\ Follows(m, Discard(m, w))
  <1> DEFINE n == [m EXCEPT !.workers = @ \ {w}]
  <1>1. /\ m \in Manager /\ IsFiniteSet(m.workers) /\ Cardinality(m.workers) \in Nat
    BY ManagerType DEF Good, Loose
  <1>2. /\ n \in Manager /\ n.workers = m.workers \ {w}
        /\ n.pending = m.pending /\ n.running = m.running /\ n.host = m.host
    BY <1>1 DEF Manager
  <1>3. Cardinality(n.workers) <= MaxWorkers
    <2>1. /\ IsFiniteSet(n.workers)
          /\ Cardinality(n.workers) \in Nat
          /\ Cardinality(n.workers) <= Cardinality(m.workers)
      BY <1>1, <1>2, FS_RemoveElement, FS_CardinalityType
    <2> QED
      BY <2>1, <1>1, ManagerAssumption DEF Good, Loose
  <1> HIDE DEF n
  <1>4. Loose(n) /\ Known(n) = Known(m)
    BY <1>2, <1>3 DEF Good, Loose, Known, Queued
  <1>5. Discard(m, w) = Pump(n)
    BY DEF Discard, n
  <1>6. Follows(m, Discard(m, w))
    <2>1. Good(Pump(n)) /\ Follows(n, Pump(n))
      BY <1>4, PumpFacts
    <2>2. Pump(n) \in Manager
      BY <2>1 DEF Good, Loose
    <2>3. Follows(m, n)
      BY <1>1, <1>2, FollowsRefl
    <2> QED
      BY <2>1, <2>2, <2>3, <1>1, <1>2, <1>5, FollowsTrans
  <1> QED
    BY <1>2, <1>4, <1>5, <1>6, PumpFacts

LEMMA CancelFacts ==
    ASSUME NEW m, Good(m), NEW slot
    PROVE  /\ Good(Cancel(m, slot))
           /\ Known(Cancel(m, slot)) \subseteq Known(m)
           /\ m.running \subseteq Cancel(m, slot).running
           /\ Follows(m, Cancel(m, slot))
  <1>1. Follows(m, m)
    BY FollowsRefl DEF Good, Loose
  <1> QED
    BY <1>1, DiscardFacts DEF Cancel

(* run_worker and run_host_worker of a worker object nobody knows yet.      *)
LEMMA RunFacts ==
    ASSUME NEW m, Good(m), NEW w \in Workers, w \notin Known(m), NEW host \in BOOLEAN
    PROVE  /\ Good(Run(m, w, host))
           /\ Known(Run(m, w, host)) \subseteq Known(m) \cup {w}
           /\ m.running \subseteq Run(m, w, host).running
           /\ Follows(m, Run(m, w, host))
  <1> DEFINE e == [worker |-> w, host |-> host]
             n == TryStart(m, e)
  <1>1. /\ m \in Manager /\ IsFiniteSet(m.workers) /\ Cardinality(m.workers) \in Nat
        /\ m.pending \in Seq(Entry) /\ Len(m.pending) \in Nat
        /\ DOMAIN m.pending = 1..Len(m.pending)
    BY ManagerType DEF Good, Loose
  <1>2. e \in Entry /\ e.worker = w
    BY DEF Entry
  <1>3. w \notin m.running /\ w \notin m.workers /\ w \notin Queued(m)
    BY DEF Known, Good, Loose
  <1>0. ASSUME NEW o, Loose(o), Follows(m, o) PROVE Follows(m, Pump(o))
    <2>1. Good(Pump(o)) /\ Follows(o, Pump(o))
      BY <1>0, PumpFacts
    <2>2. o \in Manager /\ Pump(o) \in Manager
      BY <1>0, <2>1 DEF Good, Loose
    <2> QED
      BY <1>0, <1>1, <2>1, <2>2, FollowsTrans
  <1>4. CASE ~Full(m)
    <2>1. n = Started(m, {e})
      BY <1>4 DEF TryStart
    <2>2. {x.worker : x \in {e}} = {w}
      BY <1>2
    <2> HIDE DEF e, n
    <2>3. /\ n \in Manager
          /\ n.workers = m.workers \cup {w} /\ n.running = m.running \cup {w}
          /\ n.pending = m.pending
          /\ m.host \subseteq n.host /\ n.host \subseteq m.host \cup {w}
      BY <1>1, <1>2, <2>1, <2>2, StartedFacts
    <2>4. Cardinality(n.workers) = Cardinality(m.workers) + 1
      BY <1>1, <1>3, <2>3, FS_AddElement
    <2>5. Cardinality(n.workers) <= MaxWorkers
      BY <1>1, <1>4, <2>4, ManagerAssumption DEF Full
    <2>6. Loose(n)
      BY <1>3, <2>3, <2>5 DEF Good, Loose, Queued
    <2>7. Known(n) \subseteq Known(m) \cup {w} /\ m.running \subseteq n.running
      BY <2>3 DEF Known, Queued
    <2>8. Follows(m, n)
      <3>1. Cardinality(m.workers) # MaxWorkers
        BY <1>1, <1>4, ManagerAssumption DEF Full
      <3>2. m.pending = <<>>
        BY <3>1 DEF Good
      <3>3. Len(m.pending) = 0
        BY <3>2, EmptySeq
      <3> QED
        BY <2>3, <3>3 DEF Follows
    <2> QED
      BY <2>6, <2>7, <2>8, <1>0, PumpFacts DEF Run, n, e
  <1>5. CASE Full(m) /\ Len(m.pending) < MaxPending
    <2>1. n = [m EXCEPT !.pending = Append(m.pending, e)]
      BY <1>5 DEF TryStart
    <2> DEFINE q == Append(m.pending, e)
    <2>2. /\ q \in Seq(Entry) /\ Len(q) = Len(m.pending) + 1
          /\ \A i \in 1..Len(m.pending) : q[i] = m.pending[i]
          /\ q[Len(m.pending) + 1] = e
          /\ DOMAIN q = 1..Len(q)
      BY <1>1, <1>2, AppendProperties, LenProperties
    <2>3. \A i \in 1..Len(q) : i \in 1..Len(m.pending) \/ i = Len(m.pending) + 1
      BY <1>1, <2>2
    <2> HIDE DEF e, n, q
    <2>4. /\ n \in Manager /\ n.workers = m.workers /\ n.running = m.running
          /\ n.host = m.host /\ n.pending = q
      BY <1>1, <2>1, <2>2 DEF Manager, q
    <2>5. Queued(n) \subseteq Queued(m) \cup {w}
      BY <1>1, <1>2, <2>2, <2>3, <2>4 DEF Queued
    <2>6. \A i, j \in DOMAIN n.pending : n.pending[i].worker = n.pending[j].worker => i = j
      <3> SUFFICES ASSUME NEW i \in 1..Len(q), NEW j \in 1..Len(q), q[i].worker = q[j].worker
                   PROVE  i = j
        BY <2>2, <2>4
      <3>1. \A x \in 1..Len(m.pending) : q[x].worker \in Queued(m)
        BY <1>1, <2>2 DEF Queued
      <3>2. \A x, y \in 1..Len(m.pending) : q[x].worker = q[y].worker => x = y
        BY <1>1, <2>2 DEF Good, Loose
      <3> QED
        BY <1>2, <1>3, <2>2, <2>3, <3>1, <3>2
    <2>7. Len(n.pending) <= MaxPending
      BY <1>1, <1>5, <2>2, <2>4, ManagerAssumption
    <2>8. Loose(n)
      BY <1>3, <2>4, <2>5, <2>6, <2>7 DEF Good, Loose
    <2>9. Known(n) \subseteq Known(m) \cup {w} /\ m.running \subseteq n.running
      BY <2>4, <2>5 DEF Known
    <2>10. Follows(m, n)
      BY <1>1, <2>2, <2>4 DEF Follows
    <2> QED
      BY <2>8, <2>9, <2>10, <1>0, PumpFacts DEF Run, n, e
  <1>6. CASE Full(m) /\ ~(Len(m.pending) < MaxPending)
    <2>1. n = m
      BY <1>6 DEF TryStart
    <2>2. Follows(m, m)
      BY <1>1, FollowsRefl
    <2> QED
      BY <2>1, <2>2, <1>0, PumpFacts DEF Run, Good
  <1> QED
    BY <1>4, <1>5, <1>6
----------------------------------------------------------------------------
(* show_details: whatever the cancels let start on the way, the new view    *)
(* begins with empty books, and its workers fill the slots before the       *)
(* queue.                                                                   *)
LEMMA ShowFacts ==
    ASSUME Good(mgr), NEW view \in Views, NEW ws \in [DOMAIN view -> Workers],
           ShowDetails(view, ws)
    PROVE  /\ Good(mgr') /\ mgr.running \subseteq mgr'.running
           /\ Queued(mgr) \cap Queued(mgr') = {}
  <1> DEFINE c == Cleared(mgr)
             entries == [i \in DOMAIN view |-> [worker |-> ws[i], host |-> view[i] = "host"]]
             now == Smaller(Len(view), MaxWorkers)
             queued == Smaller(Len(view), MaxWorkers + MaxPending)
             first == {entries[i] : i \in 1..now}
             new == {e.worker : e \in first}
             s == Started(c, first)
             q == SubSeq(entries, MaxWorkers + 1, queued)
  <1>1. view \in Seq(Roles) /\ Len(view) \in Nat /\ DOMAIN view = 1..Len(view)
    BY ManagerAssumption, LenProperties
  <1>2. /\ now \in Nat /\ now <= Len(view) /\ now <= MaxWorkers
        /\ queued \in Nat /\ queued <= Len(view) /\ queued <= MaxWorkers + MaxPending
        /\ (MaxWorkers < Len(view) => now = MaxWorkers)
    <2>1. MaxWorkers \in Nat /\ MaxWorkers + MaxPending \in Nat
      BY ManagerAssumption
    <2> QED
      BY <1>1, <2>1, SmallerFacts
  <1>3. /\ \A i \in 1..Len(view) : /\ entries[i] \in Entry /\ entries[i].worker = ws[i]
                                   /\ ws[i] \notin Known(mgr)
        /\ \A i, j \in 1..Len(view) : ws[i] = ws[j] => i = j
    BY <1>1 DEF ShowDetails, Fresh, Known, Entry
  <1>4. entries \in Seq(Entry) /\ Len(entries) = Len(view)
    <2>1. entries \in [1..Len(view) -> Entry]
      BY <1>1, <1>3
    <2>2. entries \in Seq(Entry)
      BY <2>1, <1>1, SeqDef
    <2>3. DOMAIN entries = 1..Len(view) /\ DOMAIN entries = 1..Len(entries) /\ Len(entries) \in Nat
      BY <1>1, <2>2, LenProperties
    <2> QED
      BY <1>1, <2>2, <2>3
  <1>5. /\ Good(Cancelled(mgr)) /\ Known(Cancelled(mgr)) \subseteq Known(mgr)
        /\ mgr.running \subseteq Cancelled(mgr).running
    <2> DEFINE m1 == Cancel(mgr, "detail")
               m2 == Cancel(m1, "config")
               m3 == Cancel(m2, "history")
               m4 == Cancel(m3, "snapshots")
    <2>1. Good(m1) /\ Known(m1) \subseteq Known(mgr) /\ mgr.running \subseteq m1.running
      BY CancelFacts
    <2> HIDE DEF m1
    <2>2. Good(m2) /\ Known(m2) \subseteq Known(m1) /\ m1.running \subseteq m2.running
      BY <2>1, CancelFacts
    <2> HIDE DEF m2
    <2>3. Good(m3) /\ Known(m3) \subseteq Known(m2) /\ m2.running \subseteq m3.running
      BY <2>2, CancelFacts
    <2> HIDE DEF m3
    <2>4. Good(m4) /\ Known(m4) \subseteq Known(m3) /\ m3.running \subseteq m4.running
      BY <2>3, CancelFacts
    <2>5. Cancelled(mgr) = m4
      BY DEF Cancelled, m1, m2, m3
    <2> HIDE DEF m4
    <2> QED
      BY <2>1, <2>2, <2>3, <2>4, <2>5
  <1>6. /\ c \in Manager /\ c.workers = {} /\ c.host = {} /\ c.pending = <<>>
        /\ c.running = Cancelled(mgr).running
    <2>1. Cancelled(mgr) \in Manager
      BY <1>5 DEF Good, Loose
    <2>2. <<>> \in Seq(Entry)
      BY EmptySeq
    <2> QED
      BY <2>1, <2>2 DEF Cleared, Manager
  <1>7. \A i \in 1..Len(view) : ws[i] \notin c.running
    BY <1>3, <1>5, <1>6 DEF Known
  <1>8. first \in SUBSET Entry /\ new = {ws[i] : i \in 1..now}
    <2>1. \A i \in 1..now : i \in 1..Len(view)
      BY <1>1, <1>2
    <2> HIDE DEF now, entries
    <2>2. \A i \in 1..now : entries[i] \in Entry /\ entries[i].worker = ws[i]
      BY <1>3, <2>1
    <2> QED
      BY <2>2
  <1>9. IsFiniteSet(new) /\ Cardinality(new) = now
    <2> DEFINE f == [i \in 1..now |-> ws[i]]
    <2>1. f \in Surjection(1..now, new)
      BY <1>8 DEF Surjection
    <2>2. \A i \in 1..now : i \in 1..Len(view)
      BY <1>1, <1>2
    <2>3. f \in Injection(1..now, new)
      BY <2>1, <2>2, <1>3 DEF Surjection, Injection, IsInjective
    <2>4. IsFiniteSet(1..now) /\ Cardinality(1..now) = now
      BY <1>2, FS_Interval
    <2> QED
      BY <2>1, <2>3, <2>4, FS_Surjection
  <1>10. /\ s \in Manager /\ s.workers = new /\ s.running = c.running \cup new
         /\ s.host \subseteq new
    <2> HIDE DEF c, first
    <2>1. /\ s \in Manager
          /\ s.workers = c.workers \cup new /\ s.running = c.running \cup new
          /\ s.host \subseteq c.host \cup new
      BY <1>6, <1>8, StartedFacts
    <2> HIDE DEF s, new
    <2> QED
      BY <1>6, <2>1
  <1>11. /\ q \in Seq(Entry) /\ DOMAIN q = 1..Len(q) /\ Len(q) \in Nat
         /\ Len(q) <= MaxPending
         /\ Len(q) # 0 => MaxWorkers < Len(view)
         /\ \A i \in 1..Len(q) : /\ MaxWorkers + i \in 1..Len(view)
                                 /\ q[i] = entries[MaxWorkers + i]
    <2>0. MaxWorkers \in Nat /\ MaxPending \in Nat
      BY ManagerAssumption
    <2>1. /\ q \in Seq(Entry)
          /\ Len(q) = IF MaxWorkers + 1 <= queued THEN queued - (MaxWorkers + 1) + 1 ELSE 0
          /\ \A i \in 1..(queued - (MaxWorkers + 1) + 1) : q[i] = entries[(MaxWorkers + 1) + i - 1]
      <3>1. /\ MaxWorkers + 1 \in Int /\ queued \in Int
            /\ \A i \in (MaxWorkers + 1)..queued : entries[i] \in Entry
        BY <1>1, <1>2, <1>3, <2>0
      <3> HIDE DEF entries, queued
      <3> QED
        BY <3>1, SubSeqProperties
    <2>2. DOMAIN q = 1..Len(q) /\ Len(q) \in Nat
      BY <2>1, LenProperties
    <2> HIDE DEF q, queued, entries
    <2>3. Len(q) <= MaxPending /\ (Len(q) # 0 => MaxWorkers < Len(view))
      BY <2>0, <2>1, <1>1, <1>2
    <2>4. ASSUME NEW i \in 1..Len(q)
          PROVE  MaxWorkers + i \in 1..Len(view) /\ q[i] = entries[MaxWorkers + i]
      <3>1. /\ i \in Nat /\ (MaxWorkers + 1) + i - 1 = MaxWorkers + i
            /\ i \in 1..(queued - (MaxWorkers + 1) + 1) /\ MaxWorkers + i \in 1..Len(view)
        BY <2>0, <2>1, <2>2, <1>1, <1>2
      <3> QED
        BY <2>1, <3>1
    <2> QED
      BY <2>1, <2>2, <2>3, <2>4
  <1>12. mgr' = [s EXCEPT !.pending = q]
    BY DEF ShowDetails
  <1> HIDE DEF q, s, new, first, entries, c, now, queued
  <1>13. /\ mgr' \in Manager /\ mgr'.workers = new /\ mgr'.running = c.running \cup new
         /\ mgr'.host \subseteq new /\ mgr'.pending = q
    BY <1>10, <1>11, <1>12 DEF Manager
  <1>14. \A i \in 1..Len(q) : q[i].worker = ws[MaxWorkers + i]
    BY <1>3, <1>11
  <1>15. \A i \in 1..Len(q) : q[i].worker \notin new
    <2> SUFFICES ASSUME NEW i \in 1..Len(q), NEW j \in 1..now, ws[MaxWorkers + i] = ws[j]
                 PROVE  FALSE
      BY <1>8, <1>14
    <2>1. MaxWorkers + i \in 1..Len(view) /\ j \in 1..Len(view)
      BY <1>1, <1>2, <1>11
    <2>2. MaxWorkers + i = j
      BY <2>1, <1>3
    <2> QED
      BY <2>2, <1>2, <1>11, ManagerAssumption
  <1>16. Queued(mgr') \cap mgr'.running = {}
    <2>1. \A i \in 1..Len(q) : q[i].worker \notin c.running
      BY <1>7, <1>11, <1>14
    <2> QED
      BY <2>1, <1>11, <1>13, <1>15 DEF Queued
  <1>17. \A i, j \in DOMAIN mgr'.pending :
            mgr'.pending[i].worker = mgr'.pending[j].worker => i = j
    <2> SUFFICES ASSUME NEW i \in 1..Len(q), NEW j \in 1..Len(q), q[i].worker = q[j].worker
                 PROVE  i = j
      BY <1>11, <1>13
    <2>1. MaxWorkers + i = MaxWorkers + j
      BY <1>3, <1>11, <1>14
    <2> QED
      BY <2>1, <1>11, ManagerAssumption
  <1>18. Cardinality(mgr'.workers) <= MaxWorkers
    BY <1>2, <1>9, <1>13
  <1>19. mgr'.pending # <<>> => Cardinality(mgr'.workers) = MaxWorkers
    <2>1. q # <<>> => Len(q) # 0
      BY <1>11, EmptySeq
    <2> QED
      BY <2>1, <1>2, <1>9, <1>11, <1>13
  <1>20. Good(mgr')
    BY <1>11, <1>13, <1>16, <1>17, <1>18, <1>19 DEF Good, Loose
  <1>21. Queued(mgr) \cap Queued(mgr') = {}
    <2>1. \A i \in 1..Len(q) : q[i].worker \notin Queued(mgr)
      BY <1>3, <1>11, <1>14 DEF Known
    <2>2. Queued(mgr') = {q[i].worker : i \in 1..Len(q)}
      BY <1>11, <1>13 DEF Queued
    <2> QED
      BY <2>1, <2>2
  <1> QED
    BY <1>5, <1>6, <1>13, <1>20, <1>21
----------------------------------------------------------------------------
(* The end of a worker: its slot and its entry in current_host_workers are  *)
(* given back, and the pump cannot take it up again, for a running worker   *)
(* is not in the queue.                                                     *)
LEMMA FinishedFacts ==
    ASSUME Good(mgr), NEW w \in Workers, Finished(w)
    PROVE  /\ Good(mgr') /\ mgr.running \ {w} \subseteq mgr'.running
           /\ w \notin mgr'.running
           /\ FirstComeFirst(mgr, mgr')
           /\ InTurn(mgr, mgr', w \in mgr.workers)
  <1> DEFINE n == [mgr EXCEPT !.workers = @ \ {w}]
             d == Discard(mgr, w)
  <1>1. /\ Good(d) /\ mgr.running \subseteq d.running /\ Known(d) \subseteq Known(mgr)
        /\ Follows(mgr, d)
    BY DiscardFacts
  <1>2. w \in mgr.running /\ w \notin Queued(mgr)
    BY DEF Finished, Good, Loose
  <1>3. /\ w \notin d.workers /\ w \notin Queued(d)
        /\ d.workers \subseteq (mgr.workers \ {w}) \cup Queued(mgr)
    <2>1. mgr \in Manager
      BY DEF Good, Loose
    <2>2. /\ n \in Manager /\ n.workers = mgr.workers \ {w} /\ n.pending = mgr.pending
          /\ n.running = mgr.running /\ n.host = mgr.host
      BY <2>1 DEF Manager
    <2>3. d = Pump(n) /\ Queued(n) = Queued(mgr)
      BY <2>2 DEF Discard, Queued
    <2>4. Cardinality(n.workers) <= MaxWorkers
      <3>1. /\ IsFiniteSet(mgr.workers) /\ Cardinality(mgr.workers) \in Nat
            /\ Cardinality(mgr.workers) <= MaxWorkers
        BY <2>1, ManagerType DEF Good, Loose
      <3>2. /\ IsFiniteSet(n.workers) /\ Cardinality(n.workers) \in Nat
            /\ Cardinality(n.workers) <= Cardinality(mgr.workers)
        BY <2>2, <3>1, FS_RemoveElement, FS_CardinalityType
      <3> QED
        BY <3>1, <3>2, ManagerAssumption
    <2> HIDE DEF n, d
    <2>5. Loose(n)
      BY <2>2, <2>3, <2>4 DEF Good, Loose
    <2>6. d.workers \subseteq n.workers \cup Queued(n)
      BY <2>3, <2>5, PumpFacts
    <2>7. Queued(d) \cap d.running = {}
      BY <1>1 DEF Good, Loose
    <2> QED
      BY <1>1, <1>2, <2>2, <2>3, <2>6, <2>7
  <1> HIDE DEF d, n
  <1>4. /\ d \in Manager
        /\ mgr' = [[d EXCEPT !.host = @ \ {w}] EXCEPT !.running = @ \ {w}]
    BY <1>1 DEF Finished, Forget, Good, Loose, d
  <1>5. /\ mgr' \in Manager /\ mgr'.workers = d.workers /\ mgr'.pending = d.pending
        /\ mgr'.running = d.running \ {w} /\ mgr'.host = d.host \ {w}
    BY <1>4 DEF Manager
  <1>6. Queued(mgr') = Queued(d)
    BY <1>5 DEF Queued
  <1>7. FirstComeFirst(mgr, d)
    BY <1>1, FollowersInOrder
  <1>8. mgr'.running \ mgr.running = d.running \ mgr.running
    BY <1>2, <1>5
  <1>9. FirstComeFirst(mgr, mgr')
    BY <1>6, <1>7, <1>8 DEF FirstComeFirst
  <1>10. InTurn(mgr, mgr', FALSE)
    BY <1>1, <1>5, <1>6, FollowersInTurn DEF InTurn
  <1>11. ASSUME w \in mgr.workers, NEW i \in DOMAIN mgr.pending,
                mgr.pending[i].worker \in Queued(d)
         PROVE  \E j \in DOMAIN d.pending : d.pending[j] = mgr.pending[i] /\ j < i
    <2>1. /\ Len(mgr.pending) \in Nat /\ DOMAIN mgr.pending = 1..Len(mgr.pending)
          /\ IsFiniteSet(mgr.workers) /\ Cardinality(mgr.workers) \in Nat
          /\ Cardinality(mgr.workers) <= MaxWorkers
      BY ManagerType DEF Good, Loose
    <2>2. PICK k \in 0..Len(mgr.pending) :
            /\ \A x \in 1..k : mgr.pending[x].worker \in d.running
            /\ \A x \in (k + 1)..Len(mgr.pending) :
                  x - k \in DOMAIN d.pending /\ d.pending[x - k] = mgr.pending[x]
            /\ k < Len(mgr.pending) =>
                  d.running = mgr.running \cup {mgr.pending[x].worker : x \in 1..k}
      BY <1>1 DEF Follows
    <2>3. Queued(d) \cap d.running = {} /\ d.workers \subseteq d.running
      BY <1>1 DEF Good, Loose
    <2>4. i \in (k + 1)..Len(mgr.pending)
      BY <1>11, <2>1, <2>2, <2>3
    <2>5. i - k \in DOMAIN d.pending /\ d.pending[i - k] = mgr.pending[i]
      BY <2>2, <2>4
    <2>6. k # 0
      <3> SUFFICES ASSUME k = 0 PROVE FALSE
        OBVIOUS
      <3>1. d.running = mgr.running \cup {mgr.pending[x].worker : x \in 1..0}
        BY <2>1, <2>2, <2>4
      <3>2. d.running = mgr.running /\ Queued(mgr) \cap mgr.running = {}
        BY <3>1 DEF Good, Loose
      <3>3. d.workers \subseteq mgr.workers \ {w}
        BY <3>2, <1>3, <2>3
      <3>4. /\ Cardinality(mgr.workers \ {w}) = Cardinality(mgr.workers) - 1
            /\ IsFiniteSet(mgr.workers \ {w})
        BY <1>11, <2>1, FS_RemoveElement
      <3>5. Cardinality(d.workers) <= Cardinality(mgr.workers) - 1
        BY <3>3, <3>4, FS_Subset
      <3>6. d.pending # <<>>
        BY <2>5
      <3>7. Cardinality(d.workers) = MaxWorkers
        BY <1>1, <3>6 DEF Good
      <3> QED
        BY <2>1, <3>5, <3>7, ManagerAssumption
    <2>7. i - k < i
      BY <2>1, <2>4, <2>6
    <2> QED
      BY <2>5, <2>7
  <1>12. InTurn(mgr, mgr', w \in mgr.workers)
    <2>1. CASE w \in mgr.workers
      <3> SUFFICES ASSUME NEW i \in DOMAIN mgr.pending, mgr.pending[i].worker \in Queued(mgr')
                   PROVE  \E j \in DOMAIN mgr'.pending :
                            mgr'.pending[j] = mgr.pending[i] /\ j <= i /\ j < i
        BY <2>1 DEF InTurn
      <3>1. PICK j \in DOMAIN d.pending : d.pending[j] = mgr.pending[i] /\ j < i
        BY <2>1, <1>6, <1>11
      <3>2. i \in Nat /\ j \in Nat
        BY <1>1, ManagerType DEF Good, Loose
      <3> QED
        BY <3>1, <3>2, <1>5
    <2>2. CASE w \notin mgr.workers
      BY <2>2, <1>10 DEF InTurn
    <2> QED
      BY <2>1, <2>2
  <1> QED
    BY <1>1, <1>3, <1>5, <1>6, <1>9, <1>12 DEF Good, Loose

(* What holds in every state: the books are right, the four slots hold a    *)
(* worker or nothing, and only what still runs has reported.                *)
Inv ==
    /\ Good(mgr)
    /\ current \in [Slots -> Workers \cup {None}]
    /\ reported \subseteq mgr.running

LEMMA InitInv == Init => Inv
  <1> SUFFICES ASSUME Init PROVE Inv
    OBVIOUS
  <1>1. <<>> \in Seq(Entry) /\ Len(<<>>) = 0
    BY EmptySeq
  <1>2. mgr \in Manager
    BY <1>1 DEF Init, Manager
  <1>3. Cardinality(mgr.workers) = 0 /\ DOMAIN mgr.pending = {}
    BY FS_EmptySet DEF Init
  <1>4. Queued(mgr) = {}
    BY <1>3 DEF Queued
  <1>5. Good(mgr)
    BY <1>1, <1>2, <1>3, <1>4, ManagerAssumption DEF Init, Good, Loose
  <1> QED
    BY <1>5 DEF Init, Inv, Slots

LEMMA StepInv == Inv /\ [Next]_vars => Inv'
  <1> SUFFICES ASSUME Inv, [Next]_vars PROVE Inv'
    OBVIOUS
  <1> USE DEF Inv
  <1>1. CASE UNCHANGED vars
    BY <1>1 DEF vars, Good, Loose, Queued
  <1>2. ASSUME NEW w \in Workers, NEW host \in BOOLEAN, RunWorker(w, host) PROVE Inv'
    <2>1. w \notin Known(mgr)
      BY <1>2 DEF RunWorker, Fresh, Known
    <2>2. mgr' = Run(mgr, w, host)
      BY <1>2 DEF RunWorker
    <2>3. Good(mgr') /\ mgr.running \subseteq mgr'.running
      BY <2>1, <2>2, RunFacts
    <2> QED
      BY <2>3, <1>2 DEF RunWorker
  <1>3. ASSUME NEW a \in Workers, ResultArrives(a) PROVE Inv'
    <2>1. Good(mgr') /\ mgr.running \subseteq mgr'.running
      BY <1>3, DiscardFacts DEF ResultArrives
    <2> QED
      BY <2>1, <1>3 DEF ResultArrives
  <1>4. ASSUME NEW a \in Workers, NEW w \in Workers, ResultThenReload(a, w) PROVE Inv'
    <2> DEFINE m == Run(mgr, w, FALSE)
    <2>1. w \notin Known(mgr)
      BY <1>4 DEF ResultThenReload, Fresh, Known
    <2>2. Good(m) /\ mgr.running \subseteq m.running
      BY <2>1, RunFacts
    <2>3. mgr' = Discard(m, a)
      BY <1>4 DEF ResultThenReload
    <2> HIDE DEF m
    <2>4. Good(mgr') /\ m.running \subseteq mgr'.running
      BY <2>2, <2>3, DiscardFacts
    <2> QED
      BY <2>2, <2>4, <1>4 DEF ResultThenReload
  <1>5. ASSUME NEW a \in Workers, NEW w \in Workers, ResultThenRefresh(a, w) PROVE Inv'
    <2> DEFINE c == Cancel(mgr, "detail")
               m == Run(c, w, FALSE)
    <2>1. w \notin Known(mgr)
      BY <1>5 DEF ResultThenRefresh, Fresh, Known
    <2>2. Good(c) /\ Known(c) \subseteq Known(mgr) /\ mgr.running \subseteq c.running
      BY CancelFacts
    <2> HIDE DEF c
    <2>3. Good(m) /\ c.running \subseteq m.running
      BY <2>1, <2>2, RunFacts
    <2>4. mgr' = Discard(m, a)
      BY <1>5 DEF ResultThenRefresh, c
    <2> HIDE DEF m
    <2>5. Good(mgr') /\ m.running \subseteq mgr'.running
      BY <2>3, <2>4, DiscardFacts
    <2> QED
      BY <2>2, <2>3, <2>5, <1>5 DEF ResultThenRefresh
  <1>6. ASSUME NEW w \in Workers, Finished(w) PROVE Inv'
    <2>1. Good(mgr') /\ mgr.running \ {w} \subseteq mgr'.running
      BY <1>6, FinishedFacts
    <2> QED
      BY <2>1, <1>6 DEF Finished
  <1>7. ASSUME NEW view \in Views, NEW ws \in [DOMAIN view -> Workers], ShowDetails(view, ws)
        PROVE  Inv'
    <2>1. Good(mgr') /\ mgr.running \subseteq mgr'.running
      BY <1>7, ShowFacts
    <2>2. ASSUME NEW s \in Slots, \E i \in DOMAIN view : view[i] = s
          PROVE  ws[CHOOSE i \in DOMAIN view : view[i] = s] \in Workers
      BY <2>2
    <2>3. current' \in [Slots -> Workers \cup {None}]
      BY <1>7, <2>2 DEF ShowDetails
    <2> QED
      BY <2>1, <2>3, <1>7 DEF ShowDetails
  <1> QED
    BY <1>1, <1>2, <1>3, <1>4, <1>5, <1>6, <1>7 DEF Next

LEMMA Invariance == Spec => []Inv
  BY InitInv, StepInv, PTL DEF Spec
----------------------------------------------------------------------------
(* The records the manager keeps always have their types, and nothing has   *)
(* reported that is not running.                                            *)
THEOREM ManagerTyped == Spec => []TypeOK
  <1>1. Inv => TypeOK
    BY DEF Inv, TypeOK, Good, Loose
  <1> QED
    BY <1>1, Invariance, PTL

(* The limits of tracked and of waiting workers hold whatever the panel     *)
(* does, for every limit (_try_start, _pump).                               *)
THEOREM ManagerBounded == Spec => []Bounded
  <1>1. Inv => Bounded
    BY DEF Inv, Bounded, Good, Loose
  <1> QED
    BY <1>1, Invariance, PTL

(* No path frees a slot and forgets to offer it to the queue, so a worker   *)
(* never waits beside a free slot (discard_worker and its callers).         *)
THEOREM QueueNeverIdles == Spec => []NoIdleSlot
  <1>1. Inv => NoIdleSlot
    BY DEF Inv, NoIdleSlot, Good
  <1> QED
    BY <1>1, Invariance, PTL

(* A worker is never started twice and never waits twice (_pump).           *)
THEOREM NoDoubleStart == Spec => []StartedOnce
  <1>1. Inv => StartedOnce
    BY DEF Inv, StartedOnce, Good, Loose
  <1> QED
    BY <1>1, Invariance, PTL

(* Every slot is held by a worker whose end is still to come, so none is    *)
(* lost for ever (the `finished' connections of _try_start).                *)
THEOREM NoLostSlot == Spec => []SlotsComeBack
  <1>1. Inv => SlotsComeBack
    BY DEF Inv, SlotsComeBack, Good, Loose
  <1> QED
    BY <1>1, Invariance, PTL

(* What the slots combine, cancels, run_worker and discard_worker, each     *)
(* leaves a queue that follows the one before.  Only show_details does not, *)
(* and it leaves none of those that waited.                                 *)
LEMMA StepFollows ==
    Inv /\ [Next]_vars =>
        \/ Follows(mgr, mgr')
        \/ Queued(mgr) \cap Queued(mgr') = {}
        \/ \E w \in Workers : Finished(w)
  <1> DEFINE Goal == \/ Follows(mgr, mgr')
                     \/ Queued(mgr) \cap Queued(mgr') = {}
                     \/ \E w \in Workers : Finished(w)
  <1> SUFFICES ASSUME Inv, [Next]_vars PROVE Goal
    OBVIOUS
  <1>0. Good(mgr) /\ Good(mgr') /\ mgr \in Manager /\ mgr' \in Manager
    BY StepInv DEF Inv, Good, Loose
  <1>1. CASE UNCHANGED vars
    <2>1. Follows(mgr, mgr')
      BY <1>0, <1>1, FollowsRefl DEF vars
    <2> QED
      BY <2>1
  <1>2. ASSUME NEW w \in Workers, NEW host \in BOOLEAN, RunWorker(w, host)
        PROVE  Goal
    <2>1. w \notin Known(mgr) /\ mgr' = Run(mgr, w, host)
      BY <1>2 DEF RunWorker, Fresh, Known
    <2>2. Follows(mgr, mgr')
      BY <2>1, <1>0, RunFacts
    <2> QED
      BY <2>2
  <1>3. ASSUME NEW a \in Workers, ResultArrives(a)
        PROVE  Goal
    <2>1. Follows(mgr, mgr')
      BY <1>0, <1>3, DiscardFacts DEF ResultArrives
    <2> QED
      BY <2>1
  <1>4. ASSUME NEW a \in Workers, NEW w \in Workers, ResultThenReload(a, w)
        PROVE  Goal
    <2> DEFINE m == Run(mgr, w, FALSE)
    <2>1. w \notin Known(mgr) /\ mgr' = Discard(m, a)
      BY <1>4 DEF ResultThenReload, Fresh, Known
    <2>2. Good(m) /\ Follows(mgr, m)
      BY <2>1, <1>0, RunFacts
    <2> HIDE DEF m
    <2>3. m \in Manager /\ Follows(m, mgr')
      BY <2>1, <2>2, DiscardFacts DEF Good, Loose
    <2>4. Follows(mgr, mgr')
      BY <2>2, <2>3, <1>0, FollowsTrans
    <2> QED
      BY <2>4
  <1>5. ASSUME NEW a \in Workers, NEW w \in Workers, ResultThenRefresh(a, w)
        PROVE  Goal
    <2> DEFINE c == Cancel(mgr, "detail")
               m == Run(c, w, FALSE)
    <2>1. w \notin Known(mgr) /\ mgr' = Discard(m, a)
      BY <1>5 DEF ResultThenRefresh, Fresh, Known
    <2>2. Good(c) /\ Known(c) \subseteq Known(mgr) /\ Follows(mgr, c)
      BY <1>0, CancelFacts
    <2> HIDE DEF c
    <2>3. Good(m) /\ Follows(c, m)
      BY <2>1, <2>2, RunFacts
    <2> HIDE DEF m
    <2>4. c \in Manager /\ m \in Manager /\ Follows(m, mgr')
      BY <2>1, <2>2, <2>3, DiscardFacts DEF Good, Loose
    <2>5. Follows(mgr, m)
      BY <2>2, <2>3, <2>4, <1>0, FollowsTrans
    <2>6. Follows(mgr, mgr')
      BY <2>4, <2>5, <1>0, FollowsTrans
    <2> QED
      BY <2>6
  <1>6. ASSUME NEW w \in Workers, Finished(w) PROVE Goal
    BY <1>6
  <1>7. ASSUME NEW view \in Views, NEW ws \in [DOMAIN view -> Workers], ShowDetails(view, ws)
        PROVE  Goal
    BY <1>0, <1>7, ShowFacts
  <1> QED
    BY <1>1, <1>2, <1>3, <1>4, <1>5, <1>6, <1>7 DEF Next

(* No step lets a worker start before one that was queued earlier and still *)
(* waits.                                                                   *)
LEMMA StepOrder == Inv /\ [Next]_vars => FirstComeFirst(mgr, mgr')
  <1> SUFFICES ASSUME Inv, [Next]_vars PROVE FirstComeFirst(mgr, mgr')
    OBVIOUS
  <1>1. Good(mgr) /\ Good(mgr')
    BY StepInv DEF Inv
  <1>2. CASE Follows(mgr, mgr')
    BY <1>1, <1>2, FollowersInOrder
  <1>3. CASE Queued(mgr) \cap Queued(mgr') = {}
    <2>1. \A i \in DOMAIN mgr.pending : mgr.pending[i].worker \in Queued(mgr)
      BY DEF Queued
    <2> QED
      BY <2>1, <1>3 DEF FirstComeFirst
  <1>4. ASSUME NEW w \in Workers, Finished(w) PROVE FirstComeFirst(mgr, mgr')
    BY <1>1, <1>4, FinishedFacts
  <1> QED
    BY <1>2, <1>3, <1>4, StepFollows

(* No step moves a waiting worker back, and the end of a tracked one moves  *)
(* every waiting one up.                                                    *)
LEMMA StepInTurn ==
    Inv /\ [Next]_vars => InTurn(mgr, mgr', \E w \in mgr.workers : Finished(w))
  <1> DEFINE ends == \E w \in mgr.workers : Finished(w)
  <1> SUFFICES ASSUME Inv, [Next]_vars PROVE InTurn(mgr, mgr', ends)
    OBVIOUS
  <1>1. /\ Good(mgr) /\ Good(mgr') /\ mgr.workers \subseteq Workers
        /\ mgr.workers \subseteq mgr.running
    BY StepInv, ManagerType DEF Inv, Good, Loose
  <1>2. ASSUME NEW w \in mgr.workers, Finished(w) PROVE InTurn(mgr, mgr', ends)
    <2>1. InTurn(mgr, mgr', w \in mgr.workers)
      BY <1>1, <1>2, FinishedFacts
    <2> QED
      BY <2>1 DEF InTurn
  <1>3. ASSUME ~ends PROVE InTurn(mgr, mgr', ends)
    <2>1. CASE Follows(mgr, mgr')
      BY <1>1, <1>3, <2>1, FollowersInTurn DEF InTurn
    <2>2. CASE Queued(mgr) \cap Queued(mgr') = {}
      <3>1. \A i \in DOMAIN mgr.pending : mgr.pending[i].worker \in Queued(mgr)
        BY DEF Queued
      <3> QED
        BY <3>1, <2>2 DEF InTurn
    <2>3. ASSUME NEW w \in Workers, Finished(w) PROVE InTurn(mgr, mgr', ends)
      <3>1. InTurn(mgr, mgr', w \in mgr.workers)
        BY <1>1, <2>3, FinishedFacts
      <3> QED
        BY <3>1, <1>3 DEF InTurn
    <2> QED
      BY <2>1, <2>2, <2>3, StepFollows
  <1> QED
    BY <1>2, <1>3

(* First come, first started, for every number of workers and slots and     *)
(* every view: the queue of _pump is never jumped.                          *)
THEOREM NobodyOvertakes == Spec => NoOvertaking
  <1> DEFINE InOrder ==
        LET started == mgr'.running \ mgr.running
        IN  /\ \A i, j \in DOMAIN mgr.pending :
                 i < j /\ mgr.pending[j].worker \in started
                 => mgr.pending[i].worker \notin Queued(mgr)'
            /\ ~(started \subseteq Queued(mgr)) => Queued(mgr) \cap Queued(mgr)' = {}
  <1>1. Queued(mgr)' = Queued(mgr')
    BY DEF Queued
  <1>2. Inv /\ [Next]_vars => [InOrder]_vars
    BY <1>1, StepOrder DEF FirstComeFirst
  <1> QED
    BY <1>2, Invariance, PTL DEF Spec, NoOvertaking

(* A worker that waits has somebody to wait for: a tracked worker that has  *)
(* yet to end, however the panel cancels and restarts.                      *)
THEOREM NobodyWaitsForNothing == Spec => []SomebodyToWaitFor
  <1>1. Inv => SomebodyToWaitFor
    <2> SUFFICES ASSUME Inv, mgr.pending # <<>> PROVE mgr.workers \cap mgr.running # {}
      BY DEF SomebodyToWaitFor
    <2>1. Cardinality(mgr.workers) = MaxWorkers /\ mgr.workers \subseteq mgr.running
      BY DEF Inv, Good, Loose
    <2>2. mgr.workers # {}
      BY <2>1, FS_EmptySet, ManagerAssumption
    <2> QED
      BY <2>1, <2>2
  <1> QED
    BY <1>1, Invariance, PTL

(* The queue only ever moves up, and every end of a tracked worker moves it *)
(* (_pump and all that calls it): a waiting worker needs at most as many    *)
(* ends as there are workers before it, and itself.                         *)
THEOREM QueueMovesUp == Spec => TakesTurns
  <1> DEFINE Turns ==
        \A i \in DOMAIN mgr.pending :
            mgr.pending[i].worker \in Queued(mgr)'
            => \E j \in DOMAIN mgr'.pending :
                 /\ mgr'.pending[j] = mgr.pending[i] /\ j <= i
                 /\ (\E w \in mgr.workers : Finished(w)) => j < i
  <1>1. Queued(mgr)' = Queued(mgr')
    BY DEF Queued
  <1>2. Inv /\ [Next]_vars => [Turns]_vars
    BY <1>1, StepInTurn DEF InTurn
  <1> QED
    BY <1>2, Invariance, PTL DEF Spec, TakesTurns
=============================================================================
