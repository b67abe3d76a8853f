----------------------------- MODULE GateProofs -----------------------------
(* What every operation of the gate preserves, for all configurations.      *)
EXTENDS Gate, TotalsProofs, SequenceTheorems, FiniteSetTheorems, TLAPS

GoodGate(g) ==
    /\ g \in GateState
    /\ Len(g.queue) <= MaxQueueDepth
    /\ Distinct(g.queue)

(* The identifiers in one outcome are those that went in, split three ways. *)
Accounts(ids, o) ==
    /\ Ids(o.gate.queue) \cup Ids(o.fired) \cup o.dropped = ids
    /\ Ids(o.gate.queue) \cap Ids(o.fired) = {}
    /\ Ids(o.gate.queue) \cap o.dropped = {}
    /\ Ids(o.fired) \cap o.dropped = {}

(* Firing starts a full refractory period; not firing leaves it running. *)
Paces(g, o) ==
    /\ o.fired # <<>> => ~InRefractory(g) /\ o.gate.refr = Refractory
    /\ o.fired = <<>> => o.gate.refr = g.refr

(* A batch as large as the queue leaves nothing behind. *)
Empties(o) ==
    o.fired # <<>> /\ FireBatchSize >= MaxQueueDepth => o.gate.queue = <<>>

(* What a drain leaves behind comes after everything it took. *)
Heaviest(o) ==
    \A i \in DOMAIN o.fired, j \in DOMAIN o.gate.queue :
       Before(o.fired[i], o.gate.queue[j])

(* What a full queue q gives up for the arrival s is what the policy names. *)
Spares(q, s, dropped) ==
    \A x \in dropped, i \in DOMAIN q :
       /\ Policy = "drop_lowest_weight" =>
             /\ Weight[x] <= Weight[q[i].id]
             /\ x # s => Weight[x] < Weight[s]
       /\ Policy = "drop_oldest" =>
             \A k \in DOMAIN q : q[k].id = x => q[i].age <= q[k].age

(* Without a fire, a queued signal is the arrival or keeps its age. *)
KeepsAges(g, o) ==
    o.fired = <<>> =>
       \A i \in DOMAIN o.gate.queue :
          \/ o.gate.queue[i].age = 0
          \/ \E j \in DOMAIN g.queue : o.gate.queue[i] = g.queue[j]

(* fire()'s order puts no signal before itself.                             *)
LEMMA BeforeIrreflexive ==
    ASSUME NEW a \in Entry, NEW b \in Entry, Before(a, b)
    PROVE  a.id # b.id
  <1> SUFFICES ASSUME a.id = b.id PROVE FALSE
    OBVIOUS
  <1>1. a.id \in Signals /\ b.id \in Signals
    BY DEF Entry
  <1>2. Weight[a.id] \in Nat /\ a.id \in Nat
    BY <1>1, GateAssumption
  <1>3. Weight[a.id] = Weight[b.id]
    OBVIOUS
  <1> QED BY <1>2, <1>3 DEF Before

(* Sorting a queue rearranges its entries.                                  *)
LEMMA SortingFacts ==
    ASSUME NEW q \in Seq(Entry), NEW s \in Sortings(q)
    PROVE  /\ s \in Seq(Entry) /\ Len(s) = Len(q)
           /\ Ids(s) = Ids(q)
           /\ Distinct(s)
  <1> DEFINE entries == {q[i] : i \in DOMAIN q}
  <1>1. /\ s \in [1..Len(q) -> entries]
        /\ \A x \in entries : \E i \in 1..Len(q) : s[i] = x
        /\ \A i, j \in 1..Len(q) : i < j => Before(s[i], s[j])
    BY DEF Sortings
  <1>2. entries \subseteq Entry /\ Len(q) \in Nat /\ DOMAIN q = 1..Len(q)
    OBVIOUS
  <1>3. s \in Seq(Entry) /\ Len(s) = Len(q) /\ DOMAIN s = 1..Len(q)
    BY <1>1, <1>2
  <1>4. Ids(s) = Ids(q)
    <2>1. \A i \in DOMAIN s : \E j \in DOMAIN q : s[i] = q[j]
      BY <1>1, <1>3
    <2>2. \A j \in DOMAIN q : \E i \in DOMAIN s : s[i] = q[j]
      BY <1>1, <1>3
    <2> QED BY <2>1, <2>2 DEF Ids
  <1>5. Distinct(s)
    <2> SUFFICES ASSUME NEW i \in 1..Len(q), NEW j \in 1..Len(q), i < j
                 PROVE  s[i].id # s[j].id
      BY <1>3 DEF Distinct
    <2>1. Before(s[i], s[j])
      BY <1>1
    <2>2. s[i] \in Entry /\ s[j] \in Entry
      BY <1>1, <1>2
    <2> QED BY <2>1, <2>2, BeforeIrreflexive
  <1> QED BY <1>3, <1>4, <1>5

(* The queue of g, split by a fire into the batch and the remainder.        *)
Splits(g, dropped, o) ==
    /\ GoodGate(o.gate)
    /\ o.fired \in Seq(Entry) /\ Distinct(o.fired)
    /\ o.dropped = dropped
    /\ Ids(o.gate.queue) \cup Ids(o.fired) = Ids(g.queue)
    /\ Ids(o.gate.queue) \cap Ids(o.fired) = {}
    /\ o.gate.refr = Refractory
    /\ g.queue # <<>> => o.fired # <<>>
    /\ FireBatchSize >= MaxQueueDepth => o.gate.queue = <<>>
    /\ Heaviest(o)

(* fire() splits the queue into the batch and the remainder.                *)
LEMMA FireFacts ==
    ASSUME NEW g, GoodGate(g), NEW dropped, NEW o \in Fire(g, dropped)
    PROVE  Splits(g, dropped, o)
  <1> DEFINE q == g.queue
             k == Take(q)
             n == Len(q)
  <1>1. q \in Seq(Entry) /\ n \in Nat /\ n <= MaxQueueDepth /\ g \in GateState
    BY DEF GoodGate, GateState
  <1>2. PICK s \in Sortings(q) :
           o = [gate    |-> [g EXCEPT !.potential = 0, !.refr = Refractory,
                                      !.queue = SubSeq(s, k + 1, Len(s))],
                fired   |-> SubSeq(s, 1, k),
                dropped |-> dropped]
    BY DEF Fire
  <1>3. s \in Seq(Entry) /\ Len(s) = n /\ Ids(s) = Ids(q) /\ Distinct(s)
    BY <1>1, SortingFacts
  <1>4. /\ FireBatchSize \in Nat /\ FireBatchSize >= 1
        /\ k \in 0..n
        /\ n > 0 => k > 0
        /\ FireBatchSize >= MaxQueueDepth => k = n
    BY <1>1, GateAssumption DEF Take, ValidConfig
  <1> DEFINE front == SubSeq(s, 1, k)
             back  == SubSeq(s, k + 1, n)
  <1>5. /\ front \in Seq(Entry) /\ Len(front) = k
        /\ \A i \in 1..k : front[i] = s[i]
    BY <1>3, <1>4
  <1>6. /\ back \in Seq(Entry) /\ Len(back) = n - k
        /\ \A i \in 1..(n - k) : back[i] = s[i + k]
    BY <1>3, <1>4
  <1>7. o.gate.queue = back /\ o.fired = front /\ o.dropped = dropped
        /\ o.gate.refr = Refractory
    BY <1>1, <1>2, <1>3 DEF GateState
  <1>8. o.gate \in GateState
    <2>1. 0 \in 0..MaxPotential /\ Refractory \in 0..Refractory
      BY GateAssumption
    <2>2. back \in Seq(Entry)
      BY <1>6
    <2> QED BY <1>1, <1>2, <1>3, <2>1, <2>2 DEF GateState
  <1>9. Ids(back) \cup Ids(front) = Ids(s) /\ Ids(back) \cap Ids(front) = {}
    <2>1. DOMAIN front = 1..k /\ DOMAIN back = 1..(n-k) /\ DOMAIN s = 1..n
      BY <1>3, <1>5, <1>6
    <2>2. \A i \in 1..n : i \in 1..k \/ (i - k \in 1..(n - k) /\ i = (i - k) + k)
      BY <1>1, <1>4
    <2>3. \A i \in 1..n : (\E j \in 1..k : front[j] = s[i]) \/ (\E j \in 1..(n-k) : back[j] = s[i])
      BY <1>5, <1>6, <2>2
    <2>4. \A i \in 1..k, j \in 1..(n-k) : front[i].id # back[j].id
      <3> SUFFICES ASSUME NEW i \in 1..k, NEW j \in 1..(n-k)
                   PROVE  front[i].id # back[j].id
        OBVIOUS
      <3>1. i \in 1..n /\ j + k \in 1..n /\ i # j + k
        BY <1>1, <1>4
      <3>2. s[i].id # s[j + k].id
        BY <3>1, <2>1, <1>3 DEF Distinct
      <3> QED BY <3>2, <1>5, <1>6
    <2>5. \A j \in 1..(n-k) : j + k \in 1..n
      BY <1>1, <1>4
    <2>6. \A i \in 1..k : i \in 1..n
      BY <1>1, <1>4
    <2>7. Ids(back) \subseteq Ids(s)
      BY <1>6, <2>1, <2>5 DEF Ids
    <2>8. Ids(front) \subseteq Ids(s)
      BY <1>5, <2>1, <2>6 DEF Ids
    <2>9. Ids(s) \subseteq Ids(back) \cup Ids(front)
      BY <2>1, <2>3 DEF Ids
    <2>10. Ids(back) \cap Ids(front) = {}
      BY <2>1, <2>4 DEF Ids
    <2> QED BY <2>7, <2>8, <2>9, <2>10
  <1>10. Distinct(back)
    <2> SUFFICES ASSUME NEW i \in 1..(n-k), NEW j \in 1..(n-k), back[i].id = back[j].id
                 PROVE  i = j
      BY <1>6 DEF Distinct
    <2>1. i + k \in DOMAIN s /\ j + k \in DOMAIN s
      BY <1>1, <1>3, <1>4, SMTT(30)
    <2>2. i + k = j + k
      BY <2>1, <1>3, <1>6 DEF Distinct
    <2> QED BY <2>2, <1>1, <1>4
  <1>11. GoodGate(o.gate)
    <2>1. Len(back) <= MaxQueueDepth
      BY <1>1, <1>4, <1>6, GateAssumption
    <2> QED BY <1>7, <1>8, <1>10, <2>1 DEF GoodGate
  <1>12. q # <<>> => front # <<>>
    <2>1. q # <<>> => n > 0
      BY <1>1, EmptySeq
    <2>2. front = <<>> => k = 0
      BY <1>5
    <2> QED BY <2>1, <2>2, <1>4
  <1>13. FireBatchSize >= MaxQueueDepth => back = <<>>
    BY <1>1, <1>4, <1>6
  <1>14. Distinct(front)
    <2> SUFFICES ASSUME NEW i \in 1..k, NEW j \in 1..k, front[i].id = front[j].id
                 PROVE  i = j
      BY <1>5 DEF Distinct
    <2>1. i \in DOMAIN s /\ j \in DOMAIN s
      BY <1>1, <1>3, <1>4
    <2> QED BY <2>1, <1>3, <1>5 DEF Distinct
  <1>15. Heaviest(o)
    <2> SUFFICES ASSUME NEW i \in 1..k, NEW j \in 1..(n-k)
                 PROVE  Before(front[i], back[j])
      BY <1>5, <1>6, <1>7 DEF Heaviest
    <2>1. i \in 1..n /\ j + k \in 1..n /\ i < j + k
      BY <1>1, <1>4
    <2>2. Before(s[i], s[j + k])
      BY <2>1 DEF Sortings
    <2> QED BY <2>2, <1>5, <1>6
  <1> QED BY <1>3, <1>5, <1>7, <1>9, <1>11, <1>12, <1>13, <1>14, <1>15 DEF Splits

(* Removing one position keeps the order of the others.                     *)
LEMMA RemoveIndexFacts ==
    ASSUME NEW S, NEW q \in Seq(S), NEW i \in DOMAIN q
    PROVE  /\ RemoveIndex(q, i) \in Seq(S)
           /\ Len(RemoveIndex(q, i)) = Len(q) - 1
           /\ \A j \in 1..(Len(q) - 1) :
                 RemoveIndex(q, i)[j] = IF j < i THEN q[j] ELSE q[j + 1]
  <1> DEFINE a == SubSeq(q, 1, i - 1)
             b == SubSeq(q, i + 1, Len(q))
  <1>1. Len(q) \in Nat /\ i \in 1..Len(q)
    OBVIOUS
  <1>2. /\ a \in Seq(S) /\ Len(a) = i - 1
        /\ \A j \in 1..(i - 1) : a[j] = q[j]
    BY <1>1
  <1>3. /\ b \in Seq(S) /\ Len(b) = Len(q) - i
        /\ \A j \in 1..(Len(q) - i) : b[j] = q[i + j]
    BY <1>1
  <1> HIDE DEF a, b
  <1>4. /\ a \o b \in Seq(S) /\ Len(a \o b) = Len(q) - 1
        /\ \A j \in 1..(Len(q) - 1) :
              (a \o b)[j] = IF j <= i - 1 THEN a[j] ELSE b[j - (i - 1)]
    <2>1. Len(a) + Len(b) = Len(q) - 1
      BY <1>1, <1>2, <1>3
    <2>2. /\ a \o b \in Seq(S)
          /\ Len(a \o b) = Len(a) + Len(b)
          /\ \A j \in 1..Len(a) + Len(b) :
                (a \o b)[j] = IF j <= Len(a) THEN a[j] ELSE b[j - Len(a)]
      <3>1. a \in Seq(S) /\ b \in Seq(S)
        BY <1>2, <1>3
      <3> QED BY ONLY <3>1, ConcatProperties, Zenon
    <2> QED BY <1>2, <2>1, <2>2
  <1>5. ASSUME NEW j \in 1..(Len(q) - 1)
        PROVE  (a \o b)[j] = IF j < i THEN q[j] ELSE q[j + 1]
    <2>1. CASE j < i
      BY <2>1, <1>1, <1>2, <1>4
    <2>2. CASE ~(j < i)
      <3>1. j - (i - 1) \in 1..(Len(q) - i)
        BY <1>1, <2>2
      <3>2. (a \o b)[j] = b[j - (i - 1)]
        BY <1>1, <1>4, <2>2
      <3>3. b[j - (i - 1)] = q[i + (j - (i - 1))]
        BY <1>3, <3>1
      <3>4. i + (j - (i - 1)) = j + 1
        BY <1>1
      <3> QED BY <2>2, <3>2, <3>3, <3>4
    <2> QED BY <2>1, <2>2
  <1> QED BY <1>4, <1>5 DEF RemoveIndex, a, b

(* Appending a signal that is not queued keeps the queue duplicate-free.    *)
LEMMA AppendFacts ==
    ASSUME NEW q \in Seq(Entry), Distinct(q),
           NEW e \in Entry, e.id \notin Ids(q)
    PROVE  /\ Append(q, e) \in Seq(Entry) /\ Len(Append(q, e)) = Len(q) + 1
           /\ Distinct(Append(q, e))
           /\ Ids(Append(q, e)) = Ids(q) \cup {e.id}
           /\ \A i \in DOMAIN Append(q, e) :
                 Append(q, e)[i] = e \/ \E j \in DOMAIN q : Append(q, e)[i] = q[j]
  <1> DEFINE r == Append(q, e)
  <1>1. /\ r \in Seq(Entry) /\ Len(r) = Len(q) + 1
        /\ DOMAIN r = 1..(Len(q) + 1) /\ DOMAIN q = 1..Len(q) /\ Len(q) \in Nat
        /\ r[Len(q) + 1] = e
        /\ \A i \in 1..Len(q) : r[i] = q[i]
    OBVIOUS
  <1>2. \A i \in DOMAIN r : i = Len(q) + 1 \/ i \in DOMAIN q
    BY <1>1
  <1>3. \A i \in DOMAIN q : i \in DOMAIN r /\ r[i] = q[i]
    BY <1>1
  <1>4. Ids(r) = Ids(q) \cup {e.id}
    <2>1. Ids(r) \subseteq Ids(q) \cup {e.id}
      BY <1>1, <1>2, <1>3 DEF Ids
    <2>2. Ids(q) \subseteq Ids(r)
      BY <1>3 DEF Ids
    <2>3. e.id \in Ids(r)
      BY <1>1 DEF Ids
    <2> QED BY <2>1, <2>2, <2>3
  <1>5. Distinct(r)
    <2>1. \A i \in DOMAIN q : q[i].id # e.id
      BY DEF Ids
    <2> QED BY <1>1, <1>2, <1>3, <2>1 DEF Distinct
  <1>6. \A i \in DOMAIN r : r[i] = e \/ \E j \in DOMAIN q : r[i] = q[j]
    BY <1>1, <1>2, <1>3
  <1> QED BY <1>1, <1>4, <1>5, <1>6

(* enqueue(): the arrival and the old queue, split into what is kept and    *)
(* what is dropped; everything kept is an old entry or the new one.         *)
LEMMA EnqueueFacts ==
    ASSUME NEW q \in Seq(Entry), Distinct(q), Len(q) <= MaxQueueDepth,
           NEW s \in Signals, s \notin Ids(q),
           NEW e \in Enqueue(q, s)
    PROVE  /\ e.queue \in Seq(Entry) /\ Len(e.queue) <= MaxQueueDepth
           /\ Distinct(e.queue)
           /\ Ids(e.queue) \cup e.dropped = Ids(q) \cup {s}
           /\ Ids(e.queue) \cap e.dropped = {}
           /\ \A x, y \in e.dropped : x = y
           /\ \A i \in DOMAIN e.queue :
                 e.queue[i].age = 0 \/ \E j \in DOMAIN q : e.queue[i] = q[j]
  <1> DEFINE new == [id |-> s, age |-> 0]
  <1>0. new \in Entry /\ new.id = s /\ new.age = 0
    BY DEF Entry
  <1>1. MaxQueueDepth \in Nat /\ Len(q) \in Nat
    BY GateAssumption
  <1>2. CASE Len(q) < MaxQueueDepth
    <2>1. e.queue = Append(q, new) /\ e.dropped = {}
      BY <1>2 DEF Enqueue
    <2> HIDE DEF new
    <2> QED BY <1>0, <1>1, <1>2, <2>1, AppendFacts
  <1>3. CASE ~(Len(q) < MaxQueueDepth) /\ Evictable(q, s) = {}
    <2>1. e.queue = q /\ e.dropped = {s}
      BY <1>3 DEF Enqueue
    <2> QED BY <2>1
  <1>4. CASE ~(Len(q) < MaxQueueDepth) /\ Evictable(q, s) # {}
    <2>1. PICK i \in DOMAIN q : /\ e.queue = Append(RemoveIndex(q, i), new)
                                /\ e.dropped = {q[i].id}
      BY <1>4 DEF Enqueue, Evictable
    <2> DEFINE r == RemoveIndex(q, i)
               n == Len(q)
    <2>2. /\ r \in Seq(Entry) /\ Len(r) = n - 1
          /\ \A j \in 1..(n - 1) : r[j] = IF j < i THEN q[j] ELSE q[j + 1]
      BY RemoveIndexFacts
    <2> HIDE DEF new, r
    <2>3. DOMAIN q = 1..n /\ DOMAIN r = 1..(n - 1) /\ i \in 1..n
      BY <1>1, <2>2
    <2>4. \A j \in DOMAIN r : \E k \in DOMAIN q : k # i /\ r[j] = q[k]
                                    /\ k = IF j < i THEN j ELSE j + 1
      BY <1>1, <2>2, <2>3
    <2>5. \A k \in DOMAIN q : k # i => \E j \in DOMAIN r : r[j] = q[k]
      <3> SUFFICES ASSUME NEW k \in 1..n, k # i
                   PROVE  \E j \in 1..(n - 1) : r[j] = q[k]
        BY <2>3
      <3>1. CASE k < i
        BY <3>1, <1>1, <2>2, <2>3
      <3>2. CASE k > i
        <4>1. k - 1 \in 1..(n - 1) /\ ~(k - 1 < i) /\ (k - 1) + 1 = k
          BY <3>2, <1>1, <2>3
        <4> QED BY <4>1, <2>2
      <3> QED BY <3>1, <3>2, <1>1, <2>3
    <2>6. Ids(r) = Ids(q) \ {q[i].id}
      <3>1. Ids(r) \subseteq Ids(q) \ {q[i].id}
        BY <2>4 DEF Ids, Distinct
      <3>2. Ids(q) \ {q[i].id} \subseteq Ids(r)
        BY <2>5 DEF Ids
      <3> QED BY <3>1, <3>2
    <2>7. Distinct(r)
      <3> SUFFICES ASSUME NEW j \in DOMAIN r, NEW k \in DOMAIN r, r[j].id = r[k].id
                   PROVE  j = k
        BY DEF Distinct
      <3>1. PICK j1 \in DOMAIN q : r[j] = q[j1] /\ j1 = IF j < i THEN j ELSE j + 1
        BY <2>4
      <3>2. PICK k1 \in DOMAIN q : r[k] = q[k1] /\ k1 = IF k < i THEN k ELSE k + 1
        BY <2>4
      <3>3. j1 = k1
        BY <3>1, <3>2 DEF Distinct
      <3> QED BY <3>1, <3>2, <3>3, <2>3, <1>1
    <2>8. s \notin Ids(r) /\ q[i].id \in Ids(q)
      BY <2>6 DEF Ids
    <2>9. /\ Append(r, new) \in Seq(Entry) /\ Len(Append(r, new)) = Len(r) + 1
          /\ Distinct(Append(r, new))
          /\ Ids(Append(r, new)) = Ids(r) \cup {s}
          /\ \A j \in DOMAIN Append(r, new) : Append(r, new)[j] = new
                  \/ \E k \in DOMAIN r : Append(r, new)[j] = r[k]
      BY <1>0, <2>2, <2>7, <2>8, AppendFacts
    <2>10. e.queue = Append(r, new)
      BY <2>1 DEF r
    <2>11. Len(e.queue) <= MaxQueueDepth
      BY <1>1, <2>2, <2>9, <2>10
    <2>12. \A j \in DOMAIN e.queue :
              e.queue[j].age = 0 \/ \E k \in DOMAIN q : e.queue[j] = q[k]
      BY <1>0, <2>4, <2>9, <2>10
    <2>13. /\ Ids(e.queue) \cup e.dropped = Ids(q) \cup {s}
           /\ Ids(e.queue) \cap e.dropped = {}
      BY <2>1, <2>6, <2>8, <2>9, <2>10
    <2> QED BY <2>1, <2>9, <2>10, <2>11, <2>12, <2>13
  <1> QED BY <1>2, <1>3, <1>4

(* A queue that holds a signal has a first one of least weight.             *)
LEMMA WeakestExists ==
    ASSUME NEW q \in Seq(Entry), q # <<>>
    PROVE  \E i \in DOMAIN q : IsWeakest(q, i)
  <1>1. /\ DOMAIN q = 1..Len(q) /\ Len(q) \in Nat /\ DOMAIN q # {}
        /\ \A i \in DOMAIN q : q[i] \in Entry
    <2>1. DOMAIN q = 1..Len(q) /\ Len(q) \in Nat /\ \A i \in DOMAIN q : q[i] \in Entry
      OBVIOUS
    <2>2. Len(q) # 0
      BY EmptySeq
    <2>3. 1 \in DOMAIN q
      BY <2>1, <2>2
    <2> QED BY <2>1, <2>3
  <1>2. \A i \in DOMAIN q : Weight[q[i].id] \in Nat
    BY <1>1, GateAssumption DEF Entry
  <1> DEFINE W == {Weight[q[i].id] : i \in DOMAIN q}
  <1>3. PICK w \in W : \A v \in W : w <= v
    <2>1. W \in SUBSET Nat /\ W # {}
      BY <1>1, <1>2
    <2> HIDE DEF W
    <2> QED BY <2>1, LeastNumber
  <1> DEFINE P == {i \in DOMAIN q : Weight[q[i].id] = w}
  <1>4. PICK i \in P : \A j \in P : i <= j
    <2>1. P \in SUBSET Nat /\ P # {}
      BY <1>1, <1>3
    <2> HIDE DEF P
    <2> QED BY <2>1, LeastNumber
  <1>5. ASSUME NEW j \in DOMAIN q
        PROVE  \/ Weight[q[j].id] > Weight[q[i].id]
               \/ Weight[q[j].id] = Weight[q[i].id] /\ i <= j
    <2>1. w <= Weight[q[j].id] /\ Weight[q[i].id] = w
      BY <1>3, <1>4
    <2>2. Weight[q[j].id] = w => i <= j
      BY <1>4
    <2> QED BY <1>2, <2>1, <2>2
  <1> QED BY <1>4, <1>5 DEF IsWeakest

(* enqueue() drops what the policy says: under drop_lowest_weight a signal  *)
(* no heavier than any that was queued, and a queued one only for a heavier *)
(* arrival; under drop_oldest a queued one only if none is older.           *)
LEMMA EnqueueSpares ==
    ASSUME NEW q \in Seq(Entry), Distinct(q), Len(q) <= MaxQueueDepth,
           NEW s \in Signals, s \notin Ids(q),
           NEW e \in Enqueue(q, s)
    PROVE  Spares(q, s, e.dropped)
  <1>1. /\ \A i \in DOMAIN q : q[i] \in Entry
        /\ Weight[s] \in Nat /\ MaxQueueDepth \in Nat /\ Len(q) \in Nat
    BY GateAssumption
  <1>2. \A i \in DOMAIN q : Weight[q[i].id] \in Nat /\ q[i].age \in Nat
    BY <1>1, GateAssumption DEF Entry
  <1>3. CASE Len(q) < MaxQueueDepth
    <2>1. e.dropped = {}
      BY <1>3 DEF Enqueue
    <2> QED BY <2>1 DEF Spares
  <1>4. CASE ~(Len(q) < MaxQueueDepth) /\ Evictable(q, s) = {}
    <2>1. e.dropped = {s}
      BY <1>4 DEF Enqueue
    <2> SUFFICES ASSUME NEW i \in DOMAIN q
                 PROVE  /\ Policy = "drop_lowest_weight" => Weight[s] <= Weight[q[i].id]
                        /\ \A k \in DOMAIN q : q[k].id # s
      BY <2>1 DEF Spares
    <2>2. \A k \in DOMAIN q : q[k].id # s
      BY DEF Ids
    <2>3. ASSUME Policy = "drop_lowest_weight" PROVE Weight[s] <= Weight[q[i].id]
      <3>1. PICK m \in DOMAIN q : IsWeakest(q, m)
        <4>1. q # <<>>
          OBVIOUS
        <4> QED BY <4>1, WeakestExists
      <3>2. ~(Weight[q[m].id] < Weight[s])
        BY <1>4, <2>3, <3>1 DEF Evictable
      <3>3. Weight[q[i].id] >= Weight[q[m].id]
        BY <1>2, <3>1 DEF IsWeakest
      <3> QED BY <1>1, <1>2, <3>2, <3>3
    <2> QED BY <2>2, <2>3
  <1>5. CASE ~(Len(q) < MaxQueueDepth) /\ Evictable(q, s) # {}
    <2>1. PICK m \in Evictable(q, s) : e.dropped = {q[m].id}
      BY <1>5 DEF Enqueue
    <2>2. m \in DOMAIN q
      BY DEF Evictable
    <2> SUFFICES ASSUME NEW i \in DOMAIN q
                 PROVE  /\ Policy = "drop_lowest_weight" =>
                              /\ Weight[q[m].id] <= Weight[q[i].id]
                              /\ Weight[q[m].id] < Weight[s]
                        /\ Policy = "drop_oldest" =>
                              \A k \in DOMAIN q : q[k].id = q[m].id => q[i].age <= q[k].age
      BY <2>1 DEF Spares
    <2>3. ASSUME Policy = "drop_lowest_weight"
          PROVE  Weight[q[m].id] <= Weight[q[i].id] /\ Weight[q[m].id] < Weight[s]
      <3>1. IsWeakest(q, m) /\ Weight[q[m].id] < Weight[s]
        BY <2>3 DEF Evictable
      <3> QED BY <1>2, <2>2, <3>1 DEF IsWeakest
    <2>4. ASSUME Policy = "drop_oldest", NEW k \in DOMAIN q, q[k].id = q[m].id
          PROVE  q[i].age <= q[k].age
      <3>1. IsOldest(q, m)
        BY <2>4 DEF Evictable
      <3>2. k = m
        BY <2>2, <2>4 DEF Distinct
      <3> QED BY <1>2, <2>2, <3>1, <3>2 DEF IsOldest
    <2> QED BY <2>3, <2>4
  <1> QED BY <1>3, <1>4, <1>5

(* Charging the gate touches only potential, queue and load.                *)
LEMMA ChargedFacts ==
    ASSUME NEW g \in GateState, NEW c \in Nat,
           NEW q \in Seq(Entry), Len(q) <= MaxQueueDepth, Distinct(q)
    PROVE  /\ GoodGate(Charged(g, c, q))
           /\ Charged(g, c, q).queue = q
           /\ Charged(g, c, q).refr = g.refr
  <1> DEFINE h == Charged(g, c, q)
             p == IF g.potential + c < MaxPotential THEN g.potential + c ELSE MaxPotential
             l == IF Dynamic THEN Len(q) ELSE g.load
  <1>1. h = [g EXCEPT !.potential = p, !.queue = q, !.load = l]
    BY DEF Charged
  <1>2. p \in 0..MaxPotential
    BY GateAssumption DEF GateState
  <1>3. l \in 0..MaxQueueDepth
    BY GateAssumption DEF GateState
  <1> HIDE DEF p, l, h
  <1>4. h \in GateState /\ h.queue = q /\ h.refr = g.refr
    BY <1>1, <1>2, <1>3 DEF GateState
  <1> QED BY <1>4 DEF GoodGate, h

(* What a decision of the gate g may turn it into.                          *)
Sound(g, o) ==
    /\ GoodGate(o.gate)
    /\ o.fired \in Seq(Entry) /\ Distinct(o.fired)
    /\ Ids(o.gate.queue) \cup Ids(o.fired) = Ids(g.queue)
    /\ Ids(o.gate.queue) \cap Ids(o.fired) = {}
    /\ Paces(g, o)
    /\ o.fired = <<>> => o.gate.queue = g.queue
    /\ Empties(o) /\ Heaviest(o)

(* Holding the gate keeps everything.                                       *)
LEMMA HoldSound ==
    ASSUME NEW g, GoodGate(g), NEW dropped, NEW o \in Hold(g, dropped)
    PROVE  Sound(g, o) /\ o.dropped = dropped /\ o.gate = g /\ o.fired = <<>>
  <1>1. o.gate = g /\ o.fired = <<>> /\ o.dropped = dropped
    BY DEF Hold
  <1>2. Ids(<<>>) = {} /\ <<>> \in Seq(Entry) /\ Distinct(<<>>)
    BY DEF Ids, Distinct
  <1> QED BY <1>1, <1>2 DEF Sound, Paces, Empties, Heaviest

(* Firing a gate that holds a signal and is not refractory is sound.        *)
LEMMA FireSound ==
    ASSUME NEW g, GoodGate(g), g.queue # <<>>, ~InRefractory(g),
           NEW dropped, NEW o \in Fire(g, dropped)
    PROVE  Sound(g, o) /\ o.dropped = dropped /\ o.fired # <<>>
  <1>1. Splits(g, dropped, o)
    BY FireFacts
  <1> QED BY <1>1 DEF Splits, Sound, Paces, Empties

(* The decision at the end of admit().                                      *)
LEMMA DecideSound ==
    ASSUME NEW g, GoodGate(g), NEW dropped, NEW o \in Decide(g, dropped)
    PROVE  Sound(g, o) /\ o.dropped = dropped
  <1>1. CASE o \in Hold(g, dropped)
    BY <1>1, HoldSound
  <1>2. CASE ~(o \in Hold(g, dropped))
    <2>1. ~InRefractory(g)
      BY <1>2 DEF Decide
    <2>2. PICK f \in Evaluate(g) : o \in IF f \/ IsStarving(g) THEN Fire(g, dropped)
                                                              ELSE Hold(g, dropped)
      BY <2>1 DEF Decide
    <2>3. o \in Fire(g, dropped) /\ (f \/ IsStarving(g))
      BY <1>2, <2>2
    <2>4. g.queue # <<>>
      <3>1. CASE IsStarving(g)
        BY <3>1 DEF IsStarving
      <3>2. CASE f
        <4>1. g.queue = <<>> => Evaluate(g) = {FALSE}
          BY DEF Evaluate
        <4> QED BY <4>1, <3>2, <2>2
      <3> QED BY <2>3, <3>1, <3>2
    <2> QED BY <2>1, <2>3, <2>4, FireSound
  <1> QED BY <1>1, <1>2

(* admit() loses no signal, duplicates none, respects the refractory period *)
(* and keeps the age of every signal it leaves queued; it fires in order    *)
(* and sheds by the policy.                                                 *)
LEMMA AdmitFacts ==
    ASSUME NEW g, GoodGate(g), NEW s \in Signals, s \notin Ids(g.queue),
           NEW w \in Nat, NEW o \in Admit(g, s, w)
    PROVE  /\ GoodGate(o.gate)
           /\ o.fired \in Seq(Entry) /\ Distinct(o.fired)
           /\ \A x, y \in o.dropped : x = y
           /\ Accounts(Ids(g.queue) \cup {s}, o)
           /\ Paces(g, o)
           /\ KeepsAges(g, o)
           /\ Empties(o) /\ Heaviest(o)
           /\ Spares(g.queue, s, o.dropped)
  <1>1. PICK e \in Enqueue(g.queue, s) :
            o \in Decide(Charged(g, Weight[s] * w, e.queue), e.dropped)
    BY DEF Admit
  <1>2. g \in GateState /\ g.queue \in Seq(Entry) /\ Len(g.queue) <= MaxQueueDepth
          /\ Distinct(g.queue)
    BY DEF GoodGate, GateState
  <1>3. /\ e.queue \in Seq(Entry) /\ Len(e.queue) <= MaxQueueDepth
        /\ Distinct(e.queue)
        /\ Ids(e.queue) \cup e.dropped = Ids(g.queue) \cup {s}
        /\ Ids(e.queue) \cap e.dropped = {}
        /\ \A x, y \in e.dropped : x = y
        /\ \A i \in DOMAIN e.queue :
              e.queue[i].age = 0 \/ \E j \in DOMAIN g.queue : e.queue[i] = g.queue[j]
    BY <1>2, EnqueueFacts
  <1> DEFINE h == Charged(g, Weight[s] * w, e.queue)
  <1>4. GoodGate(h) /\ h.queue = e.queue /\ h.refr = g.refr
    <2>1. Weight[s] * w \in Nat
      BY GateAssumption
    <2> QED BY <1>2, <1>3, <2>1, ChargedFacts
  <1> HIDE DEF h
  <1>5. Sound(h, o) /\ o.dropped = e.dropped
    BY <1>1, <1>4, DecideSound DEF h
  <1>6. Accounts(Ids(g.queue) \cup {s}, o)
    BY <1>3, <1>4, <1>5 DEF Sound, Accounts
  <1>7. Paces(g, o)
    BY <1>4, <1>5 DEF Sound, Paces, InRefractory
  <1>8. Spares(g.queue, s, o.dropped)
    BY <1>2, <1>5, EnqueueSpares
  <1> QED BY <1>3, <1>4, <1>5, <1>6, <1>7, <1>8 DEF Sound, KeepsAges

(* drain_if_starving() likewise; a poll that releases nothing found the     *)
(* gate refractory or nobody starving.                                      *)
LEMMA DrainIfStarvingFacts ==
    ASSUME NEW g, GoodGate(g), NEW o \in DrainIfStarving(g)
    PROVE  /\ Sound(g, o) /\ o.dropped = {}
           /\ o.fired = <<>> => InRefractory(g) \/ ~IsStarving(g)
  <1>1. CASE InRefractory(g) \/ ~IsStarving(g)
    <2>1. o \in Hold(g, {})
      BY <1>1 DEF DrainIfStarving
    <2> QED BY <2>1, <1>1, HoldSound
  <1>2. CASE ~(InRefractory(g) \/ ~IsStarving(g))
    <2>1. o \in Fire(g, {})
      BY <1>2 DEF DrainIfStarving
    <2>2. g.queue # <<>>
      BY <1>2 DEF IsStarving
    <2> QED BY <2>1, <2>2, <1>2, FireSound
  <1> QED BY <1>1, <1>2

(* drain_batch() drains whatever the refractory period says.                *)
LEMMA DrainBatchFacts ==
    ASSUME NEW g, GoodGate(g), g.queue # <<>>, NEW o \in DrainBatch(g)
    PROVE  Splits(g, {}, o)
  BY FireFacts DEF DrainBatch

(* Time passes: nothing but ages and countdowns changes.                    *)
LEMMA AgedFacts ==
    ASSUME NEW g, GoodGate(g)
    PROVE  /\ GoodGate(Aged(g))
           /\ Ids(Aged(g).queue) = Ids(g.queue)
           /\ Aged(g).refr = Less(g.refr)
           /\ DOMAIN Aged(g).queue = DOMAIN g.queue
           /\ \A i \in DOMAIN g.queue :
                 Aged(g).queue[i].age = AgeNext(g.queue, g.queue[i].age)
  <1> DEFINE q == g.queue
             r == [i \in 1..Len(q) |-> [id |-> q[i].id, age |-> AgeNext(q, q[i].age)]]
  <1>1. g \in GateState /\ q \in Seq(Entry) /\ Len(q) \in Nat /\ DOMAIN q = 1..Len(q)
    BY DEF GoodGate, GateState
  <1>2. ASSUME NEW a \in Nat PROVE AgeNext(q, a) \in Nat
    <2>1. IsFiniteSet(AgeCap..a)
      BY GateAssumption, FS_Interval
    <2>2. IsFiniteSet(OlderAges(q, a))
      BY <2>1, FS_Subset DEF OlderAges
    <2>3. Cardinality(OlderAges(q, a)) \in Nat
      BY <2>2, FS_CardinalityType
    <2> QED BY <2>3, GateAssumption DEF AgeNext
  <1>3. \A i \in 1..Len(q) : q[i] \in Entry
    BY <1>1
  <1>4. \A i \in 1..Len(q) : [id |-> q[i].id, age |-> AgeNext(q, q[i].age)] \in Entry
    BY <1>2, <1>3 DEF Entry
  <1>5. r \in Seq(Entry) /\ Len(r) = Len(q) /\ DOMAIN r = 1..Len(q)
    BY <1>1, <1>4, IsASeq
  <1>6. \A i \in 1..Len(q) : r[i].id = q[i].id /\ r[i].age = AgeNext(q, q[i].age)
    OBVIOUS
  <1>7. Aged(g) = [g EXCEPT !.refr = Less(g.refr), !.queue = r]
    BY DEF Aged
  <1> HIDE DEF r
  <1>8. Less(g.refr) \in 0..Refractory
    BY <1>1, GateAssumption DEF Less, GateState
  <1>9. Aged(g) \in GateState /\ Aged(g).queue = r /\ Aged(g).refr = Less(g.refr)
    BY <1>1, <1>5, <1>7, <1>8 DEF GateState
  <1>10. Ids(r) = Ids(q)
    BY <1>1, <1>5, <1>6 DEF Ids
  <1>11. Distinct(r)
    BY <1>1, <1>5, <1>6 DEF Distinct, GoodGate
  <1>12. GoodGate(Aged(g))
    BY <1>5, <1>9, <1>11 DEF GoodGate
  <1> QED BY <1>1, <1>5, <1>6, <1>9, <1>10, <1>12

=============================================================================
