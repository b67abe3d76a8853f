------------------------- MODULE NodeRuntimeProofs --------------------------
(***************************************************************************)
(* What the node keeps of every signal, for any number of peers and        *)
(* signals, any configuration of the gate and any interleaving: the        *)
(* refinement of the HandOver contract, the truth of its refusals and,     *)
(* where handlers do not interleave, the agreement of the body cache with  *)
(* the gate's queue.                                                       *)
(***************************************************************************)
EXTENDS NodeRuntime, GateProofs

Members(q) == {q[i] : i \in DOMAIN q}

Injective(q) == \A i, j \in DOMAIN q : q[i] = q[j] => i = j

(* The signals a task still has to answer or hand over. *)
Owes(w) == w.evicted \cup w.refused \cup Members(w.batch)

(* A task owes each signal one thing only, and refuses or evicts one signal *)
(* at most.                                                                 *)
GoodWork(w) ==
    /\ \A x, y \in w.evicted : x = y
    /\ \A x, y \in w.refused : x = y
    /\ \A x, y \in w.keep : x = y
    /\ Injective(w.batch)
    /\ w.evicted \cap w.refused = {}
    /\ w.evicted \cap Members(w.batch) = {}
    /\ w.refused \cap Members(w.batch) = {}
    /\ w.own \subseteq Members(w.batch)

(* No signal is held twice, by two tasks or by a task and the queue. *)
Apart(g, tk) ==
    /\ \A t \in Tasks : Owes(tk[t]) \cap Ids(g.queue) = {}
    /\ \A t, u \in Tasks : t # u => Owes(tk[t]) \cap Owes(tk[u]) = {}

Good(g, tk) ==
    /\ GoodGate(g)
    /\ \A t \in Tasks : GoodWork(tk[t])
    /\ Apart(g, tk)

(* Everything the node holds. *)
HeldIn(g, tk) == Ids(g.queue) \cup UNION {Owes(tk[t]) : t \in Tasks}

(* What holds of the node's custody, whatever the store. *)
Custody ==
    /\ TypeOK
    /\ Good(gate, task)
    /\ HeldIn(gate, task) \subseteq seen
    /\ task[Maintenance].keep = {}

(* A signal not yet claimed, or still held, has been told and given nothing *)
(* and no signal is handed over twice.                                      *)
Untouched(s) == handled[s] = 0 /\ answers[s] = <<>> /\ s \notin forwarded

Faithful ==
    /\ \A s \in Signals : s \notin seen \/ s \in HeldIn(gate, task) => Untouched(s)
    /\ \A s \in Signals : handled[s] \in {0, 1}
    /\ RejectedNotForwarded

(* With one handler at a time, every body but that of an arrival in hand is *)
(* cached from the moment the handler that queued it ends until it is       *)
(* released or displaced.                                                   *)
MirrorAt(t) ==
    /\ \A u \in Tasks \ {t} : Idle(u)
    /\ task[t].keep \subseteq Ids(gate.queue)
    /\ Cached = (Ids(gate.queue) \cup task[t].evicted
                   \cup (Members(task[t].batch) \ task[t].own)) \ task[t].keep

Mirror ==
    /\ \E t \in Tasks : MirrorAt(t)
    /\ \A b, c \in pending : b.id = c.id => b = c
-----------------------------------------------------------------------------
(* The constants, as facts the provers can use. *)
LEMMA RuntimeFacts ==
    /\ Maintenance \in Tasks /\ Maintenance \notin Peers
    /\ Peers \subseteq Tasks
    /\ SynapseWeights \subseteq Nat
    /\ MaxCopies \in Nat /\ MaxCrashes \in Nat
    /\ MaxQueueDepth \in Nat /\ MaxQueueDepth >= 1
    /\ Signals \subseteq Nat
  BY RuntimeAssumption, GateAssumption DEF Tasks, ValidConfig

(* A work record, field by field. *)
LEMMA WorkFacts ==
    ASSUME NEW w \in Work
    PROVE  /\ w.evicted \subseteq Signals /\ w.refused \subseteq Signals
           /\ w.batch \in Seq(Signals)
           /\ w.own \subseteq Signals /\ w.plan \subseteq Peers
           /\ w.keep \subseteq Signals
           /\ Members(w.batch) \subseteq Signals
           /\ Owes(w) \subseteq Signals
  <1>1. /\ w.evicted \subseteq Signals /\ w.refused \subseteq Signals
        /\ w.batch \in Seq(Signals)
        /\ w.own \subseteq Signals /\ w.plan \subseteq Peers
        /\ w.keep \subseteq Signals
    BY DEF Work
  <1>2. Members(w.batch) \subseteq Signals
    BY <1>1 DEF Members
  <1> QED BY <1>1, <1>2 DEF Owes

(* An idle task owes nothing. *)
LEMMA NoWorkFacts ==
    /\ NoWork \in Work /\ GoodWork(NoWork) /\ Owes(NoWork) = {}
    /\ NoWork.evicted = {} /\ NoWork.refused = {} /\ NoWork.batch = <<>>
    /\ NoWork.own = {} /\ NoWork.keep = {} /\ Members(NoWork.batch) = {}
  <1>1. /\ NoWork.evicted = {} /\ NoWork.refused = {} /\ NoWork.batch = <<>>
        /\ NoWork.own = {} /\ NoWork.keep = {}
    BY DEF NoWork
  <1>2. NoWork \in Work
    BY DEF NoWork, Work
  <1>3. Members(<<>>) = {} /\ Injective(<<>>)
    BY DEF Members, Injective
  <1> QED BY <1>1, <1>2, <1>3 DEF GoodWork, Owes

(* Held, the runs' definition, is membership of HeldIn. *)
LEMMA HeldFacts ==
    ASSUME NEW s
    PROVE  Held(s) <=> s \in HeldIn(gate, task)
  BY DEF Held, HeldIn, Owes, Members

(* The identifiers of a drained batch. *)
LEMMA IdsOfFacts ==
    ASSUME NEW f \in Seq(Entry), Distinct(f)
    PROVE  /\ IdsOf(f) \in Seq(Signals)
           /\ Members(IdsOf(f)) = Ids(f)
           /\ Injective(IdsOf(f))
           /\ IdsOf(f) = <<>> <=> f = <<>>
  <1>1. Len(f) \in Nat /\ DOMAIN f = 1..Len(f) /\ DOMAIN IdsOf(f) = 1..Len(f)
    BY DEF IdsOf
  <1>2. \A i \in 1..Len(f) : IdsOf(f)[i] = f[i].id /\ f[i].id \in Signals
    <2>1. \A i \in 1..Len(f) : f[i] \in Entry
      BY <1>1
    <2> QED BY <2>1 DEF IdsOf, Entry
  <1>3. IdsOf(f) \in Seq(Signals)
    BY <1>1, <1>2 DEF IdsOf
  <1>4. Members(IdsOf(f)) = Ids(f)
    BY <1>1, <1>2 DEF Members, Ids
  <1>5. Injective(IdsOf(f))
    BY <1>1, <1>2 DEF Injective, Distinct
  <1>6. IdsOf(f) = <<>> <=> f = <<>>
    BY <1>1, <1>3
  <1> QED BY <1>3, <1>4, <1>5, <1>6

(* without() takes out the refused signal and nothing else. *)
LEMMA WithoutFacts ==
    ASSUME NEW b \in Seq(Signals), Injective(b), NEW s
    PROVE  /\ Without(b, s) \in Seq(Signals)
           /\ Injective(Without(b, s))
           /\ Members(Without(b, s)) = Members(b) \ {s}
  <1> DEFINE at == {i \in DOMAIN b : b[i] = s}
  <1>1. CASE at = {}
    <2>1. Without(b, s) = b
      BY <1>1 DEF Without
    <2> QED BY <2>1, <1>1 DEF Members
  <1>2. CASE at # {}
    <2>1. PICK i \in DOMAIN b : b[i] = s /\ Without(b, s) = RemoveIndex(b, i)
      BY <1>2 DEF Without
    <2> DEFINE r == RemoveIndex(b, i)
               n == Len(b)
    <2>2. /\ r \in Seq(Signals) /\ Len(r) = n - 1
          /\ \A j \in 1..(n - 1) : r[j] = IF j < i THEN b[j] ELSE b[j + 1]
      BY RemoveIndexFacts
    <2>3. n \in Nat /\ DOMAIN b = 1..n /\ i \in 1..n /\ DOMAIN r = 1..(n - 1)
      BY <2>2
    <2> HIDE DEF r
    <2>4. \A j \in 1..(n - 1) : \E k \in 1..n : k # i /\ r[j] = b[k]
                                    /\ k = IF j < i THEN j ELSE j + 1
      BY <2>2, <2>3
    <2>5. \A k \in 1..n : k # i => \E j \in 1..(n - 1) : r[j] = b[k]
      <3> SUFFICES ASSUME NEW k \in 1..n, k # i
                   PROVE  \E j \in 1..(n - 1) : r[j] = b[k]
        OBVIOUS
      <3>1. CASE k < i
        BY <3>1, <2>2, <2>3
      <3>2. CASE k > i
        <4>1. k - 1 \in 1..(n - 1) /\ ~(k - 1 < i) /\ (k - 1) + 1 = k
          BY <3>2, <2>3
        <4> QED BY <4>1, <2>2
      <3> QED BY <3>1, <3>2, <2>3
    <2>6. Members(r) = Members(b) \ {s}
      <3>1. Members(r) \subseteq Members(b) \ {s}
        BY <2>1, <2>3, <2>4 DEF Members, Injective
      <3>2. Members(b) \ {s} \subseteq Members(r)
        BY <2>1, <2>3, <2>5 DEF Members
      <3> QED BY <3>1, <3>2
    <2>7. Injective(r)
      <3> SUFFICES ASSUME NEW j \in 1..(n - 1), NEW k \in 1..(n - 1), r[j] = r[k]
                   PROVE  j = k
        BY <2>3 DEF Injective
      <3>1. PICK j1 \in 1..n : r[j] = b[j1] /\ j1 = IF j < i THEN j ELSE j + 1
        BY <2>4
      <3>2. PICK k1 \in 1..n : r[k] = b[k1] /\ k1 = IF k < i THEN k ELSE k + 1
        BY <2>4
      <3>3. j1 = k1
        BY <3>1, <3>2, <2>3 DEF Injective
      <3> QED BY <3>1, <3>2, <3>3, <2>3
    <2>8. Without(b, s) = r
      BY <2>1 DEF r
    <2> QED BY <2>2, <2>6, <2>7, <2>8
  <1> QED BY <1>1, <1>2

(* Taking the head off a batch. *)
LEMMA TailFacts ==
    ASSUME NEW b \in Seq(Signals), Injective(b), b # <<>>
    PROVE  /\ Tail(b) \in Seq(Signals) /\ Injective(Tail(b))
           /\ Head(b) \in Signals /\ Head(b) \in Members(b)
           /\ Members(Tail(b)) = Members(b) \ {Head(b)}
  <1> DEFINE n == Len(b)
             r == Tail(b)
  <1>1. /\ n \in Nat /\ n >= 1 /\ DOMAIN b = 1..n
        /\ Head(b) = b[1] /\ r \in Seq(Signals) /\ DOMAIN r = 1..(n - 1)
        /\ \A j \in 1..(n - 1) : r[j] = b[j + 1]
    OBVIOUS
  <1> HIDE DEF r
  <1>2. Head(b) \in Members(b) /\ Head(b) \in Signals
    BY <1>1 DEF Members
  <1>3. \A k \in 1..n : k = 1 \/ (k - 1 \in 1..(n - 1) /\ (k - 1) + 1 = k)
    BY <1>1
  <1>4. Injective(r)
    <2> SUFFICES ASSUME NEW j \in 1..(n - 1), NEW k \in 1..(n - 1), r[j] = r[k]
                 PROVE  j = k
      BY <1>1 DEF Injective
    <2>1. b[j + 1] = b[k + 1] /\ j + 1 \in 1..n /\ k + 1 \in 1..n
      BY <1>1
    <2>2. j + 1 = k + 1
      BY <2>1, <1>1 DEF Injective
    <2> QED BY <2>2, <1>1
  <1>5. Members(r) = Members(b) \ {Head(b)}
    <2>1. Members(r) \subseteq Members(b) \ {Head(b)}
      <3> SUFFICES ASSUME NEW j \in 1..(n - 1)
                   PROVE  r[j] \in Members(b) \ {Head(b)}
        BY <1>1 DEF Members
      <3>1. j + 1 \in 1..n /\ j + 1 # 1 /\ 1 \in 1..n /\ r[j] = b[j + 1]
        BY <1>1
      <3>2. b[j + 1] # b[1]
        BY <3>1, <1>1 DEF Injective
      <3> QED BY <3>1, <3>2, <1>1 DEF Members
    <2>2. Members(b) \ {Head(b)} \subseteq Members(r)
      <3> SUFFICES ASSUME NEW k \in 1..n, b[k] # b[1]
                   PROVE  b[k] \in Members(r)
        BY <1>1 DEF Members
      <3>1. PICK j \in 1..(n - 1) : j + 1 = k
        BY <1>3
      <3>2. r[j] = b[k]
        BY <3>1, <1>1
      <3> QED BY <3>2, <1>1 DEF Members
    <2> QED BY <2>1, <2>2
  <1> QED BY <1>1, <1>2, <1>4, <1>5 DEF r

(* One task's work and the gate change; what they hold afterwards they held *)
(* before, or nobody did.                                                   *)
Replaces(g, tk, t, h, w, tl, X) ==
    /\ tk \in [Tasks -> Work] /\ Good(g, tk) /\ t \in Tasks
    /\ \A u \in Tasks : tl[u] = IF u = t THEN w ELSE tk[u]
    /\ GoodGate(h) /\ GoodWork(w)
    /\ X \cap HeldIn(g, tk) = {}
    /\ Ids(h.queue) \cup Owes(w) \subseteq Ids(g.queue) \cup Owes(tk[t]) \cup X
    /\ Ids(h.queue) \cap Owes(w) = {}

(* Such a change leaves every signal in one place. *)
LEMMA Replace ==
    ASSUME NEW g, NEW tk, NEW t, NEW h, NEW w, NEW tl, NEW X,
           Replaces(g, tk, t, h, w, tl, X)
    PROVE  /\ Good(h, tl)
           /\ HeldIn(h, tl) =
                 (HeldIn(g, tk) \ (Ids(g.queue) \cup Owes(tk[t])))
                     \cup Ids(h.queue) \cup Owes(w)
  <1> USE DEF Replaces
  <1>1. \A u \in Tasks : tl[u] = IF u = t THEN w ELSE tk[u]
    OBVIOUS
  <1>2. \A u \in Tasks : Owes(tk[u]) \subseteq HeldIn(g, tk)
    BY DEF HeldIn
  <1>3. \A u \in Tasks : u # t => /\ Owes(tk[u]) \cap Ids(g.queue) = {}
                                  /\ Owes(tk[u]) \cap Owes(tk[t]) = {}
                                  /\ Owes(tk[u]) \cap X = {}
    BY <1>2 DEF Good, Apart
  <1>4. \A u \in Tasks : u # t => /\ Owes(tk[u]) \cap Ids(h.queue) = {}
                                  /\ Owes(tk[u]) \cap Owes(w) = {}
    BY <1>3
  <1>5. Apart(h, tl)
    <2>1. \A u \in Tasks : Owes(tl[u]) \cap Ids(h.queue) = {}
      BY <1>1, <1>4
    <2>2. ASSUME NEW u \in Tasks, NEW v \in Tasks, u # v
          PROVE  Owes(tl[u]) \cap Owes(tl[v]) = {}
      <3>1. CASE u = t
        BY <3>1, <2>2, <1>1, <1>4
      <3>2. CASE v = t
        BY <3>2, <2>2, <1>1, <1>4
      <3>3. CASE u # t /\ v # t
        BY <3>3, <2>2, <1>1 DEF Good, Apart
      <3> QED BY <3>1, <3>2, <3>3
    <2> QED BY <2>1, <2>2 DEF Apart
  <1>6. \A u \in Tasks : GoodWork(tl[u])
    BY <1>1 DEF Good
  <1>7. HeldIn(h, tl) = (HeldIn(g, tk) \ (Ids(g.queue) \cup Owes(tk[t])))
                            \cup Ids(h.queue) \cup Owes(w)
    <2>1. HeldIn(h, tl) \subseteq (HeldIn(g, tk) \ (Ids(g.queue) \cup Owes(tk[t])))
                            \cup Ids(h.queue) \cup Owes(w)
      <3> SUFFICES ASSUME NEW u \in Tasks, NEW x \in Owes(tl[u]), u # t
                   PROVE  x \in HeldIn(g, tk) \ (Ids(g.queue) \cup Owes(tk[t]))
        BY <1>1 DEF HeldIn
      <3> QED BY <1>1, <1>2, <1>3
    <2>2. (HeldIn(g, tk) \ (Ids(g.queue) \cup Owes(tk[t]))) \subseteq HeldIn(h, tl)
      <3> SUFFICES ASSUME NEW u \in Tasks, NEW x \in Owes(tk[u]), u # t
                   PROVE  x \in HeldIn(h, tl)
        BY DEF HeldIn
      <3> QED BY <1>1 DEF HeldIn
    <2>3. Ids(h.queue) \cup Owes(w) \subseteq HeldIn(h, tl)
      BY <1>1 DEF HeldIn
    <2> QED BY <2>1, <2>2, <2>3
  <1> QED BY <1>5, <1>6, <1>7 DEF Good

(* What AdmitFacts says of the outcome o of admitting s to a queue of ids. *)
Admits(ids, s, o) ==
    /\ ids \subseteq Signals
    /\ o.fired \in Seq(Entry) /\ Distinct(o.fired)
    /\ \A x, y \in o.dropped : x = y
    /\ Accounts(ids \cup {s}, o)

(* What read_loop is left with after Node::receive: it owes what the gate   *)
(* fired and dropped, each once, and keeps the body of a queued arrival.    *)
LEMMA DisposeFacts ==
    ASSUME NEW s \in Signals, NEW o, NEW ids, Admits(ids, s, o),
           NEW route \in SUBSET Peers
    PROVE  /\ Dispose(s, o, route) \in Work
           /\ GoodWork(Dispose(s, o, route))
           /\ Owes(Dispose(s, o, route)) = Ids(o.fired) \cup o.dropped
           /\ Dispose(s, o, route).keep = {s} \cap Ids(o.gate.queue)
           /\ Dispose(s, o, route).evicted = o.dropped \ {s}
           /\ Members(Dispose(s, o, route).batch) \ Dispose(s, o, route).own
                 = Ids(o.fired) \ {s}
  <1> USE DEF Admits
  <1> DEFINE w         == Dispose(s, o, route)
             batch     == IdsOf(o.fired)
             firedHere == s \in Ids(o.fired)
             noRoute   == firedHere /\ route = {} /\ s \in Acked
             refused   == s \in o.dropped \/ noRoute
             released  == IF refused THEN Without(batch, s) ELSE batch
  <1>1. /\ w.evicted = o.dropped \ {s}
        /\ w.refused = (IF refused THEN {s} ELSE {})
        /\ w.batch = released
        /\ w.own = {s} \cap Members(released)
        /\ w.plan = (IF firedHere /\ ~refused THEN route ELSE {})
        /\ w.keep = (IF firedHere \/ refused THEN {} ELSE {s})
        /\ w = [evicted |-> w.evicted, refused |-> w.refused, batch |-> w.batch,
                own |-> w.own, plan |-> w.plan, keep |-> w.keep]
    BY DEF Dispose, Members
  <1>2. batch \in Seq(Signals) /\ Members(batch) = Ids(o.fired) /\ Injective(batch)
    BY IdsOfFacts
  <1>3. /\ released \in Seq(Signals) /\ Injective(released)
        /\ Members(released) = Ids(o.fired) \ (IF refused THEN {s} ELSE {})
    <2>1. CASE refused
      BY <2>1, <1>2, WithoutFacts
    <2>2. CASE ~refused
      BY <2>2, <1>2
    <2> QED BY <2>1, <2>2
  <1>4. /\ Ids(o.gate.queue) \cup Ids(o.fired) \cup o.dropped = ids \cup {s}
        /\ Ids(o.gate.queue) \cap Ids(o.fired) = {}
        /\ Ids(o.gate.queue) \cap o.dropped = {}
        /\ Ids(o.fired) \cap o.dropped = {}
    BY DEF Accounts
  <1> HIDE DEF w, released, batch
  <1>5. w \in Work
    <2>1. /\ w.evicted \in SUBSET Signals /\ w.refused \in SUBSET Signals
          /\ w.batch \in Seq(Signals) /\ w.own \in SUBSET Signals
          /\ w.plan \in SUBSET Peers /\ w.keep \in SUBSET Signals
      BY <1>1, <1>3, <1>4
    <2> QED BY <2>1, <1>1 DEF Work
  <1>6. GoodWork(w)
    BY <1>1, <1>3, <1>4 DEF GoodWork
  <1>7. Owes(w) = Ids(o.fired) \cup o.dropped
    BY <1>1, <1>3, <1>4 DEF Owes
  <1>8. w.keep = {s} \cap Ids(o.gate.queue)
    BY <1>1, <1>4
  <1>9. Members(w.batch) \ w.own = Ids(o.fired) \ {s}
    BY <1>1, <1>3
  <1> QED BY <1>1, <1>5, <1>6, <1>7, <1>8, <1>9 DEF w
-----------------------------------------------------------------------------
(* Custody is inductive: one lemma for each action that moves signals.      *)

(* Custody as the actions use it: who may run holds what. *)
LEMMA CustodyFacts ==
    ASSUME Custody
    PROVE  /\ task \in [Tasks -> Work] /\ GoodGate(gate) /\ Good(gate, task)
           /\ Ids(gate.queue) \subseteq seen /\ Ids(gate.queue) \subseteq Signals
           /\ HeldIn(gate, task) \subseteq seen
           /\ \A t \in Tasks : /\ task[t] \in Work /\ GoodWork(task[t])
                               /\ Owes(task[t]) \cap Ids(gate.queue) = {}
                               /\ Owes(task[t]) \subseteq HeldIn(gate, task)
  <1>1. task \in [Tasks -> Work] /\ Good(gate, task) /\ GoodGate(gate)
    BY DEF Custody, TypeOK, Good
  <1>2. Ids(gate.queue) \subseteq HeldIn(gate, task)
    BY DEF HeldIn
  <1>3. Ids(gate.queue) \subseteq Signals
    <2>1. gate.queue \in Seq(Entry)
      BY <1>1 DEF GoodGate, GateState
    <2>2. \A i \in DOMAIN gate.queue : gate.queue[i].id \in Signals
      <3>1. \A i \in DOMAIN gate.queue : gate.queue[i] \in Entry
        BY <2>1
      <3> QED BY <3>1 DEF Entry
    <2> QED BY <2>2 DEF Ids
  <1> QED BY <1>1, <1>2, <1>3 DEF Custody, Good, Apart, HeldIn

(* A started node holds nothing. *)
LEMMA InitCustody ==
    ASSUME Init
    PROVE  Custody /\ HeldIn(gate, task) = {}
  <1> USE RuntimeFacts, NoWorkFacts
  <1>1. Ids(<<>>) = {} /\ Distinct(<<>>) /\ <<>> \in Seq(Entry) /\ Len(<<>>) = 0
    BY DEF Ids, Distinct
  <1>2. Fresh \in GateState /\ Fresh.queue = <<>> /\ GoodGate(Fresh)
    BY <1>1, GateAssumption DEF Fresh, GateState, GoodGate
  <1>3. Snap(Fresh) \in Snapshot
    BY GateAssumption DEF Snap, Fresh, Snapshot
  <1>4. \A t \in Tasks : task[t] = NoWork
    BY DEF Init
  <1>5. Good(gate, task) /\ HeldIn(gate, task) = {}
    BY <1>1, <1>2, <1>4 DEF Init, Good, Apart, HeldIn
  <1>6. TypeOK
    BY <1>2, <1>3 DEF Init, TypeOK
  <1> QED BY <1>4, <1>5, <1>6 DEF Custody

(* Node::receive on a fresh signal: it joins what is held, or, when its     *)
(* journal write fails, is lost with the batch it fired.                    *)
LEMMA ReceiveStep ==
    ASSUME Custody, NEW p \in Peers, NEW s \in Signals, Receive(p, s)
    PROVE  /\ Custody'
           /\ s \notin seen /\ seen' = seen \cup {s} /\ UNCHANGED history
           /\ s \notin HeldIn(gate, task)
           /\ \/ HeldIn(gate', task') = HeldIn(gate, task) \cup {s}
              \/ StoreMayFail /\ HeldIn(gate', task') \subseteq HeldIn(gate, task)
  <1> USE RuntimeFacts, NoWorkFacts
  <1>1. /\ s \notin seen /\ seen' = seen \cup {s} /\ UNCHANGED history
        /\ p \in Tasks /\ task[p] = NoWork
        /\ arrived[s] < MaxCopies /\ arrived' = [arrived EXCEPT ![s] = @ + 1]
        /\ UNCHANGED <<saved, pending, live, crashes>>
    BY DEF Receive, Reads, Claim, Idle, Tasks
  <1>2. PICK w \in SynapseWeights : \E o \in Admit(gate, s, w) :
          /\ gate' = o.gate
          /\ \/ \E route \in Plans(p) :
                   /\ s \in Ids(o.fired) \/ route = {}
                   /\ task' = [task EXCEPT ![p] = Dispose(s, o, route)]
             \/ /\ StoreMayFail /\ s \in Ids(o.fired)
                /\ UNCHANGED task
    BY DEF Receive
  <1>3. PICK o \in Admit(gate, s, w) :
          /\ gate' = o.gate
          /\ \/ \E route \in Plans(p) :
                   /\ s \in Ids(o.fired) \/ route = {}
                   /\ task' = [task EXCEPT ![p] = Dispose(s, o, route)]
             \/ /\ StoreMayFail /\ s \in Ids(o.fired)
                /\ UNCHANGED task
    BY <1>2
  <1>4. s \notin HeldIn(gate, task) /\ s \notin Ids(gate.queue)
    BY <1>1, CustodyFacts
  <1>5. /\ GoodGate(o.gate) /\ o.fired \in Seq(Entry) /\ Distinct(o.fired)
        /\ \A x, y \in o.dropped : x = y
        /\ Accounts(Ids(gate.queue) \cup {s}, o)
    <2>1. w \in Nat /\ GoodGate(gate)
      BY CustodyFacts
    <2> QED BY <2>1, <1>4, AdmitFacts
  <1>6. arrived' \in [Signals -> 0..MaxCopies]
    BY <1>1 DEF Custody, TypeOK
  <1>7. /\ gate' \in GateState /\ seen' \subseteq Signals
        /\ answers' = answers /\ handled' = handled /\ forwarded' = forwarded
        /\ bodiless' = bodiless
    BY <1>1, <1>3, <1>5 DEF GoodGate, Custody, TypeOK, history
  <1>8. ASSUME NEW v \in Work, GoodWork(v), task' = [task EXCEPT ![p] = v],
               Ids(gate'.queue) \cup Owes(v) \subseteq Ids(gate.queue) \cup {s},
               Ids(gate'.queue) \cap Owes(v) = {}
        PROVE  /\ Custody'
               /\ HeldIn(gate', task') = (HeldIn(gate, task) \ Ids(gate.queue))
                                            \cup Ids(gate'.queue) \cup Owes(v)
    <2>1. /\ Good(gate', task')
          /\ HeldIn(gate', task') = (HeldIn(gate, task) \ (Ids(gate.queue) \cup Owes(task[p])))
                                        \cup Ids(gate'.queue) \cup Owes(v)
      <3>1. \A u \in Tasks : task'[u] = IF u = p THEN v ELSE task[u]
        BY <1>8, CustodyFacts
      <3>2. Replaces(gate, task, p, gate', v, task', {s})
        BY <1>1, <1>3, <1>4, <1>5, <1>8, <3>1, CustodyFacts DEF Replaces
      <3> QED BY <3>2, Replace
    <2>2. HeldIn(gate', task') \subseteq seen'
      BY <2>1, <1>8, <1>1, CustodyFacts
    <2>3. task' \in [Tasks -> Work] /\ task'[Maintenance] = task[Maintenance]
      BY <1>8, CustodyFacts
    <2>4. TypeOK'
      BY <1>1, <1>6, <1>7, <2>3 DEF Custody, TypeOK
    <2> QED BY <1>1, <2>1, <2>2, <2>3, <2>4 DEF Custody
  <1>9. CASE \E route \in Plans(p) : task' = [task EXCEPT ![p] = Dispose(s, o, route)]
    <2>1. PICK route \in Plans(p) : task' = [task EXCEPT ![p] = Dispose(s, o, route)]
      BY <1>9
    <2>2. route \in SUBSET Peers /\ Ids(gate.queue) \in SUBSET Signals
      BY CustodyFacts DEF Plans
    <2> DEFINE v == Dispose(s, o, route)
    <2>3. v \in Work /\ GoodWork(v) /\ Owes(v) = Ids(o.fired) \cup o.dropped
      <3>1. Admits(Ids(gate.queue), s, o)
        BY <1>5, <2>2 DEF Admits
      <3> QED BY <3>1, <2>2, DisposeFacts
    <2> HIDE DEF v
    <2>4. /\ Ids(gate'.queue) \cup Owes(v) = Ids(gate.queue) \cup {s}
          /\ Ids(gate'.queue) \cap Owes(v) = {}
      BY <1>3, <1>5, <2>3 DEF Accounts
    <2>5. /\ Custody'
          /\ HeldIn(gate', task') = (HeldIn(gate, task) \ Ids(gate.queue))
                                            \cup Ids(gate'.queue) \cup Owes(v)
      BY <1>8, <2>1, <2>3, <2>4 DEF v
    <2>6. HeldIn(gate', task') = HeldIn(gate, task) \cup {s}
      BY <2>4, <2>5 DEF HeldIn
    <2> QED BY <1>1, <1>4, <2>5, <2>6
  <1>10. CASE StoreMayFail /\ s \in Ids(o.fired) /\ UNCHANGED task
    <2>1. task' = [task EXCEPT ![p] = NoWork]
      BY <1>1, <1>10, CustodyFacts
    <2>2. /\ Ids(gate'.queue) \cup Owes(NoWork) \subseteq Ids(gate.queue) \cup {s}
          /\ Ids(gate'.queue) \cap Owes(NoWork) = {}
      BY <1>3, <1>5 DEF Accounts
    <2>3. /\ Custody'
          /\ HeldIn(gate', task') = (HeldIn(gate, task) \ Ids(gate.queue))
                                            \cup Ids(gate'.queue) \cup Owes(NoWork)
      BY <1>8, <2>1, <2>2
    <2>4. HeldIn(gate', task') \subseteq HeldIn(gate, task)
      <3>1. s \notin Ids(gate'.queue)
        BY <1>3, <1>5, <1>10 DEF Accounts
      <3> QED BY <2>2, <2>3, <3>1 DEF HeldIn
    <2> QED BY <1>1, <1>4, <1>10, <2>3, <2>4
  <1> QED BY <1>3, <1>9, <1>10

(* A receipt is appended for one signal at most. *)
LEMMA AnswerFacts ==
    ASSUME TypeOK, NEW s \in Signals, NEW v \in {"delivered", "rejected"}, Answer(s, v)
    PROVE  /\ answers' \in [Signals -> Seq({"delivered", "rejected"})]
           /\ \A x \in Signals : x # s => answers'[x] = answers[x]
           /\ answers[s] = <<>> =>
                 answers'[s] = (IF s \in Acked THEN <<v>> ELSE <<>>)
  <1>1. answers \in [Signals -> Seq({"delivered", "rejected"})]
    BY DEF TypeOK
  <1>2. CASE s \in Acked
    <2>1. answers' = [answers EXCEPT ![s] = Append(answers[s], v)]
      BY <1>2 DEF Answer
    <2>2. Append(answers[s], v) \in Seq({"delivered", "rejected"})
      BY <1>1
    <2>3. answers[s] = <<>> => Append(answers[s], v) = <<v>>
      OBVIOUS
    <2> QED BY <1>1, <1>2, <2>1, <2>2, <2>3
  <1>3. CASE s \notin Acked
    BY <1>1, <1>3 DEF Answer
  <1> QED BY <1>2, <1>3

(* A task discharges part of its work; the gate and the dedup cache stay. *)
Discharges(t, w) ==
    /\ t \in Tasks /\ w \in Work /\ GoodWork(w)
    /\ task' = [task EXCEPT ![t] = w] /\ gate' = gate /\ seen' = seen
    /\ Owes(w) \subseteq Owes(task[t]) /\ w.keep \subseteq task[t].keep

(* What it holds afterwards is what it held, less what it discharged. *)
LEMMA Discharge ==
    ASSUME Custody, NEW t, NEW w, Discharges(t, w)
    PROVE  /\ task' \in [Tasks -> Work]
           /\ Good(gate', task') /\ HeldIn(gate', task') \subseteq seen'
           /\ task'[Maintenance].keep = {}
           /\ HeldIn(gate', task') = HeldIn(gate, task) \ (Owes(task[t]) \ Owes(w))
  <1>0. /\ t \in Tasks /\ w \in Work /\ GoodWork(w)
        /\ task' = [task EXCEPT ![t] = w] /\ gate' = gate /\ seen' = seen
        /\ Owes(w) \subseteq Owes(task[t]) /\ w.keep \subseteq task[t].keep
    BY DEF Discharges
  <1>1. task \in [Tasks -> Work] /\ Maintenance \in Tasks
    BY CustodyFacts, RuntimeFacts
  <1>2. \A u \in Tasks : task'[u] = IF u = t THEN w ELSE task[u]
    BY <1>0, <1>1
  <1>3. Ids(gate.queue) \cap Owes(w) = {} /\ Owes(task[t]) \cap Ids(gate.queue) = {}
    BY <1>0, CustodyFacts
  <1> DEFINE X == {}
  <1>4. Replaces(gate, task, t, gate', w, task', X)
    BY <1>0, <1>1, <1>2, <1>3, CustodyFacts DEF Replaces
  <1> HIDE DEF X
  <1>5. /\ Good(gate', task')
        /\ HeldIn(gate', task') = (HeldIn(gate, task) \ (Ids(gate.queue) \cup Owes(task[t])))
                                     \cup Ids(gate'.queue) \cup Owes(w)
    BY <1>4, Replace
  <1>6. Ids(gate.queue) \subseteq HeldIn(gate, task) /\ Owes(task[t]) \subseteq HeldIn(gate, task)
    BY <1>0 DEF HeldIn
  <1>7. HeldIn(gate', task') = HeldIn(gate, task) \ (Owes(task[t]) \ Owes(w))
    BY <1>0, <1>3, <1>5, <1>6
  <1>8. HeldIn(gate', task') \subseteq seen'
    BY <1>0, <1>7, CustodyFacts
  <1>9. task'[Maintenance].keep = {}
    BY <1>0, <1>1, <1>2 DEF Custody
  <1>10. task' \in [Tasks -> Work]
    BY <1>0, <1>1
  <1> QED BY <1>5, <1>7, <1>8, <1>9, <1>10

-----------------------------------------------------------------------------
(* The five things a step of the node can do to what it holds. *)

Rests ==
    /\ HeldIn(gate', task') = HeldIn(gate, task)
    /\ UNCHANGED <<seen, answers, handled, forwarded>>

Takes(s) ==
    /\ s \notin seen /\ seen' = seen \cup {s}
    /\ HeldIn(gate', task') = HeldIn(gate, task) \cup {s}
    /\ UNCHANGED <<answers, handled, forwarded>>

Refuses(s) ==
    /\ s \in HeldIn(gate, task) /\ HeldIn(gate', task') = HeldIn(gate, task) \ {s}
    /\ Answer(s, "rejected")
    /\ UNCHANGED <<seen, handled, forwarded>>

HandsOver(s) ==
    /\ s \in HeldIn(gate, task) /\ HeldIn(gate', task') = HeldIn(gate, task) \ {s}
    /\ handled' = [handled EXCEPT ![s] = @ + 1]
    /\ \/ Answer(s, "delivered") /\ forwarded' \subseteq forwarded \cup {s}
       \/ Answer(s, "rejected") /\ forwarded' = forwarded
    /\ UNCHANGED seen

(* The body of the signal t is about to release is missing. *)
Bodiless(t) ==
    /\ MayRun(t)
    /\ task[t].batch # <<>> /\ Head(task[t].batch) \notin task[t].own
    /\ Head(task[t].batch) \notin Cached

Drops ==
    /\ seen \subseteq seen' /\ seen' \subseteq Signals
    /\ HeldIn(gate', task') \subseteq HeldIn(gate, task)
    /\ UNCHANGED <<answers, handled, forwarded>>
    /\ StoreMayFail \/ MaxCrashes > 0 \/ \E t \in Tasks : Bodiless(t)

(* handle_evicted: the displaced signal is answered and forgotten. *)
LEMMA HandleEvictedStep ==
    ASSUME Custody, NEW t \in Tasks, HandleEvicted(t)
    PROVE  Custody' /\ \E s \in Signals : Refuses(s)
  <1>1. PICK s \in task[t].evicted :
           /\ pending' = {b \in pending : b.id # s}
           /\ Answer(s, "rejected")
           /\ task' = [task EXCEPT ![t].evicted = {}]
    BY DEF HandleEvicted
  <1>2. UNCHANGED <<gate, saved, seen, live, arrived, crashes, handled, forwarded, bodiless>>
    BY DEF HandleEvicted
  <1> DEFINE v == task[t]
             w == [v EXCEPT !.evicted = {}]
  <1>3. v \in Work /\ GoodWork(v) /\ task \in [Tasks -> Work]
    BY CustodyFacts
  <1>4. task' = [task EXCEPT ![t] = w]
    BY <1>1, <1>3
  <1>5. /\ w.evicted = {} /\ w.refused = v.refused /\ w.batch = v.batch
        /\ w.own = v.own /\ w.keep = v.keep /\ w \in Work
    BY <1>3 DEF Work
  <1> HIDE DEF w
  <1>6. s \in Signals /\ v.evicted = {s}
    BY <1>1, <1>3, WorkFacts DEF GoodWork
  <1>7. GoodWork(w) /\ Owes(w) = Owes(v) \ {s} /\ s \in Owes(v)
    BY <1>3, <1>5, <1>6 DEF GoodWork, Owes
  <1>8. /\ task' \in [Tasks -> Work]
        /\ Good(gate', task') /\ HeldIn(gate', task') \subseteq seen'
        /\ task'[Maintenance].keep = {}
        /\ HeldIn(gate', task') = HeldIn(gate, task) \ (Owes(v) \ Owes(w))
    <2>1. Discharges(t, w)
      BY <1>2, <1>4, <1>5, <1>7 DEF Discharges
    <2> QED BY <2>1, Discharge
  <1>9. TypeOK'
    <2>1. answers' \in [Signals -> Seq({"delivered", "rejected"})]
      BY <1>1, <1>6, AnswerFacts DEF Custody
    <2> QED BY <1>1, <1>2, <1>8, <2>1 DEF Custody, TypeOK
  <1>10. Refuses(s)
    <2>1. s \in HeldIn(gate, task)
      BY <1>7 DEF HeldIn
    <2> QED BY <1>1, <1>2, <1>7, <1>8, <2>1 DEF Refuses
  <1> QED BY <1>6, <1>8, <1>9, <1>10 DEF Custody

(* send_refusal: the refused arrival is answered. *)
LEMMA SendRefusalStep ==
    ASSUME Custody, NEW t \in Tasks, SendRefusal(t)
    PROVE  Custody' /\ \E s \in Signals : Refuses(s)
  <1>1. PICK s \in task[t].refused :
           /\ Answer(s, "rejected")
           /\ task' = [task EXCEPT ![t].refused = {}]
    BY DEF SendRefusal
  <1>2. UNCHANGED <<gate, saved, seen, pending, live, arrived, crashes, handled, forwarded, bodiless>>
    BY DEF SendRefusal
  <1> DEFINE v == task[t]
             w == [v EXCEPT !.refused = {}]
  <1>3. v \in Work /\ GoodWork(v) /\ task \in [Tasks -> Work]
    BY CustodyFacts
  <1>4. task' = [task EXCEPT ![t] = w]
    BY <1>1, <1>3
  <1>5. /\ w.evicted = v.evicted /\ w.refused = {} /\ w.batch = v.batch
        /\ w.own = v.own /\ w.keep = v.keep /\ w \in Work
    BY <1>3 DEF Work
  <1> HIDE DEF w
  <1>6. s \in Signals /\ v.refused = {s}
    BY <1>1, <1>3, WorkFacts DEF GoodWork
  <1>7. GoodWork(w) /\ Owes(w) = Owes(v) \ {s} /\ s \in Owes(v)
    BY <1>3, <1>5, <1>6 DEF GoodWork, Owes
  <1>8. /\ task' \in [Tasks -> Work]
        /\ Good(gate', task') /\ HeldIn(gate', task') \subseteq seen'
        /\ task'[Maintenance].keep = {}
        /\ HeldIn(gate', task') = HeldIn(gate, task) \ (Owes(v) \ Owes(w))
    <2>1. Discharges(t, w)
      BY <1>2, <1>4, <1>5, <1>7 DEF Discharges
    <2> QED BY <2>1, Discharge
  <1>9. TypeOK'
    <2>1. answers' \in [Signals -> Seq({"delivered", "rejected"})]
      BY <1>1, <1>6, AnswerFacts DEF Custody
    <2> QED BY <1>1, <1>2, <1>8, <2>1 DEF Custody, TypeOK
  <1>10. Refuses(s)
    <2>1. s \in HeldIn(gate, task)
      BY <1>7 DEF HeldIn
    <2> QED BY <1>1, <1>2, <1>7, <1>8, <2>1 DEF Refuses
  <1> QED BY <1>6, <1>8, <1>9, <1>10 DEF Custody

(* release_signal() on the next signal of a batch: it is handed over, or,   *)
(* when its body is missing, dropped.                                       *)
LEMMA ReleaseNextStep ==
    ASSUME Custody, NEW t \in Tasks, ReleaseNext(t)
    PROVE  Custody' /\ (Drops \/ \E s \in Signals : HandsOver(s))
  <1> DEFINE v == task[t]
             s == Head(v.batch)
             w == [v EXCEPT !.batch = Tail(@), !.own = @ \ {s},
                            !.plan = IF s \in v.own THEN {} ELSE @]
  <1>1. /\ MayRun(t) /\ v.batch # <<>>
        /\ ReleaseArrival(t, s) \/ ReleaseQueued(t, s)
        /\ task' = [task EXCEPT ![t].batch = Tail(@),
                                ![t].own = @ \ {s},
                                ![t].plan = IF s \in v.own THEN {} ELSE @]
        /\ UNCHANGED <<gate, saved, seen, live, arrived, crashes>>
    BY DEF ReleaseNext
  <1>2. v \in Work /\ GoodWork(v) /\ task \in [Tasks -> Work]
    BY CustodyFacts
  <1>3. task' = [task EXCEPT ![t] = w]
    BY <1>1, <1>2
  <1>4. v.batch \in Seq(Signals) /\ Injective(v.batch)
    BY <1>2, WorkFacts DEF GoodWork
  <1>5. /\ Tail(v.batch) \in Seq(Signals) /\ Injective(Tail(v.batch))
        /\ s \in Signals /\ s \in Members(v.batch)
        /\ Members(Tail(v.batch)) = Members(v.batch) \ {s}
    BY <1>1, <1>4, TailFacts
  <1>6. /\ w.evicted = v.evicted /\ w.refused = v.refused /\ w.batch = Tail(v.batch)
        /\ w.own = v.own \ {s} /\ w.keep = v.keep /\ w \in Work
    BY <1>2, <1>5 DEF Work
  <1> HIDE DEF w
  <1>7. GoodWork(w) /\ Owes(w) = Owes(v) \ {s} /\ s \in Owes(v)
    BY <1>2, <1>5, <1>6 DEF GoodWork, Owes
  <1>8. /\ task' \in [Tasks -> Work]
        /\ Good(gate', task') /\ HeldIn(gate', task') \subseteq seen'
        /\ task'[Maintenance].keep = {}
        /\ HeldIn(gate', task') = HeldIn(gate, task) \ (Owes(v) \ Owes(w))
    <2>1. Discharges(t, w)
      BY <1>1, <1>3, <1>6, <1>7 DEF Discharges
    <2> QED BY <2>1, Discharge
  <1>9. s \in HeldIn(gate, task) /\ HeldIn(gate', task') = HeldIn(gate, task) \ {s}
    <2>1. s \in HeldIn(gate, task)
      BY <1>7 DEF HeldIn
    <2> QED BY <1>7, <1>8, <2>1
  <1>10. pending' \subseteq Body
    BY <1>1 DEF ReleaseArrival, ReleaseQueued, Custody, TypeOK
  <1> HIDE DEF s, v
  <1>11. ASSUME NEW route, NEW sent, Deliver(s, route, sent)
         PROVE  Custody' /\ HandsOver(s)
    <2>1. PICK x \in {"delivered", "rejected"} :
              /\ Answer(s, x)
              /\ x = "rejected" => sent = {}
      BY <1>11 DEF Deliver, Verdict
    <2>2. /\ handled' = [handled EXCEPT ![s] = @ + 1] /\ bodiless' = bodiless
          /\ forwarded' = IF sent = {} THEN forwarded ELSE forwarded \cup {s}
      BY <1>11 DEF Deliver
    <2>3. answers' \in [Signals -> Seq({"delivered", "rejected"})]
      BY <1>5, <2>1, AnswerFacts DEF Custody
    <2>4. handled' \in [Signals -> Nat] /\ forwarded' \subseteq Signals
      BY <1>5, <2>2 DEF Custody, TypeOK
    <2>5. TypeOK'
      BY <1>1, <1>8, <1>10, <2>2, <2>3, <2>4 DEF Custody, TypeOK
    <2>6. HandsOver(s)
      BY <1>1, <1>9, <2>1, <2>2 DEF HandsOver
    <2> QED BY <1>8, <2>5, <2>6 DEF Custody
  <1>12. CASE \E route, sent : Deliver(s, route, sent)
    BY <1>5, <1>11, <1>12
  <1>13. CASE ~ \E route, sent : Deliver(s, route, sent)
    <2>1. /\ s \notin v.own /\ s \notin Cached
          /\ bodiless' = bodiless \cup {s} /\ UNCHANGED <<handled, forwarded, answers>>
      BY <1>1, <1>13 DEF ReleaseArrival, ReleaseQueued, v
    <2>2. Bodiless(t)
      BY <1>1, <2>1 DEF Bodiless, s, v
    <2>3. TypeOK'
      BY <1>1, <1>5, <1>8, <1>10, <2>1 DEF Custody, TypeOK
    <2>4. Drops
      BY <1>1, <1>9, <2>1, <2>2 DEF Drops, Custody, TypeOK
    <2> QED BY <1>8, <2>3, <2>4 DEF Custody
  <1> QED BY <1>12, <1>13

(* remember_body() owes nobody less. *)
LEMMA RememberBodyStep ==
    ASSUME Custody, NEW t \in Tasks, RememberBody(t)
    PROVE  Custody' /\ Rests
  <1>1. PICK s \in task[t].keep :
          /\ pending' = {b \in Backstop(pending) : b.id # s} \cup {[id |-> s, via |-> t]}
          /\ task' = [task EXCEPT ![t].keep = {}]
    BY DEF RememberBody
  <1>2. UNCHANGED <<gate, saved, seen, live, arrived, crashes, answers, handled,
                    forwarded, bodiless>>
    BY DEF RememberBody, history
  <1> DEFINE v == task[t]
             w == [v EXCEPT !.keep = {}]
  <1>3. v \in Work /\ GoodWork(v) /\ task \in [Tasks -> Work]
    BY CustodyFacts
  <1>4. task' = [task EXCEPT ![t] = w]
    BY <1>1, <1>3
  <1>5. /\ w.evicted = v.evicted /\ w.refused = v.refused /\ w.batch = v.batch
        /\ w.own = v.own /\ w.keep = {} /\ w \in Work
    BY <1>3 DEF Work
  <1> HIDE DEF w
  <1>6. GoodWork(w) /\ Owes(w) = Owes(v)
    BY <1>3, <1>5 DEF GoodWork, Owes
  <1>7. /\ task' \in [Tasks -> Work]
        /\ Good(gate', task') /\ HeldIn(gate', task') \subseteq seen'
        /\ task'[Maintenance].keep = {}
        /\ HeldIn(gate', task') = HeldIn(gate, task) \ (Owes(v) \ Owes(w))
    <2>1. Discharges(t, w)
      BY <1>2, <1>4, <1>5, <1>6 DEF Discharges
    <2> QED BY <2>1, Discharge
  <1>8. pending' \subseteq Body
    <2>1. s \in Signals
      BY <1>1, <1>3, WorkFacts
    <2>2. t \in Peers
      BY <1>1 DEF Custody, Tasks
    <2>3. Backstop(pending) \subseteq pending /\ pending \subseteq Body
      BY DEF Backstop, Custody, TypeOK
    <2> QED BY <1>1, <2>1, <2>2, <2>3 DEF Body
  <1>9. TypeOK'
    BY <1>2, <1>7, <1>8 DEF Custody, TypeOK
  <1>10. Rests
    BY <1>2, <1>6, <1>7 DEF Rests
  <1> QED BY <1>7, <1>9, <1>10 DEF Custody

(* poll_activation moves starving signals from the queue to the batch. *)
LEMMA PollActivationStep ==
    ASSUME Custody, PollActivation
    PROVE  Custody' /\ Rests
  <1> USE RuntimeFacts, NoWorkFacts
  <1>1. PICK o \in DrainIfStarving(gate) :
          /\ gate' = o.gate
          /\ task' = [task EXCEPT ![Maintenance].batch = IdsOf(o.fired)]
    BY DEF PollActivation
  <1>2. /\ task[Maintenance] = NoWork
        /\ UNCHANGED <<saved, seen, pending, live, arrived, crashes, answers, handled,
                       forwarded, bodiless>>
    BY DEF PollActivation, Idle, history
  <1>3. task \in [Tasks -> Work] /\ GoodGate(gate)
    BY CustodyFacts
  <1>4. /\ GoodGate(gate') /\ o.fired \in Seq(Entry) /\ Distinct(o.fired)
        /\ Ids(gate'.queue) \cup Ids(o.fired) = Ids(gate.queue)
        /\ Ids(gate'.queue) \cap Ids(o.fired) = {}
    BY <1>1, <1>3, DrainIfStarvingFacts DEF Sound
  <1> DEFINE w == [NoWork EXCEPT !.batch = IdsOf(o.fired)]
  <1>5. task' = [task EXCEPT ![Maintenance] = w]
    BY <1>1, <1>2, <1>3
  <1>6. /\ IdsOf(o.fired) \in Seq(Signals) /\ Members(IdsOf(o.fired)) = Ids(o.fired)
        /\ Injective(IdsOf(o.fired))
    BY <1>4, IdsOfFacts
  <1>7. /\ w.evicted = {} /\ w.refused = {} /\ w.batch = IdsOf(o.fired)
        /\ w.own = {} /\ w.keep = {} /\ w \in Work
    BY <1>6 DEF Work, NoWork
  <1> HIDE DEF w
  <1>8. GoodWork(w) /\ Owes(w) = Ids(o.fired)
    BY <1>6, <1>7 DEF GoodWork, Owes
  <1>9. \A u \in Tasks : task'[u] = IF u = Maintenance THEN w ELSE task[u]
    BY <1>3, <1>5
  <1>10. /\ Good(gate', task')
         /\ HeldIn(gate', task') = (HeldIn(gate, task) \ (Ids(gate.queue) \cup Owes(task[Maintenance])))
                                     \cup Ids(gate'.queue) \cup Owes(w)
    <2> DEFINE X == {}
    <2>1. Replaces(gate, task, Maintenance, gate', w, task', X)
      BY <1>2, <1>4, <1>8, <1>9, CustodyFacts DEF Replaces
    <2> HIDE DEF X
    <2> QED BY <2>1, Replace
  <1>11. HeldIn(gate', task') = HeldIn(gate, task)
    BY <1>2, <1>4, <1>8, <1>10 DEF HeldIn
  <1>12. TypeOK'
    <2>1. task' \in [Tasks -> Work] /\ gate' \in GateState
      BY <1>3, <1>4, <1>5, <1>7 DEF GoodGate
    <2> QED BY <1>2, <2>1 DEF Custody, TypeOK
  <1> QED BY <1>2, <1>7, <1>9, <1>10, <1>11, <1>12 DEF Custody, Rests

(* A signal that may not travel is claimed and owed a refusal. *)
LEMMA ReadUnpropagableStep ==
    ASSUME Custody, NEW p \in Peers, NEW s \in Signals, ReadUnpropagable(p, s)
    PROVE  Custody' /\ Takes(s)
  <1> USE RuntimeFacts, NoWorkFacts
  <1> DEFINE w == [NoWork EXCEPT !.refused = {s}]
  <1>1. /\ s \notin seen /\ seen' = seen \cup {s}
        /\ p \in Tasks /\ task[p] = NoWork
        /\ arrived[s] < MaxCopies /\ arrived' = [arrived EXCEPT ![s] = @ + 1]
        /\ task' = [task EXCEPT ![p] = w]
        /\ UNCHANGED <<gate, saved, pending, live, crashes, answers, handled,
                       forwarded, bodiless>>
    BY DEF ReadUnpropagable, Reads, Claim, Idle, Tasks, history
  <1>2. /\ w.evicted = {} /\ w.refused = {s} /\ w.batch = <<>>
        /\ w.own = {} /\ w.keep = {} /\ w \in Work /\ Members(w.batch) = {}
    BY DEF Work, NoWork
  <1> HIDE DEF w
  <1>3. GoodWork(w) /\ Owes(w) = {s}
    BY <1>2 DEF GoodWork, Owes, Injective
  <1>4. s \notin HeldIn(gate, task) /\ s \notin Ids(gate.queue)
    BY <1>1, CustodyFacts
  <1>5. \A u \in Tasks : task'[u] = IF u = p THEN w ELSE task[u]
    BY <1>1, CustodyFacts
  <1>6. /\ Good(gate', task')
        /\ HeldIn(gate', task') = (HeldIn(gate, task) \ (Ids(gate.queue) \cup Owes(task[p])))
                                     \cup Ids(gate'.queue) \cup Owes(w)
    <2>1. Replaces(gate, task, p, gate', w, task', {s})
      BY <1>1, <1>3, <1>4, <1>5, CustodyFacts DEF Replaces
    <2> QED BY <2>1, Replace
  <1>7. HeldIn(gate', task') = HeldIn(gate, task) \cup {s}
    BY <1>1, <1>3, <1>6 DEF HeldIn
  <1>8. HeldIn(gate', task') \subseteq seen'
    BY <1>1, <1>7, CustodyFacts
  <1>9. TypeOK'
    <2>1. task' \in [Tasks -> Work] /\ arrived' \in [Signals -> 0..MaxCopies]
      BY <1>1, <1>2, CustodyFacts DEF Custody, TypeOK
    <2> QED BY <1>1, <2>1 DEF Custody, TypeOK
  <1>10. task'[Maintenance].keep = {}
    BY <1>2, <1>5 DEF Custody
  <1> QED BY <1>1, <1>6, <1>7, <1>8, <1>9, <1>10 DEF Custody, Takes

(* Time passes: what waits goes on waiting. *)
LEMMA TickStep ==
    ASSUME Custody, Tick
    PROVE  Custody' /\ Rests /\ Ids(gate'.queue) = Ids(gate.queue)
  <1>1. /\ gate' = Aged(gate) /\ saved' = [saved EXCEPT !.refr = Less(@)]
        /\ UNCHANGED <<seen, pending, live, task, arrived, crashes, answers, handled,
                       forwarded, bodiless>>
    BY DEF Tick, history
  <1>2. GoodGate(gate') /\ Ids(gate'.queue) = Ids(gate.queue)
    BY <1>1, CustodyFacts, AgedFacts
  <1>3. Good(gate', task') /\ HeldIn(gate', task') = HeldIn(gate, task)
    BY <1>1, <1>2, CustodyFacts DEF Good, Apart, HeldIn
  <1>4. saved' \in Snapshot
    <2>1. saved \in Snapshot
      BY DEF Custody, TypeOK
    <2>2. Less(saved.refr) \in 0..Refractory
      BY <2>1, GateAssumption DEF Snapshot, Less
    <2> QED BY <1>1, <2>1, <2>2 DEF Snapshot
  <1>5. TypeOK'
    BY <1>1, <1>2, <1>4 DEF Custody, TypeOK, GoodGate
  <1> QED BY <1>1, <1>2, <1>3, <1>5 DEF Custody, Rests

(* The process dies: nothing is held, and with a durable dedup cache        *)
(* nothing can be claimed again.                                            *)
LEMMA CrashStep ==
    ASSUME Custody, Crash
    PROVE  Custody' /\ (DurableStore => Drops)
  <1> USE RuntimeFacts, NoWorkFacts
  <1>1. /\ crashes < MaxCrashes /\ crashes' = crashes + 1
        /\ gate' = Restore(saved) /\ seen' = (IF DurableStore THEN seen ELSE {})
        /\ pending' = {} /\ live' = {} /\ task' = [t \in Tasks |-> NoWork]
        /\ UNCHANGED <<saved, arrived, answers, handled, forwarded, bodiless>>
    BY DEF Crash, history
  <1>2. GoodGate(gate') /\ Ids(gate'.queue) = {}
    <2>1. saved \in Snapshot
      BY DEF Custody, TypeOK
    <2>2. gate' \in GateState /\ gate'.queue = <<>>
      BY <1>1, <2>1 DEF Restore, Snapshot, GateState
    <2>3. Len(<<>>) <= MaxQueueDepth /\ Distinct(<<>>) /\ Ids(<<>>) = {}
      BY DEF Distinct, Ids
    <2> QED BY <2>2, <2>3 DEF GoodGate
  <1>3. \A t \in Tasks : task'[t] = NoWork
    BY <1>1
  <1>4. Good(gate', task') /\ HeldIn(gate', task') = {}
    BY <1>2, <1>3 DEF Good, Apart, HeldIn
  <1>5. crashes \in 0..MaxCrashes /\ crashes' \in 0..MaxCrashes /\ MaxCrashes > 0
    BY <1>1 DEF Custody, TypeOK
  <1>6. TypeOK'
    BY <1>1, <1>2, <1>5 DEF Custody, TypeOK, GoodGate
  <1>7. DurableStore => Drops
    BY <1>1, <1>4, <1>5 DEF Drops, Custody, TypeOK
  <1> QED BY <1>3, <1>4, <1>6, <1>7 DEF Custody

(* Sessions, duplicates and checkpoints leave what is held alone. *)
LEMMA IdleStep ==
    ASSUME Custody, UNCHANGED <<gate, seen, task, pending, history>>,
           TypeOK'
    PROVE  Custody' /\ Rests
  BY DEF Custody, Rests, history

(* Every step keeps custody, and does one of the five things above. *)
LEMMA CustodyStep ==
    ASSUME Custody, [Next]_vars
    PROVE  /\ Custody'
           /\ \/ Rests
              \/ \E s \in Signals : Takes(s) \/ Refuses(s) \/ HandsOver(s)
              \/ Drops
              \/ ~DurableStore
  <1> USE RuntimeFacts
  <1>1. CASE UNCHANGED vars
    <2>1. TypeOK'
      BY <1>1 DEF vars, Custody, TypeOK
    <2> QED BY <1>1, <2>1, IdleStep DEF vars, history
  <1>2. ASSUME NEW p \in Peers, Connect(p) \/ Disconnect(p)
        PROVE  Custody' /\ Rests
    <2>1. TypeOK'
      BY <1>2 DEF Connect, Disconnect, history, Custody, TypeOK
    <2>2. UNCHANGED <<gate, seen, task, pending, history>>
      BY <1>2 DEF Connect, Disconnect
    <2> QED BY <2>1, <2>2, IdleStep
  <1>3. ASSUME NEW p \in Peers, NEW s \in Signals, ReadUnknownOrigin(p, s) \/ ReadDuplicate(p, s)
        PROVE  Custody' /\ Rests
    <2>1. /\ UNCHANGED <<gate, saved, seen, pending, live, task, crashes, history>>
          /\ arrived[s] < MaxCopies /\ arrived' = [arrived EXCEPT ![s] = @ + 1]
      BY <1>3 DEF ReadUnknownOrigin, ReadDuplicate, Reads
    <2>2. arrived' \in [Signals -> 0..MaxCopies]
      <3>1. arrived \in [Signals -> 0..MaxCopies]
        BY DEF Custody, TypeOK
      <3>2. arrived[s] + 1 \in 0..MaxCopies
        BY <2>1, <3>1
      <3> QED BY <2>1, <3>1, <3>2
    <2>3. TypeOK'
      BY <2>1, <2>2 DEF history, Custody, TypeOK
    <2> QED BY <2>1, <2>3, IdleStep
  <1>4. ASSUME NEW p \in Peers, NEW s \in Signals, ReadUnpropagable(p, s)
        PROVE  Custody' /\ Takes(s)
    BY <1>4, ReadUnpropagableStep
  <1>5. ASSUME NEW p \in Peers, NEW s \in Signals, Receive(p, s)
        PROVE  Custody' /\ (Takes(s) \/ Drops)
    <2>1. /\ Custody'
          /\ s \notin seen /\ seen' = seen \cup {s} /\ UNCHANGED history
          /\ \/ HeldIn(gate', task') = HeldIn(gate, task) \cup {s}
             \/ StoreMayFail /\ HeldIn(gate', task') \subseteq HeldIn(gate, task)
      BY <1>5, ReceiveStep
    <2>2. UNCHANGED <<answers, handled, forwarded>>
      BY <2>1 DEF history
    <2>3. CASE HeldIn(gate', task') = HeldIn(gate, task) \cup {s}
      BY <2>1, <2>2, <2>3 DEF Takes
    <2>4. CASE StoreMayFail /\ HeldIn(gate', task') \subseteq HeldIn(gate, task)
      <3>1. seen' \subseteq Signals /\ seen' \ seen = {s}
        BY <2>1 DEF Custody, TypeOK
      <3> QED BY <2>1, <2>2, <2>4, <3>1 DEF Drops
    <2> QED BY <2>1, <2>3, <2>4
  <1>6. ASSUME NEW t \in Tasks, TaskStep(t)
        PROVE  /\ Custody'
               /\ Rests \/ Drops \/ \E s \in Signals : Refuses(s) \/ HandsOver(s)
    BY <1>6, HandleEvictedStep, SendRefusalStep, ReleaseNextStep, RememberBodyStep
       DEF TaskStep
  <1>7. CASE PollActivation
    BY <1>7, PollActivationStep
  <1>8. CASE Checkpoint
    <2>1. /\ UNCHANGED <<gate, seen, pending, live, task, arrived, crashes, history>>
          /\ saved' = Snap(gate)
      BY <1>8 DEF Checkpoint
    <2>2. saved' \in Snapshot
      BY <2>1 DEF Custody, TypeOK, Snap, Snapshot, GateState
    <2>3. TypeOK'
      BY <2>1, <2>2 DEF history, Custody, TypeOK
    <2> QED BY <2>1, <2>3, IdleStep
  <1>9. CASE Tick
    BY <1>9, TickStep
  <1>10. CASE Crash
    BY <1>10, CrashStep
  <1> QED BY <1>1, <1>2, <1>3, <1>4, <1>5, <1>6, <1>7, <1>8, <1>9, <1>10 DEF Next

(* The node's state keeps its type; the gate is used within its bounds and  *)
(* a body is only ever cached for a peer (NodeRuntime, PendingBodies).      *)
THEOREM TypeCorrect == Spec => []TypeOK
  <1>1. Init => Custody
    BY InitCustody
  <1>2. Custody /\ [Next]_vars => Custody'
    BY CustodyStep
  <1>3. Custody => TypeOK
    BY DEF Custody
  <1> QED BY <1>1, <1>2, <1>3, PTL DEF Spec

-----------------------------------------------------------------------------
(* With a durable dedup cache, what is held has not been touched. *)

(* A started node has told nobody anything. *)
LEMMA InitFaithful ==
    ASSUME Init
    PROVE  Faithful
  BY RuntimeAssumption DEF Init, Faithful, Untouched, RejectedNotForwarded

(* The one signal a step touches was untouched, and is no longer held.      *)
LEMMA FaithfulStep ==
    ASSUME Custody, Faithful, DurableStore, [Next]_vars
    PROVE  Faithful'
  <1> DEFINE H == HeldIn(gate, task)
             K == HeldIn(gate', task')
  <1>0. /\ \A s \in Signals : s \notin seen \/ s \in H => Untouched(s)
        /\ \A s \in Signals : handled[s] \in {0, 1}
        /\ Acked \subseteq Signals
        /\ \A s \in Acked : "rejected" \in Members(answers[s]) => s \notin forwarded
        /\ TypeOK /\ H \subseteq seen
    BY RuntimeAssumption DEF Faithful, RejectedNotForwarded, Members, Custody
  <1> DEFINE Kept == /\ \A s \in Signals : s \notin seen' \/ s \in K => Untouched(s)'
                     /\ \A s \in Signals : handled'[s] \in {0, 1}
                     /\ \A s \in Acked : "rejected" \in Members(answers'[s])
                                             => s \notin forwarded'
  <1>1. SUFFICES Kept
    BY DEF Faithful, RejectedNotForwarded, Members
  <1>2. CASE Rests
    BY <1>0, <1>2 DEF Rests, Untouched
  <1>3. ASSUME NEW s \in Signals, Takes(s)
        PROVE  Kept
    BY <1>0, <1>3 DEF Takes, Untouched
  <1>4. CASE Drops
    BY <1>0, <1>4 DEF Drops, Untouched
  <1>5. ASSUME NEW s \in Signals, Refuses(s)
        PROVE  Kept
    <2>1. /\ s \in H /\ K = H \ {s} /\ Answer(s, "rejected")
          /\ seen' = seen /\ handled' = handled /\ forwarded' = forwarded
      BY <1>5 DEF Refuses
    <2>2. \A x \in Signals : x # s => answers'[x] = answers[x]
      BY <1>0, <2>1, AnswerFacts
    <2>3. s \notin forwarded
      BY <1>0, <2>1 DEF Untouched
    <2> QED BY <1>0, <2>1, <2>2, <2>3 DEF Untouched
  <1>6. ASSUME NEW s \in Signals, HandsOver(s)
        PROVE  Kept
    <2>1. /\ s \in H /\ K = H \ {s} /\ seen' = seen
          /\ handled' = [handled EXCEPT ![s] = @ + 1]
          /\ forwarded' \subseteq forwarded \cup {s}
      BY <1>6 DEF HandsOver
    <2>2. PICK v \in {"delivered", "rejected"} :
             Answer(s, v) /\ (v = "rejected" => forwarded' = forwarded)
      BY <1>6 DEF HandsOver
    <2>3. Untouched(s)
      BY <1>0, <2>1
    <2>4. /\ \A x \in Signals : x # s => answers'[x] = answers[x]
          /\ answers'[s] = (IF s \in Acked THEN <<v>> ELSE <<>>)
      BY <1>0, <2>2, <2>3, AnswerFacts DEF Untouched
    <2>5. /\ \A x \in Signals : x # s => handled'[x] = handled[x]
          /\ handled'[s] = 1
      BY <1>0, <2>1, <2>3 DEF TypeOK, Untouched
    <2>6. Members(<<v>>) = {v}
      BY DEF Members
    <2>7. s \in Acked /\ "rejected" \in Members(answers'[s]) => s \notin forwarded'
      BY <2>2, <2>3, <2>4, <2>6 DEF Untouched
    <2>8. \A x \in Signals : x # s /\ x \notin forwarded => x \notin forwarded'
      BY <2>1
    <2> QED BY <1>0, <2>1, <2>4, <2>5, <2>7, <2>8 DEF Untouched
  <1> QED BY <1>2, <1>3, <1>4, <1>5, <1>6, CustodyStep

(* The receipt is the truth about forwarding: a signal reported rejected,   *)
(* because it was displaced, refused or found every session full, was       *)
(* passed on to nobody, before or after (release_signal, send_refusal).     *)
THEOREM RefusalsAreTrue == DurableStore => (Spec => []RejectedNotForwarded)
  <1> SUFFICES ASSUME DurableStore
               PROVE  Spec => []RejectedNotForwarded
    OBVIOUS
  <1>1. Init => Custody /\ Faithful
    BY InitCustody, InitFaithful
  <1>2. Custody /\ Faithful /\ [Next]_vars => Custody' /\ Faithful'
    BY CustodyStep, FaithfulStep
  <1>3. Faithful => RejectedNotForwarded
    BY DEF Faithful
  <1> QED BY <1>1, <1>2, <1>3, PTL DEF Spec

-----------------------------------------------------------------------------
(* One handler at a time: the cache and the queue agree. *)

(* A handler that may run is the one the mirror speaks of. *)
LEMMA MirrorRun ==
    ASSUME Mirror, ~Parallel, NEW t \in Tasks, MayRun(t)
    PROVE  MirrorAt(t)
  <1>1. \A u \in Tasks \ {t} : Idle(u)
    BY DEF MayRun
  <1>2. PICK u \in Tasks : MirrorAt(u)
    BY DEF Mirror
  <1>3. CASE u # t
    <2>1. task[u] = NoWork /\ task[t] = NoWork
      BY <1>1, <1>2, <1>3 DEF MirrorAt, Idle
    <2> QED BY <1>1, <1>2, <2>1 DEF MirrorAt
  <1> QED BY <1>2, <1>3

(* As many bodies as the queue is deep: the backstop has nothing to evict. *)
LEMMA BackstopIdle ==
    ASSUME Custody, Cached \subseteq Ids(gate.queue),
           \A b, c \in pending : b.id = c.id => b = c
    PROVE  Backstop(pending) = pending
  <1> DEFINE q == gate.queue
             n == Len(q)
             f == [b \in pending |-> CHOOSE i \in 1..n : q[i].id = b.id]
  <1>1. n \in Nat /\ DOMAIN q = 1..n /\ n <= MaxQueueDepth
    BY CustodyFacts DEF GoodGate, GateState
  <1>2. \A b \in pending : \E i \in 1..n : q[i].id = b.id
    BY <1>1 DEF Cached, Ids
  <1>3. \A b \in pending : f[b] \in 1..n /\ q[f[b]].id = b.id
    BY <1>2
  <1> HIDE DEF f, q, n
  <1>4. f \in Injection(pending, 1..n)
    <2>1. f \in [pending -> 1..n]
      BY <1>3 DEF f
    <2>2. \A b, c \in pending : f[b] = f[c] => b = c
      BY <1>3
    <2> QED BY <2>1, <2>2 DEF Injection, IsInjective
  <1>5. IsFiniteSet(1..n) /\ Cardinality(1..n) = n
    BY <1>1, FS_Interval
  <1>6. IsFiniteSet(pending) /\ Cardinality(pending) <= n
    BY <1>4, <1>5, FS_Injection
  <1>7. Cardinality(pending) \in Nat
    BY <1>6, FS_CardinalityType
  <1>8. ~(Cardinality(pending) >= 2 * MaxQueueDepth)
    BY <1>1, <1>6, <1>7, RuntimeFacts
  <1> QED BY <1>8 DEF Backstop

(* A started node has nothing cached and nothing queued. *)
LEMMA InitMirror ==
    ASSUME Init
    PROVE  Mirror
  <1>1. /\ \A t \in Tasks : task[t] = NoWork
        /\ pending = {} /\ gate.queue = <<>>
    BY DEF Init, Fresh
  <1>2. Ids(<<>>) = {} /\ Cached = {}
    BY <1>1 DEF Ids, Cached
  <1>3. MirrorAt(Maintenance)
    BY <1>1, <1>2, RuntimeFacts, NoWorkFacts DEF MirrorAt, Idle
  <1> QED BY <1>1, <1>3, RuntimeFacts DEF Mirror

(* A step of handler t, given what it does to its own work, the queue and   *)
(* the cache.                                                               *)
LEMMA MirrorKept ==
    ASSUME NEW t \in Tasks, MirrorAt(t), task \in [Tasks -> Work],
           NEW w, task' = [task EXCEPT ![t] = w],
           w.keep \subseteq Ids(gate'.queue),
           Cached' = (Ids(gate'.queue) \cup w.evicted
                        \cup (Members(w.batch) \ w.own)) \ w.keep,
           \A b, c \in pending' : b.id = c.id => b = c
    PROVE  Mirror'
  <1>1. task'[t] = w /\ \A u \in Tasks \ {t} : task'[u] = task[u]
    OBVIOUS
  <1>2. \A u \in Tasks \ {t} : Idle(u)'
    BY <1>1 DEF MirrorAt, Idle
  <1>3. MirrorAt(t)'
    BY <1>1, <1>2 DEF MirrorAt
  <1> QED BY <1>3 DEF Mirror

(* Dropping one body. *)
LEMMA Uncache ==
    ASSUME NEW s, pending' = {b \in pending : b.id # s}
    PROVE  Cached' = Cached \ {s}
  BY DEF Cached

(* Node::receive: what it fires or displaces was cached, the arrival is not *)
(* and, if queued, is to be kept.                                           *)
LEMMA MirrorReceive ==
    ASSUME Custody, Mirror, ~Parallel, ~StoreMayFail,
           NEW p \in Peers, NEW s \in Signals, Receive(p, s)
    PROVE  Mirror'
  <1> USE RuntimeFacts, NoWorkFacts
  <1>1. /\ s \notin seen /\ p \in Tasks /\ task[p] = NoWork /\ MayRun(p)
        /\ pending' = pending
    BY DEF Receive, Reads, Idle, Tasks
  <1>2. MirrorAt(p) /\ task \in [Tasks -> Work]
    BY <1>1, MirrorRun, CustodyFacts
  <1>3. Cached = Ids(gate.queue)
    BY <1>1, <1>2 DEF MirrorAt
  <1>4. PICK x \in SynapseWeights : \E o \in Admit(gate, s, x) :
          /\ gate' = o.gate
          /\ \E route \in Plans(p) : task' = [task EXCEPT ![p] = Dispose(s, o, route)]
    BY DEF Receive
  <1>5. PICK o \in Admit(gate, s, x) :
          /\ gate' = o.gate
          /\ \E route \in Plans(p) : task' = [task EXCEPT ![p] = Dispose(s, o, route)]
    BY <1>4
  <1>6. PICK route \in Plans(p) : task' = [task EXCEPT ![p] = Dispose(s, o, route)]
    BY <1>5
  <1>7. s \notin Ids(gate.queue) /\ Ids(gate.queue) \subseteq Signals /\ x \in Nat
        /\ GoodGate(gate) /\ route \in SUBSET Peers
    BY <1>1, CustodyFacts DEF Plans
  <1>8. Admits(Ids(gate.queue), s, o)
    BY <1>7, AdmitFacts DEF Admits
  <1> DEFINE w == Dispose(s, o, route)
  <1>9. /\ w.keep = {s} \cap Ids(o.gate.queue) /\ w.evicted = o.dropped \ {s}
        /\ Members(w.batch) \ w.own = Ids(o.fired) \ {s}
    BY <1>7, <1>8, DisposeFacts
  <1>10. task' = [task EXCEPT ![p] = w]
    BY <1>6
  <1> HIDE DEF w
  <1>11. Ids(gate'.queue) \cup Ids(o.fired) \cup o.dropped = Ids(gate.queue) \cup {s}
    BY <1>5, <1>8 DEF Admits, Accounts
  <1>12. Cached' = Cached
    BY <1>1 DEF Cached
  <1>13. /\ w.keep \subseteq Ids(gate'.queue)
         /\ Cached' = (Ids(gate'.queue) \cup w.evicted
                         \cup (Members(w.batch) \ w.own)) \ w.keep
    BY <1>3, <1>5, <1>7, <1>9, <1>11, <1>12
  <1>14. \A b, c \in pending' : b.id = c.id => b = c
    BY <1>1 DEF Mirror
  <1> QED BY <1>1, <1>2, <1>10, <1>13, <1>14, MirrorKept

(* The rest of a handler: a body leaves the cache as its signal is answered *)
(* or released, and enters it last.                                         *)
LEMMA MirrorTask ==
    ASSUME Custody, Mirror, ~Parallel, NEW t \in Tasks, TaskStep(t)
    PROVE  Mirror'
  <1> DEFINE v == task[t]
             Q == Ids(gate.queue)
  <1>1. MayRun(t)
    BY DEF TaskStep, HandleEvicted, SendRefusal, ReleaseNext, RememberBody
  <1>2. /\ MirrorAt(t) /\ task \in [Tasks -> Work] /\ v \in Work /\ GoodWork(v)
        /\ \A b, c \in pending : b.id = c.id => b = c
    BY <1>1, MirrorRun, CustodyFacts DEF Mirror
  <1>3. /\ v.keep \subseteq Q
        /\ Cached = (Q \cup v.evicted \cup (Members(v.batch) \ v.own)) \ v.keep
    BY <1>2 DEF MirrorAt
  <1>4. /\ v.evicted \cap Q = {} /\ Members(v.batch) \cap Q = {}
        /\ v.evicted \cap Members(v.batch) = {}
    BY <1>2, CustodyFacts DEF Owes, GoodWork
  <1>5. CASE HandleEvicted(t)
    <2>1. PICK s \in v.evicted : /\ pending' = {b \in pending : b.id # s}
                                 /\ task' = [task EXCEPT ![t].evicted = {}]
      BY <1>5 DEF HandleEvicted
    <2>2. gate' = gate
      BY <1>5 DEF HandleEvicted
    <2> DEFINE w == [v EXCEPT !.evicted = {}]
    <2>3. task' = [task EXCEPT ![t] = w]
      BY <1>2, <2>1
    <2>4. w.evicted = {} /\ w.batch = v.batch /\ w.own = v.own /\ w.keep = v.keep
      BY <1>2 DEF Work
    <2> HIDE DEF w
    <2>5. v.evicted = {s} /\ Cached' = Cached \ {s}
      BY <1>2, <2>1, Uncache DEF GoodWork
    <2>6. /\ w.keep \subseteq Ids(gate'.queue)
          /\ Cached' = (Ids(gate'.queue) \cup w.evicted
                          \cup (Members(w.batch) \ w.own)) \ w.keep
      BY <1>3, <1>4, <2>2, <2>4, <2>5
    <2> QED BY <1>2, <2>1, <2>3, <2>6, MirrorKept
  <1>6. CASE SendRefusal(t)
    <2>1. /\ task' = [task EXCEPT ![t].refused = {}] /\ gate' = gate /\ pending' = pending
      BY <1>6 DEF SendRefusal
    <2> DEFINE w == [v EXCEPT !.refused = {}]
    <2>2. task' = [task EXCEPT ![t] = w]
      BY <1>2, <2>1
    <2>3. w.evicted = v.evicted /\ w.batch = v.batch /\ w.own = v.own /\ w.keep = v.keep
      BY <1>2 DEF Work
    <2> HIDE DEF w
    <2>4. Cached' = Cached
      BY <2>1 DEF Cached
    <2>5. /\ w.keep \subseteq Ids(gate'.queue)
          /\ Cached' = (Ids(gate'.queue) \cup w.evicted
                          \cup (Members(w.batch) \ w.own)) \ w.keep
      BY <1>3, <2>1, <2>3, <2>4
    <2> QED BY <1>2, <2>1, <2>2, <2>5, MirrorKept
  <1>7. CASE ReleaseNext(t)
    <2> DEFINE s == Head(v.batch)
               w == [v EXCEPT !.batch = Tail(@), !.own = @ \ {s},
                              !.plan = IF s \in v.own THEN {} ELSE @]
    <2>1. /\ v.evicted = {} /\ v.batch # <<>> /\ gate' = gate
          /\ ReleaseArrival(t, s) \/ ReleaseQueued(t, s)
          /\ task' = [task EXCEPT ![t].batch = Tail(@),
                                  ![t].own = @ \ {s},
                                  ![t].plan = IF s \in v.own THEN {} ELSE @]
      BY <1>7 DEF ReleaseNext
    <2>2. task' = [task EXCEPT ![t] = w]
      BY <1>2, <2>1
    <2>3. v.batch \in Seq(Signals) /\ Injective(v.batch)
      BY <1>2, WorkFacts DEF GoodWork
    <2>4. s \in Members(v.batch) /\ Members(Tail(v.batch)) = Members(v.batch) \ {s}
      BY <2>1, <2>3, TailFacts
    <2>5. /\ w.evicted = v.evicted /\ w.batch = Tail(v.batch)
          /\ w.own = v.own \ {s} /\ w.keep = v.keep
      BY <1>2 DEF Work
    <2>6. \/ s \in v.own /\ pending' = pending
          \/ s \notin v.own /\ pending' = {b \in pending : b.id # s}
      BY <2>1 DEF ReleaseArrival, ReleaseQueued
    <2> HIDE DEF w, s
    <2>7. Cached' = Cached \ ({s} \ v.own)
      <3>1. CASE s \in v.own /\ pending' = pending
        BY <3>1 DEF Cached
      <3>2. CASE s \notin v.own /\ pending' = {b \in pending : b.id # s}
        BY <3>2, Uncache
      <3> QED BY <2>6, <3>1, <3>2
    <2>8. /\ w.keep \subseteq Ids(gate'.queue)
          /\ Cached' = (Ids(gate'.queue) \cup w.evicted
                          \cup (Members(w.batch) \ w.own)) \ w.keep
      BY <1>3, <1>4, <2>1, <2>4, <2>5, <2>7
    <2>9. \A b, c \in pending' : b.id = c.id => b = c
      BY <1>2, <2>6
    <2> QED BY <1>2, <2>2, <2>8, <2>9, MirrorKept
  <1>8. CASE RememberBody(t)
    <2>1. PICK s \in v.keep :
            /\ pending' = {b \in Backstop(pending) : b.id # s} \cup {[id |-> s, via |-> t]}
            /\ task' = [task EXCEPT ![t].keep = {}]
      BY <1>8 DEF RememberBody
    <2>2. v.evicted = {} /\ v.batch = <<>> /\ gate' = gate
      BY <1>8 DEF RememberBody
    <2>3. Members(v.batch) = {}
      BY <2>2, NoWorkFacts
    <2>4. Backstop(pending) = pending
      BY <1>2, <1>3, <2>2, <2>3, BackstopIdle
    <2> DEFINE w == [v EXCEPT !.keep = {}]
    <2>5. task' = [task EXCEPT ![t] = w]
      BY <1>2, <2>1
    <2>6. w.evicted = v.evicted /\ w.batch = v.batch /\ w.own = v.own /\ w.keep = {}
      BY <1>2 DEF Work
    <2> HIDE DEF w
    <2>7. Cached' = (Cached \ {s}) \cup {s} /\ v.keep = {s}
      <3>1. v.keep = {s}
        BY <1>2, <2>1 DEF GoodWork
      <3> DEFINE new == [id |-> s, via |-> t]
      <3>2. new.id = s /\ pending' = {b \in pending : b.id # s} \cup {new}
        BY <2>1, <2>4
      <3> HIDE DEF new
      <3>3. Cached' = (Cached \ {s}) \cup {s}
        BY <3>2 DEF Cached
      <3> QED BY <3>1, <3>3
    <2>8. /\ w.keep \subseteq Ids(gate'.queue)
          /\ Cached' = (Ids(gate'.queue) \cup w.evicted
                          \cup (Members(w.batch) \ w.own)) \ w.keep
      BY <1>3, <2>2, <2>3, <2>6, <2>7
    <2>9. \A b, c \in pending' : b.id = c.id => b = c
      BY <1>2, <2>1, <2>4
    <2> QED BY <1>2, <2>5, <2>8, <2>9, MirrorKept
  <1> QED BY <1>5, <1>6, <1>7, <1>8 DEF TaskStep

(* A refused arrival was never cached; starving signals leave the queue     *)
(* with their bodies in the cache.                                          *)
LEMMA MirrorStart ==
    ASSUME Custody, Mirror, ~Parallel,
           PollActivation \/ \E p \in Peers, s \in Signals : ReadUnpropagable(p, s)
    PROVE  Mirror'
  <1> USE RuntimeFacts, NoWorkFacts
  <1>1. /\ task \in [Tasks -> Work] /\ GoodGate(gate)
        /\ \A b, c \in pending : b.id = c.id => b = c
    BY CustodyFacts DEF Mirror
  <1>2. ASSUME NEW p \in Peers, NEW s \in Signals, ReadUnpropagable(p, s)
        PROVE  Mirror'
    <2> DEFINE w == [NoWork EXCEPT !.refused = {s}]
    <2>1. /\ p \in Tasks /\ task[p] = NoWork /\ MayRun(p)
          /\ pending' = pending /\ gate' = gate /\ task' = [task EXCEPT ![p] = w]
      BY <1>2 DEF ReadUnpropagable, Reads, Idle, Tasks
    <2>2. w.evicted = {} /\ w.own = {} /\ w.keep = {} /\ Members(w.batch) = {}
      BY DEF NoWork
    <2> HIDE DEF w
    <2>3. MirrorAt(p)
      BY <2>1, MirrorRun
    <2>4. Cached' = Cached /\ Cached = Ids(gate.queue)
      BY <2>1, <2>3 DEF Cached, MirrorAt
    <2>5. /\ w.keep \subseteq Ids(gate'.queue)
          /\ Cached' = (Ids(gate'.queue) \cup w.evicted
                          \cup (Members(w.batch) \ w.own)) \ w.keep
      BY <2>1, <2>2, <2>4
    <2> QED BY <1>1, <2>1, <2>3, <2>5, MirrorKept
  <1>3. CASE PollActivation
    <2>1. PICK o \in DrainIfStarving(gate) :
            /\ gate' = o.gate
            /\ task' = [task EXCEPT ![Maintenance].batch = IdsOf(o.fired)]
      BY <1>3 DEF PollActivation
    <2>2. task[Maintenance] = NoWork /\ MayRun(Maintenance) /\ pending' = pending
      BY <1>3 DEF PollActivation, Idle
    <2>3. /\ o.fired \in Seq(Entry) /\ Distinct(o.fired)
          /\ Ids(gate'.queue) \cup Ids(o.fired) = Ids(gate.queue)
      BY <1>1, <2>1, DrainIfStarvingFacts DEF Sound
    <2> DEFINE w == [NoWork EXCEPT !.batch = IdsOf(o.fired)]
    <2>4. task' = [task EXCEPT ![Maintenance] = w]
      BY <1>1, <2>1, <2>2
    <2>5. /\ w.evicted = {} /\ w.own = {} /\ w.keep = {}
          /\ Members(w.batch) = Ids(o.fired)
      BY <2>3, IdsOfFacts DEF NoWork
    <2> HIDE DEF w
    <2>6. MirrorAt(Maintenance)
      BY <2>2, MirrorRun
    <2>7. Cached' = Cached /\ Cached = Ids(gate.queue)
      BY <2>2, <2>6 DEF Cached, MirrorAt
    <2>8. /\ w.keep \subseteq Ids(gate'.queue)
          /\ Cached' = (Ids(gate'.queue) \cup w.evicted
                          \cup (Members(w.batch) \ w.own)) \ w.keep
      BY <2>3, <2>5, <2>7
    <2> QED BY <1>1, <2>2, <2>4, <2>6, <2>8, MirrorKept
  <1> QED BY <1>2, <1>3

(* The mirror is inductive when handlers run one at a time and the journal  *)
(* never fails.                                                             *)
LEMMA MirrorStep ==
    ASSUME Custody, Mirror, ~Parallel, ~StoreMayFail, [Next]_vars
    PROVE  Mirror'
  <1> USE RuntimeFacts, NoWorkFacts
  <1>1. ASSUME UNCHANGED <<task, pending>>, Ids(gate'.queue) = Ids(gate.queue)
        PROVE  Mirror'
    <2>1. PICK t \in Tasks : MirrorAt(t)
      BY DEF Mirror
    <2>2. MirrorAt(t)'
      BY <1>1, <2>1 DEF MirrorAt, Idle, Cached
    <2> QED BY <1>1, <2>2 DEF Mirror
  <1>2. CASE UNCHANGED vars
    BY <1>1, <1>2 DEF vars
  <1>3. ASSUME NEW p \in Peers, Connect(p) \/ Disconnect(p)
        PROVE  Mirror'
    BY <1>1, <1>3 DEF Connect, Disconnect
  <1>4. ASSUME NEW p \in Peers, NEW s \in Signals, ReadUnknownOrigin(p, s) \/ ReadDuplicate(p, s)
        PROVE  Mirror'
    BY <1>1, <1>4 DEF ReadUnknownOrigin, ReadDuplicate
  <1>5. ASSUME NEW p \in Peers, NEW s \in Signals, ReadUnpropagable(p, s) \/ Receive(p, s)
        PROVE  Mirror'
    BY <1>5, MirrorStart, MirrorReceive
  <1>6. ASSUME NEW t \in Tasks, TaskStep(t)
        PROVE  Mirror'
    BY <1>6, MirrorTask
  <1>7. CASE PollActivation
    BY <1>7, MirrorStart
  <1>8. CASE Checkpoint
    BY <1>1, <1>8 DEF Checkpoint
  <1>9. CASE Tick
    <2>1. UNCHANGED <<task, pending>>
      BY <1>9 DEF Tick
    <2> QED BY <1>1, <1>9, <2>1, TickStep
  <1>10. CASE Crash
    <2>1. pending' = {} /\ gate'.queue = <<>> /\ \A t \in Tasks : task'[t] = NoWork
      BY <1>10 DEF Crash, Restore
    <2>2. Ids(<<>>) = {} /\ Cached' = {}
      BY <2>1 DEF Ids, Cached
    <2>3. MirrorAt(Maintenance)'
      BY <2>1, <2>2 DEF MirrorAt, Idle
    <2> QED BY <2>1, <2>3 DEF Mirror
  <1> QED BY <1>2, <1>3, <1>4, <1>5, <1>6, <1>7, <1>8, <1>9, <1>10 DEF Next

(* "The cache mirrors the gate's queue": when handlers do not interleave    *)
(* and the journal does not fail, exactly the queued signals have a cached  *)
(* body between two handlers, one each, and the backstop of remember_body   *)
(* never evicts anything.                                                   *)
THEOREM CacheFollowsQueue ==
    ~Parallel /\ ~StoreMayFail => (Spec => []CacheMirrorsQueue)
  <1> SUFFICES ASSUME ~Parallel, ~StoreMayFail
               PROVE  Spec => []CacheMirrorsQueue
    OBVIOUS
  <1>1. Init => Custody /\ Mirror
    BY InitCustody, InitMirror
  <1>2. Custody /\ Mirror /\ [Next]_vars => Custody' /\ Mirror'
    BY CustodyStep, MirrorStep
  <1>3. Mirror => CacheMirrorsQueue
    <2> SUFFICES ASSUME Mirror, Quiet PROVE Cached = Ids(gate.queue)
      BY DEF CacheMirrorsQueue, Mirror
    <2>1. PICK t \in Tasks : MirrorAt(t)
      BY DEF Mirror
    <2> QED BY <2>1, NoWorkFacts DEF MirrorAt, Quiet, Idle
  <1> QED BY <1>1, <1>2, <1>3, PTL DEF Spec

(* In the same setting no released signal finds its body missing. *)
LEMMA NoneBodiless ==
    ASSUME Custody, Mirror, ~Parallel
    PROVE  ~ \E t \in Tasks : Bodiless(t)
  <1> SUFFICES ASSUME NEW t \in Tasks, Bodiless(t) PROVE FALSE
    OBVIOUS
  <1> DEFINE v == task[t]
             s == Head(v.batch)
  <1>1. MirrorAt(t) /\ v \in Work /\ GoodWork(v) /\ Owes(v) \cap Ids(gate.queue) = {}
    BY MirrorRun, CustodyFacts DEF Bodiless
  <1>2. v.batch # <<>> /\ s \notin v.own /\ s \notin Cached
    BY DEF Bodiless
  <1>3. v.batch \in Seq(Signals) /\ Injective(v.batch)
    BY <1>1, WorkFacts DEF GoodWork
  <1>4. s \in Members(v.batch)
    BY <1>2, <1>3, TailFacts
  <1>5. s \notin Ids(gate.queue)
    BY <1>1, <1>4 DEF Owes
  <1> QED BY <1>1, <1>2, <1>4, <1>5 DEF MirrorAt

-----------------------------------------------------------------------------
(* The refinement: every step of the node is a step of HandOver. *)

(* The contract's state, read off by Stage, moves as the effects say. *)
Staged(H) == [s \in Signals |->
    IF s \notin seen THEN "new" ELSE IF handled[s] = 1 THEN "handled"
    ELSE IF s \in H THEN "held" ELSE "gone"]

StagesMatch == [s \in Signals |-> Stage(s)] = Staged(HeldIn(gate, task))

(* Stage, with the invariant, has four values. *)
LEMMA StageFacts ==
    ASSUME Custody, Faithful
    PROVE  StagesMatch
  <1> SUFFICES ASSUME NEW s \in Signals
               PROVE  Stage(s) = IF s \notin seen THEN "new"
                                 ELSE IF handled[s] = 1 THEN "handled"
                                 ELSE IF s \in HeldIn(gate, task) THEN "held" ELSE "gone"
    BY DEF Staged, StagesMatch
  <1>1. /\ handled[s] \in {0, 1} /\ (Held(s) <=> s \in HeldIn(gate, task))
        /\ s \notin seen \/ s \in HeldIn(gate, task) => handled[s] = 0
        /\ s \in HeldIn(gate, task) => s \in seen
    BY HeldFacts DEF Faithful, Untouched, Custody
  <1>2. CASE s \notin seen
    BY <1>1, <1>2 DEF Stage
  <1>3. CASE s \in seen /\ handled[s] = 1
    BY <1>1, <1>3 DEF Stage
  <1>4. CASE s \in seen /\ handled[s] = 0 /\ s \in HeldIn(gate, task)
    BY <1>1, <1>4 DEF Stage
  <1>5. CASE s \in seen /\ handled[s] = 0 /\ s \notin HeldIn(gate, task)
    BY <1>1, <1>5 DEF Stage
  <1> QED BY <1>1, <1>2, <1>3, <1>4, <1>5

(* The same of the state after a step. *)
LEMMA StageFactsNext == Custody' /\ Faithful' => StagesMatch'
  <1>1. Custody /\ Faithful => StagesMatch
    BY StageFacts
  <1> QED BY <1>1, PTL

(* The contract's initial state is the node's. *)
LEMMA PromiseInit ==
    ASSUME Init
    PROVE  Promise!Init
  <1> DEFINE stage == [s \in Signals |-> Stage(s)]
  <1>1. stage = [s \in Signals |-> "new"]
    BY InitCustody, InitFaithful, StageFacts DEF Init, Staged, StagesMatch
  <1>2. answers = [s \in Signals |-> <<>>]
    BY DEF Init
  <1> QED BY <1>1, <1>2 DEF Promise!Init

(* Every step of the node is one of the contract's, or leaves it alone. *)
LEMMA PromiseStep ==
    ASSUME Custody, Faithful, DurableStore,
           ~Parallel /\ ~StoreMayFail => Mirror,
           [Next]_vars
    PROVE  [Promise!Next]_(Promise!vars)
  <1> DEFINE stage == [s \in Signals |-> Stage(s)]
             H == HeldIn(gate, task)
             K == HeldIn(gate', task')
             MayLose == Parallel \/ StoreMayFail \/ MaxCrashes > 0
  <1>1. Custody' /\ Faithful'
    BY CustodyStep, FaithfulStep
  <1>2. \A s \in Signals :
           stage[s] = IF s \notin seen THEN "new" ELSE IF handled[s] = 1 THEN "handled"
                      ELSE IF s \in H THEN "held" ELSE "gone"
    BY StageFacts DEF Staged, StagesMatch
  <1>3. \A s \in Signals :
           stage'[s] = IF s \notin seen' THEN "new" ELSE IF handled'[s] = 1 THEN "handled"
                       ELSE IF s \in K THEN "held" ELSE "gone"
    BY <1>1, StageFactsNext DEF Staged, StagesMatch
  <1>4. /\ stage = [s \in Signals |-> stage[s]] /\ stage' = [s \in Signals |-> stage'[s]]
    OBVIOUS
  <1> HIDE DEF stage
  <1>5. /\ Promise!vars = <<stage, answers>>
        /\ \A s \in Signals : Promise!Claim(s) <=>
              stage[s] = "new" /\ stage' = [stage EXCEPT ![s] = "held"] /\ answers' = answers
        /\ \A s \in Signals : Promise!Refuse(s) <=>
              stage[s] = "held" /\ stage' = [stage EXCEPT ![s] = "gone"] /\ Answer(s, "rejected")
    BY DEF Promise!vars, Promise!Claim, Promise!Refuse, Promise!Tell, Answer, stage
  <1>6. /\ \A s \in Signals : handled[s] \in {0, 1} /\ (s \notin seen \/ s \in H => handled[s] = 0)
        /\ H \subseteq seen /\ handled \in [Signals -> Nat]
    BY DEF Faithful, Untouched, Custody, TypeOK
  <1>7. CASE Rests
    <2>1. stage' = stage /\ answers' = answers
      BY <1>2, <1>3, <1>4, <1>7 DEF Rests
    <2> QED BY <2>1 DEF Promise!vars, stage
  <1>8. ASSUME NEW s \in Signals, Takes(s)
        PROVE  Promise!Claim(s)
    <2>1. \A x \in Signals : stage'[x] = IF x = s THEN "held" ELSE stage[x]
      BY <1>2, <1>3, <1>6, <1>8 DEF Takes
    <2>2. stage' = [stage EXCEPT ![s] = "held"]
      BY <1>4, <2>1
    <2>3. stage[s] = "new" /\ answers' = answers
      BY <1>2, <1>8 DEF Takes
    <2> QED BY <1>5, <2>2, <2>3
  <1>9. ASSUME NEW s \in Signals, Refuses(s)
        PROVE  Promise!Refuse(s)
    <2>1. \A x \in Signals : stage'[x] = IF x = s THEN "gone" ELSE stage[x]
      BY <1>2, <1>3, <1>6, <1>9 DEF Refuses
    <2>2. stage' = [stage EXCEPT ![s] = "gone"]
      BY <1>4, <2>1
    <2>3. stage[s] = "held" /\ Answer(s, "rejected")
      BY <1>2, <1>6, <1>9 DEF Refuses
    <2> QED BY <1>5, <2>2, <2>3
  <1>10. ASSUME NEW s \in Signals, HandsOver(s)
         PROVE  Promise!Handle(s)
    <2>1. /\ s \in H /\ K = H \ {s} /\ seen' = seen
          /\ handled' = [handled EXCEPT ![s] = @ + 1]
          /\ Answer(s, "delivered") \/ Answer(s, "rejected")
      BY <1>10 DEF HandsOver
    <2>2. handled'[s] = 1 /\ \A x \in Signals : x # s => handled'[x] = handled[x]
      BY <1>6, <2>1
    <2>3. \A x \in Signals : stage'[x] = IF x = s THEN "handled" ELSE stage[x]
      BY <1>2, <1>3, <1>6, <2>1, <2>2
    <2>4. stage' = [stage EXCEPT ![s] = "handled"]
      BY <1>4, <2>3
    <2>5. stage[s] = "held"
      BY <1>2, <1>6, <2>1
    <2> QED BY <2>1, <2>4, <2>5 DEF Promise!Handle, Promise!Tell, Answer, stage
  <1>11. CASE Drops
    <2>1. MayLose
      BY <1>11, NoneBodiless DEF Drops
    <2>2. stage' \in [Signals -> {"new", "held", "handled", "gone"}]
      BY <1>3, <1>4
    <2>3. \A s \in Signals : stage'[s] # stage[s]
              => stage[s] \in {"new", "held"} /\ stage'[s] = "gone"
      BY <1>2, <1>3, <1>6, <1>11 DEF Drops
    <2>4. answers' = answers
      BY <1>11 DEF Drops
    <2>5. Promise!Lose
      BY <2>1, <2>2, <2>3, <2>4 DEF Promise!Lose, Promise!Stages, stage
    <2> QED BY <2>5 DEF Promise!Next
  <1> QED BY <1>7, <1>8, <1>9, <1>10, <1>11, CustodyStep DEF Promise!Next

(* Every step of the node, with a durable dedup cache, is a step of the     *)
(* HandOver contract, for any number of peers and signals and any           *)
(* interleaving, crash or failing journal: each signal is claimed once,     *)
(* handed over at most once, answered in the step that settles it and never *)
(* again, and what is lost was not acknowledged.  With one handler at a     *)
(* time, a journal that does not fail and no crash, nothing is lost.        *)
THEOREM ImplementsHandOver == DurableStore => (Spec => KeepsPromise)
  <1> SUFFICES ASSUME DurableStore
               PROVE  Spec => KeepsPromise
    OBVIOUS
  <1> DEFINE IInv == /\ Custody
                     /\ Faithful
                     /\ ~Parallel /\ ~StoreMayFail => Mirror
  <1>1. Init => IInv
    BY InitCustody, InitFaithful, InitMirror
  <1>2. IInv /\ [Next]_vars => IInv'
    BY CustodyStep, FaithfulStep, MirrorStep
  <1>3. Init => Promise!Init
    BY PromiseInit
  <1>4. IInv /\ [Next]_vars => [Promise!Next]_(Promise!vars)
    BY PromiseStep
  <1> QED BY <1>1, <1>2, <1>3, <1>4, PTL DEF Spec, KeepsPromise, Promise!Spec
=============================================================================
