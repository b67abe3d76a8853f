---------------------------- MODULE NetworkProofs ----------------------------
(***************************************************************************)
(* Proofs about Network for any topology, any signals with any ttl, weight *)
(* and scope, any configuration PropagationConfig::validate accepts and    *)
(* sessions that break and come back: the trace of a signal is the simple  *)
(* path it took, no signal outruns its limits, an acknowledged signal is   *)
(* never refused for its weight, and what receipts teach is true.          *)
(***************************************************************************)
EXTENDS Network, SequenceTheorems, FiniteSetTheorems, TLAPS

AnyFrame == SignalFrame \cup ReceiptFrame
Links == [Pairs -> Seq(AnyFrame)]

-----------------------------------------------------------------------------
(* What the propagation rules do to a frame *)

(* A frame is a signal or a receipt, and its kind says which. *)
LEMMA KindFacts ==
    ASSUME NEW x \in AnyFrame
    PROVE  /\ x.kind = "signal" <=> x \in SignalFrame
           /\ x.kind # "signal" => x \in ReceiptFrame
           /\ x.sig \in Signals
  BY DEF AnyFrame, SignalFrame, ReceiptFrame

(* A freshly emitted signal has its own ttl and an empty trace. *)
LEMMA EmissionFacts ==
    ASSUME NEW s \in Signals
    PROVE  /\ Emission(s) \in SignalFrame
           /\ Emission(s).sig = s /\ Emission(s).ttl = Ttl[s] /\ Emission(s).trace = <<>>
  <1>1. <<>> \in Seq(Nodes)
    OBVIOUS
  <1> QED BY <1>1, NetworkAssumption DEF Emission, SignalFrame

(* clamp_inbound_headers() lowers the ttl and changes nothing else. *)
LEMMA ClampedFacts ==
    ASSUME NEW f \in SignalFrame
    PROVE  /\ Clamped(f) \in SignalFrame
           /\ Clamped(f).sig = f.sig /\ Clamped(f).weight = f.weight
           /\ Clamped(f).trace = f.trace
           /\ Clamped(f).ttl <= f.ttl /\ Clamped(f).ttl <= MaxAcceptedTtl
           /\ f.ttl = 0 => Clamped(f).ttl = 0
  <1> DEFINE t == IF f.ttl > MaxAcceptedTtl THEN MaxAcceptedTtl ELSE f.ttl
  <1>1. f.ttl \in Nat /\ MaxAcceptedTtl \in Nat
    BY NetworkAssumption DEF SignalFrame
  <1>2. t \in Nat /\ t <= f.ttl /\ t <= MaxAcceptedTtl /\ (f.ttl = 0 => t = 0)
    BY <1>1
  <1>3. Clamped(f) = [f EXCEPT !.ttl = t]
    BY DEF Clamped
  <1> HIDE DEF t
  <1> QED BY <1>2, <1>3 DEF SignalFrame

(* Attenuation yields a weight, and floors that of an acknowledged signal   *)
(* with hops left.                                                          *)
LEMMA AttenuatedFacts ==
    ASSUME NEW f \in SignalFrame, NEW t \in Nat
    PROVE  /\ Attenuated(f, t) \in Nat
           /\ f.sig \in Acked /\ t > 0 => Attenuated(f, t) >= MinWeight
  <1>1. f.weight \in Nat /\ AttNum \in Nat /\ AttDen \in Nat \ {0} /\ MinWeight \in Nat
    BY NetworkAssumption DEF SignalFrame
  <1>2. f.weight * AttNum \in Nat
    BY <1>1
  <1>3. \A a \in Nat, b \in Nat \ {0} : a \div b \in Nat
    OBVIOUS
  <1>4. (f.weight * AttNum) \div AttDen \in Nat
    BY <1>1, <1>2, <1>3
  <1> QED BY <1>1, <1>4 DEF Attenuated

(* A hop costs one of the ttl and adds the node to the trace. *)
LEMMA HopFacts ==
    ASSUME NEW f \in SignalFrame, NEW n \in Nodes, f.ttl >= 1, Len(f.trace) < TraceCap
    PROVE  /\ Hop(n, f) \in SignalFrame
           /\ Hop(n, f).sig = f.sig /\ Hop(n, f).ttl = f.ttl - 1
           /\ Hop(n, f).trace = Append(f.trace, n)
           /\ f.sig \in Acked /\ Hop(n, f).ttl > 0 => Hop(n, f).weight >= MinWeight
  <1>1. f.ttl \in Nat /\ f.trace \in Seq(Nodes) /\ f.ttl - 1 \in Nat
    BY DEF SignalFrame
  <1>2. /\ Attenuated(f, f.ttl - 1) \in Nat
        /\ f.sig \in Acked /\ f.ttl - 1 > 0 => Attenuated(f, f.ttl - 1) >= MinWeight
    BY <1>1, AttenuatedFacts
  <1>3. Append(f.trace, n) \in Seq(Nodes)
    BY <1>1
  <1>4. Hop(n, f) = [f EXCEPT !.ttl = f.ttl - 1, !.weight = Attenuated(f, f.ttl - 1),
                              !.trace = Append(f.trace, n)]
    <2>1. (IF f.ttl = 0 THEN 0 ELSE f.ttl - 1) = f.ttl - 1
      BY <1>1
    <2>2. (IF Len(f.trace) < TraceCap THEN Append(f.trace, n) ELSE f.trace) = Append(f.trace, n)
      OBVIOUS
    <2> QED BY <2>1, <2>2, Zenon DEF Hop
  <1> HIDE DEF Hop
  <1> QED BY <1>1, <1>2, <1>3, <1>4 DEF SignalFrame

(* A hop of a node the signal has not visited, over one of its synapses,    *)
(* prolongs the path.                                                       *)
LEMMA PathGrows ==
    ASSUME NEW f \in SignalFrame, NEW n \in Nodes, NEW last,
           IsPath(f, last), ~Visited(n, f), {last, n} \in Synapses,
           NEW g \in SignalFrame, g.sig = f.sig, g.trace = Append(f.trace, n)
    PROVE  IsPath(g, n)
  <1> DEFINE t == f.trace
             u == g.trace
  <1>1. t \in Seq(Nodes) /\ t # <<>> /\ Len(t) \in Nat /\ Len(t) >= 1
    BY EmptySeq DEF SignalFrame, IsPath
  <1>2. /\ u \in Seq(Nodes) /\ Len(u) = Len(t) + 1 /\ u[Len(u)] = n /\ u # <<>>
        /\ DOMAIN u = 1..(Len(t) + 1) /\ DOMAIN t = 1..Len(t)
        /\ \A i \in 1..Len(t) : u[i] = t[i]
    BY <1>1
  <1>3. u[1] = Origin[g.sig]
    BY <1>1, <1>2 DEF IsPath
  <1>4. \A i \in DOMAIN t : t[i] # n
    BY DEF Visited
  <1>5. ASSUME NEW i \in DOMAIN u, NEW j \in DOMAIN u
        PROVE  /\ u[i] = u[j] => i = j
               /\ j = i + 1 => {u[i], u[j]} \in Synapses
    <2>1. /\ \A a, b \in DOMAIN t : t[a] = t[b] => a = b
          /\ \A a, b \in DOMAIN t : b = a + 1 => {t[a], t[b]} \in Synapses
          /\ t[Len(t)] = last
      BY DEF IsPath
    <2>2. i \in 1..(Len(t) + 1) /\ j \in 1..(Len(t) + 1)
      BY <1>2
    <2>3. u[i] = u[j] => i = j
      BY <1>1, <1>2, <1>4, <2>1, <2>2
    <2>4. ASSUME j = i + 1 PROVE {u[i], u[j]} \in Synapses
      <3>1. i \in 1..Len(t) /\ u[i] = t[i]
        BY <1>1, <1>2, <2>2, <2>4
      <3>2. CASE j = Len(t) + 1
        <4>1. i = Len(t)
          BY <1>1, <2>2, <2>4, <3>2
        <4>2. u[i] = last /\ u[j] = n
          BY <1>2, <2>1, <3>1, <3>2, <4>1
        <4> QED BY <4>2
      <3>3. CASE j # Len(t) + 1
        <4>1. j \in 1..Len(t)
          BY <1>1, <2>2, <3>3
        <4> QED BY <1>1, <1>2, <2>1, <2>4, <3>1, <4>1
      <3> QED BY <3>2, <3>3
    <2> QED BY <2>3, <2>4
  <1> QED BY <1>2, <1>3, <1>5 DEF IsPath

(* The first hop of a signal is a path from its origin. *)
LEMMA PathStarts ==
    ASSUME NEW n \in Nodes, NEW g \in SignalFrame, g.trace = Append(<<>>, n), Origin[g.sig] = n
    PROVE  IsPath(g, n)
  <1>1. g.trace = <<n>>
    OBVIOUS
  <1> QED BY <1>1 DEF IsPath

(* Every peer in a plan is a neighbour, and a flood at its depth has none. *)
LEMMA PlanFacts ==
    ASSUME NEW n \in Nodes, NEW f \in SignalFrame, NEW via, NEW plan \in Plans(n, f, via),
           NEW m \in plan
    PROVE  m \in Nodes /\ {n, m} \in Synapses /\ ~FloodDepthReached(f)
  <1> DEFINE el == Eligible(n, via)
  <1>1. ~FloodDepthReached(f)
    BY DEF Plans
  <1>2. Scope[f.sig] \in Scopes
    BY NetworkAssumption DEF SignalFrame
  <1>3. \A k : \A p \in Sample(el, k) : p \subseteq el
    BY DEF Sample
  <1>4. plan \subseteq el
    <2> HIDE DEF el
    <2>1. \/ plan = {} \/ plan = el \/ plan \in Sample(el, MaxFanout) \/ plan \in Sample(el, 1)
          \/ plan = {Destination[f.sig]} /\ Destination[f.sig] \in el
      BY <1>2 DEF Plans, Scopes, el
    <2> QED BY <1>3, <2>1
  <1> QED BY <1>1, <1>4 DEF Eligible

-----------------------------------------------------------------------------
(* What is on the wire after a read or a write *)

(* Sending a copy appends it to the links of the peers it is for. *)
LEMMA SentFacts ==
    ASSUME NEW ch \in Links, NEW n \in Nodes, NEW ms, NEW f \in AnyFrame
    PROVE  /\ Sent(ch, n, ms, f) \in Links
           /\ \A l \in Pairs : \A i \in DOMAIN Sent(ch, n, ms, f)[l] :
                 \/ Sent(ch, n, ms, f)[l][i] = f /\ l[1] = n /\ l[2] \in ms
                 \/ \E j \in DOMAIN ch[l] : Sent(ch, n, ms, f)[l][i] = ch[l][j]
  <1> DEFINE S == Sent(ch, n, ms, f)
  <1>1. \A l \in Pairs : /\ l[1] = n /\ l[2] \in ms => S[l] = Append(ch[l], f)
                         /\ ~(l[1] = n /\ l[2] \in ms) => S[l] = ch[l]
    BY DEF Sent
  <1>2. S = [l \in Pairs |-> S[l]]
    BY DEF Sent
  <1>3. \A l \in Pairs : ch[l] \in Seq(AnyFrame)
    BY DEF Links
  <1> HIDE DEF S
  <1>4. ASSUME NEW l \in Pairs PROVE S[l] \in Seq(AnyFrame)
    <2>1. Append(ch[l], f) \in Seq(AnyFrame)
      BY <1>3
    <2> QED BY <1>1, <1>3, <2>1
  <1>5. ASSUME NEW l \in Pairs, NEW i \in DOMAIN S[l]
        PROVE  \/ S[l][i] = f /\ l[1] = n /\ l[2] \in ms
               \/ \E j \in DOMAIN ch[l] : S[l][i] = ch[l][j]
    <2>1. CASE l[1] = n /\ l[2] \in ms
      <3>1. S[l] = Append(ch[l], f) /\ Len(ch[l]) \in Nat
        BY <1>1, <1>3, <2>1
      <3>2. i \in 1..(Len(ch[l]) + 1)
        BY <3>1, <1>3
      <3>3. CASE i = Len(ch[l]) + 1
        BY <1>3, <2>1, <3>1, <3>3
      <3>4. CASE i \in 1..Len(ch[l])
        <4>1. i \in DOMAIN ch[l] /\ S[l][i] = ch[l][i]
          BY <1>3, <3>1, <3>4
        <4> QED BY <4>1
      <3> QED BY <3>1, <3>2, <3>3, <3>4
    <2>2. CASE ~(l[1] = n /\ l[2] \in ms)
      BY <1>1, <2>2
    <2> QED BY <2>1, <2>2
  <1>6. S \in Links
    BY <1>2, <1>4 DEF Links
  <1> QED BY <1>5, <1>6 DEF S

(* Answering appends a receipt to links of the node that answers. *)
LEMMA AnsweredFacts ==
    ASSUME NEW ch \in Links, NEW n \in Nodes, NEW s \in Signals, NEW ok \in BOOLEAN, NEW via
    PROVE  /\ Answered(ch, n, s, ok, via) \in Links
           /\ \A l \in Pairs : \A i \in DOMAIN Answered(ch, n, s, ok, via)[l] :
                 \/ /\ Answered(ch, n, s, ok, via)[l][i] = [kind |-> "receipt", sig |-> s, ok |-> ok]
                    /\ l[1] = n
                 \/ \E j \in DOMAIN ch[l] : Answered(ch, n, s, ok, via)[l][i] = ch[l][j]
  <1> DEFINE r == [kind |-> "receipt", sig |-> s, ok |-> ok]
             toward == IF {n, Origin[s]} \in up THEN {Origin[s]} ELSE via
             ms == Reached(ch, n, toward)
             A == Answered(ch, n, s, ok, via)
  <1>1. r \in AnyFrame
    BY DEF AnyFrame, ReceiptFrame
  <1>2. A = IF s \in Acked THEN Sent(ch, n, ms, r) ELSE ch
    BY DEF Answered
  <1> HIDE DEF r, ms, A
  <1>3. /\ Sent(ch, n, ms, r) \in Links
        /\ \A l \in Pairs : \A i \in DOMAIN Sent(ch, n, ms, r)[l] :
              \/ Sent(ch, n, ms, r)[l][i] = r /\ l[1] = n /\ l[2] \in ms
              \/ \E j \in DOMAIN ch[l] : Sent(ch, n, ms, r)[l][i] = ch[l][j]
    BY <1>1, SentFacts
  <1>4. /\ A \in Links
        /\ \A l \in Pairs : \A i \in DOMAIN A[l] :
              \/ A[l][i] = r /\ l[1] = n
              \/ \E j \in DOMAIN ch[l] : A[l][i] = ch[l][j]
    <2>1. CASE s \in Acked
      BY <1>2, <1>3, <2>1
    <2>2. CASE s \notin Acked
      BY <1>2, <2>2
    <2> QED BY <2>1, <2>2
  <1> QED BY <1>4 DEF A, r

(* Reading takes the first frame off one link. *)
LEMMA PoppedFacts ==
    ASSUME link \in Links, NEW n, NEW p, <<p, n>> \in Pairs, link[<<p, n>>] # <<>>
    PROVE  /\ Popped(n, p) \in Links
           /\ \A l \in Pairs : \A i \in DOMAIN Popped(n, p)[l] :
                 \E j \in DOMAIN link[l] : Popped(n, p)[l][i] = link[l][j]
           /\ First(n, p) \in AnyFrame
           /\ \E j \in DOMAIN link[<<p, n>>] : First(n, p) = link[<<p, n>>][j]
  <1> DEFINE k == <<p, n>>
             q == link[k]
  <1>1. q \in Seq(AnyFrame) /\ q # <<>>
    BY DEF Links
  <1>2. Tail(q) \in Seq(AnyFrame) /\ Head(q) = q[1] /\ Head(q) \in AnyFrame /\ Len(q) \in Nat
        /\ Len(q) > 0 /\ Len(Tail(q)) = Len(q) - 1
        /\ \A i \in 1..Len(Tail(q)) : Tail(q)[i] = q[i + 1]
    BY <1>1, HeadTailProperties, EmptySeq
  <1>3. \A i \in DOMAIN Tail(q) : i + 1 \in DOMAIN q /\ Tail(q)[i] = q[i + 1]
    BY <1>1, <1>2
  <1>4. 1 \in DOMAIN q
    BY <1>1, <1>2
  <1>5. Popped(n, p) = [link EXCEPT ![k] = Tail(q)] /\ First(n, p) = Head(q)
    BY DEF Popped, First
  <1> HIDE DEF q, k
  <1>6. k \in Pairs /\ link[k] = q
    BY DEF q, k
  <1>7. Popped(n, p) \in Links
    BY <1>2, <1>5, <1>6 DEF Links
  <1>8. \A l \in Pairs : \A i \in DOMAIN Popped(n, p)[l] :
           \E j \in DOMAIN link[l] : Popped(n, p)[l][i] = link[l][j]
    BY <1>3, <1>5, <1>6 DEF Links
  <1> QED BY <1>2, <1>4, <1>5, <1>6, <1>7, <1>8 DEF k

-----------------------------------------------------------------------------
(* The inductive invariant *)

(* A signal on the wire has come along a path of synapses up to its sender, *)
(* within its limits; after its first hop what is left of its way is what a *)
(* receiver accepts, so its trace is never cut short.  The weight of an     *)
(* acknowledged one has been floored if it may go on.                       *)
GoodSignal(l, f) ==
    /\ IsPath(f, l[1]) /\ {l[1], l[2]} \in Synapses
    /\ Bounded(f)
    /\ f.sig \in Acked /\ f.ttl > 0 => f.weight >= MinWeight
    /\ Len(f.trace) = 1 \/ Len(f.trace) + f.ttl <= MaxAcceptedTtl + 1

(* A receipt on the wire is true of its sender. *)
GoodReceipt(l, r, hd, rf) ==
    IF r.ok THEN <<l[1], r.sig>> \in hd ELSE \E x \in rf : x.node = l[1] /\ x.sig = r.sig

GoodFrame(l, x, hd, rf) ==
    IF x.kind = "signal" THEN GoodSignal(l, x) ELSE GoodReceipt(l, x, hd, rf)

Good(ch, hd, rf) == \A l \in Pairs : \A i \in DOMAIN ch[l] : GoodFrame(l, ch[l][i], hd, rf)

(* A signal n has accepted came over one of its synapses and may go on. *)
GoodHeld(n, f) ==
    /\ ~Visited(n, f)
    /\ IsPath(f, f.trace[Len(f.trace)]) /\ {f.trace[Len(f.trace)], n} \in Synapses
    /\ Bounded(f)
    /\ f.ttl >= 1 /\ Len(f.trace) + f.ttl <= MaxAcceptedTtl + 1

HeldOK == \A n \in Nodes : \A f \in held[n] : GoodHeld(n, f)

NInv == TypeOK /\ Good(link, handled, refused) /\ HeldOK /\ AckedKeepsWeight /\ CreditIsTrue

(* What n accepts and what n sends on. *)
LEMMA AcceptedGood ==
    ASSUME NEW l \in Pairs, NEW x \in SignalFrame, GoodSignal(l, x), Blocked(l[2], Clamped(x)) = {}
    PROVE  Clamped(x) \in SignalFrame /\ GoodHeld(l[2], Clamped(x))
  <1> DEFINE f == Clamped(x)
             n == l[2]
  <1>1. /\ f \in SignalFrame /\ f.sig = x.sig /\ f.trace = x.trace
        /\ f.ttl <= x.ttl /\ f.ttl <= MaxAcceptedTtl
    BY ClampedFacts
  <1>2. f.ttl # 0 /\ ~Visited(n, f)
    BY DEF Blocked
  <1>3. f.ttl \in Nat /\ x.ttl \in Nat /\ Len(x.trace) \in Nat /\ MaxAcceptedTtl \in Nat
        /\ Ttl[x.sig] \in Nat
    BY <1>1, NetworkAssumption DEF SignalFrame
  <1> HIDE DEF f, n
  <1>4. IsPath(f, l[1]) /\ f.trace[Len(f.trace)] = l[1]
    BY <1>1 DEF GoodSignal, IsPath
  <1>5. {l[1], n} \in Synapses
    BY DEF GoodSignal, n
  <1>6. Bounded(f)
    BY <1>1, <1>3 DEF GoodSignal, Bounded
  <1>7. f.ttl >= 1 /\ Len(f.trace) + f.ttl <= MaxAcceptedTtl + 1
    <2>1. Len(x.trace) = 1 \/ Len(x.trace) + x.ttl <= MaxAcceptedTtl + 1
      BY DEF GoodSignal
    <2>2. f.trace = x.trace /\ f.ttl # 0 /\ f.ttl <= x.ttl /\ f.ttl <= MaxAcceptedTtl
      BY <1>1, <1>2
    <2>3. Len(f.trace) = Len(x.trace)
      BY <2>2
    <2>4. \A k, a, b, m \in Nat : (k = 1 \/ k + b <= m + 1) /\ a # 0 /\ a <= b /\ a <= m
                                  => a >= 1 /\ k + a <= m + 1
      OBVIOUS
    <2> QED BY <1>3, <2>1, <2>2, <2>3, <2>4
  <1> QED BY <1>1, <1>2, <1>4, <1>5, <1>6, <1>7 DEF GoodHeld, f, n

(* A hop of a good signal is good on the way to a neighbour not visited. *)
LEMMA HopGood ==
    ASSUME NEW l \in Pairs, NEW n \in Nodes, l[1] = n, {n, l[2]} \in Synapses,
           NEW f \in SignalFrame, GoodHeld(n, f), ~FloodDepthReached(f)
    PROVE  Hop(n, f) \in SignalFrame /\ GoodSignal(l, Hop(n, f))
  <1> DEFINE g == Hop(n, f)
  <1>0. f.ttl \in Nat /\ Len(f.trace) \in Nat /\ MaxAcceptedTtl \in Nat /\ TraceCap \in Nat
        /\ TraceCap > MaxAcceptedTtl + 1 /\ f.trace \in Seq(Nodes) /\ MaxHops \in Nat
        /\ Ttl[f.sig] \in Nat
    BY NetworkAssumption DEF SignalFrame
  <1>1. f.ttl >= 1 /\ Len(f.trace) + f.ttl <= MaxAcceptedTtl + 1
    BY DEF GoodHeld
  <1>2. Len(f.trace) < TraceCap
    BY <1>0, <1>1
  <1>3. /\ g \in SignalFrame /\ g.sig = f.sig /\ g.ttl = f.ttl - 1
        /\ g.trace = Append(f.trace, n)
        /\ f.sig \in Acked /\ g.ttl > 0 => g.weight >= MinWeight
    BY <1>1, <1>2, HopFacts
  <1> HIDE DEF g
  <1>4. Len(g.trace) = Len(f.trace) + 1
    BY <1>0, <1>3
  <1>5. IsPath(g, n)
    BY <1>3, PathGrows DEF GoodHeld
  <1>6. Bounded(g)
    BY <1>0, <1>1, <1>3, <1>4 DEF GoodHeld, Bounded, FloodDepthReached
  <1>7. Len(g.trace) + g.ttl <= MaxAcceptedTtl + 1
    BY <1>0, <1>1, <1>3, <1>4
  <1> QED BY <1>3, <1>5, <1>6, <1>7 DEF GoodSignal, g

(* The first hop of an emitted signal is good. *)
LEMMA EmissionGood ==
    ASSUME NEW l \in Pairs, NEW n \in Nodes, l[1] = n, {n, l[2]} \in Synapses,
           NEW s \in Signals, Origin[s] = n, Blocked(n, Emission(s)) = {},
           ~FloodDepthReached(Emission(s))
    PROVE  Hop(n, Emission(s)) \in SignalFrame /\ GoodSignal(l, Hop(n, Emission(s)))
  <1> DEFINE f == Emission(s)
             g == Hop(n, f)
  <1>1. f \in SignalFrame /\ f.sig = s /\ f.ttl = Ttl[s] /\ f.trace = <<>>
    BY EmissionFacts
  <1>2. Len(f.trace) = 0 /\ TraceCap \in Nat /\ TraceCap > 0 /\ Ttl[s] \in Nat /\ MaxHops \in Nat
    BY <1>1, NetworkAssumption
  <1>3. f.ttl >= 1
    BY <1>1, <1>2 DEF Blocked
  <1>4. /\ g \in SignalFrame /\ g.sig = s /\ g.ttl = Ttl[s] - 1 /\ g.trace = Append(<<>>, n)
        /\ s \in Acked /\ g.ttl > 0 => g.weight >= MinWeight
    BY <1>1, <1>2, <1>3, HopFacts
  <1>5. Scope[s] = "flood" => MaxHops >= 1
    BY <1>1, <1>2 DEF FloodDepthReached
  <1> HIDE DEF f, g
  <1>6. Len(g.trace) = 1 /\ IsPath(g, n)
    BY <1>4, PathStarts
  <1>7. Bounded(g)
    BY <1>2, <1>4, <1>5, <1>6 DEF Bounded
  <1> QED BY <1>4, <1>6, <1>7 DEF GoodSignal, f, g

-----------------------------------------------------------------------------
(* How the parts of a handler keep the wire good *)

(* A true receipt stays true while the histories grow. *)
LEMMA GoodGrows ==
    ASSUME NEW ch \in Links, NEW hd, NEW rf, NEW hd2, NEW rf2,
           hd \subseteq hd2, rf \subseteq rf2, Good(ch, hd, rf)
    PROVE  Good(ch, hd2, rf2)
  BY DEF Good, GoodFrame, GoodReceipt

(* Links stay good when good copies are sent, ... *)
LEMMA SentGood ==
    ASSUME NEW ch \in Links, NEW n \in Nodes, NEW ms, NEW f \in SignalFrame, NEW hd, NEW rf,
           Good(ch, hd, rf), \A l \in Pairs : l[1] = n /\ l[2] \in ms => GoodSignal(l, f)
    PROVE  Sent(ch, n, ms, f) \in Links /\ Good(Sent(ch, n, ms, f), hd, rf)
  <1> DEFINE S == Sent(ch, n, ms, f)
  <1>1. f \in AnyFrame /\ f.kind = "signal"
    BY DEF AnyFrame, SignalFrame
  <1>2. /\ S \in Links
        /\ \A l \in Pairs : \A i \in DOMAIN S[l] :
              \/ S[l][i] = f /\ l[1] = n /\ l[2] \in ms
              \/ \E j \in DOMAIN ch[l] : S[l][i] = ch[l][j]
    BY <1>1, SentFacts
  <1> HIDE DEF S
  <1>3. ASSUME NEW l \in Pairs, NEW i \in DOMAIN S[l] PROVE GoodFrame(l, S[l][i], hd, rf)
    <2>1. CASE S[l][i] = f /\ l[1] = n /\ l[2] \in ms
      BY <1>1, <2>1 DEF GoodFrame
    <2>2. CASE \E j \in DOMAIN ch[l] : S[l][i] = ch[l][j]
      BY <2>2 DEF Good
    <2> QED BY <1>2, <2>1, <2>2
  <1> QED BY <1>2, <1>3 DEF Good, S

(* ... when a true receipt is, ... *)
LEMMA AnsweredGood ==
    ASSUME NEW ch \in Links, NEW n \in Nodes, NEW s \in Signals, NEW ok \in BOOLEAN, NEW via,
           NEW hd, NEW rf, Good(ch, hd, rf),
           IF ok THEN <<n, s>> \in hd ELSE \E x \in rf : x.node = n /\ x.sig = s
    PROVE  Answered(ch, n, s, ok, via) \in Links /\ Good(Answered(ch, n, s, ok, via), hd, rf)
  <1> DEFINE r == [kind |-> "receipt", sig |-> s, ok |-> ok]
             A == Answered(ch, n, s, ok, via)
  <1>1. /\ A \in Links
        /\ \A l \in Pairs : \A i \in DOMAIN A[l] :
              \/ A[l][i] = r /\ l[1] = n
              \/ \E j \in DOMAIN ch[l] : A[l][i] = ch[l][j]
    BY AnsweredFacts
  <1>2. r.kind # "signal" /\ r.sig = s /\ r.ok = ok
    OBVIOUS
  <1> HIDE DEF A, r
  <1>3. ASSUME NEW l \in Pairs, NEW i \in DOMAIN A[l] PROVE GoodFrame(l, A[l][i], hd, rf)
    <2>1. CASE A[l][i] = r /\ l[1] = n
      BY <1>2, <2>1 DEF GoodFrame, GoodReceipt
    <2>2. CASE \E j \in DOMAIN ch[l] : A[l][i] = ch[l][j]
      BY <2>2 DEF Good
    <2> QED BY <1>1, <2>1, <2>2
  <1> QED BY <1>1, <1>3 DEF Good, A

(* ... and when a frame is read. *)
LEMMA PoppedGood ==
    ASSUME NInv, NEW n, NEW p, <<p, n>> \in Pairs, link[<<p, n>>] # <<>>
    PROVE  /\ Popped(n, p) \in Links /\ Good(Popped(n, p), handled, refused)
           /\ First(n, p) \in AnyFrame /\ GoodFrame(<<p, n>>, First(n, p), handled, refused)
  <1>1. link \in Links
    BY DEF NInv, TypeOK, Links, AnyFrame
  <1>2. /\ Popped(n, p) \in Links
        /\ \A l \in Pairs : \A i \in DOMAIN Popped(n, p)[l] :
              \E j \in DOMAIN link[l] : Popped(n, p)[l][i] = link[l][j]
        /\ First(n, p) \in AnyFrame
        /\ \E j \in DOMAIN link[<<p, n>>] : First(n, p) = link[<<p, n>>][j]
    BY <1>1, PoppedFacts
  <1>3. Good(link, handled, refused)
    BY DEF NInv
  <1>4. Good(Popped(n, p), handled, refused)
    BY <1>2, <1>3 DEF Good
  <1>5. GoodFrame(<<p, n>>, First(n, p), handled, refused)
    BY <1>2, <1>3 DEF Good
  <1> QED BY <1>2, <1>4, <1>5

(* A release counts its open decisions. *)
LEMMA DecidedFacts ==
    ASSUME TypeOK, NEW n \in Nodes, NEW s, NEW ms
    PROVE  Decided(n, s, ms) \in [Nodes -> [Signals \X Nodes -> Nat]]
  <1> DEFINE r == [d \in Signals \X Nodes |->
                     IF d[1] = s /\ d[2] \in ms THEN open[n][d] + 1 ELSE open[n][d]]
  <1>1. open \in [Nodes -> [Signals \X Nodes -> Nat]]
    BY DEF TypeOK
  <1>2. r \in [Signals \X Nodes -> Nat]
    <2>1. \A d \in Signals \X Nodes : open[n][d] \in Nat
      BY <1>1
    <2> QED BY <2>1
  <1>3. Decided(n, s, ms) = [open EXCEPT ![n] = r]
    BY DEF Decided
  <1> HIDE DEF r
  <1> QED BY <1>1, <1>2, <1>3

(* A refusal is recorded before its receipt is sent. *)
LEMMA RefuseFacts ==
    ASSUME NInv, NEW ch \in Links, Good(ch, handled, refused), NEW n \in Nodes,
           NEW s \in Signals, NEW reason \in Reasons, NEW via,
           Refuse(ch, n, s, reason, via), handled' = handled,
           s \in Acked => reason # "below_threshold"
    PROVE  /\ link' \in Links /\ Good(link', handled', refused')
           /\ refused' \subseteq [node : Nodes, sig : Signals, reason : Reasons]
           /\ refused \subseteq refused'
           /\ AckedKeepsWeight'
  <1> DEFINE x == Refusal(n, s, reason)
  <1>1. refused' = refused \cup {x} /\ link' = Answered(ch, n, s, FALSE, via)
    BY DEF Refuse
  <1>2. x \in [node : Nodes, sig : Signals, reason : Reasons]
        /\ x.node = n /\ x.sig = s /\ x.reason = reason
    BY DEF Refusal
  <1> HIDE DEF x
  <1>3. Good(ch, handled', refused')
    BY <1>1, GoodGrows
  <1>4. x \in refused'
    BY <1>1
  <1>5. link' \in Links /\ Good(link', handled', refused')
    BY <1>1, <1>2, <1>3, <1>4, AnsweredGood
  <1>6. AckedKeepsWeight'
    BY <1>1, <1>2 DEF NInv, AckedKeepsWeight
  <1> QED BY <1>1, <1>2, <1>5, <1>6 DEF NInv, TypeOK

(* A release is handled here before its receipt is sent. *)
LEMMA ReleaseFacts ==
    ASSUME NInv, NEW ch \in Links, Good(ch, handled, refused), NEW n \in Nodes,
           NEW f \in SignalFrame, GoodHeld(n, f), NEW via, NEW plan \in Plans(n, f, via),
           Release(ch, n, f, plan)
    PROVE  /\ link' \in Links /\ Good(link', handled', refused')
           /\ refused' \subseteq [node : Nodes, sig : Signals, reason : Reasons]
           /\ refused \subseteq refused'
           /\ handled' \subseteq Nodes \X Signals /\ handled \subseteq handled'
           /\ open' \in [Nodes -> [Signals \X Nodes -> Nat]]
           /\ AckedKeepsWeight'
  <1> DEFINE reached == Reached(ch, n, plan)
             ok == plan = {} \/ reached # {}
             s == f.sig
             sent == Sent(ch, n, reached, Hop(n, f))
             x == Refusal(n, s, "transport_failure")
  <1>1. /\ handled' = handled \cup {<<n, s>>}
        /\ open' = Decided(n, s, reached)
        /\ link' = Answered(sent, n, s, ok, {})
        /\ refused' = IF ok THEN refused ELSE refused \cup {x}
    BY DEF Release
  <1>2. s \in Signals /\ ok \in BOOLEAN
    BY DEF SignalFrame
  <1>3. x \in [node : Nodes, sig : Signals, reason : Reasons]
        /\ x.node = n /\ x.sig = s /\ x.reason = "transport_failure"
    BY <1>2 DEF Refusal, Reasons
  <1>4. \A l \in Pairs : l[1] = n /\ l[2] \in reached
                            => Hop(n, f) \in SignalFrame /\ GoodSignal(l, Hop(n, f))
    BY PlanFacts, HopGood DEF Reached
  <1>5. f.ttl \in Nat /\ Len(f.trace) \in Nat /\ MaxAcceptedTtl \in Nat /\ TraceCap \in Nat
        /\ TraceCap > MaxAcceptedTtl + 1
    BY NetworkAssumption DEF SignalFrame
  <1>6. Hop(n, f) \in SignalFrame
    BY <1>5, HopFacts DEF GoodHeld
  <1>7. sent \in Links /\ Good(sent, handled, refused)
    BY <1>4, <1>6, SentGood
  <1>8. handled \subseteq handled' /\ refused \subseteq refused' /\ <<n, s>> \in handled'
        /\ (~ok => x \in refused')
    BY <1>1
  <1> HIDE DEF sent, ok, x, s
  <1>9. Good(sent, handled', refused')
    BY <1>7, <1>8, GoodGrows
  <1>10. link' \in Links /\ Good(link', handled', refused')
    BY <1>1, <1>2, <1>3, <1>7, <1>8, <1>9, AnsweredGood
  <1>11. open' \in [Nodes -> [Signals \X Nodes -> Nat]]
    BY <1>1, DecidedFacts DEF NInv
  <1>12. AckedKeepsWeight'
    BY <1>1, <1>3 DEF NInv, AckedKeepsWeight
  <1>13. /\ refused' \subseteq [node : Nodes, sig : Signals, reason : Reasons]
         /\ handled' \subseteq Nodes \X Signals
    BY <1>1, <1>2, <1>3 DEF NInv, TypeOK
  <1> QED BY <1>8, <1>10, <1>11, <1>12, <1>13

-----------------------------------------------------------------------------
(* The actions *)

(* What every handler of a new signal has done before it decides. *)
LEMMA ReadNewFacts ==
    ASSUME NInv, NEW n, NEW p, <<n, p>> \in Pairs, ReadNew(n, p)
    PROVE  /\ n \in Nodes /\ p \in Nodes
           /\ Popped(n, p) \in Links /\ Good(Popped(n, p), handled, refused)
           /\ First(n, p) \in SignalFrame /\ GoodSignal(<<p, n>>, First(n, p))
           /\ Clamped(First(n, p)) \in SignalFrame /\ Clamped(First(n, p)).sig \in Signals
           /\ Blocked(n, Clamped(First(n, p))) = {} => GoodHeld(n, Clamped(First(n, p)))
           /\ seen' \in [Nodes -> [Signals -> 0..DedupTicks]]
           /\ UNCHANGED <<up, emitted, breaks, credit>>
  <1>1. n \in Nodes /\ p \in Nodes /\ <<p, n>> \in Pairs /\ <<p, n>>[2] = n
    BY DEF Pairs
  <1>2. link[<<p, n>>] # <<>> /\ First(n, p).kind = "signal"
    BY DEF ReadNew, Incoming, First
  <1>3. /\ Popped(n, p) \in Links /\ Good(Popped(n, p), handled, refused)
        /\ First(n, p) \in AnyFrame /\ GoodFrame(<<p, n>>, First(n, p), handled, refused)
    BY <1>1, <1>2, PoppedGood
  <1>4. First(n, p) \in SignalFrame /\ GoodSignal(<<p, n>>, First(n, p))
    BY <1>2, <1>3, KindFacts DEF GoodFrame
  <1>5. Clamped(First(n, p)) \in SignalFrame
    BY <1>4, ClampedFacts
  <1>6. Blocked(n, Clamped(First(n, p))) = {} => GoodHeld(n, Clamped(First(n, p)))
    BY <1>1, <1>4, AcceptedGood
  <1>7. Clamped(First(n, p)).sig \in Signals /\ First(n, p).sig \in Signals
    BY <1>4, <1>5 DEF SignalFrame
  <1>8. seen' \in [Nodes -> [Signals -> 0..DedupTicks]]
    <2>1. DedupTicks \in 0..DedupTicks
      BY NetworkAssumption
    <2>2. seen' = [seen EXCEPT ![n][First(n, p).sig] = DedupTicks]
      BY DEF ReadNew
    <2> QED BY <1>1, <1>7, <2>1, <2>2 DEF NInv, TypeOK
  <1> QED BY <1>1, <1>3, <1>4, <1>5, <1>6, <1>7, <1>8 DEF ReadNew

(* What is credited stays true. *)
LEMMA CreditKept ==
    ASSUME NInv, credit' = credit, handled \subseteq handled', refused \subseteq refused'
    PROVE  CreditIsTrue'
  BY DEF NInv, CreditIsTrue

(* The rules that can stand against a signal, and that none of them is the  *)
(* weight of an acknowledged one.                                           *)
LEMMA BlockedFacts ==
    ASSUME NEW l \in Pairs, NEW x \in SignalFrame, GoodSignal(l, x),
           NEW reason \in Blocked(l[2], Clamped(x))
    PROVE  /\ reason \in Reasons
           /\ Clamped(x).sig \in Acked => reason # "below_threshold"
  <1>1. /\ Clamped(x) \in SignalFrame /\ Clamped(x).sig = x.sig /\ Clamped(x).weight = x.weight
        /\ Clamped(x).ttl <= x.ttl
    BY ClampedFacts
  <1>2. reason \in Reasons
    BY DEF Blocked, Reasons
  <1>3. ASSUME x.sig \in Acked, reason = "below_threshold" PROVE FALSE
    <2>1. Clamped(x).ttl # 0 /\ Clamped(x).weight < MinWeight
      BY <1>3 DEF Blocked
    <2>2. x.ttl \in Nat /\ Clamped(x).ttl \in Nat /\ x.weight \in Nat /\ MinWeight \in Nat
      BY <1>1, NetworkAssumption DEF SignalFrame
    <2>3. x.ttl > 0
      BY <1>1, <2>1, <2>2
    <2>4. x.weight >= MinWeight
      BY <1>3, <2>3 DEF GoodSignal
    <2> QED BY <1>1, <2>1, <2>2, <2>4
  <1> QED BY <1>1, <1>2, <1>3

(* Each action keeps the invariant: emitting, ... *)
LEMMA EmitKeeps ==
    ASSUME NInv, NEW n \in Nodes, NEW s \in Signals, Emit(n, s)
    PROVE  NInv'
  <1> DEFINE f == Emission(s)
  <1>0. link \in Links /\ Good(link, handled, refused)
    BY DEF NInv, TypeOK, Links, AnyFrame
  <1>1. seen' \in [Nodes -> [Signals -> 0..DedupTicks]] /\ emitted' \subseteq Signals
    <2>1. DedupTicks \in 0..DedupTicks
      BY NetworkAssumption
    <2> QED BY <2>1 DEF Emit, NInv, TypeOK
  <1>2. UNCHANGED <<up, held, breaks, handled, refused, credit>>
    BY DEF Emit, history
  <1>3. link' \in Links /\ Good(link', handled, refused)
        /\ open' \in [Nodes -> [Signals \X Nodes -> Nat]]
    <2>1. CASE Blocked(n, f) # {}
      BY <1>0, <2>1 DEF Emit, NInv, TypeOK
    <2>2. CASE Blocked(n, f) = {}
      <3>1. PICK plan \in Plans(n, f, {}) :
                /\ open' = Decided(n, s, plan)
                /\ link' = Sent(link, n, Reached(link, n, plan), Hop(n, f))
        BY <2>2 DEF Emit
      <3>2. f \in SignalFrame /\ Origin[s] = n
        BY EmissionFacts DEF Emit
      <3>3. \A l \in Pairs : l[1] = n /\ l[2] \in Reached(link, n, plan)
               => Hop(n, f) \in SignalFrame /\ GoodSignal(l, Hop(n, f))
        <4> SUFFICES ASSUME NEW l \in Pairs, l[1] = n, l[2] \in Reached(link, n, plan)
                     PROVE  Hop(n, f) \in SignalFrame /\ GoodSignal(l, Hop(n, f))
          OBVIOUS
        <4>1. l[2] \in plan
          BY DEF Reached
        <4>2. {n, l[2]} \in Synapses /\ ~FloodDepthReached(f)
          BY <3>2, <4>1, PlanFacts
        <4> QED BY <2>2, <3>2, <4>2, EmissionGood
      <3>4. Hop(n, f) \in SignalFrame
        <4>1. f.ttl = Ttl[s] /\ f.trace = <<>> /\ Ttl[s] \in Nat /\ TraceCap \in Nat /\ TraceCap > 0
          BY EmissionFacts, NetworkAssumption
        <4>2. f.ttl >= 1 /\ Len(f.trace) < TraceCap
          BY <2>2, <4>1 DEF Blocked
        <4> QED BY <3>2, <4>2, HopFacts
      <3>5. link' \in Links /\ Good(link', handled, refused)
        BY <1>0, <3>1, <3>3, <3>4, SentGood
      <3>6. open' \in [Nodes -> [Signals \X Nodes -> Nat]]
        BY <3>1, DecidedFacts DEF NInv
      <3> QED BY <3>5, <3>6
    <2> QED BY <2>1, <2>2
  <1>4. TypeOK'
    BY <1>1, <1>2, <1>3 DEF NInv, TypeOK, Links, AnyFrame
  <1>5. Good(link', handled', refused') /\ HeldOK' /\ AckedKeepsWeight' /\ CreditIsTrue'
    BY <1>2, <1>3 DEF NInv, HeldOK, AckedKeepsWeight, CreditIsTrue
  <1> QED BY <1>4, <1>5 DEF NInv

(* ... reading a receipt, ... *)
LEMMA ReadReceiptKeeps ==
    ASSUME NInv, NEW n, NEW p, <<n, p>> \in Pairs, ReadReceipt(n, p)
    PROVE  NInv'
  <1> DEFINE r == First(n, p)
  <1>1. n \in Nodes /\ p \in Nodes /\ <<p, n>> \in Pairs
    BY DEF Pairs
  <1>2. link[<<p, n>>] # <<>> /\ r.kind = "receipt" /\ link' = Popped(n, p)
    BY DEF ReadReceipt, Incoming, First
  <1>3. /\ link' \in Links /\ Good(link', handled, refused)
        /\ r \in AnyFrame /\ GoodFrame(<<p, n>>, r, handled, refused)
    BY <1>1, <1>2, PoppedGood
  <1>4. r \in ReceiptFrame /\ GoodReceipt(<<p, n>>, r, handled, refused)
    BY <1>2, <1>3, KindFacts DEF GoodFrame
  <1>5. r.sig \in Signals /\ r.ok \in BOOLEAN /\ <<p, n>>[1] = p
    BY <1>4 DEF ReceiptFrame
  <1>6. UNCHANGED <<up, seen, held, emitted, breaks, handled, refused>>
    BY DEF ReadReceipt
  <1>7. CASE UNCHANGED <<open, credit>>
    BY <1>3, <1>6, <1>7 DEF NInv, TypeOK, Links, AnyFrame, HeldOK, AckedKeepsWeight, CreditIsTrue
  <1>8. ASSUME NEW m \in Matching(n, p, r.sig),
               open' = [open EXCEPT ![n][<<r.sig, m>>] = @ - 1],
               credit' = credit \cup {[node |-> n, sig |-> r.sig, peer |-> m, ok |-> r.ok]}
        PROVE  NInv'
    <2>1. m = p /\ open[n][<<r.sig, p>>] > 0
      BY <1>8 DEF Matching
    <2> DEFINE c == [node |-> n, sig |-> r.sig, peer |-> p, ok |-> r.ok]
    <2>2. open' \in [Nodes -> [Signals \X Nodes -> Nat]]
      <3>1. open[n] \in [Signals \X Nodes -> Nat] /\ <<r.sig, p>> \in Signals \X Nodes
        BY <1>1, <1>5 DEF NInv, TypeOK
      <3>2. open[n][<<r.sig, p>>] - 1 \in Nat
        BY <2>1, <3>1
      <3>3. open' = [open EXCEPT ![n] = [open[n] EXCEPT ![<<r.sig, p>>] = open[n][<<r.sig, p>>] - 1]]
        BY <1>8, <2>1
      <3> QED BY <1>1, <3>1, <3>2, <3>3 DEF NInv, TypeOK
    <2>3. /\ c \in [node : Nodes, sig : Signals, peer : Nodes, ok : BOOLEAN]
          /\ c.peer = p /\ c.sig = r.sig /\ c.ok = r.ok
      BY <1>1, <1>5
    <2>4. credit' = credit \cup {c}
      BY <1>8, <2>1
    <2>5. IF c.ok THEN <<c.peer, c.sig>> \in handled
          ELSE \E x \in refused : x.node = c.peer /\ x.sig = c.sig
      BY <1>4, <1>5, <2>3 DEF GoodReceipt
    <2> HIDE DEF c
    <2>6. CreditIsTrue'
      <3> SUFFICES ASSUME NEW y \in credit'
                   PROVE  IF y.ok THEN <<y.peer, y.sig>> \in handled'
                          ELSE \E x \in refused' : x.node = y.peer /\ x.sig = y.sig
        BY DEF CreditIsTrue
      <3>1. CASE y \in credit
        BY <1>6, <3>1 DEF CreditIsTrue, NInv
      <3>2. CASE y = c
        BY <1>6, <2>5, <3>2
      <3> QED BY <2>4, <3>1, <3>2
    <2>7. TypeOK'
      BY <1>3, <1>6, <2>2, <2>3, <2>4 DEF NInv, TypeOK, Links, AnyFrame
    <2> QED BY <1>3, <1>6, <2>6, <2>7 DEF NInv, HeldOK, AckedKeepsWeight
  <1> QED BY <1>7, <1>8 DEF ReadReceipt

(* ... dropping a signal, ... *)
LEMMA ReadDroppedKeeps ==
    ASSUME NInv, NEW n, NEW p, <<n, p>> \in Pairs, ReadDropped(n, p)
    PROVE  NInv'
  <1>1. <<p, n>> \in Pairs
    BY DEF Pairs
  <1>2. link[<<p, n>>] # <<>> /\ link' = Popped(n, p)
    BY DEF ReadDropped, Incoming
  <1>3. link' \in Links /\ Good(link', handled, refused)
    BY <1>1, <1>2, PoppedGood
  <1>4. UNCHANGED <<up, seen, held, open, emitted, breaks, handled, refused, credit>>
    BY DEF ReadDropped, history
  <1> QED BY <1>3, <1>4 DEF NInv, TypeOK, Links, AnyFrame, HeldOK, AckedKeepsWeight, CreditIsTrue

(* ... refusing one, ... *)
LEMMA ReadRefusedKeeps ==
    ASSUME NInv, NEW n, NEW p, <<n, p>> \in Pairs, ReadBlocked(n, p) \/ ReadShed(n, p)
    PROVE  NInv'
  <1> DEFINE f == Clamped(First(n, p))
             ch == Popped(n, p)
  <1>1. ReadNew(n, p) /\ UNCHANGED <<held, open, handled>>
    BY DEF ReadBlocked, ReadShed
  <1>2. /\ n \in Nodes /\ p \in Nodes /\ ch \in Links /\ Good(ch, handled, refused)
        /\ First(n, p) \in SignalFrame /\ GoodSignal(<<p, n>>, First(n, p)) /\ f.sig \in Signals
        /\ seen' \in [Nodes -> [Signals -> 0..DedupTicks]]
        /\ UNCHANGED <<up, emitted, breaks, credit>>
    BY <1>1, ReadNewFacts
  <1>3. <<p, n>> \in Pairs /\ <<p, n>>[2] = n
    BY DEF Pairs
  <1>4. PICK reason \in Blocked(n, f) \cup {"queue_full"} : Refuse(ch, n, f.sig, reason, {p})
    BY DEF ReadBlocked, ReadShed
  <1>5. reason \in Reasons /\ (f.sig \in Acked => reason # "below_threshold")
    BY <1>2, <1>3, <1>4, BlockedFacts DEF Reasons
  <1> HIDE DEF f, ch
  <1>6. /\ link' \in Links /\ Good(link', handled', refused')
        /\ refused' \subseteq [node : Nodes, sig : Signals, reason : Reasons]
        /\ refused \subseteq refused'
        /\ AckedKeepsWeight'
    BY <1>1, <1>2, <1>4, <1>5, RefuseFacts
  <1>7. CreditIsTrue'
    BY <1>1, <1>2, <1>6, CreditKept
  <1> QED BY <1>1, <1>2, <1>6, <1>7 DEF NInv, TypeOK, Links, AnyFrame, HeldOK

(* ... queueing one, ... *)
LEMMA ReadQueuedKeeps ==
    ASSUME NInv, NEW n, NEW p, <<n, p>> \in Pairs, ReadQueued(n, p)
    PROVE  NInv'
  <1> DEFINE f == Clamped(First(n, p))
             ch == Popped(n, p)
  <1>1. ReadNew(n, p) /\ Blocked(n, f) = {} /\ UNCHANGED <<open, handled>>
    BY DEF ReadQueued
  <1>2. /\ n \in Nodes /\ ch \in Links /\ Good(ch, handled, refused)
        /\ f \in SignalFrame /\ GoodHeld(n, f)
        /\ seen' \in [Nodes -> [Signals -> 0..DedupTicks]]
        /\ UNCHANGED <<up, emitted, breaks, credit>>
    BY <1>1, ReadNewFacts
  <1>3. \/ /\ held' = [held EXCEPT ![n] = @ \cup {f}]
           /\ link' = ch /\ refused' = refused
        \/ \E g \in held[n] : /\ held' = [held EXCEPT ![n] = (@ \ {g}) \cup {f}]
                              /\ Refuse(ch, n, g.sig, "queue_full", {})
    BY DEF ReadQueued
  <1> HIDE DEF f, ch
  <1>4. held' \in [Nodes -> SUBSET SignalFrame] /\ HeldOK'
    <2>1. \E old \in SUBSET held[n] : held' = [held EXCEPT ![n] = old \cup {f}]
      BY <1>3
    <2> QED BY <1>2, <2>1 DEF NInv, TypeOK, HeldOK
  <1>5. /\ link' \in Links /\ Good(link', handled', refused')
        /\ refused' \subseteq [node : Nodes, sig : Signals, reason : Reasons]
        /\ refused \subseteq refused'
        /\ AckedKeepsWeight'
    <2>1. CASE link' = ch /\ refused' = refused
      BY <1>1, <1>2, <2>1 DEF NInv, TypeOK, AckedKeepsWeight
    <2>2. ASSUME NEW g \in held[n], Refuse(ch, n, g.sig, "queue_full", {})
          PROVE  /\ link' \in Links /\ Good(link', handled', refused')
                 /\ refused' \subseteq [node : Nodes, sig : Signals, reason : Reasons]
                 /\ refused \subseteq refused'
                 /\ AckedKeepsWeight'
      <3>1. g.sig \in Signals
        BY <1>2 DEF NInv, TypeOK, SignalFrame
      <3>2. "queue_full" \in Reasons
        BY DEF Reasons
      <3> QED BY <1>1, <1>2, <2>2, <3>1, <3>2, RefuseFacts
    <2> QED BY <1>3, <2>1, <2>2
  <1>6. CreditIsTrue'
    BY <1>1, <1>2, <1>5, CreditKept
  <1> QED BY <1>1, <1>2, <1>4, <1>5, <1>6 DEF NInv, TypeOK, Links, AnyFrame

(* ... firing on arrival, ... *)
LEMMA ReadFiredKeeps ==
    ASSUME NInv, NEW n, NEW p, <<n, p>> \in Pairs, ReadFired(n, p)
    PROVE  NInv'
  <1> DEFINE f == Clamped(First(n, p))
             ch == Popped(n, p)
  <1>1. ReadNew(n, p) /\ Blocked(n, f) = {} /\ UNCHANGED held
    BY DEF ReadFired
  <1>2. /\ n \in Nodes /\ ch \in Links /\ Good(ch, handled, refused)
        /\ f \in SignalFrame /\ GoodHeld(n, f) /\ f.sig \in Signals
        /\ seen' \in [Nodes -> [Signals -> 0..DedupTicks]]
        /\ UNCHANGED <<up, emitted, breaks, credit>>
    BY <1>1, ReadNewFacts
  <1>3. PICK plan \in Plans(n, f, {p}) :
            \/ Refuse(ch, n, f.sig, "no_route", {p}) /\ UNCHANGED <<open, handled>>
            \/ Release(ch, n, f, plan)
    BY DEF ReadFired
  <1> HIDE DEF f, ch
  <1>4. /\ link' \in Links /\ Good(link', handled', refused')
        /\ refused' \subseteq [node : Nodes, sig : Signals, reason : Reasons]
        /\ refused \subseteq refused'
        /\ handled' \subseteq Nodes \X Signals /\ handled \subseteq handled'
        /\ open' \in [Nodes -> [Signals \X Nodes -> Nat]]
        /\ AckedKeepsWeight'
    <2>1. CASE Release(ch, n, f, plan)
      BY <1>2, <2>1, ReleaseFacts
    <2>2. CASE Refuse(ch, n, f.sig, "no_route", {p}) /\ UNCHANGED <<open, handled>>
      <3>1. "no_route" \in Reasons
        BY DEF Reasons
      <3>2. /\ link' \in Links /\ Good(link', handled', refused')
            /\ refused' \subseteq [node : Nodes, sig : Signals, reason : Reasons]
            /\ refused \subseteq refused'
            /\ AckedKeepsWeight'
        BY <1>2, <2>2, <3>1, RefuseFacts
      <3> QED BY <2>2, <3>2 DEF NInv, TypeOK
    <2> QED BY <1>3, <2>1, <2>2
  <1>5. CreditIsTrue'
    BY <1>2, <1>4, CreditKept
  <1> QED BY <1>1, <1>2, <1>4, <1>5 DEF NInv, TypeOK, Links, AnyFrame, HeldOK

(* ... firing from the queue ... *)
LEMMA FireKeeps ==
    ASSUME NInv, NEW n \in Nodes, Fire(n)
    PROVE  NInv'
  <1>1. PICK f \in held[n] :
            /\ held' = [held EXCEPT ![n] = @ \ {f}]
            /\ \E plan \in Plans(n, f, {f.trace[Len(f.trace)]}) : Release(link, n, f, plan)
    BY DEF Fire
  <1>2. UNCHANGED <<up, seen, emitted, breaks, credit>>
    BY DEF Fire
  <1>3. f \in SignalFrame /\ GoodHeld(n, f) /\ link \in Links /\ Good(link, handled, refused)
    BY DEF NInv, TypeOK, HeldOK, Links, AnyFrame
  <1>4. /\ link' \in Links /\ Good(link', handled', refused')
        /\ refused' \subseteq [node : Nodes, sig : Signals, reason : Reasons]
        /\ refused \subseteq refused'
        /\ handled' \subseteq Nodes \X Signals /\ handled \subseteq handled'
        /\ open' \in [Nodes -> [Signals \X Nodes -> Nat]]
        /\ AckedKeepsWeight'
    BY <1>1, <1>3, ReleaseFacts
  <1>5. CreditIsTrue'
    BY <1>2, <1>4, CreditKept
  <1>6. held' \in [Nodes -> SUBSET SignalFrame] /\ HeldOK'
    BY <1>1 DEF NInv, TypeOK, HeldOK
  <1> QED BY <1>2, <1>4, <1>5, <1>6 DEF NInv, TypeOK, Links, AnyFrame

(* ... and losing a session. *)
LEMMA BreakKeeps ==
    ASSUME NInv, NEW k \in Synapses, Break(k)
    PROVE  NInv'
  <1>1. /\ up' \subseteq Synapses /\ breaks' \in 0..MaxBreaks
        /\ UNCHANGED <<seen, held, open, emitted, handled, refused, credit>>
    BY NetworkAssumption DEF Break, history, NInv, TypeOK
  <1>2. \A l \in Pairs : link'[l] = link[l] \/ link'[l] = <<>>
    BY DEF Break
  <1>3. link' \in Links
    <2>1. <<>> \in Seq(AnyFrame)
      OBVIOUS
    <2>2. link \in Links
      BY DEF NInv, TypeOK, Links, AnyFrame
    <2> QED BY <2>1, <2>2 DEF Break, Links
  <1>4. Good(link', handled', refused')
    BY <1>1, <1>2 DEF NInv, Good
  <1> QED BY <1>1, <1>3, <1>4 DEF NInv, TypeOK, Links, AnyFrame, HeldOK, AckedKeepsWeight, CreditIsTrue

(* NInv is inductive. *)
LEMMA InvNext == NInv /\ [Next]_vars => NInv'
  <1> SUFFICES ASSUME NInv, [Next]_vars PROVE NInv'
    OBVIOUS
  <1>1. ASSUME NEW l \in Pairs, Read(l[1], l[2]) PROVE NInv'
    <2>1. <<l[1], l[2]>> \in Pairs
      BY DEF Pairs
    <2> QED BY <1>1, <2>1, ReadReceiptKeeps, ReadDroppedKeeps, ReadRefusedKeeps,
               ReadQueuedKeeps, ReadFiredKeeps DEF Read
  <1>2. CASE Tick
    <2>1. seen' \in [Nodes -> [Signals -> 0..DedupTicks]]
      <3>1. \A n \in Nodes, s \in Signals : seen[n][s] \in 0..DedupTicks
        BY DEF NInv, TypeOK
      <3>2. \A n \in Nodes, s \in Signals :
               (IF seen[n][s] = 0 THEN 0 ELSE seen[n][s] - 1) \in 0..DedupTicks
        <4>1. DedupTicks \in Nat
          BY NetworkAssumption
        <4>2. \A k \in 0..DedupTicks : (IF k = 0 THEN 0 ELSE k - 1) \in 0..DedupTicks
          BY <4>1
        <4> QED BY <3>1, <4>2
      <3> QED BY <1>2, <3>2 DEF Tick
    <2>2. UNCHANGED <<link, up, held, open, emitted, breaks, handled, refused, credit>>
      BY <1>2 DEF Tick, history
    <2> QED BY <2>1, <2>2 DEF NInv, TypeOK, HeldOK, AckedKeepsWeight, CreditIsTrue
  <1>3. ASSUME NEW k \in Synapses, Reconnect(k) PROVE NInv'
    <2>1. /\ up' \subseteq Synapses
          /\ UNCHANGED <<link, seen, held, open, emitted, breaks, handled, refused, credit>>
      BY <1>3 DEF Reconnect, history, NInv, TypeOK
    <2> QED BY <2>1 DEF NInv, TypeOK, HeldOK, AckedKeepsWeight, CreditIsTrue
  <1>4. CASE UNCHANGED vars
    BY <1>4 DEF vars, NInv, TypeOK, HeldOK, AckedKeepsWeight, CreditIsTrue
  <1> QED BY <1>1, <1>2, <1>3, <1>4, EmitKeeps, FireKeeps, BreakKeeps DEF Next

(* It holds at the start ... *)
LEMMA InvInit == Init => NInv
  <1> SUFFICES ASSUME Init PROVE NInv
    OBVIOUS
  <1>1. <<>> \in Seq(SignalFrame \cup ReceiptFrame) /\ 0 \in 0..DedupTicks /\ 0 \in 0..MaxBreaks
    BY NetworkAssumption
  <1>2. TypeOK
    BY <1>1 DEF Init, TypeOK
  <1>3. Good(link, handled, refused)
    BY DEF Init, Good
  <1> QED BY <1>2, <1>3 DEF NInv, Init, HeldOK, AckedKeepsWeight, CreditIsTrue

(* ... and always. *)
LEMMA InvHolds == Spec => []NInv
  BY InvInit, InvNext, PTL DEF Spec

-----------------------------------------------------------------------------
(* The results *)

(* Every signal on the wire is good, with its type. *)
LEMMA WireGood ==
    ASSUME NInv, NEW l \in Pairs, NEW f \in OnWire(l)
    PROVE  GoodSignal(l, f)
  <1>1. PICK i \in DOMAIN link[l] : link[l][i].kind = "signal" /\ f = link[l][i]
    BY DEF OnWire
  <1> QED BY <1>1 DEF NInv, Good, GoodFrame

(* The network is well typed. *)
THEOREM TypeCorrect == Spec => []TypeOK
  <1>1. NInv => TypeOK
    BY DEF NInv
  <1> QED BY <1>1, InvHolds, PTL

(* The trace of a signal under way is the simple path of synapses it took   *)
(* from its origin (check_propagable's "already visited" and Signal::hop):  *)
(* also when a dedup entry runs out while the signal travels, which leaves  *)
(* the trace as the only defence against loops.                             *)
THEOREM TracesArePaths == Spec => []TraceIsPath
  <1>1. NInv => TraceIsPath
    <2> SUFFICES ASSUME NInv PROVE TraceIsPath
      OBVIOUS
    <2>1. \A l \in Pairs : \A f \in OnWire(l) : IsPath(f, l[1])
      BY WireGood DEF GoodSignal
    <2>2. \A n \in Nodes : \A f \in held[n] : ~Visited(n, f) /\ IsPath(f, f.trace[Len(f.trace)])
      BY DEF NInv, HeldOK, GoodHeld
    <2> QED BY <2>1, <2>2 DEF TraceIsPath
  <1> QED BY <1>1, InvHolds, PTL

(* No signal goes further than its emitter's ttl, and no flood further than *)
(* max_hops (Signal::hop, clamp_inbound_headers, plan_forwarding).          *)
THEOREM TravelIsBounded == Spec => []TravelBounded
  <1>1. NInv => TravelBounded
    <2> SUFFICES ASSUME NInv PROVE TravelBounded
      OBVIOUS
    <2>1. \A l \in Pairs : \A f \in OnWire(l) : Bounded(f)
      BY WireGood DEF GoodSignal
    <2>2. \A n \in Nodes : \A f \in held[n] : Bounded(f)
      BY DEF NInv, HeldOK, GoodHeld
    <2> QED BY <2>1, <2>2 DEF TravelBounded
  <1> QED BY <1>1, InvHolds, PTL

(* An acknowledged signal is never refused for its weight on the way,       *)
(* however long the path and whatever the attenuation (attenuate_for_hop).  *)
THEOREM AckedWeightHolds == Spec => []AckedKeepsWeight
  <1>1. NInv => AckedKeepsWeight
    BY DEF NInv
  <1> QED BY <1>1, InvHolds, PTL

(* What a receipt teaches is true of the peer it is credited to             *)
(* (apply_receipt, send_receipt), through relays, refusals, evictions,      *)
(* repeated handling and broken sessions.                                   *)
THEOREM ReceiptsTellTheTruth == Spec => []CreditIsTrue
  <1>1. NInv => CreditIsTrue
    BY DEF NInv
  <1> QED BY <1>1, InvHolds, PTL
=============================================================================
