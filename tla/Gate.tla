-------------------------------- MODULE Gate --------------------------------
(***************************************************************************)
(* The activation gate of a node (ntl-core/src/activation.rs): the bounded *)
(* queue of signals waiting for the node to fire, the accumulated          *)
(* potential, the threshold that rises with load, and the refractory       *)
(* period.  Every operation of the gate is an operator from a gate value   *)
(* to the SET of its possible outcomes: the code is deterministic except   *)
(* for the two randomised activation functions, so these sets are almost   *)
(* always singletons.                                                      *)
(*                                                                         *)
(* Time is relative.  The code stores the instant a signal was enqueued    *)
(* and the instant the refractory period ends, and compares both with the  *)
(* clock; here a queue entry carries its age and the gate the remaining    *)
(* refractory time, and Aged is the passage of one unit.                   *)
(*                                                                         *)
(* Weights are natural numbers (a fixed-point reading of the f32 values)   *)
(* and potential is in units of weight * weight.  The threshold            *)
(* base * (1 + load) with load = n / MaxQueueDepth is kept as n, and the   *)
(* comparison with it is multiplied out.                                   *)
(*                                                                         *)
(* A definition whose name starts with Mut is a deliberately wrong variant *)
(* of the definition that follows it.  It is used only to show that a      *)
(* property depends on what the code does there.                           *)
(***************************************************************************)
EXTENDS Integers, Sequences, FiniteSets

CONSTANTS
    Signals,        \* signal identifiers, totally ordered (SignalId: Ord)
    Weight,         \* Weight[s]: the weight the signal arrived with
    Function,       \* activation_function: "step", "sigmoid" or "leaky"
    Policy,         \* overflow_policy
    BaseThreshold,  \* base_threshold
    MaxPotential,   \* max_potential
    Dynamic,        \* dynamic_threshold
    FireBatchSize,  \* fire_batch_size
    MaxQueueDepth,  \* max_queue_depth
    Refractory,     \* refractory_period, in clock units; 0 disables it
    Latency,        \* max_queue_latency, in clock units; 0 disables the guard
    AgeCap          \* ages are exact up to AgeCap, ordinal above it

(***************************************************************************)
(* What ActivationConfig::validate accepts.                                *)
(***************************************************************************)
ValidConfig ==
    /\ FireBatchSize >= 1
    /\ MaxQueueDepth >= 1
    /\ BaseThreshold > 0
    /\ MaxPotential >= BaseThreshold
    /\ Latency > 0 => Latency >= Refractory

ASSUME GateAssumption ==
    /\ Signals \subseteq Nat /\ IsFiniteSet(Signals)
    /\ Weight \in [Signals -> Nat]
    /\ Function \in {"step", "sigmoid", "leaky"}
    /\ Policy \in {"drop_lowest_weight", "drop_newest", "drop_oldest"}
    /\ Dynamic \in BOOLEAN
    /\ BaseThreshold \in Nat /\ MaxPotential \in Nat
    /\ FireBatchSize \in Nat /\ MaxQueueDepth \in Nat
    /\ Refractory \in Nat /\ Latency \in Nat /\ AgeCap \in Nat
    /\ AgeCap >= Latency
    /\ ValidConfig

-----------------------------------------------------------------------------
Entry == [id : Signals, age : Nat]

(* ActivationState: the mutable fields of the gate.  The counters that only *)
(* feed metrics (signals_dropped, overflow_events) are left out.            *)
GateState == [potential : 0..MaxPotential,
              load      : 0..MaxQueueDepth,
              refr      : 0..Refractory,
              queue     : Seq(Entry)]

(* ActivationSnapshot: what survives a restart. *)
Snapshot == [potential : 0..MaxPotential,
             load      : 0..MaxQueueDepth,
             refr      : 0..Refractory]

Fresh == [potential |-> 0, load |-> 0, refr |-> 0, queue |-> <<>>]

Ids(q) == {q[i].id : i \in DOMAIN q}

Distinct(q) == \A i, j \in DOMAIN q : q[i].id = q[j].id => i = j

(* The order in which fire() drains the queue: weight descending, then      *)
(* identifier ascending.                                                    *)
Before(a, b) ==
    \/ Weight[a.id] > Weight[b.id]
    \/ Weight[a.id] = Weight[b.id] /\ a.id < b.id

(* The sorted arrangement of a queue; Before is total on distinct ids, so   *)
(* there is exactly one.                                                    *)
MutSortings(q) == {q}

Sortings(q) ==
    LET entries == {q[i] : i \in DOMAIN q}
    IN  {s \in [1..Len(q) -> entries] :
            /\ \A x \in entries : \E i \in 1..Len(q) : s[i] = x
            /\ \A i, j \in 1..Len(q) : i < j => Before(s[i], s[j])}

-----------------------------------------------------------------------------
(* Conditions on a gate. *)

InRefractory(g) == g.refr > 0

MutIsStarving(g) ==
    Latency > 0 /\ g.queue # <<>> /\ \A i \in DOMAIN g.queue : g.queue[i].age >= Latency

IsStarving(g) ==
    Latency > 0 /\ \E i \in DOMAIN g.queue : g.queue[i].age >= Latency

Crosses(g) ==
    g.potential * MaxQueueDepth >= BaseThreshold * (MaxQueueDepth + g.load)

(* The verdicts evaluate() may return.  Sigmoid and leaky draw a random     *)
(* number; leaky is modelled with a leak rate strictly between 0 and 1.     *)
Evaluate(g) ==
    IF g.queue = <<>>
    THEN {FALSE}
    ELSE CASE Function = "step"    -> {Crosses(g)}
           [] Function = "leaky"   -> {Crosses(g), TRUE}
           [] Function = "sigmoid" -> {TRUE, FALSE}

-----------------------------------------------------------------------------
(* Overflow. *)

RemoveIndex(q, i) == SubSeq(q, 1, i - 1) \o SubSeq(q, i + 1, Len(q))

(* min_by_key over (enqueued_at, id): greatest age, then smallest id. *)
MutIsOldest(q, i) == i = 1

IsOldest(q, i) ==
    \A j \in DOMAIN q : \/ q[j].age < q[i].age
                        \/ q[j].age = q[i].age /\ q[i].id <= q[j].id

(* min_by over weight keeps the first of several minima. *)
IsWeakest(q, i) ==
    \A j \in DOMAIN q : \/ Weight[q[j].id] > Weight[q[i].id]
                        \/ Weight[q[j].id] = Weight[q[i].id] /\ i <= j

(* The queued positions a full queue gives up for arrival s; none when the  *)
(* arrival itself is the drop.                                              *)
MutEvictable(q, s) ==
    {i \in DOMAIN q :
        \/ Policy = "drop_oldest" /\ IsOldest(q, i)
        \/ Policy = "drop_lowest_weight" /\ IsWeakest(q, i)}

Evictable(q, s) ==
    {i \in DOMAIN q :
        \/ Policy = "drop_oldest" /\ IsOldest(q, i)
        \/ /\ Policy = "drop_lowest_weight"
           /\ IsWeakest(q, i)
           /\ Weight[q[i].id] < Weight[s]}

(* enqueue(): the new queue and the set of dropped ids (empty or one id). *)
MutEnqueue(q, s) ==
    LET entry == [id |-> s, age |-> 0]
    IN  IF Len(q) < MaxQueueDepth
        THEN {[queue |-> Append(q, entry), dropped |-> {}]}
        ELSE IF Evictable(q, s) = {}
        THEN {[queue |-> q, dropped |-> {s}]}
        ELSE {[queue |-> RemoveIndex(q, i), dropped |-> {q[i].id}]
                : i \in Evictable(q, s)}

Enqueue(q, s) ==
    LET entry == [id |-> s, age |-> 0]
    IN  IF Len(q) < MaxQueueDepth
        THEN {[queue |-> Append(q, entry), dropped |-> {}]}
        ELSE IF Evictable(q, s) = {}
        THEN {[queue |-> q, dropped |-> {s}]}
        ELSE {[queue |-> Append(RemoveIndex(q, i), entry), dropped |-> {q[i].id}]
                : i \in Evictable(q, s)}

-----------------------------------------------------------------------------
(* Firing: an outcome is the new gate, the drained batch in processing      *)
(* order and the dropped ids.                                               *)

Hold(g, dropped) == {[gate |-> g, fired |-> <<>>, dropped |-> dropped]}

Take(q) == IF FireBatchSize < Len(q) THEN FireBatchSize ELSE Len(q)

Fire(g, dropped) ==
    {[gate    |-> [g EXCEPT !.potential = 0,
                            !.refr = Refractory,
                            !.queue = SubSeq(s, Take(g.queue) + 1, Len(s))],
      fired   |-> SubSeq(s, 1, Take(g.queue)),
      dropped |-> dropped] : s \in Sortings(g.queue)}

(* The gate after admit() has added the contribution, enqueued and          *)
(* recomputed the threshold, before it decides whether to fire.             *)
MutCharged(g, contribution, queue) ==
    [g EXCEPT !.potential = @ + contribution,
              !.queue = queue,
              !.load  = IF Dynamic THEN Len(queue) ELSE @]

Charged(g, contribution, queue) ==
    [g EXCEPT !.potential = IF @ + contribution < MaxPotential
                            THEN @ + contribution ELSE MaxPotential,
              !.queue = queue,
              !.load  = IF Dynamic THEN Len(queue) ELSE @]

MutDecide(g, dropped) ==
    UNION {IF fires \/ IsStarving(g) THEN Fire(g, dropped) ELSE Hold(g, dropped)
              : fires \in Evaluate(g)}

Decide(g, dropped) ==
    IF InRefractory(g)
    THEN Hold(g, dropped)
    ELSE UNION {IF fires \/ IsStarving(g) THEN Fire(g, dropped)
                                          ELSE Hold(g, dropped)
                  : fires \in Evaluate(g)}

(* admit() *)
Admit(g, s, synapseWeight) ==
    UNION {Decide(Charged(g, Weight[s] * synapseWeight, e.queue), e.dropped)
              : e \in Enqueue(g.queue, s)}

(* drain_if_starving() *)
MutNeverDrain(g) == Hold(g, {})

DrainIfStarving(g) ==
    IF InRefractory(g) \/ ~IsStarving(g) THEN Hold(g, {}) ELSE Fire(g, {})

(* drain_batch() *)
DrainBatch(g) == IF g.queue = <<>> THEN Hold(g, {}) ELSE Fire(g, {})

(* adjust_for_load(): the measured load in units of 1 / MaxQueueDepth. *)
AdjustForLoad(g, n) == IF Dynamic THEN [g EXCEPT !.load = n] ELSE g

(* snapshot() and restore(): the queue is not durable. *)
Snap(g) == [potential |-> g.potential, load |-> g.load, refr |-> g.refr]

Restore(snap) ==
    [potential |-> snap.potential, load |-> snap.load, refr |-> snap.refr,
     queue |-> <<>>]

-----------------------------------------------------------------------------
(* One unit of time passes.  Beyond AgeCap only the order of ages matters   *)
(* (to drop_oldest), so they are replaced by their rank.                    *)
OlderAges(q, a) == {n \in AgeCap..a : \E i \in DOMAIN q : q[i].age = n}

AgeNext(q, a) ==
    IF a < AgeCap THEN a + 1 ELSE AgeCap + Cardinality(OlderAges(q, a))

Less(n) == IF n > 0 THEN n - 1 ELSE 0

Aged(g) ==
    [g EXCEPT !.refr = Less(@),
              !.queue = [i \in 1..Len(g.queue) |->
                            [id  |-> g.queue[i].id,
                             age |-> AgeNext(g.queue, g.queue[i].age)]]]

=============================================================================
