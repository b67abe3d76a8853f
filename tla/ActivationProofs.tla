-------------------------- MODULE ActivationProofs --------------------------
(***************************************************************************)
(* Proofs about Activation for every configuration validate() accepts:     *)
(* type correctness, conservation of signals, the order of drains, the     *)
(* overflow policy and, for a batch as large as the queue, the bound on    *)
(* queue latency, under every use of the gate's interface; the spacing of  *)
(* fires under the runtime's.                                              *)
(***************************************************************************)
EXTENDS Activation, GateProofs

(* What every operation of the interface keeps: no signal lost or doubled.  *)
Kept == TypeOK /\ NoSignalLost

(* The refractory countdown of the gate and of the snapshot agree with the  *)
(* history of fires.  drain_batch() and reset() do not respect it, the      *)
(* operations the runtime uses do.                                          *)
Pacing ==
    /\ ~amnesia => gate.refr = Refractory - sinceFire
    /\ ~unsaved => saved.refr = gate.refr

IInv == Kept /\ Pacing

(* Recording an outcome that accounts for every signal keeps them all.      *)
LEMMA RecordKept ==
    ASSUME Kept, NEW came \in SUBSET Signals,
           NEW o, GoodGate(o.gate), o.fired \in Seq(Entry),
           Accounts(Ids(gate.queue) \cup came, o), Record(o, came),
           sincePoll' \in 0..PollEvery
    PROVE  Kept'
  <1>1. TypeOK'
    <2>1. gate' \in GateState
      BY DEF Record, GoodGate
    <2>2. fate' \in [Signals -> Fates]
      BY DEF Record, Kept, TypeOK, Fates
    <2>3. sinceFire' \in 0..Refractory /\ unsaved' \in BOOLEAN /\ amnesia' \in BOOLEAN
      <3>1. Refractory \in Nat
        BY GateAssumption
      <3>2. CASE o.fired = <<>>
        BY <3>2 DEF Record, Kept, TypeOK
      <3>3. CASE o.fired # <<>>
        <4>1. sinceFire' = 0 /\ unsaved' = TRUE /\ amnesia' = FALSE
          BY <3>3 DEF Record
        <4>2. 0 \in 0..Refractory
          BY <3>1
        <4> QED BY <4>1, <4>2, Zenon
      <3> QED BY <3>2, <3>3
    <2> QED BY <2>1, <2>2, <2>3 DEF TypeOK, Record, Kept
  <1>2. NoSignalLost'
    <2>1. Ids(o.gate.queue) \subseteq Signals
      BY DEF Accounts, Kept, NoSignalLost
    <2>2. ASSUME NEW s \in Signals
          PROVE  fate'[s] = "queued" <=> s \in Ids(o.gate.queue)
      <3>1. fate'[s] = IF s \in Ids(o.fired) THEN "fired"
                       ELSE IF s \in o.dropped THEN "dropped"
                       ELSE IF s \in came THEN "queued"
                       ELSE fate[s]
        BY DEF Record
      <3>2. fate[s] = "queued" <=> s \in Ids(gate.queue)
        BY DEF Kept, NoSignalLost
      <3> QED BY <3>1, <3>2 DEF Accounts
    <2>3. Ids(gate'.queue) = {s \in Signals : fate'[s] = "queued"}
      BY <2>1, <2>2 DEF Record
    <2> QED BY <2>3 DEF NoSignalLost, Record, GoodGate
  <1> QED BY <1>1, <1>2 DEF Kept

(* A gate that keeps its signals is one the lemmas about operations apply   *)
(* to, and an arrival is not queued yet.                                    *)
LEMMA KeptGate ==
    ASSUME Kept
    PROVE  GoodGate(gate) /\ \A s \in Signals : fate[s] = "new" => s \notin Ids(gate.queue)
  BY DEF GoodGate, Kept, TypeOK, NoSignalLost

(* Losing the queue, to a crash or a reset, is recorded as such.            *)
LEMMA QueueLost ==
    ASSUME Kept, gate' \in GateState, gate'.queue = <<>>,
           fate' = [s \in Signals |-> IF fate[s] = "queued" THEN "lost" ELSE fate[s]]
    PROVE  fate' \in [Signals -> Fates] /\ NoSignalLost'
  <1>1. fate' \in [Signals -> Fates]
    BY DEF Kept, TypeOK, Fates
  <1>2. Ids(gate'.queue) = {} /\ Distinct(gate'.queue) /\ Len(gate'.queue) = 0
    BY DEF Ids, Distinct
  <1>3. {s \in Signals : fate'[s] = "queued"} = {}
    OBVIOUS
  <1> QED BY <1>1, <1>2, <1>3, GateAssumption DEF NoSignalLost

(* The countdown in the snapshot runs with the clock.                       *)
LEMMA TickSaved ==
    ASSUME Kept, Tick
    PROVE  saved' \in Snapshot /\ saved'.refr = Less(saved.refr)
  <1>1. saved' = [saved EXCEPT !.refr = Less(saved.refr)] /\ saved \in Snapshot
    BY DEF Tick, Kept, TypeOK
  <1>2. Less(saved.refr) \in 0..Refractory
    BY <1>1, GateAssumption DEF Less, Snapshot
  <1> QED BY <1>1, <1>2 DEF Snapshot

(* The three kinds of step a fire can be part of.                           *)
LEMMA OfferOutcome ==
    ASSUME Kept, NEW s \in Signals, NEW w \in SynapseWeights, Offer(s, w)
    PROVE  \E o : /\ Record(o, {s}) /\ sincePoll' = sincePoll
                  /\ GoodGate(o.gate) /\ o.fired \in Seq(Entry)
                  /\ Accounts(Ids(gate.queue) \cup {s}, o)
                  /\ Paces(gate, o) /\ KeepsAges(gate, o) /\ Empties(o) /\ Heaviest(o)
                  /\ Spares(gate.queue, s, o.dropped)
  <1>1. PICK o \in Admit(gate, s, w) : Record(o, {s})
    BY DEF Offer
  <1>2. GoodGate(gate) /\ s \notin Ids(gate.queue)
    BY KeptGate DEF Offer
  <1>3. w \in Nat
    BY ActivationAssumption
  <1>4. /\ GoodGate(o.gate) /\ o.fired \in Seq(Entry)
        /\ Accounts(Ids(gate.queue) \cup {s}, o)
        /\ Paces(gate, o) /\ KeepsAges(gate, o) /\ Empties(o) /\ Heaviest(o)
        /\ Spares(gate.queue, s, o.dropped)
    BY <1>2, <1>3, AdmitFacts
  <1>5. sincePoll' = sincePoll
    BY DEF Offer
  <1> QED BY <1>1, <1>4, <1>5

(* A poll that releases nothing found the gate refractory or nobody         *)
(* starving.                                                                *)
LEMMA PollOutcome ==
    ASSUME Kept, Poll
    PROVE  \E o : /\ Record(o, {}) /\ sincePoll' = 0
                  /\ Sound(gate, o) /\ o.dropped = {}
                  /\ Accounts(Ids(gate.queue) \cup {}, o)
                  /\ o.fired = <<>> => InRefractory(gate) \/ ~IsStarving(gate)
  <1>1. PICK o \in DrainIfStarving(gate) : Record(o, {})
    BY DEF Poll
  <1>2. /\ Sound(gate, o) /\ o.dropped = {}
        /\ o.fired = <<>> => InRefractory(gate) \/ ~IsStarving(gate)
    BY KeptGate, DrainIfStarvingFacts
  <1>3. Accounts(Ids(gate.queue) \cup {}, o)
    BY <1>2 DEF Sound, Accounts
  <1>4. sincePoll' = 0
    BY DEF Poll
  <1> QED BY <1>1, <1>2, <1>3, <1>4

(* drain_batch() splits the queue, refractory or not.                       *)
LEMMA DrainOutcome ==
    ASSUME Kept, Drain
    PROVE  \E o : /\ Record(o, {}) /\ sincePoll' = sincePoll
                  /\ Splits(gate, {}, o)
                  /\ Accounts(Ids(gate.queue) \cup {}, o)
  <1>1. PICK o \in DrainBatch(gate) : Record(o, {})
    BY DEF Drain
  <1>2. Splits(gate, {}, o)
    BY KeptGate, DrainBatchFacts DEF Drain
  <1>3. Accounts(Ids(gate.queue) \cup {}, o)
    BY <1>2 DEF Splits, Accounts
  <1>4. sincePoll' = sincePoll
    BY DEF Drain
  <1> QED BY <1>1, <1>2, <1>3, <1>4

(* Every operation of the interface keeps the signals it is given.          *)
LEMMA StepKept ==
    ASSUME Kept, [ApiNext]_vars
    PROVE  Kept'
  <1>0. GoodGate(gate)
    BY KeptGate
  <1>p. sincePoll \in 0..PollEvery /\ 0 \in 0..PollEvery /\ {} \in SUBSET Signals
    BY ActivationAssumption DEF Kept, TypeOK
  <1>1. ASSUME NEW s \in Signals, NEW w \in SynapseWeights, Offer(s, w)
        PROVE  Kept'
    <2>1. PICK o : /\ Record(o, {s}) /\ sincePoll' = sincePoll
                   /\ GoodGate(o.gate) /\ o.fired \in Seq(Entry)
                   /\ Accounts(Ids(gate.queue) \cup {s}, o)
      BY <1>1, OfferOutcome
    <2>2. {s} \in SUBSET Signals
      OBVIOUS
    <2> QED BY <2>1, <2>2, <1>p, RecordKept
  <1>2. CASE Poll
    <2>1. PICK o : /\ Record(o, {}) /\ sincePoll' = 0 /\ Sound(gate, o)
                   /\ Accounts(Ids(gate.queue) \cup {}, o)
      BY <1>2, PollOutcome
    <2>2. GoodGate(o.gate) /\ o.fired \in Seq(Entry)
      BY <2>1 DEF Sound
    <2> QED BY <2>1, <2>2, <1>p, RecordKept
  <1>3. CASE Tick
    <2>1. GoodGate(gate') /\ Ids(gate'.queue) = Ids(gate.queue)
      BY <1>0, <1>3, AgedFacts DEF Tick
    <2>2. saved' \in Snapshot
      BY <1>3, TickSaved
    <2>3. TypeOK'
      <3>1. sincePoll' \in 0..PollEvery /\ sinceFire' \in 0..Refractory
        <4>1. sincePoll \in 0..PollEvery /\ sinceFire \in 0..Refractory
          BY DEF Kept, TypeOK
        <4>2. /\ sincePoll < PollEvery /\ sincePoll' = sincePoll + 1
              /\ sinceFire' = IF sinceFire < Refractory THEN sinceFire + 1 ELSE sinceFire
          BY <1>3 DEF Tick
        <4> QED BY <4>1, <4>2, GateAssumption, ActivationAssumption
      <3> QED BY <1>3, <2>1, <2>2, <3>1 DEF Tick, Kept, TypeOK, GoodGate
    <2>4. NoSignalLost'
      BY <1>3, <2>1 DEF Tick, Kept, NoSignalLost, GoodGate
    <2> QED BY <2>3, <2>4 DEF Kept
  <1>4. CASE Checkpoint
    <2>1. saved' \in Snapshot
      BY <1>4 DEF Checkpoint, Snap, Kept, TypeOK, GateState, Snapshot
    <2> QED BY <1>4, <2>1 DEF Checkpoint, Kept, TypeOK, NoSignalLost
  <1>5. CASE Crash
    <2>1. gate' \in GateState /\ gate'.queue = <<>>
      BY <1>5 DEF Crash, Restore, Kept, TypeOK, GateState, Snapshot
    <2>2. fate' \in [Signals -> Fates] /\ NoSignalLost'
      BY <1>5, <2>1, QueueLost DEF Crash
    <2> QED BY <1>5, <2>1, <2>2 DEF Crash, Kept, TypeOK
  <1>6. ASSUME NEW s \in Signals, Renew(s)
        PROVE  Kept'
    <2>1. TypeOK'
      BY <1>6 DEF Renew, Kept, TypeOK, Fates
    <2>2. {t \in Signals : fate'[t] = "queued"} = {t \in Signals : fate[t] = "queued"}
      BY <1>6 DEF Renew, Kept, TypeOK
    <2>3. NoSignalLost'
      BY <1>6, <2>2 DEF Renew, Kept, NoSignalLost
    <2> QED BY <2>1, <2>3 DEF Kept
  <1>7. CASE Drain
    <2>1. PICK o : /\ Record(o, {}) /\ sincePoll' = sincePoll /\ Splits(gate, {}, o)
                   /\ Accounts(Ids(gate.queue) \cup {}, o)
      BY <1>7, DrainOutcome
    <2>2. GoodGate(o.gate) /\ o.fired \in Seq(Entry)
      BY <2>1 DEF Splits
    <2> QED BY <2>1, <2>2, <1>p, RecordKept
  <1>8. ASSUME NEW n \in 0..MaxQueueDepth, Adjust(n)
        PROVE  Kept'
    <2>1. gate' \in GateState /\ gate'.queue = gate.queue
      BY <1>8 DEF Adjust, AdjustForLoad, Kept, TypeOK, GateState
    <2> QED BY <1>8, <2>1 DEF Adjust, Kept, TypeOK, NoSignalLost
  <1>9. CASE Reset
    <2>1. gate' \in GateState /\ gate'.queue = <<>>
      BY <1>9, GateAssumption DEF Reset, Fresh, GateState
    <2>2. fate' \in [Signals -> Fates] /\ NoSignalLost'
      BY <1>9, <2>1, QueueLost DEF Reset
    <2> QED BY <1>9, <2>1, <2>2 DEF Reset, Kept, TypeOK
  <1>10. CASE UNCHANGED vars
    BY <1>10 DEF vars, Kept, TypeOK, NoSignalLost
  <1> QED BY <1>1, <1>2, <1>3, <1>4, <1>5, <1>6, <1>7, <1>8, <1>9, <1>10 DEF ApiNext, Next

(* The runtime uses part of the interface.                                  *)
LEMMA PartOfApi == Next => ApiNext
  BY DEF ApiNext

(* Recording an outcome of an operation that respects the refractory period *)
(* keeps the countdown right.                                               *)
LEMMA RecordPacing ==
    ASSUME IInv, NEW o, NEW came, Record(o, came), Paces(gate, o)
    PROVE  Pacing'
  BY GateAssumption DEF Record, Pacing, IInv, Kept, TypeOK, Paces

(* Every step of the runtime keeps the countdown right.                     *)
LEMMA StepPacing ==
    ASSUME IInv, [Next]_vars
    PROVE  Pacing'
  <1>0. Kept
    BY DEF IInv
  <1>1. ASSUME NEW s \in Signals, NEW w \in SynapseWeights, Offer(s, w)
        PROVE  Pacing'
    <2>1. PICK o : Record(o, {s}) /\ Paces(gate, o)
      BY <1>0, <1>1, OfferOutcome
    <2> QED BY <2>1, RecordPacing
  <1>2. CASE Poll
    <2>1. PICK o : Record(o, {}) /\ Paces(gate, o)
      BY <1>0, <1>2, PollOutcome DEF Sound
    <2> QED BY <2>1, RecordPacing
  <1>3. CASE Tick
    <2>1. gate'.refr = Less(gate.refr)
      BY <1>0, <1>3, KeptGate, AgedFacts DEF Tick
    <2>2. saved'.refr = Less(saved.refr)
      BY <1>0, <1>3, TickSaved
    <2>3. /\ sinceFire \in 0..Refractory /\ gate.refr \in 0..Refractory
          /\ sinceFire' = IF sinceFire < Refractory THEN sinceFire + 1 ELSE sinceFire
      BY <1>3 DEF Tick, IInv, Kept, TypeOK, GateState
    <2>4. gate.refr = Refractory - sinceFire => gate'.refr = Refractory - sinceFire'
      BY <2>1, <2>3, GateAssumption DEF Less
    <2>5. saved.refr = gate.refr => saved'.refr = gate'.refr
      BY <2>1, <2>2
    <2>6. unsaved' = unsaved /\ amnesia' = amnesia
      BY <1>3 DEF Tick
    <2> QED BY <2>4, <2>5, <2>6 DEF IInv, Pacing
  <1>4. CASE Checkpoint
    BY <1>4 DEF Checkpoint, Snap, IInv, Pacing
  <1>5. CASE Crash
    <2>1. gate'.refr = saved.refr
      BY <1>5 DEF Crash, Restore
    <2> QED BY <1>5, <2>1 DEF Crash, IInv, Pacing, Kept, TypeOK
  <1>6. ASSUME NEW s \in Signals, Renew(s)
        PROVE  Pacing'
    BY <1>6 DEF Renew, IInv, Pacing
  <1>7. CASE UNCHANGED vars
    BY <1>7 DEF vars, IInv, Pacing
  <1> QED BY <1>1, <1>2, <1>3, <1>4, <1>5, <1>6, <1>7 DEF Next

(* The initial state satisfies the invariant.                               *)
LEMMA InitInv == Init => IInv
  <1> SUFFICES ASSUME Init PROVE IInv
    OBVIOUS
  <1>1. gate \in GateState /\ saved \in Snapshot
    BY GateAssumption DEF Init, Fresh, Snap, GateState, Snapshot
  <1>2. TypeOK
    <2>1. 0 \in 0..PollEvery /\ Refractory \in 0..Refractory
      BY GateAssumption, ActivationAssumption
    <2>2. [s \in Signals |-> "new"] \in [Signals -> Fates]
      BY DEF Fates
    <2> QED BY <1>1, <2>1, <2>2 DEF Init, TypeOK
  <1>3. NoSignalLost
    BY GateAssumption DEF Init, NoSignalLost, Fresh, Ids, Distinct
  <1>4. Pacing
    BY GateAssumption DEF Init, Pacing, Fresh, Snap
  <1> QED BY <1>2, <1>3, <1>4 DEF IInv, Kept

(* The interface keeps every signal, whoever uses it and in what order.     *)
LEMMA ApiInvariance == ApiSpec => []Kept
  <1>1. Init => Kept
    BY InitInv DEF IInv
  <1> QED BY <1>1, StepKept, PTL DEF ApiSpec

(* The runtime's use of it is one of them.                                  *)
LEMMA RuntimeUsesApi == Spec => ApiSpec
  BY PartOfApi, PTL DEF Spec, ApiSpec

(* The strengthened invariant holds in every reachable state.               *)
LEMMA Invariance == Spec => []IInv
  <1>1. IInv /\ [Next]_vars => IInv'
    <2>1. IInv /\ [Next]_vars => Kept'
      BY StepKept, PartOfApi DEF IInv
    <2> QED BY <2>1, StepPacing DEF IInv
  <1> QED BY <1>1, InitInv, PTL DEF Spec

(* The gate's state stays within its declared bounds under every use of its *)
(* interface.                                                               *)
THEOREM TypeCorrect == ApiSpec => []TypeOK
  BY ApiInvariance, PTL DEF Kept

(* No signal admitted to the gate is ever lost or doubled, and the queue    *)
(* bound holds, for every configuration validate() accepts and every        *)
(* sequence of calls.                                                       *)
THEOREM Conservation == ApiSpec => []NoSignalLost
  BY ApiInvariance, PTL DEF Kept

-----------------------------------------------------------------------------
(* A signal fires only in a step whose outcome released a batch, and the    *)
(* runtime's operations release one only outside the refractory period.     *)
LEMMA StepSpacing ==
    ASSUME IInv, Next, NEW s \in Signals, fate[s] # "fired", fate'[s] = "fired"
    PROVE  sinceFire = Refractory \/ amnesia
  <1>0. Kept
    BY DEF IInv
  <1>1. ASSUME NEW o, NEW came, Record(o, came), Paces(gate, o)
        PROVE  sinceFire = Refractory \/ amnesia
    <2>1. s \in Ids(o.fired)
      BY <1>1 DEF Record
    <2>2. o.fired # <<>>
      BY <2>1 DEF Ids
    <2>3. ~(gate.refr > 0) /\ gate.refr \in 0..Refractory /\ sinceFire \in 0..Refractory
      BY <1>0, <1>1, <2>2 DEF Paces, InRefractory, Kept, TypeOK, GateState
    <2>4. ~amnesia => gate.refr = Refractory - sinceFire
      BY DEF IInv, Pacing
    <2>5. gate.refr = Refractory - sinceFire => sinceFire = Refractory
      BY <2>3, GateAssumption
    <2> QED BY <2>4, <2>5
  <1>2. ASSUME NEW t \in Signals, NEW w \in SynapseWeights, Offer(t, w)
        PROVE  sinceFire = Refractory \/ amnesia
    <2>1. PICK o : Record(o, {t}) /\ Paces(gate, o)
      BY <1>0, <1>2, OfferOutcome
    <2> QED BY <1>1, <2>1
  <1>3. ASSUME Poll PROVE sinceFire = Refractory \/ amnesia
    <2>1. PICK o : Record(o, {}) /\ Paces(gate, o)
      BY <1>0, <1>3, PollOutcome DEF Sound
    <2> QED BY <1>1, <2>1
  <1>4. ~Tick /\ ~Checkpoint
    BY DEF Tick, Checkpoint
  <1>5. ~Crash
    BY DEF Crash
  <1>6. \A t \in Signals : ~Renew(t)
    BY <1>0 DEF Renew, Kept, TypeOK
  <1> QED BY <1>2, <1>3, <1>4, <1>5, <1>6 DEF Next

(* Fires are a refractory period apart, restarts included, unless a crash   *)
(* lost a fire no checkpoint had recorded.                                  *)
THEOREM Spacing == Spec => FireSpacing
  <1> DEFINE A == (\E s \in Signals : fate[s] # "fired" /\ fate'[s] = "fired")
                    => sinceFire = Refractory \/ amnesia
  <1>1. IInv /\ [Next]_vars => [A]_vars
    BY StepSpacing
  <1>2. Spec => [][A]_vars
    BY <1>1, Invariance, PTL DEF Spec
  <1> QED BY <1>2 DEF FireSpacing

-----------------------------------------------------------------------------
(* A signal that fires was released by an outcome that left behind nothing  *)
(* that goes before it.                                                     *)
LEMMA StepHeaviest ==
    ASSUME Kept, ApiNext, NEW s \in Signals, fate[s] # "fired", fate'[s] = "fired",
           NEW i \in DOMAIN gate'.queue
    PROVE  Before([id |-> s], gate'.queue[i])
  <1>1. ASSUME NEW o, NEW came, Record(o, came), Heaviest(o)
        PROVE  Before([id |-> s], gate'.queue[i])
    <2>1. s \in Ids(o.fired) /\ gate' = o.gate
      BY <1>1 DEF Record
    <2>2. PICK k \in DOMAIN o.fired : o.fired[k].id = s
      BY <2>1 DEF Ids
    <2>3. Before(o.fired[k], gate'.queue[i])
      BY <1>1, <2>1, <2>2 DEF Heaviest
    <2> QED BY <2>2, <2>3 DEF Before
  <1>2. ASSUME NEW t \in Signals, NEW w \in SynapseWeights, Offer(t, w)
        PROVE  Before([id |-> s], gate'.queue[i])
    <2>1. PICK o : Record(o, {t}) /\ Heaviest(o)
      BY <1>2, OfferOutcome
    <2> QED BY <1>1, <2>1
  <1>3. ASSUME Poll PROVE Before([id |-> s], gate'.queue[i])
    <2>1. PICK o : Record(o, {}) /\ Heaviest(o)
      BY <1>3, PollOutcome DEF Sound
    <2> QED BY <1>1, <2>1
  <1>4. ASSUME Drain PROVE Before([id |-> s], gate'.queue[i])
    <2>1. PICK o : Record(o, {}) /\ Heaviest(o)
      BY <1>4, DrainOutcome DEF Splits
    <2> QED BY <1>1, <2>1
  <1>5. ~Tick /\ ~Checkpoint /\ \A n \in 0..MaxQueueDepth : ~Adjust(n)
    BY DEF Tick, Checkpoint, Adjust
  <1>6. ~Crash /\ ~Reset
    BY DEF Crash, Reset
  <1>7. \A t \in Signals : ~Renew(t)
    BY DEF Renew, Kept, TypeOK
  <1> QED BY <1>2, <1>3, <1>4, <1>5, <1>6, <1>7 DEF ApiNext, Next

(* Whatever drains the queue, an arrival, a poll or drain_batch(), takes    *)
(* the heaviest first and leaves nothing that should have gone before.      *)
THEOREM DrainsInOrder == ApiSpec => HeaviestFirst
  <1> DEFINE A == \A s \in Signals :
                     fate[s] # "fired" /\ fate'[s] = "fired" =>
                        \A i \in DOMAIN gate'.queue :
                           Before([id |-> s], gate'.queue[i])
  <1>1. Kept /\ [ApiNext]_vars => [A]_vars
    BY StepHeaviest
  <1>2. ApiSpec => [][A]_vars
    BY <1>1, ApiInvariance, PTL DEF ApiSpec
  <1> QED BY <1>2 DEF HeaviestFirst

(* What the policy allows a step to drop. *)
Sacrifice(s) ==
    \A i \in DOMAIN gate.queue :
       LET kept == gate.queue[i].id IN
       /\ Policy = "drop_lowest_weight" =>
             /\ Weight[s] <= Weight[kept]
             /\ fate[s] = "queued" =>
                   \A t \in Signals : fate[t] = "new" /\ fate'[t] # "new"
                                         => Weight[s] < Weight[t]
       /\ Policy = "drop_oldest" =>
             \A k \in DOMAIN gate.queue :
                gate.queue[k].id = s => gate.queue[i].age <= gate.queue[k].age

(* A signal is dropped only when an arrival finds the queue full, and then  *)
(* it is the one the policy names.                                          *)
LEMMA StepSacrifice ==
    ASSUME Kept, ApiNext, NEW s \in Signals, fate[s] # "dropped", fate'[s] = "dropped"
    PROVE  Sacrifice(s)
  <1>1. ASSUME NEW t \in Signals, NEW w \in SynapseWeights, Offer(t, w)
        PROVE  Sacrifice(s)
    <2>1. PICK o : /\ Record(o, {t}) /\ Spares(gate.queue, t, o.dropped)
                   /\ Accounts(Ids(gate.queue) \cup {t}, o)
      BY <1>1, OfferOutcome
    <2>2. s \in o.dropped
      BY <2>1 DEF Record
    <2>3. fate[t] = "new"
      BY <1>1 DEF Offer
    <2>4. ASSUME NEW u \in Signals, fate[u] = "new", fate'[u] # "new" PROVE u = t
      <3>1. u \notin Ids(gate.queue)
        BY <2>4, KeptGate
      <3>2. u # t => u \notin Ids(o.fired) /\ u \notin o.dropped
        BY <2>1, <3>1 DEF Accounts
      <3>3. u # t => fate'[u] = fate[u]
        BY <2>1, <3>2 DEF Record
      <3> QED BY <2>4, <3>3
    <2> SUFFICES ASSUME NEW i \in DOMAIN gate.queue
                 PROVE  /\ Policy = "drop_lowest_weight" =>
                              /\ Weight[s] <= Weight[gate.queue[i].id]
                              /\ fate[s] = "queued" => Weight[s] < Weight[t]
                        /\ Policy = "drop_oldest" =>
                              \A k \in DOMAIN gate.queue :
                                 gate.queue[k].id = s => gate.queue[i].age <= gate.queue[k].age
      BY <2>4 DEF Sacrifice
    <2> QED BY <2>1, <2>2, <2>3 DEF Spares
  <1>2. ~Poll
    <2> SUFFICES ASSUME Poll PROVE FALSE
      OBVIOUS
    <2>1. PICK o : Record(o, {}) /\ o.dropped = {}
      BY PollOutcome
    <2> QED BY <2>1 DEF Record
  <1>3. ~Drain
    <2> SUFFICES ASSUME Drain PROVE FALSE
      OBVIOUS
    <2>1. PICK o : Record(o, {}) /\ o.dropped = {}
      BY DrainOutcome DEF Splits
    <2> QED BY <2>1 DEF Record
  <1>4. ~Tick /\ ~Checkpoint /\ \A n \in 0..MaxQueueDepth : ~Adjust(n)
    BY DEF Tick, Checkpoint, Adjust
  <1>5. ~Crash /\ ~Reset
    BY DEF Crash, Reset
  <1>6. \A t \in Signals : ~Renew(t)
    BY DEF Renew, Kept, TypeOK
  <1> QED BY <1>1, <1>2, <1>3, <1>4, <1>5, <1>6 DEF ApiNext, Next

(* Overload sacrifices by the configured policy, whatever order the queue   *)
(* has been left in by the drains before.                                   *)
THEOREM PolicyHonoured == ApiSpec => OverflowHonoursPolicy
  <1> DEFINE A == \A s \in Signals :
                     fate[s] # "dropped" /\ fate'[s] = "dropped" => Sacrifice(s)
  <1>1. Kept /\ [ApiNext]_vars => [A]_vars
    BY StepSacrifice
  <1>2. ApiSpec => [][A]_vars
    BY <1>1, ApiInvariance, PTL DEF ApiSpec
  <1> QED BY <1>2 DEF OverflowHonoursPolicy, Sacrifice

-----------------------------------------------------------------------------
(* While the gate is refractory everything queued arrived after the fire    *)
(* that started the period, because that fire drained the whole queue; and  *)
(* since the last poll nothing was starving.                                *)
Prompt ==
    \A i \in DOMAIN gate.queue :
       /\ gate.refr > 0 => gate.refr + gate.queue[i].age <= Refractory
       /\ gate.queue[i].age < Latency + sincePoll

(* A step keeps queued signals prompt when a fire empties the queue.        *)
LEMMA StepPrompt ==
    ASSUME Latency > 0, FireBatchSize >= MaxQueueDepth,
           Kept, Prompt, [ApiNext]_vars
    PROVE  Prompt'
  <1>0. GoodGate(gate)
    BY KeptGate
  <1>c. /\ Latency \in Nat /\ Refractory \in Nat /\ AgeCap \in Nat /\ PollEvery \in Nat
        /\ Latency >= Refractory /\ AgeCap >= Latency + PollEvery
    BY GateAssumption, ActivationAssumption DEF ValidConfig
  <1>t. /\ gate.refr \in 0..Refractory /\ sincePoll \in 0..PollEvery
        /\ \A i \in DOMAIN gate.queue : gate.queue[i].age \in Nat
    <2>1. gate.queue \in Seq(Entry) /\ gate.refr \in 0..Refractory
          /\ sincePoll \in 0..PollEvery
      BY DEF Kept, TypeOK, GateState
    <2>2. \A i \in DOMAIN gate.queue : gate.queue[i] \in Entry
      BY <2>1
    <2> QED BY <2>1, <2>2 DEF Entry
  <1>1. ASSUME NEW s \in Signals, NEW w \in SynapseWeights, Offer(s, w)
        PROVE  Prompt'
    <2>1. PICK o : /\ Record(o, {s}) /\ sincePoll' = sincePoll
                   /\ Paces(gate, o) /\ KeepsAges(gate, o) /\ Empties(o)
      BY <1>1, OfferOutcome
    <2>3. Paces(gate, o) /\ KeepsAges(gate, o) /\ Empties(o)
      BY <2>1
    <2>4. gate' = o.gate /\ sincePoll' = sincePoll
      BY <2>1 DEF Record
    <2>5. CASE o.fired # <<>>
      BY <2>3, <2>4, <2>5 DEF Prompt, Empties
    <2>6. CASE o.fired = <<>>
      <3> SUFFICES ASSUME NEW i \in DOMAIN o.gate.queue
                   PROVE  /\ gate.refr > 0 => gate.refr + o.gate.queue[i].age <= Refractory
                          /\ o.gate.queue[i].age < Latency + sincePoll
        BY <2>3, <2>4, <2>6 DEF Prompt, Paces
      <3>1. CASE o.gate.queue[i].age = 0
        BY <3>1, <1>c, <1>t
      <3>2. CASE \E j \in DOMAIN gate.queue : o.gate.queue[i] = gate.queue[j]
        BY <3>2 DEF Prompt
      <3> QED BY <2>3, <2>6, <3>1, <3>2 DEF KeepsAges
    <2> QED BY <2>5, <2>6
  <1>2. CASE Poll
    <2>1. PICK o : /\ Record(o, {}) /\ sincePoll' = 0 /\ Sound(gate, o)
                   /\ o.fired = <<>> => InRefractory(gate) \/ ~IsStarving(gate)
      BY <1>2, PollOutcome
    <2>2. Sound(gate, o) /\ (o.fired = <<>> => InRefractory(gate) \/ ~IsStarving(gate))
      BY <2>1
    <2>3. gate' = o.gate /\ sincePoll' = 0
      BY <2>1 DEF Record
    <2>4. CASE o.fired # <<>>
      BY <2>2, <2>3, <2>4 DEF Prompt, Sound, Empties
    <2>5. CASE o.fired = <<>>
      <3>1. gate'.queue = gate.queue /\ gate'.refr = gate.refr
        BY <2>2, <2>3, <2>5 DEF Sound, Paces
      <3>2. ASSUME NEW i \in DOMAIN gate.queue
            PROVE  gate.queue[i].age < Latency
        <4>1. CASE gate.refr > 0
          BY <4>1, <1>c, <1>t DEF Prompt
        <4>2. CASE ~IsStarving(gate)
          BY <4>2, <1>c, <1>t DEF IsStarving
        <4> QED BY <2>2, <2>5, <4>1, <4>2 DEF InRefractory
      <3> QED BY <3>1, <3>2, <2>3, <1>c, <1>t DEF Prompt
    <2> QED BY <2>4, <2>5
  <1>3. CASE Tick
    <2>1. /\ gate'.refr = Less(gate.refr)
          /\ DOMAIN gate'.queue = DOMAIN gate.queue
          /\ \A i \in DOMAIN gate.queue :
                gate'.queue[i].age = AgeNext(gate.queue, gate.queue[i].age)
      BY <1>0, <1>3, AgedFacts DEF Tick
    <2>2. sincePoll < PollEvery /\ sincePoll' = sincePoll + 1
      BY <1>3 DEF Tick
    <2>3. ASSUME NEW i \in DOMAIN gate.queue
          PROVE  gate'.queue[i].age = gate.queue[i].age + 1
      <3>1. gate.queue[i].age < AgeCap
        BY <1>c, <1>t, <2>2 DEF Prompt
      <3> QED BY <2>1, <3>1 DEF AgeNext
    <2> QED BY <2>1, <2>2, <2>3, <1>c, <1>t DEF Prompt, Less
  <1>4. CASE Checkpoint
    BY <1>4 DEF Checkpoint, Prompt
  <1>5. CASE Crash
    BY <1>5 DEF Crash, Restore, Prompt
  <1>6. ASSUME NEW s \in Signals, Renew(s)
        PROVE  Prompt'
    BY <1>6 DEF Renew, Prompt
  <1>7. CASE Drain
    <2>1. PICK o : Record(o, {}) /\ Splits(gate, {}, o)
      BY <1>7, DrainOutcome
    <2> QED BY <2>1 DEF Record, Splits, Prompt
  <1>8. ASSUME NEW n \in 0..MaxQueueDepth, Adjust(n)
        PROVE  Prompt'
    <2>1. gate'.queue = gate.queue /\ gate'.refr = gate.refr
      BY <1>8 DEF Adjust, AdjustForLoad, Kept, TypeOK, GateState
    <2> QED BY <1>8, <2>1 DEF Adjust, Prompt
  <1>9. CASE Reset
    BY <1>9 DEF Reset, Fresh, Prompt
  <1>10. CASE UNCHANGED vars
    BY <1>10 DEF vars, Prompt
  <1> QED BY <1>1, <1>2, <1>3, <1>4, <1>5, <1>6, <1>7, <1>8, <1>9, <1>10 DEF ApiNext, Next

(* With the guard enabled and a batch as large as the queue, no signal      *)
(* waits past max_queue_latency plus one poll interval.  The assumption on  *)
(* the batch size is what the code's defaults do not meet.                  *)
THEOREM LatencyBound ==
    ASSUME Latency > 0, FireBatchSize >= MaxQueueDepth
    PROVE  ApiSpec => []LatencyBounded
  <1>1. Init => Prompt
    BY DEF Init, Fresh, Prompt
  <1>2. Kept /\ Prompt /\ [ApiNext]_vars => Prompt'
    BY StepPrompt
  <1>3. Kept /\ Prompt => LatencyBounded
    <2> SUFFICES ASSUME Kept, Prompt, NEW i \in DOMAIN gate.queue
                 PROVE  gate.queue[i].age < Latency + PollEvery
      BY DEF LatencyBounded
    <2>1. gate.queue \in Seq(Entry) /\ sincePoll \in 0..PollEvery
      BY DEF Kept, TypeOK, GateState
    <2>2. gate.queue[i].age \in Nat
      <3>1. gate.queue[i] \in Entry
        BY <2>1, ElementOfSeq
      <3> QED BY <3>1 DEF Entry
    <2>3. gate.queue[i].age < Latency + sincePoll
      BY DEF Prompt
    <2> QED BY <2>1, <2>2, <2>3, GateAssumption, ActivationAssumption
  <1> QED BY <1>1, <1>2, <1>3, ApiInvariance, PTL DEF ApiSpec

=============================================================================
