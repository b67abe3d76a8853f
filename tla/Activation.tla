----------------------------- MODULE Activation -----------------------------
(***************************************************************************)
(* One node's activation gate over time: signals arrive, the maintenance   *)
(* task polls for starving ones (Node::poll_activation), the node          *)
(* checkpoints its snapshot (Node::checkpoint), crashes, and is rebuilt    *)
(* from the last snapshot (NodeBuilder::build).  The gate sits behind one  *)
(* mutex, so each operation on it is atomic.                               *)
(*                                                                         *)
(* fate, sinceFire, unsaved and amnesia are history: they record what      *)
(* happened to each signal and when the gate last fired.  They never       *)
(* constrain a step of the code.                                           *)
(***************************************************************************)
EXTENDS Gate

CONSTANTS
    SynapseWeights, \* weights of the synapses a signal may arrive on
    PollEvery,      \* clock units between two polls by maintenance
    Recycled        \* identifiers standing for an endless supply of fresh
                    \* signals of the same weight

ASSUME ActivationAssumption ==
    /\ SynapseWeights \subseteq Nat
    /\ PollEvery \in Nat /\ PollEvery >= 1
    /\ Recycled \subseteq Signals
    /\ AgeCap >= Latency + PollEvery

VARIABLES
    gate,       \* the gate
    saved,      \* the snapshot in the store (save_activation)
    sincePoll,  \* time since maintenance last polled
    fate,       \* history: what became of each signal
    sinceFire,  \* history: time since the last fire, up to Refractory
    unsaved,    \* history: the gate fired since the last checkpoint
    amnesia     \* history: a restart lost the record of the last fire

vars == <<gate, saved, sincePoll, fate, sinceFire, unsaved, amnesia>>

Fates == {"new", "queued", "fired", "dropped", "lost"}

TypeOK ==
    /\ gate \in GateState
    /\ saved \in Snapshot
    /\ sincePoll \in 0..PollEvery
    /\ fate \in [Signals -> Fates]
    /\ sinceFire \in 0..Refractory
    /\ unsaved \in BOOLEAN
    /\ amnesia \in BOOLEAN

Init ==
    /\ gate = Fresh
    /\ saved = Snap(Fresh)
    /\ sincePoll = 0
    /\ fate = [s \in Signals |-> "new"]
    /\ sinceFire = Refractory
    /\ unsaved = FALSE
    /\ amnesia = FALSE

-----------------------------------------------------------------------------
(* The gate takes outcome o of offering it the arrivals in came (none or    *)
(* one).  An arrival the outcome does not mention is taken to be queued, as *)
(* Node::receive takes it to be.                                            *)
Record(o, came) ==
    /\ gate' = o.gate
    /\ fate' = [s \in Signals |->
                  IF s \in Ids(o.fired) THEN "fired"
                  ELSE IF s \in o.dropped THEN "dropped"
                  ELSE IF s \in came THEN "queued"
                  ELSE fate[s]]
    /\ IF o.fired = <<>>
       THEN UNCHANGED <<sinceFire, unsaved, amnesia>>
       ELSE sinceFire' = 0 /\ unsaved' = TRUE /\ amnesia' = FALSE
    /\ UNCHANGED saved

(* Node::receive offers an arrival to the gate. *)
Offer(s, w) ==
    /\ fate[s] = "new"
    /\ \E o \in Admit(gate, s, w) : Record(o, {s})
    /\ UNCHANGED sincePoll

(* Node::poll_activation, from the maintenance loop. *)
Poll ==
    /\ sincePoll > 0
    /\ \E o \in DrainIfStarving(gate) : Record(o, {})
    /\ sincePoll' = 0

(* Time passes; maintenance polls at least every PollEvery units. *)
Tick ==
    /\ sincePoll < PollEvery
    /\ gate' = Aged(gate)
    /\ saved' = [saved EXCEPT !.refr = Less(@)]
    /\ sincePoll' = sincePoll + 1
    /\ sinceFire' = IF sinceFire < Refractory THEN sinceFire + 1 ELSE sinceFire
    /\ UNCHANGED <<fate, unsaved, amnesia>>

(* Node::checkpoint saves the snapshot. *)
Checkpoint ==
    /\ saved' = Snap(gate)
    /\ unsaved' = FALSE
    /\ UNCHANGED <<gate, sincePoll, fate, sinceFire, amnesia>>

(* The process dies and is rebuilt from the store.  The queue is lost. *)
Crash ==
    /\ gate' = Restore(saved)
    /\ fate' = [s \in Signals |-> IF fate[s] = "queued" THEN "lost" ELSE fate[s]]
    /\ amnesia' = (amnesia \/ unsaved)
    /\ unsaved' = FALSE
    /\ UNCHANGED <<saved, sincePoll, sinceFire>>

(* A fresh signal of the same weight takes over the identifier of one that  *)
(* has left the node.  Environment only.                                    *)
Renew(s) ==
    /\ s \in Recycled
    /\ fate[s] \in {"fired", "dropped", "lost"}
    /\ fate' = [fate EXCEPT ![s] = "new"]
    /\ UNCHANGED <<gate, saved, sincePoll, sinceFire, unsaved, amnesia>>

Next ==
    \/ \E s \in Signals, w \in SynapseWeights : Offer(s, w)
    \/ Poll
    \/ Tick
    \/ Checkpoint
    \/ Crash
    \/ \E s \in Signals : Renew(s)

Spec == Init /\ [][Next]_vars

(* The clock advances and the maintenance task keeps running: its loop      *)
(* awaits its interval timer, locks held briefly and room in the channel of *)
(* events, which the application is taken to drain.                         *)
FairSpec == Spec /\ WF_vars(Tick) /\ WF_vars(Poll)

-----------------------------------------------------------------------------
(* The rest of the public interface of ActivationState, which the runtime   *)
(* itself does not call.                                                    *)

Drain ==
    /\ gate.queue # <<>>
    /\ \E o \in DrainBatch(gate) : Record(o, {})
    /\ UNCHANGED sincePoll

Adjust(n) ==
    /\ gate' = AdjustForLoad(gate, n)
    /\ UNCHANGED <<saved, sincePoll, fate, sinceFire, unsaved, amnesia>>

Reset ==
    /\ gate' = Fresh
    /\ fate' = [s \in Signals |-> IF fate[s] = "queued" THEN "lost" ELSE fate[s]]
    /\ amnesia' = TRUE
    /\ UNCHANGED <<saved, sincePoll, sinceFire, unsaved>>

ApiNext ==
    \/ Next
    \/ Drain
    \/ \E n \in 0..MaxQueueDepth : Adjust(n)
    \/ Reset

ApiSpec == Init /\ [][ApiNext]_vars

-----------------------------------------------------------------------------
(* Every signal the gate has accepted is in exactly one place: the queue    *)
(* holds precisely the signals that were offered and neither fired, dropped *)
(* nor lost to a restart, each once, and never more than max_queue_depth.   *)
(* A batch drain, an eviction or a refused arrival that lost or doubled a   *)
(* signal would break it (admit, enqueue, fire).                            *)
NoSignalLost ==
    /\ Len(gate.queue) <= MaxQueueDepth
    /\ Ids(gate.queue) = {s \in Signals : fate[s] = "queued"}
    /\ Distinct(gate.queue)

(* "Refractory always wins" (admit): two fires are at least a refractory    *)
(* period apart, whichever of arrival or poll causes them, and also across  *)
(* a restart unless the crash lost a fire that no checkpoint had recorded.  *)
FireSpacing ==
    [][(\E s \in Signals : fate[s] # "fired" /\ fate'[s] = "fired")
          => sinceFire = Refractory \/ amnesia]_vars

(* The latency guard: with a batch as large as the queue, no signal waits   *)
(* longer than max_queue_latency plus one poll interval.  It relies on      *)
(* validate() requiring the latency bound to cover the refractory period.   *)
LatencyBounded ==
    \A i \in DOMAIN gate.queue : gate.queue[i].age < Latency + PollEvery

(* fire() never leaves behind a signal that should have gone before one it  *)
(* drained: weight descending, ties by identifier.                          *)
HeaviestFirst ==
    [][\A s \in Signals :
          fate[s] # "fired" /\ fate'[s] = "fired" =>
             \A i \in DOMAIN gate'.queue :
                Before([id |-> s], gate'.queue[i])]_vars

(* Overload sacrifices by the configured policy: drop_lowest_weight never   *)
(* sheds a signal heavier than one it keeps, or an equal one already        *)
(* committed; drop_oldest sheds no signal younger than one it keeps even    *)
(* after fire() has reordered the queue.                                    *)
OverflowHonoursPolicy ==
    [][\A s \in Signals :
          fate[s] # "dropped" /\ fate'[s] = "dropped" =>
             \A i \in DOMAIN gate.queue :
                LET kept == gate.queue[i].id IN
                /\ Policy = "drop_lowest_weight" =>
                      /\ Weight[s] <= Weight[kept]
                      /\ fate[s] = "queued" =>
                            \A t \in Signals : fate[t] = "new" /\ fate'[t] # "new"
                                                  => Weight[s] < Weight[t]
                /\ Policy = "drop_oldest" =>
                      \A k \in DOMAIN gate.queue :
                         gate.queue[k].id = s => gate.queue[i].age <= gate.queue[k].age
       ]_vars

(* Every queued signal eventually leaves the queue, even when its           *)
(* contribution can never reach the threshold and no other signal arrives:  *)
(* that is what the guard and the maintenance poll are for.                 *)
EventuallyLeaves ==
    \A s \in Signals : (fate[s] = "queued") ~> (fate[s] # "queued")

-----------------------------------------------------------------------------
(* What the documentation says and the code does not do: each of these is   *)
(* refuted by TLC on the instances the README names.                        *)

(* validate() refuses max_potential < base_threshold, "or the node can      *)
(* never reach its threshold": a gate charged to max_potential must be over *)
(* its threshold, the dynamic one included.                                 *)
ThresholdReachable ==
    gate.potential = MaxPotential => Crosses(gate)

=============================================================================
