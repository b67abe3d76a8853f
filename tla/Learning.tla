------------------------------ MODULE Learning ------------------------------
(***************************************************************************)
(* How a node learns from its routing decisions (ntl-core/src/node.rs,     *)
(* learning.rs, synapse.rs over the NodeStore).                            *)
(*                                                                         *)
(* A forwarding decision is journalled as pending.  It is resolved by the  *)
(* peer's receipt, by fail_forward when it could not be transmitted, or by *)
(* the timeout sweep; whoever resolves it moves the weight of the peer's   *)
(* synapse within the peer's influence cap and renormalises all weights.   *)
(* The store makes each of its own operations atomic and nothing more, so  *)
(* every store call of a handler is an action here and the handlers of     *)
(* different tasks interleave between them (Parallel = TRUE), as they do   *)
(* on the multi-threaded executor.                                         *)
(*                                                                         *)
(* Weights are integers, in units of a quarter of learning_rate * x.  A    *)
(* decision stands for one (signal, peer) pair of the journal, and a peer  *)
(* has one synapse.  Per-type affinity and the decayed weight only rank    *)
(* eligible synapses and are left out.                                     *)
(***************************************************************************)
EXTENDS Integers, Sequences, FiniteSets, Totals

CONSTANTS
    Peers,             \* the node's peers
    Maintenance,       \* the maintenance task
    NoSynapse,         \* a peer without a synapse record
    MinWeight, MaxWeight,  \* min_weight, max_weight
    InitialWeight,     \* initial_weight
    ActiveThreshold, DormancyThreshold,
    Budget,            \* max_total_outbound_weight
    Cap,               \* influence_cap_per_peer
    Window,            \* influence_window_secs
    ReceiptWindow,     \* receipt_window_secs
    Cooldown,          \* signature_failure_cooldown_secs
    PruneThreshold,    \* signature_failure_prune_threshold
    SweepLimit,        \* how many decisions one sweep takes
    MaxDecisions,      \* bound on the journal
    MaxClock,          \* bound on the clock
    Parallel,          \* handlers of different tasks interleave
    CoarseClock,       \* two handlers may read the same instant
    MayFail            \* store calls may fail and the process may die

(* What LearningConfig::validate requires, and with InitialWeight what the  *)
(* defaults of SynapseConfig keep to.                                       *)
ValidConfig ==
    /\ 0 < MinWeight /\ MinWeight < MaxWeight /\ MaxWeight < Budget
    /\ InitialWeight \in MinWeight..MaxWeight
    /\ Cap > 0

ASSUME LearningAssumption ==
    /\ Maintenance \notin Peers /\ IsFiniteSet(Peers)
    /\ {MinWeight, MaxWeight, InitialWeight, ActiveThreshold, DormancyThreshold,
        Budget, Cap, Window, ReceiptWindow, Cooldown, PruneThreshold,
        SweepLimit, MaxDecisions, MaxClock} \subseteq Nat
    /\ ValidConfig
    /\ PruneThreshold > 0
    /\ {Parallel, CoarseClock, MayFail} \subseteq BOOLEAN

Tasks == Peers \cup {Maintenance}
Decisions == 1..MaxDecisions
Clock == 0..MaxClock
Resolutions == {"delivered", "rejected", "timed_out", "transport_failure"}

VARIABLES
    clock,     \* Clock::now_ns
    syn,       \* the synapse records
    journal,   \* the decision journal, in the order of append_decision
    influence, \* influence[p][t]: magnitude recorded for p at instant t
    open,      \* peers with a session
    sent,      \* decisions whose signal reached the peer's queue
    task,      \* what each task is in the middle of
    taught,    \* history: how often each decision moved a synapse
    gained,    \* history: gained[p][t]: weight p gained at instant t
    prunedAt,  \* history: when p's synapse was last pruned
    broken     \* history: a store call failed or the process died

vars == <<clock, syn, journal, influence, open, sent, task,
          taught, gained, prunedAt, broken>>

Record == [weight : Nat,
           state  : {"active", "weakening", "dormant", "pruned"},
           last   : Clock,   \* last_active_ns
           fails  : Nat,     \* signature_failures
           win    : Clock]   \* failure_window_start_ns

ASSUME RecordAssumption == NoSynapse \notin Record

Entry == [peer : Peers, outcome : {"pending"} \cup Resolutions,
          at : Clock, resolved : Clock]

(* A task in the middle of nothing. *)
Free == [phase |-> "idle", todo |-> <<>>, stamp |-> 0, used |-> 0,
         rec |-> NoSynapse, delta |-> 0, writes |-> [p \in {} |-> NoSynapse]]

Phases == {"idle", "resolve", "influence", "read", "charge", "put", "list",
           "rewrite", "form", "penalise"}

Quiet == \A t \in Tasks : task[t] = Free

MayRun(t) == Parallel \/ \A u \in Tasks \ {t} : task[u] = Free

At(t, phase) == task[t].phase = phase /\ MayRun(t)

(* The decision a busy task is resolving, its outcome and its synapse. *)
Current(t) == Head(task[t].todo)
PeerOf(t) == journal[Current(t).id].peer

TypeOK ==
    /\ clock \in Clock
    /\ syn \in [Peers -> Record \cup {NoSynapse}]
    /\ \A p \in Peers : syn[p] # NoSynapse => syn[p].weight \in MinWeight..MaxWeight
    /\ journal \in Seq(Entry) /\ Len(journal) <= MaxDecisions
    /\ influence \in [Peers -> [Clock -> Nat]]
    /\ open \subseteq Peers
    /\ sent \subseteq Decisions
    /\ DOMAIN task = Tasks
    /\ \A t \in Tasks : task[t].phase \in Phases /\ task[t].stamp \in Clock
    /\ taught \in [Decisions -> Nat]
    /\ gained \in [Peers -> [Clock -> Nat]]
    /\ prunedAt \in [Peers -> Clock]
    /\ broken \in BOOLEAN

Init ==
    /\ clock = 0
    /\ syn = [p \in Peers |-> NoSynapse]
    /\ journal = <<>>
    /\ influence = [p \in Peers |-> [t \in Clock |-> 0]]
    /\ open = {}
    /\ sent = {}
    /\ task = [t \in Tasks |-> Free]
    /\ taught = [d \in Decisions |-> 0]
    /\ gained = [p \in Peers |-> [t \in Clock |-> 0]]
    /\ prunedAt = [p \in Peers |-> 0]
    /\ broken = FALSE

-----------------------------------------------------------------------------
(* The learning rule. *)

Lower(a, b) == IF a < b THEN a ELSE b
Upper(a, b) == IF a > b THEN a ELSE b
Since(now, span) == Upper(now - span, 0)

MutClamp(w) == Lower(w, MaxWeight)

Clamp(w) == Upper(MinWeight, Lower(w, MaxWeight))

Reward(outcome) ==
    CASE outcome = "delivered" -> 4
      [] outcome = "timed_out" -> -1
      [] outcome \in {"rejected", "transport_failure"} -> -2

(* apply_reward(): the applied delta.  Gains stop at the cap, losses never. *)
MutApplyReward(weight, outcome, used) ==
    LET raw   == Reward(outcome)
        delta == IF raw > 0 /\ used >= Cap THEN 0 ELSE raw
    IN  Clamp(weight + delta) - weight

ApplyReward(weight, outcome, used) ==
    LET raw   == Reward(outcome)
        delta == IF raw > 0 THEN Upper(0, Lower(raw, Cap - used)) ELSE raw
    IN  Clamp(weight + delta) - weight

(* update_state(): the state a weight stands for; pruned is terminal. *)
StateFor(weight) ==
    IF weight >= ActiveThreshold THEN "active"
    ELSE IF weight >= DormancyThreshold THEN "weakening" ELSE "dormant"

UpdateState(rec) ==
    IF rec.state = "pruned" THEN rec
                            ELSE [rec EXCEPT !.state = StateFor(rec.weight)]

(* apply_signature_failure(): halve the weight, count within one window,    *)
(* prune at the threshold.                                                  *)
Penalised(rec, now) ==
    LET fresh == rec.win < Since(now, Window)
        hit   == [rec EXCEPT !.weight = Upper(@ \div 2, MinWeight),
                             !.fails = IF fresh THEN 1 ELSE @ + 1,
                             !.win = IF fresh THEN now ELSE @]
    IN  IF hit.fails >= PruneThreshold
        THEN [hit EXCEPT !.state = "pruned", !.last = now]
        ELSE UpdateState(hit)

(* influence_since() *)
InfluenceSince(p, from) ==
    Total(influence[p], {t \in Clock : t >= from})

Present == {p \in Peers : syn[p] # NoSynapse}
TotalOf(S) == Total([p \in S |-> syn[p].weight], S)

(* normalize_outbound(): the records to write back; none within budget. *)
MutRescaled ==
    IF \A p \in Present : syn[p].weight <= Budget
    THEN [p \in {} |-> NoSynapse]
    ELSE [p \in Present |->
            [syn[p] EXCEPT !.weight = Upper((@ * Budget) \div TotalOf(Present),
                                            MinWeight)]]

Rescaled ==
    IF TotalOf(Present) <= Budget
    THEN [p \in {} |-> NoSynapse]
    ELSE [p \in Present |->
            [syn[p] EXCEPT !.weight = Upper((@ * Budget) \div TotalOf(Present),
                                            MinWeight)]]

-----------------------------------------------------------------------------
(* Sessions: the handshake forms or revives the synapse (upsert_synapse).   *)

Blank(now) == [weight |-> InitialWeight, state |-> "active", last |-> now,
               fails |-> 0, win |-> 0]

MutInCooldown(p) == FALSE

InCooldown(p) ==
    /\ syn[p] # NoSynapse /\ syn[p].state = "pruned"
    /\ clock < syn[p].last + Cooldown

(* The record upsert_synapse leaves: a new one, a pruned one re-formed from *)
(* scratch, a dormant one revived, any other as it is.                      *)
Upserted(p) ==
    IF syn[p] = NoSynapse \/ syn[p].state = "pruned" THEN Blank(clock)
    ELSE IF syn[p].state = "dormant"
    THEN [syn[p] EXCEPT !.weight = InitialWeight, !.state = "active"]
    ELSE syn[p]

Handshake(p) ==
    /\ p \notin open
    /\ At(p, "idle")
    /\ ~InCooldown(p)
    /\ IF syn[p] = Upserted(p)
       THEN open' = open \cup {p} /\ UNCHANGED task
       ELSE /\ task' = [task EXCEPT ![p] = [Free EXCEPT !.phase = "form",
                                                        !.stamp = clock,
                                                        !.rec = Upserted(p)]]
            /\ UNCHANGED open
    /\ UNCHANGED <<clock, syn, journal, influence, sent, taught, gained, prunedAt, broken>>

PutFormed(p) ==
    /\ At(p, "form")
    /\ syn' = [syn EXCEPT ![p] = task[p].rec]
    /\ open' = open \cup {p}
    /\ task' = [task EXCEPT ![p] = Free]
    /\ UNCHANGED <<clock, journal, influence, sent, taught, gained, prunedAt, broken>>

Close(p) ==
    /\ p \in open
    /\ At(p, "idle")
    /\ open' = open \ {p}
    /\ UNCHANGED <<clock, syn, journal, influence, sent, task, taught, gained, prunedAt, broken>>

(* penalize_signature_failure(): read, then write; a prune ends the session. *)
SignatureFailure(p) ==
    /\ p \in open
    /\ At(p, "idle")
    /\ task' = [task EXCEPT ![p] = [Free EXCEPT !.phase = "penalise",
                                                !.stamp = clock,
                                                !.rec = Penalised(syn[p], clock)]]
    /\ UNCHANGED <<clock, syn, journal, influence, open, sent, taught, gained, prunedAt, broken>>

PutPenalised(p) ==
    /\ At(p, "penalise")
    /\ syn' = [syn EXCEPT ![p] = task[p].rec]
    /\ IF task[p].rec.state = "pruned"
       THEN open' = open \ {p} /\ prunedAt' = [prunedAt EXCEPT ![p] = task[p].stamp]
       ELSE UNCHANGED <<open, prunedAt>>
    /\ task' = [task EXCEPT ![p] = Free]
    /\ UNCHANGED <<clock, journal, influence, sent, taught, gained, broken>>

-----------------------------------------------------------------------------
(* Decisions. *)

Eligible == {p \in Present : syn[p].state \in {"active", "weakening"}}

(* plan_forwarding(): one pending entry, and the transmission of its signal *)
(* when the peer has a session with room.                                   *)
Journalled(p) ==
    /\ Len(journal) < MaxDecisions
    /\ p \in Eligible
    /\ journal' = Append(journal, [peer |-> p, outcome |-> "pending",
                                   at |-> clock, resolved |-> 0])

(* forward_signal(): what cannot be transmitted is failed at once.  A route *)
(* of several peers is several decisions, taken one after the other.        *)
Forward(t, p) ==
    /\ At(t, "idle") /\ p # t
    /\ t \in open \cup {Maintenance}
    /\ Journalled(p)
    /\ \/ /\ p \in open
          /\ sent' = sent \cup {Len(journal) + 1}
          /\ UNCHANGED task
       \/ /\ task' = [task EXCEPT ![t] = [Free EXCEPT !.phase = "resolve",
                         !.stamp = clock,
                         !.todo = <<[id |-> Len(journal) + 1,
                                     outcome |-> "transport_failure"]>>]]
          /\ UNCHANGED sent
    /\ UNCHANGED <<clock, syn, influence, open, taught, gained, prunedAt, broken>>

(* route(): a locally emitted signal; an untransmitted one stays pending. *)
Route(p) ==
    /\ Journalled(p)
    /\ sent' = IF p \in open THEN sent \cup {Len(journal) + 1} ELSE sent
    /\ UNCHANGED <<clock, syn, influence, open, task, taught, gained, prunedAt, broken>>

(* apply_receipt(): the clock is read and a pending decision looked up; a   *)
(* receipt without one is discarded.  The peer may repeat its receipts.     *)
Receipt(p, d, outcome) ==
    /\ p \in open /\ At(p, "idle")
    /\ d \in sent
    /\ journal[d].peer = p
    /\ journal[d].outcome = "pending"
    /\ task' = [task EXCEPT ![p] = [Free EXCEPT !.phase = "resolve", !.stamp = clock,
                                       !.todo = <<[id |-> d, outcome |-> outcome]>>]]
    /\ UNCHANGED <<clock, syn, journal, influence, open, sent, taught, gained, prunedAt, broken>>

(* sweep_timeouts(): pending decisions past the deadline, in the order of   *)
(* the journal and at most SweepLimit of them.                              *)
MutExpired(d) ==
    /\ journal[d].outcome = "pending"
    /\ journal[d].at + ReceiptWindow + 1 < clock

Expired(d) ==
    /\ journal[d].outcome = "pending"
    /\ journal[d].at < Since(clock, ReceiptWindow)

Sweep ==
    /\ At(Maintenance, "idle")
    /\ LET expired == {d \in DOMAIN journal : Expired(d)}
           taken   == {d \in expired : Cardinality({c \in expired : c < d}) < SweepLimit}
       IN  /\ taken # {}
           /\ \E order \in [1..Cardinality(taken) -> taken] :
                 /\ \A i, j \in 1..Cardinality(taken) : i < j => order[i] < order[j]
                 /\ task' = [task EXCEPT ![Maintenance] =
                       [Free EXCEPT !.phase = "resolve", !.stamp = clock,
                           !.todo = [i \in 1..Cardinality(taken) |->
                                       [id |-> order[i], outcome |-> "timed_out"]]]]
    /\ UNCHANGED <<clock, syn, journal, influence, open, sent, taught, gained, prunedAt, broken>>

-----------------------------------------------------------------------------
(* Resolving a decision and learning from it, one store call at a time.     *)

(* The task after its current decision: the next one, or nothing. *)
Proceed(t) ==
    IF Len(task[t].todo) > 1
    THEN [Free EXCEPT !.phase = "resolve", !.stamp = task[t].stamp,
                      !.todo = Tail(task[t].todo)]
    ELSE Free

(* resolve_decision(): the first outcome wins.  The caller takes it for its *)
(* own when the recorded instant is the one it read itself.                 *)
MutWins(entry, now) == TRUE

Wins(entry, now) ==
    \/ entry.outcome = "pending"
    \/ CoarseClock /\ entry.resolved = now

Resolve(t) ==
    /\ At(t, "resolve")
    /\ LET d     == Current(t).id
           entry == journal[d]
           \* fail_forward reads the clock itself, the others did before
           now   == IF Current(t).outcome = "transport_failure" THEN clock
                                                               ELSE task[t].stamp
       IN  /\ journal' = IF entry.outcome = "pending"
                         THEN [journal EXCEPT ![d].outcome = Current(t).outcome,
                                              ![d].resolved = now]
                         ELSE journal
           /\ task' = IF Wins(entry, now)
                      THEN [task EXCEPT ![t].phase = "influence", ![t].stamp = now]
                      ELSE [task EXCEPT ![t] = Proceed(t)]
    /\ UNCHANGED <<clock, syn, influence, open, sent, taught, gained, prunedAt, broken>>

(* apply_outcome_to_synapse(): influence_since, ... *)
ReadInfluence(t) ==
    /\ At(t, "influence")
    /\ task' = [task EXCEPT ![t].phase = "read",
                            ![t].used = InfluenceSince(PeerOf(t),
                                                       Since(task[t].stamp, Window))]
    /\ UNCHANGED <<clock, syn, journal, influence, open, sent, taught, gained, prunedAt, broken>>

(* ... get_synapse and the update on the copy, ... *)
ReadSynapse(t) ==
    /\ At(t, "read")
    /\ LET rec   == syn[PeerOf(t)]
           delta == ApplyReward(rec.weight, Current(t).outcome, task[t].used)
       IN  task' = [task EXCEPT ![t].phase = IF delta = 0 THEN "put" ELSE "charge",
                                ![t].delta = delta,
                                ![t].rec = [UpdateState([rec EXCEPT !.weight = @ + delta])
                                              EXCEPT !.last = task[t].stamp]]
    /\ UNCHANGED <<clock, syn, journal, influence, open, sent, taught, gained, prunedAt, broken>>

(* ... record_influence, ... *)
Magnitude(delta) == IF delta < 0 THEN -delta ELSE delta

MutChargeInfluence(t) ==
    /\ At(t, "charge")
    /\ task' = [task EXCEPT ![t].phase = "put"]
    /\ UNCHANGED <<clock, syn, journal, influence, open, sent, taught, gained, prunedAt, broken>>

ChargeInfluence(t) ==
    /\ At(t, "charge")
    /\ influence' = [influence EXCEPT ![PeerOf(t)][task[t].stamp] =
                        @ + Magnitude(task[t].delta)]
    /\ task' = [task EXCEPT ![t].phase = "put"]
    /\ UNCHANGED <<clock, syn, journal, open, sent, taught, gained, prunedAt, broken>>

(* ... put_synapse, ... *)
PutSynapse(t) ==
    /\ At(t, "put")
    /\ syn' = [syn EXCEPT ![PeerOf(t)] = task[t].rec]
    /\ taught' = [taught EXCEPT ![Current(t).id] = @ + 1]
    /\ gained' = [gained EXCEPT ![PeerOf(t)][task[t].stamp] =
                     @ + Upper(task[t].delta, 0)]
    /\ task' = [task EXCEPT ![t].phase = "list", ![t].rec = NoSynapse]
    /\ UNCHANGED <<clock, journal, influence, open, sent, prunedAt, broken>>

(* ... and normalize_outbound_weights: list_synapses, then one put each. *)
ListSynapses(t) ==
    /\ At(t, "list")
    /\ task' = IF Rescaled = [p \in {} |-> NoSynapse]
               THEN [task EXCEPT ![t] = Proceed(t)]
               ELSE [task EXCEPT ![t].phase = "rewrite", ![t].writes = Rescaled]
    /\ UNCHANGED <<clock, syn, journal, influence, open, sent, taught, gained, prunedAt, broken>>

Rewrite(t, p) ==
    /\ At(t, "rewrite")
    /\ p \in DOMAIN task[t].writes
    /\ \A q \in DOMAIN task[t].writes : task[t].writes[p].weight >= task[t].writes[q].weight
    /\ syn' = [syn EXCEPT ![p] = task[t].writes[p]]
    /\ LET left == DOMAIN task[t].writes \ {p}
       IN  task' = IF left = {}
                   THEN [task EXCEPT ![t] = Proceed(t)]
                   ELSE [task EXCEPT ![t].writes = [q \in left |-> task[t].writes[q]]]
    /\ UNCHANGED <<clock, journal, influence, open, sent, taught, gained, prunedAt, broken>>

-----------------------------------------------------------------------------
(* With Parallel = FALSE handlers take no time. *)
Tick ==
    /\ clock < MaxClock
    /\ Parallel \/ Quiet
    /\ clock' = clock + 1
    /\ UNCHANGED <<syn, journal, influence, open, sent, task, taught, gained, prunedAt, broken>>

(* A store call fails: the handler returns with an error, whatever it has   *)
(* written so far stays written.                                            *)
StoreError(t) ==
    /\ MayFail
    /\ task[t].phase # "idle" /\ MayRun(t)
    /\ task' = [task EXCEPT ![t] = Free]
    /\ broken' = TRUE
    /\ UNCHANGED <<clock, syn, journal, influence, open, sent, taught, gained, prunedAt>>

(* The process dies and comes back with the store it left (SqliteStore). *)
Crash ==
    /\ MayFail
    /\ task' = [t \in Tasks |-> Free]
    /\ open' = {}
    /\ broken' = TRUE
    /\ UNCHANGED <<clock, syn, journal, influence, sent, taught, gained, prunedAt>>

LearnStep(t) ==
    \/ Resolve(t)
    \/ ReadInfluence(t)
    \/ ReadSynapse(t)
    \/ ChargeInfluence(t)
    \/ PutSynapse(t)
    \/ ListSynapses(t)
    \/ \E p \in Peers : Rewrite(t, p)

Work(t) ==
    \/ LearnStep(t)
    \/ t \in Peers /\ (PutFormed(t) \/ PutPenalised(t))

Next ==
    \/ \E p \in Peers :
          \/ Handshake(p) \/ PutFormed(p) \/ Close(p)
          \/ SignatureFailure(p) \/ PutPenalised(p)
          \/ Route(p)
          \/ \E t \in Tasks : Forward(t, p)
          \/ \E d \in DOMAIN journal, o \in {"delivered", "rejected"} : Receipt(p, d, o)
    \/ Sweep
    \/ \E t \in Tasks : LearnStep(t) \/ StoreError(t)
    \/ Tick
    \/ Crash

Spec == Init /\ [][Next]_vars

(* Tasks with work are scheduled, the clock advances and the maintenance    *)
(* timer keeps firing.                                                      *)
FairSpec ==
    /\ Spec
    /\ \A t \in Tasks : WF_vars(Work(t))
    /\ WF_vars(Sweep) /\ WF_vars(Tick)

-----------------------------------------------------------------------------
(* Each decision teaches once: however receipts, their replays, the timeout *)
(* sweep and transport failures race for it, at most one of them moves the  *)
(* synapse, and once all handlers are done a resolved decision has taught   *)
(* unless a handler was cut short ("the first receipt wins").               *)
TaughtOnce ==
    \A d \in DOMAIN journal :
        /\ taught[d] <= 1
        /\ Quiet /\ ~broken /\ journal[d].outcome # "pending" => taught[d] = 1

(* The influence cap: in no window does a peer gain more than Cap, also     *)
(* with handlers interleaved and cut short between charging and writing.    *)
GainCapped ==
    \A p \in Peers, to \in Clock :
        Total(gained[p], Since(to, Window)..to) <= Cap

(* A pruned synapse carries nothing until it is re-formed, and it is        *)
(* re-formed only after its cooldown (apply_signature_failure,              *)
(* upsert_synapse; "Pruned is terminal").                                   *)
PruneHolds ==
    [][\A p \in Peers :
          syn[p] # NoSynapse /\ syn[p].state = "pruned" /\ syn'[p].state # "pruned"
             => task[p].phase = "form" /\ task[p].stamp >= prunedAt[p] + Cooldown]_vars

(* Learning ends within budget: when a handler has renormalised, the total  *)
(* outbound weight exceeds the budget by no more than the weight floor      *)
(* gives back.                                                              *)
BudgetRestored ==
    [][\A t \in Tasks :
          task[t].phase \in {"list", "rewrite"} /\ task'[t].phase \in {"idle", "resolve"}
             /\ ~broken'
             => TotalOf(Present)' <= Budget + MinWeight * Cardinality(Present)]_vars

(* Silence becomes a lesson: every decision old enough for the clock to     *)
(* pass its deadline is resolved, also when more expire than one sweep      *)
(* takes and when nobody ever failed them.                                  *)
EventuallyResolved ==
    \A d \in Decisions :
        (d \in DOMAIN journal /\ journal[d].at + ReceiptWindow < MaxClock)
            ~> (d \in DOMAIN journal /\ journal[d].outcome # "pending")

-----------------------------------------------------------------------------
(* What the documentation says and the code does not do: each of these is   *)
(* refuted by TLC on the instances the README names.                        *)

(* The cooldown is as long as configured: nothing moves the instant it is   *)
(* counted from once the synapse is pruned.                                 *)
CooldownFromPrune ==
    \A p \in Peers : syn[p] # NoSynapse /\ syn[p].state = "pruned"
                        => syn[p].last = prunedAt[p]

(* A synapse's state is the one its weight stands for: one that may carry   *)
(* signals has the weight for it ("Weight drops below").                    *)
StateFollowsWeight ==
    Quiet => \A p \in Present : syn[p].state # "pruned"
                                   => syn[p].state = StateFor(syn[p].weight)

(* Only the synapses in use share the budget: "W = sum of w_i over all      *)
(* non-pruned synapses" (learning-model 2.3).                               *)
PrunedOutsideBudget ==
    [][\A t \in Tasks :
          task[t].phase = "list" /\ task'[t].phase = "rewrite"
             => TotalOf({p \in Present : syn[p].state # "pruned"}) > Budget]_vars

(* "Receipts arriving after the aggregation window are discarded"           *)
(* (threat-model 3).                                                        *)
LateReceiptDiscarded ==
    \A d \in DOMAIN journal :
        journal[d].outcome \in {"delivered", "rejected"}
            => journal[d].resolved <= journal[d].at + ReceiptWindow

=============================================================================
