---------------------------- MODULE NodeRuntime -----------------------------
(***************************************************************************)
(* One running node (ntl-net/src/runtime.rs over ntl-core/src/node.rs):    *)
(* one read loop per connected peer and one maintenance task, all sharing  *)
(* the activation gate, the dedup cache, the cache of signal bodies and    *)
(* the session table.                                                      *)
(*                                                                         *)
(* The gate queues scheduling entries only; the body of a queued signal    *)
(* waits in a separate map, `pending`.  A read loop calls Node::receive,   *)
(* which takes the gate's lock and gives it back, and only afterwards      *)
(* touches `pending`: each lock acquisition is an action of its own here.  *)
(* What a task still has to do after Node::receive or poll_activation      *)
(* returned is its `task` record; a task with nothing left is idle.        *)
(***************************************************************************)
EXTENDS Gate

CONSTANTS
    Peers,         \* peers that may hold a session
    Maintenance,   \* the maintenance task
    Origin,        \* Origin[s]: the peer that emitted s
    Acked,         \* the signals of delivery class Acknowledged
    Unpropagable,  \* the signals check_propagable refuses (ttl, trace, weight)
    SynapseWeights,\* weights of the synapses a signal may arrive on
    MaxCopies,     \* bound: how often one signal may arrive
    MaxCrashes,    \* bound: how often the process may die
    Parallel,      \* handlers of different tasks may interleave
    StoreMayFail,  \* journalling a forwarding decision may fail
    DurableStore   \* the dedup cache survives a crash (SqliteStore)

ASSUME RuntimeAssumption ==
    /\ Maintenance \notin Peers
    /\ Origin \in [Signals -> Peers]
    /\ Acked \subseteq Signals /\ Unpropagable \subseteq Signals
    /\ SynapseWeights \subseteq Nat
    /\ MaxCopies \in Nat /\ MaxCrashes \in Nat
    /\ {Parallel, StoreMayFail, DurableStore} \subseteq BOOLEAN

Tasks == Peers \cup {Maintenance}

VARIABLES
    gate,      \* Node.activation
    saved,     \* the activation snapshot in the store
    seen,      \* the dedup cache
    pending,   \* PendingBodies: the cached signal bodies
    live,      \* peers with an entry in the session table
    task,      \* what each task still has to do
    arrived,   \* how many copies of each signal have been read
    crashes,   \* how often the process has died
    answers,   \* history: the receipts produced for each signal
    handled,   \* history: how often each signal was handed to the application
    forwarded, \* history: the signals sent on to at least one peer
    bodiless   \* history: the signals released without a body

vars == <<gate, saved, seen, pending, live, task, arrived, crashes,
          answers, handled, forwarded, bodiless>>

history == <<answers, handled, forwarded, bodiless>>

(* What the cache needs to know of a signal's body. *)
Body == [id : Signals, via : Peers]  \* via: the last hop of the trace

Cached == {b.id : b \in pending}

(* A task's remaining work: the Disposition it holds, in the order in which *)
(* read_loop discharges it.                                                 *)
NoWork == [evicted |-> {}, refused |-> {}, batch |-> <<>>, own |-> {},
           plan |-> {}, keep |-> {}]

Work == [evicted : SUBSET Signals,  \* displaced signal: uncache, answer
         refused : SUBSET Signals,  \* refused arrival still to be answered
         batch   : Seq(Signals),    \* released signals still to be handled
         own     : SUBSET Signals,  \* the arrival, whose body is in hand
         plan    : SUBSET Peers,    \* the route planned for it
         keep    : SUBSET Signals]  \* queued arrival still to be cached

Idle(t) == task[t] = NoWork

Quiet == \A t \in Tasks : Idle(t)

(* With Parallel = FALSE a handler runs to its end before another starts. *)
MayRun(t) == Parallel \/ \A u \in Tasks \ {t} : Idle(u)

TypeOK ==
    /\ gate \in GateState
    /\ saved \in Snapshot
    /\ seen \subseteq Signals
    /\ pending \subseteq Body
    /\ live \subseteq Peers
    /\ task \in [Tasks -> Work]
    /\ arrived \in [Signals -> 0..MaxCopies]
    /\ crashes \in 0..MaxCrashes
    /\ answers \in [Signals -> Seq({"delivered", "rejected"})]
    /\ handled \in [Signals -> Nat]
    /\ forwarded \subseteq Signals
    /\ bodiless \subseteq Signals

Init ==
    /\ gate = Fresh
    /\ saved = Snap(Fresh)
    /\ seen = {}
    /\ pending = {}
    /\ live = {}
    /\ task = [t \in Tasks |-> NoWork]
    /\ arrived = [s \in Signals |-> 0]
    /\ crashes = 0
    /\ answers = [s \in Signals |-> <<>>]
    /\ handled = [s \in Signals |-> 0]
    /\ forwarded = {}
    /\ bodiless = {}

-----------------------------------------------------------------------------
(* Sessions come and go; a read loop ends only between two signals. *)

Connect(p) ==
    /\ p \notin live
    /\ live' = live \cup {p}
    /\ UNCHANGED <<gate, saved, seen, pending, task, arrived, crashes, history>>

Disconnect(p) ==
    /\ p \in live /\ Idle(p)
    /\ live' = live \ {p}
    /\ UNCHANGED <<gate, saved, seen, pending, task, arrived, crashes, history>>

-----------------------------------------------------------------------------
(* Node::receive *)

IdsOf(fired) == [i \in 1..Len(fired) |-> fired[i].id]

(* without(): the batch minus a refused arrival.  A drained batch names no  *)
(* signal twice, so the filter takes out one position or none.              *)
MutWithout(batch, s) == batch

Without(batch, s) ==
    LET at == {i \in DOMAIN batch : batch[i] = s}
    IN  IF at = {} THEN batch ELSE RemoveIndex(batch, CHOOSE i \in at : TRUE)

(* The routes plan_forwarding may choose for a signal that arrived from p:  *)
(* any selection among the other peers, or none.  Which one is the business *)
(* of the routing model.                                                    *)
Plans(p) == SUBSET (Peers \ {p})

(* What read_loop is left with once the gate has produced outcome o for     *)
(* arrival s and route was planned for it.                                  *)
Dispose(s, o, route) ==
    LET batch     == IdsOf(o.fired)
        firedHere == s \in Ids(o.fired)
        noRoute   == firedHere /\ route = {} /\ s \in Acked
        refused   == s \in o.dropped \/ noRoute
        released  == IF refused THEN Without(batch, s) ELSE batch
    IN  [evicted |-> o.dropped \ {s},
         refused |-> IF refused THEN {s} ELSE {},
         batch   |-> released,
         own     |-> {s} \cap {released[i] : i \in DOMAIN released},
         plan    |-> IF firedHere /\ ~refused THEN route ELSE {},
         keep    |-> IF firedHere \/ refused THEN {} ELSE {s}]

Reads(p, s) ==
    /\ p \in live /\ Idle(p) /\ MayRun(p)
    /\ arrived[s] < MaxCopies
    /\ arrived' = [arrived EXCEPT ![s] = @ + 1]

(* A relayed signal is verified with the key of its origin's session. *)
KeyKnown(p, s) == Origin[s] = p \/ Origin[s] \in live

(* An origin without a key, or a duplicate, is dropped without a receipt. *)
ReadUnknownOrigin(p, s) ==
    /\ Reads(p, s)
    /\ ~KeyKnown(p, s)
    /\ UNCHANGED <<gate, saved, seen, pending, live, task, crashes, history>>

ReadDuplicate(p, s) ==
    /\ Reads(p, s)
    /\ KeyKnown(p, s)
    /\ s \in seen
    /\ UNCHANGED <<gate, saved, seen, pending, live, task, crashes, history>>

(* The claim check_and_set_seen makes on a fresh identifier. *)
Claim(s) == seen' = seen \cup {s}

ReadUnpropagable(p, s) ==
    /\ Reads(p, s)
    /\ KeyKnown(p, s)
    /\ s \notin seen
    /\ s \in Unpropagable
    /\ Claim(s)
    /\ task' = [task EXCEPT ![p] = [NoWork EXCEPT !.refused = {s}]]
    /\ UNCHANGED <<gate, saved, pending, live, crashes, history>>

Receive(p, s) ==
    /\ Reads(p, s)
    /\ KeyKnown(p, s)
    /\ s \notin seen
    /\ s \notin Unpropagable
    /\ Claim(s)
    /\ \E w \in SynapseWeights : \E o \in Admit(gate, s, w) :
          /\ gate' = o.gate
          /\ \/ \E route \in Plans(p) :
                   /\ s \in Ids(o.fired) \/ route = {}
                   /\ task' = [task EXCEPT ![p] = Dispose(s, o, route)]
             \* plan_forwarding failed: read_loop logs and reads on
             \/ /\ StoreMayFail /\ s \in Ids(o.fired)
                /\ UNCHANGED task
    /\ UNCHANGED <<saved, pending, live, crashes, history>>

-----------------------------------------------------------------------------
(* The rest of read_loop's body, and of the maintenance loop's. *)

Answer(s, verdict) ==
    answers' = IF s \in Acked THEN [answers EXCEPT ![s] = Append(@, verdict)]
                              ELSE answers

(* A displaced signal's body is dropped and its sender told. *)
MutHandleEvicted(t) ==
    /\ MayRun(t)
    /\ \E s \in task[t].evicted :
          /\ Answer(s, "rejected")
          /\ task' = [task EXCEPT ![t].evicted = {}]
    /\ UNCHANGED <<gate, saved, seen, pending, live, arrived, crashes, handled, forwarded, bodiless>>

HandleEvicted(t) ==
    /\ MayRun(t)
    /\ \E s \in task[t].evicted :
          /\ pending' = {b \in pending : b.id # s}
          /\ Answer(s, "rejected")
          /\ task' = [task EXCEPT ![t].evicted = {}]
    /\ UNCHANGED <<gate, saved, seen, live, arrived, crashes, handled, forwarded, bodiless>>

(* The refused arrival's sender is told; the batch is still handled. *)
SendRefusal(t) ==
    /\ MayRun(t)
    /\ task[t].evicted = {}
    /\ \E s \in task[t].refused :
          /\ Answer(s, "rejected")
          /\ task' = [task EXCEPT ![t].refused = {}]
    /\ UNCHANGED <<gate, saved, seen, pending, live, arrived, crashes, handled, forwarded, bodiless>>

(* release_signal(): report, plan (unless already planned), forward over    *)
(* the sessions whose queue has room, and answer.  A signal released from   *)
(* the queue needs its cached body; without one there is nothing to do.     *)
MutVerdict(route, sent) == IF route = {} THEN "delivered" ELSE "rejected"

Verdict(route, sent) ==
    IF route = {} \/ sent # {} THEN "delivered" ELSE "rejected"

Deliver(s, route, sent) ==
    /\ handled' = [handled EXCEPT ![s] = @ + 1]
    /\ forwarded' = IF sent = {} THEN forwarded ELSE forwarded \cup {s}
    /\ Answer(s, Verdict(route, sent))
    /\ UNCHANGED bodiless

(* The arrival: its body is in hand and its route was planned. *)
ReleaseArrival(t, s) ==
    /\ s \in task[t].own
    /\ \E sent \in SUBSET (task[t].plan \cap live) : Deliver(s, task[t].plan, sent)
    /\ UNCHANGED pending

(* A signal from the queue: its body, if any, leaves the cache and is       *)
(* planned now.  A plan that fails counts as an empty one.                  *)
MutReleaseQueued(t, s) ==
    /\ s \notin task[t].own
    /\ pending' = {b \in pending : b.id # s}
    /\ handled' = [handled EXCEPT ![s] = @ + 1]
    /\ UNCHANGED <<forwarded, answers, bodiless>>

ReleaseQueued(t, s) ==
    /\ s \notin task[t].own
    /\ pending' = {b \in pending : b.id # s}
    /\ \/ \E body \in pending :
             /\ body.id = s
             /\ \E route \in Plans(body.via) :
                \E sent \in SUBSET (route \cap live) : Deliver(s, route, sent)
       \/ /\ s \notin Cached
          /\ bodiless' = bodiless \cup {s}
          /\ UNCHANGED <<handled, forwarded, answers>>

ReleaseNext(t) ==
    /\ MayRun(t)
    /\ task[t].evicted = {} /\ task[t].refused = {}
    /\ task[t].batch # <<>>
    /\ LET s == Head(task[t].batch)
       IN  /\ ReleaseArrival(t, s) \/ ReleaseQueued(t, s)
           /\ task' = [task EXCEPT ![t].batch = Tail(@),
                                   ![t].own = @ \ {s},
                                   ![t].plan = IF s \in task[t].own THEN {} ELSE @]
    /\ UNCHANGED <<gate, saved, seen, live, arrived, crashes>>

(* remember_body(): past twice the queue depth the smallest id is evicted. *)
Backstop(bodies) ==
    IF Cardinality(bodies) >= 2 * MaxQueueDepth
    THEN {b \in bodies : \E c \in bodies : c.id < b.id}
    ELSE bodies

RememberBody(t) ==
    /\ MayRun(t)
    /\ task[t].evicted = {} /\ task[t].refused = {} /\ task[t].batch = <<>>
    /\ \E s \in task[t].keep :
          /\ pending' = {b \in Backstop(pending) : b.id # s} \cup {[id |-> s, via |-> t]}
          /\ task' = [task EXCEPT ![t].keep = {}]
    /\ UNCHANGED <<gate, saved, seen, live, arrived, crashes, history>>

(* The maintenance loop polls the gate for starving signals. *)
PollActivation ==
    /\ Idle(Maintenance) /\ MayRun(Maintenance)
    /\ \E o \in DrainIfStarving(gate) :
          /\ o.fired # <<>>
          /\ gate' = o.gate
          /\ task' = [task EXCEPT ![Maintenance].batch = IdsOf(o.fired)]
    /\ UNCHANGED <<saved, seen, pending, live, arrived, crashes, history>>

Checkpoint ==
    /\ Idle(Maintenance) /\ MayRun(Maintenance)
    /\ saved' = Snap(gate)
    /\ UNCHANGED <<gate, seen, pending, live, task, arrived, crashes, history>>

Tick ==
    /\ gate' = Aged(gate)
    /\ saved' = [saved EXCEPT !.refr = Less(@)]
    /\ UNCHANGED <<seen, pending, live, task, arrived, crashes, history>>

(* The process dies at any point and is rebuilt from its store. *)
Crash ==
    /\ crashes < MaxCrashes
    /\ crashes' = crashes + 1
    /\ gate' = Restore(saved)
    /\ seen' = IF DurableStore THEN seen ELSE {}
    /\ pending' = {}
    /\ live' = {}
    /\ task' = [t \in Tasks |-> NoWork]
    /\ UNCHANGED <<saved, arrived, history>>

TaskStep(t) ==
    \/ HandleEvicted(t)
    \/ SendRefusal(t)
    \/ ReleaseNext(t)
    \/ RememberBody(t)

Next ==
    \/ \E p \in Peers : Connect(p) \/ Disconnect(p)
    \/ \E p \in Peers, s \in Signals :
          \/ ReadUnknownOrigin(p, s)
          \/ ReadDuplicate(p, s)
          \/ ReadUnpropagable(p, s)
          \/ Receive(p, s)
    \/ \E t \in Tasks : TaskStep(t)
    \/ PollActivation
    \/ Checkpoint
    \/ Tick
    \/ Crash

Spec == Init /\ [][Next]_vars

(* Every task that has work is eventually scheduled, the clock advances and *)
(* the maintenance timer keeps firing; the application drains its events.   *)
(* Arrivals and sessions are up to the environment.                         *)
FairSpec ==
    /\ Spec
    /\ \A t \in Tasks : WF_vars(TaskStep(t))
    /\ WF_vars(PollActivation) /\ WF_vars(Tick)

-----------------------------------------------------------------------------
(* Signals the node still owes something to. *)
Held(s) ==
    \/ s \in Ids(gate.queue)
    \/ \E t \in Tasks : \/ s \in task[t].evicted \cup task[t].refused
                        \/ \E i \in DOMAIN task[t].batch : task[t].batch[i] = s

(* "The cache mirrors the gate's queue" (remember_body): between handlers   *)
(* the cached bodies are exactly those of the queued signals.  A body       *)
(* cached after its signal left, or uncached while it waits, breaks it.     *)
CacheMirrorsQueue ==
    /\ Quiet => Cached = Ids(gate.queue)
    /\ \A b, c \in pending : b.id = c.id => b = c

(* No released signal finds its body missing: the "no body" branch of       *)
(* release_signal is "what a restart looks like" and the queue does not     *)
(* survive a restart.                                                       *)
BodyAtRelease == bodiless = {}

(* The node's side of the contract in HandOver, read off the detailed       *)
(* state: a signal is held as long as the queue or a task still owes it     *)
(* something, and gone when it left without reaching the application.       *)
Stage(s) == CASE s \notin seen   -> "new"
              [] handled[s] > 1 -> "handled twice"
              [] handled[s] = 1 -> "handled"
              [] Held(s)        -> "held"
              [] OTHER          -> "gone"

Promise == INSTANCE HandOver WITH
    stage   <- [s \in Signals |-> Stage(s)],
    MayLose <- Parallel \/ StoreMayFail \/ MaxCrashes > 0

(* Every step of the node, with a durable dedup cache, is one of the        *)
(* contract's: each signal is claimed once and then handed over or refused, *)
(* answered in that very step and never again, also when it is duplicated   *)
(* or refused while it is in the batch it fired.  Between handlers nothing  *)
(* is lost; where races, failing writes and crashes lose signals, the lost  *)
(* ones were never acknowledged (Node::receive, read_loop, release_signal). *)
KeepsPromise == Promise!Spec

(* The receipt is the truth about forwarding: a node that reports a signal  *)
(* rejected has not passed it on to anybody.                                *)
RejectedNotForwarded ==
    \A s \in Acked : "rejected" \in {answers[s][i] : i \in DOMAIN answers[s]}
                        => s \notin forwarded

(* Every acknowledged signal the node accepts is eventually answered.       *)
EventuallyAnswered ==
    \A s \in Acked : (s \in seen) ~> (Len(answers[s]) > 0)

-----------------------------------------------------------------------------
(* What the documentation says and the code does not do: each of these is   *)
(* refuted by TLC on the instances the README names.                        *)

(* "A relay with no onward route reports that rather than claiming          *)
(* delivery" (Node::receive).                                               *)
DeliveredMeansForwarded ==
    \A s \in Acked : "delivered" \in {answers[s][i] : i \in DOMAIN answers[s]}
                        => s \in forwarded

(* An acknowledged signal gets exactly one receipt once the node is done    *)
(* with it, whether it was refused, displaced, fired on arrival or released *)
(* later: never none, never two (delivery-semantics 2.1).  The store may    *)
(* fail after the gate has fired, and then there is none.                   *)
AnsweredOnce ==
    \A s \in Acked : s \in seen /\ crashes = 0 =>
        /\ Len(answers[s]) <= 1
        /\ Quiet /\ ~Held(s) => Len(answers[s]) = 1

(* A duplicate of a signal the node has handled has its receipt re-emitted  *)
(* (delivery-semantics 4, requirement 2).                                   *)
DuplicateAnswered ==
    \A s \in Acked :
        Quiet /\ handled[s] = 1 /\ crashes = 0 => Len(answers[s]) = arrived[s]

=============================================================================
