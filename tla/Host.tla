-------------------------------- MODULE Host --------------------------------
(***************************************************************************)
(* The tasks of one process and what they wait for.                        *)
(*                                                                         *)
(* Every read loop, the maintenance task and, in `ntl emit`, the command   *)
(* itself report to one event channel of fixed size                        *)
(* (ntl-net/src/runtime.rs); the host, the body of `ntl start`, `listen`   *)
(* and the node binaries or of `ntl emit` (ntl-cli/src/main.rs,            *)
(* ntl-net/src/bin_support.rs), is the only one that empties it, and only  *)
(* while it is in its select loop.  Signals for a peer go through that     *)
(* peer's outbound queue, which a writer pump empties as fast as the peer  *)
(* reads.  What the signals are and what the node decides about them is    *)
(* NodeRuntime's and Learning's business: here a handler is the sequence   *)
(* of points at which it can be made to wait.                              *)
(*                                                                         *)
(* The session table's guards are never held over an await, so a critical  *)
(* section is one step.  Two connections of one peer are Sessions'         *)
(* subject: here a peer has at most one at a time.                         *)
(***************************************************************************)
EXTENDS Integers, FiniteSets

CONSTANTS
    Peers,        \* the peers that may connect
    Maintenance,  \* the maintenance task
    EventRoom,    \* Runtime::new: the size of the event channel (1024)
    PeerRoom,     \* PEER_QUEUE_DEPTH (256)
    MaxBatch      \* bound: MaxBatch[t] signals a firing of the gate hands to t

ASSUME HostAssumption ==
    /\ IsFiniteSet(Peers) /\ Maintenance \notin Peers
    /\ {EventRoom, PeerRoom} \subseteq Nat \ {0}
    /\ MaxBatch \in [Peers \cup {Maintenance} -> Nat \ {0}]

VARIABLES
    kind,    \* what the process runs: a node, or one `ntl emit`
    host,    \* where its main task is
    waiting, \* events in the channel
    at,      \* at[t]: where task t is
    left,    \* left[t]: released signals t still has to handle
    table,   \* peers in the session table
    queue,   \* queue[p]: signals in p's outbound queue
    pump     \* pump[p]: p's writer pump

vars == <<kind, host, waiting, at, left, table, queue, pump>>

Tasks == Peers \cup {Maintenance}

-----------------------------------------------------------------------------
(* Where a task can be.  Each stage is named for what the task does in it. *)
Reporting == {"announce", "drop", "forged", "clamped", "evicted", "refused",
              "released", "told", "farewell"}  \* awaits room for an event
Looking   == {"apology", "answer", "forward", "receipt"}
                                               \* uses the session table
Resting   == {"off", "reading", "asleep"}      \* waits for a peer or a tick

(* How the handler of a signal goes on.  A signal that fails verification, *)
(* is malformed or is a receipt costs one event at most; the others may    *)
(* displace a queued signal, be refused, and release a batch.              *)
Unqueued    == {"reading", "released"}
AfterEvict  == {"answer", "refused"} \cup Unqueued
AfterClamp  == {"drop", "reading", "evicted"} \cup AfterEvict
AfterVerify == {"drop", "forged", "clamped"} \cup AfterClamp

(* One released signal is handled; the next of the batch follows.          *)
AfterSignal(t) == IF left[t] > 1 THEN {"released"} ELSE {"reading"}

After(t) ==
    CASE at[t] = "announce" -> {"reading"}
      [] at[t] = "farewell" -> {"off"}
      [] at[t] = "drop"     -> {"reading"}
      [] at[t] = "forged"   -> {"reading", "leave"}
      [] at[t] = "clamped"  -> AfterClamp
      [] at[t] = "evicted"  -> {"apology"} \cup AfterEvict
      [] at[t] = "apology"  -> AfterEvict
      [] at[t] = "answer"   -> {"refused"}
      [] at[t] = "refused"  -> Unqueued
      [] at[t] = "released" -> {"forward", "receipt"} \cup AfterSignal(t)
      [] at[t] = "forward"  -> {"told"}
      [] at[t] = "told"     -> {"receipt"} \cup AfterSignal(t)
      [] at[t] = "receipt"  -> AfterSignal(t)

(* What is left of the batch once the task is at `next`.                   *)
Remaining(t, next) ==
    CASE next = "released" /\ left[t] = 0 -> 1 .. MaxBatch[t]
      [] next = "released" /\ left[t] > 0 -> {left[t] - 1}
      [] next = "reading" -> {0}
      [] OTHER -> {left[t]}

(* The task moves on.  Where a read loop would read, maintenance sleeps.   *)
MoveTo(t, next) ==
    /\ at' = [at EXCEPT ![t] = IF t = Maintenance /\ next = "reading"
                               THEN "asleep" ELSE next]
    /\ \E n \in Remaining(t, next) : left' = [left EXCEPT ![t] = n]

Advance(t) == \E next \in After(t) : MoveTo(t, next)

-----------------------------------------------------------------------------
Init ==
    /\ kind \in {"serve", "emit"} /\ host = "dialing"
    /\ waiting = 0
    /\ at = [t \in Tasks |-> IF t = Maintenance THEN "asleep" ELSE "off"]
    /\ left = [t \in Tasks |-> 0]
    /\ table = {}
    /\ queue = [p \in Peers |-> 0] /\ pump = [p \in Peers |-> "none"]

Running == host # "stopped"

(* `events.send(..).await`: a full channel makes the sender wait. *)
Send ==
    /\ waiting < EventRoom
    /\ waiting' = waiting + 1

MutTrySend(chosen) ==  \* send().await instead
    /\ \A p \in chosen \cap table : queue[p] < PeerRoom
    /\ queue' = [p \in Peers |-> IF p \in chosen \cap table
                                 THEN queue[p] + 1 ELSE queue[p]]

(* `session.outbound.try_send(..)` to the chosen peers under the table's   *)
(* read guard: a full queue, or one whose pump has ended, drops the signal *)
(* and the sender goes on.  A queue has its room before its pump starts.   *)
TrySend(chosen) ==
    queue' = [p \in Peers |->
        IF p \in chosen \cap table /\ pump[p] # "broken" /\ queue[p] < PeerRoom
        THEN queue[p] + 1 ELSE queue[p]]

-----------------------------------------------------------------------------
(* A session: run_session after the handshake, and its read loop. *)

(* The listener accepts, or a dial succeeds, and the handshake ends well.  *)
(* The entry is in the table before its pump runs: until the event is out, *)
(* signals for the peer wait in the queue.                                 *)
Connect(p) ==
    /\ Running /\ at[p] = "off"
    /\ table' = table \cup {p}
    /\ queue' = [queue EXCEPT ![p] = 0]
    /\ at' = [at EXCEPT ![p] = "announce"]
    /\ UNCHANGED <<kind, host, waiting, left, pump>>

(* A frame arrives; its origin's key is looked up and it is verified.      *)
Read(p) ==
    /\ Running /\ at[p] = "reading"
    /\ \E next \in AfterVerify : MoveTo(p, next)
    /\ UNCHANGED <<kind, host, waiting, table, queue, pump>>

(* The peer closes, or its frame cannot be decoded: read_signal fails.     *)
ReadFails(p) ==
    /\ Running /\ at[p] = "reading"
    /\ at' = [at EXCEPT ![p] = "leave"]
    /\ UNCHANGED <<kind, host, waiting, left, table, queue, pump>>

(* The session ends: its entry goes, its pump is aborted and what was      *)
(* still queued goes with it; the event comes last.                        *)
Leave(p) ==
    /\ Running /\ at[p] = "leave"
    /\ table' = table \ {p}
    /\ queue' = [queue EXCEPT ![p] = 0]
    /\ pump' = [pump EXCEPT ![p] = "none"]
    /\ at' = [at EXCEPT ![p] = "farewell"]
    /\ UNCHANGED <<kind, host, waiting, left>>

(* maintenance: poll_activation releases a batch.  `ntl emit` spawns none. *)
Tick ==
    /\ Running /\ kind = "serve" /\ at[Maintenance] = "asleep"
    /\ MoveTo(Maintenance, "released")
    /\ UNCHANGED <<kind, host, waiting, table, queue, pump>>

(* A task reports what it just did; the session's pump is spawned once     *)
(* PeerConnected is out.                                                   *)
Report(t) ==
    /\ Running /\ at[t] \in Reporting
    /\ Send
    /\ Advance(t)
    /\ pump' = IF at[t] = "announce" THEN [pump EXCEPT ![t] = "idle"] ELSE pump
    /\ UNCHANGED <<kind, host, table, queue>>

(* A task forwards a signal to the peers of its plan, or sends a receipt   *)
(* to one peer.                                                            *)
Look(t) ==
    /\ Running /\ at[t] \in Looking
    /\ IF at[t] = "forward"
       THEN \E plan \in SUBSET Peers \ {{}} : TrySend(plan)
       ELSE \E p \in Peers : TrySend({p})
    /\ Advance(t)
    /\ UNCHANGED <<kind, host, waiting, table, pump>>

-----------------------------------------------------------------------------
(* The writer pump of a session: it takes a signal, and the write lasts as *)
(* long as the peer does not read; a failed write ends it.                 *)
PumpTake(p) ==
    /\ Running /\ pump[p] = "idle" /\ queue[p] > 0
    /\ pump' = [pump EXCEPT ![p] = "writing"]
    /\ queue' = [queue EXCEPT ![p] = @ - 1]
    /\ UNCHANGED <<kind, host, waiting, at, left, table>>

PumpWrite(p) ==
    /\ Running /\ pump[p] = "writing"
    /\ pump' = [pump EXCEPT ![p] = "idle"]
    /\ UNCHANGED <<kind, host, waiting, at, left, table, queue>>

PumpFail(p) ==
    /\ Running /\ pump[p] = "writing"
    /\ pump' = [pump EXCEPT ![p] = "broken"]
    /\ queue' = [queue EXCEPT ![p] = 0]
    /\ UNCHANGED <<kind, host, waiting, at, left, table>>

-----------------------------------------------------------------------------
(* The host. *)
MoveHost(stage) ==
    /\ host' = stage
    /\ UNCHANGED <<kind, at, left, table, pump>>

(* Bootstrap peers are dialed first.  A node goes on whatever comes of it; *)
(* `ntl emit` gives up when a dial fails.                                  *)
Dialed ==
    /\ host = "dialing"
    /\ \/ kind = "serve" /\ MoveHost("select")
       \/ kind = "emit" /\ (MoveHost("polling") \/ MoveHost("stopped"))
    /\ UNCHANGED <<waiting, queue>>

MutPolled ==  \* wait_for_peers without its deadline
    /\ host = "polling" /\ table # {}
    /\ MoveHost("route")
    /\ UNCHANGED <<waiting, queue>>

(* wait_for_peers ends: enough peers, or the deadline.  None is an error.  *)
Polled ==
    /\ host = "polling"
    /\ IF table = {} THEN MoveHost("stopped") ELSE MoveHost("route")
    /\ UNCHANGED <<waiting, queue>>

(* Runtime::route: the signal is queued to the peers of the plan that have *)
(* a session, the guard is dropped, and Forwarded is reported.  A signal   *)
(* that cannot be built, signed or journalled ends the command.            *)
Route ==
    /\ host = "route"
    /\ \/ (\E plan \in SUBSET Peers : TrySend(plan)) /\ MoveHost("tell")
       \/ UNCHANGED queue /\ MoveHost("stopped")
    /\ UNCHANGED waiting

TellForwarded ==
    /\ host = "tell"
    /\ Send
    /\ MoveHost("select")
    /\ UNCHANGED queue

(* The select loop takes an event and prints it. *)
TakeEvent ==
    /\ host = "select" /\ waiting > 0
    /\ waiting' = waiting - 1
    /\ UNCHANGED <<kind, host, at, left, table, queue, pump>>

(* `ntl emit` stops `wait_secs` after it emitted. *)
Deadline ==
    /\ kind = "emit" /\ host = "select"
    /\ MoveHost("stopped")
    /\ UNCHANGED <<waiting, queue>>

(* ctrl-c.  Nobody handles it while a node dials or in `ntl emit`, and it  *)
(* ends the process.  A node in its select loop checkpoints and returns,   *)
(* unless it is handling an event or takes one at the same time: then the  *)
(* future that would have heard the signal is gone, and nothing happens.   *)
Interrupt ==
    /\ Running
    /\ MoveHost("stopped")
    /\ UNCHANGED <<waiting, queue>>

HostStep == Dialed \/ Polled \/ Route \/ TakeEvent

Next ==
    \/ \E p \in Peers : Connect(p) \/ Read(p) \/ ReadFails(p) \/ Leave(p)
                        \/ PumpTake(p) \/ PumpWrite(p) \/ PumpFail(p)
    \/ \E t \in Tasks : Report(t) \/ Look(t)
    \/ Tick \/ HostStep \/ TellForwarded \/ Deadline \/ Interrupt

Spec == Init /\ [][Next]_vars

(* Tokio runs every task that can run, its channels serve waiting senders  *)
(* in order, select! picks among ready branches at random and timers fire. *)
(* Nothing is assumed of the peers: when they connect, send, close, or     *)
(* read what the pump writes.                                              *)
Fairness ==
    /\ \A p \in Peers : WF_vars(Leave(p))
    /\ \A t \in Tasks : WF_vars(Look(t)) /\ SF_vars(Report(t))
    /\ WF_vars(HostStep) /\ SF_vars(TellForwarded) /\ SF_vars(Deadline)

FairSpec == Spec /\ Fairness

-----------------------------------------------------------------------------
(* `ntl emit` empties the channel only after its own Forwarded event is in *)
(* it: events that fill the channel before that leave it, and every task   *)
(* that reports, waiting for one another.                                  *)
Wedged == kind = "emit" /\ host = "tell" /\ waiting = EventRoom

(* Whatever the peers do, one that stops reading and never closes          *)
(* included, a task that is handling a signal, forming a session or ending *)
(* one gets back to waiting for its peer or its tick: "a full queue means  *)
(* a peer we cannot keep up with, and blocking here would let one slow     *)
(* peer stall the whole node" (runtime.rs, route).  The exceptions are the *)
(* end of the process and an `ntl emit` wedged on its own channel.         *)
TasksReturn ==
    \A t \in Tasks : at[t] \notin Resting ~>
                         (at[t] \in Resting \/ host = "stopped" \/ Wedged)

(* `ntl emit` ends, however much its peers send it and however slowly they *)
(* read, unless the channel is full when it reports its own signal.        *)
EmitReturns == kind = "emit" ~> (host = "stopped" \/ Wedged)

=============================================================================
