------------------------------ MODULE Network -------------------------------
(***************************************************************************)
(* Signals travelling between nodes: emission (Runtime::emit, route), the  *)
(* receive rules of Node::receive and check_propagable, the choice of      *)
(* peers (select_synapses), the hop (Signal::hop, attenuate_for_hop) and   *)
(* the receipts that come back (apply_receipt).                            *)
(*                                                                         *)
(* link[<<n, m>>] is what n has handed to its session with m and m has not *)
(* read: the session's outbound queue and the socket.  A handler is atomic *)
(* (module NodeRuntime interleaves its parts), the activation gate holds a *)
(* signal for any time (module Activation bounds it), a synapse can always *)
(* carry and a decision stays open until a receipt arrives (module         *)
(* Learning moves weights and sweeps).  Weights are integers.              *)
(***************************************************************************)
EXTENDS Integers, Sequences, FiniteSets

CONSTANTS
    Nodes,
    Synapses,        \* pairs {n, m} of nodes with a synapse
    Signals,
    Origin,          \* Origin[s]: the node that emits s
    Acked,           \* signals of delivery class Acknowledged
    Scope,           \* Scope[s]: "flood", "weighted" or "targeted"
    Destination,     \* Destination[s]: where a targeted s is to go
    MaxHops,         \* a flood's max_hops
    Ttl,             \* Ttl[s], Weight[s]: as the emitter set them
    Weight,
    MaxAcceptedTtl,  \* PropagationConfig.max_accepted_ttl
    MinWeight,       \* PropagationConfig.min_propagation_weight
    AttNum, AttDen,  \* PropagationConfig.attenuation_factor
    MaxFanout,       \* PropagationConfig.max_fanout
    DedupTicks,      \* PropagationConfig.dedup_cache_seconds
    QueueDepth,      \* ActivationConfig.max_queue_depth
    PeerQueueDepth,  \* PEER_QUEUE_DEPTH, the socket's buffer included
    TraceCap,        \* the trace stops growing at 64 entries
    Fragile,         \* bound: the synapses whose session may break
    MaxEmits,        \* bound: how many of Signals are emitted
    MaxBreaks        \* bound: how many sessions break

Scopes == {"flood", "weighted", "targeted"}

(* What PropagationConfig::validate asks of the fields used here; that the  *)
(* dedup window covers a sender's retries is left out, as nothing retries.  *)
ValidConfig == MaxFanout >= 1 /\ AttNum <= AttDen

ASSUME NetworkAssumption ==
    /\ ValidConfig
    /\ \A l \in Synapses : \E n, m \in Nodes : n # m /\ l = {n, m}
    /\ Fragile \subseteq Synapses
    /\ Origin \in [Signals -> Nodes] /\ Destination \in [Signals -> Nodes]
    /\ Acked \subseteq Signals
    /\ Scope \in [Signals -> Scopes]
    /\ Ttl \in [Signals -> Nat] /\ Weight \in [Signals -> Nat]
    /\ {MaxHops, MaxAcceptedTtl, MinWeight, AttNum, DedupTicks, MaxEmits, MaxBreaks} \subseteq Nat
    /\ AttDen \in Nat \ {0} /\ MaxFanout \in Nat
    /\ {QueueDepth, PeerQueueDepth} \subseteq Nat \ {0}
    /\ TraceCap \in Nat /\ TraceCap > MaxAcceptedTtl + 1

VARIABLES
    link,     \* frames on their way, per directed pair
    up,       \* the synapses whose nodes have a session
    seen,     \* seen[n][s]: how long n's dedup entry for s still lives
    held,     \* held[n]: the frames n's activation gate holds
    open,     \* open[n][s, m]: n's unresolved decisions to send s to m
    emitted,  \* signals emitted so far
    breaks,   \* how many sessions broke so far
    handled,  \* history: <<n, s>>, n handed s to its application
    refused,  \* history: n refused s, and why
    credit    \* history: n resolved a decision about m by a receipt

vars == <<link, up, seen, held, open, emitted, breaks, handled, refused, credit>>

(* What the nodes' applications were told. *)
history == <<handled, refused, credit>>

Pairs == {l \in Nodes \X Nodes : l[1] # l[2]}

Reasons == {"ttl_exhausted", "no_route", "below_threshold", "queue_full",
            "transport_failure"}

SignalFrame == [kind : {"signal"}, sig : Signals, ttl : Nat, weight : Nat,
                trace : Seq(Nodes)]

ReceiptFrame == [kind : {"receipt"}, sig : Signals, ok : BOOLEAN]

TypeOK ==
    /\ link \in [Pairs -> Seq(SignalFrame \cup ReceiptFrame)]
    /\ up \subseteq Synapses
    /\ seen \in [Nodes -> [Signals -> 0..DedupTicks]]
    /\ held \in [Nodes -> SUBSET SignalFrame]
    /\ open \in [Nodes -> [Signals \X Nodes -> Nat]]
    /\ emitted \subseteq Signals
    /\ breaks \in 0..MaxBreaks
    /\ handled \subseteq Nodes \X Signals
    /\ refused \subseteq [node : Nodes, sig : Signals, reason : Reasons]
    /\ credit \subseteq [node : Nodes, sig : Signals, peer : Nodes, ok : BOOLEAN]

Init ==
    /\ link = [l \in Pairs |-> <<>>]
    /\ up = Synapses
    /\ seen = [n \in Nodes |-> [s \in Signals |-> 0]]
    /\ held = [n \in Nodes |-> {}]
    /\ open = [n \in Nodes |-> [d \in Signals \X Nodes |-> 0]]
    /\ emitted = {} /\ breaks = 0
    /\ handled = {} /\ refused = {} /\ credit = {}

-----------------------------------------------------------------------------
(* The propagation rules. *)

(* A signal as its emitter builds it. *)
Emission(s) == [kind |-> "signal", sig |-> s, ttl |-> Ttl[s],
                weight |-> Weight[s], trace |-> <<>>]

(* clamp_inbound_headers *)
Clamped(f) == [f EXCEPT !.ttl = IF @ > MaxAcceptedTtl THEN MaxAcceptedTtl ELSE @]

Visited(n, f) == \E i \in DOMAIN f.trace : f.trace[i] = n

(* check_propagable: the first rule that stands against f at n, if any. *)
MutBlockedVisited(n, f) ==
    IF f.ttl = 0 THEN {"ttl_exhausted"}
    ELSE IF f.weight < MinWeight THEN {"below_threshold"}
    ELSE {}

Blocked(n, f) ==
    IF f.ttl = 0 THEN {"ttl_exhausted"}
    ELSE IF Visited(n, f) THEN {"no_route"}
    ELSE IF f.weight < MinWeight THEN {"below_threshold"}
    ELSE {}

MutFloodDepthReached(f) == Scope[f.sig] = "flood" /\ Len(f.trace) > MaxHops

FloodDepthReached(f) == Scope[f.sig] = "flood" /\ Len(f.trace) >= MaxHops

(* hop and attenuate_for_hop: what n puts on the wire for f.  The weight of *)
(* an acknowledged signal is floored while hops remain.                     *)
MutAttenuated(f, ttl) == (f.weight * AttNum) \div AttDen

Attenuated(f, ttl) ==
    LET w == (f.weight * AttNum) \div AttDen
    IN  IF f.sig \in Acked /\ ttl > 0 /\ w < MinWeight THEN MinWeight ELSE w

Hop(n, f) ==
    LET ttl == IF f.ttl = 0 THEN 0 ELSE f.ttl - 1
    IN  [f EXCEPT !.ttl = ttl,
                  !.weight = Attenuated(f, ttl),
                  !.trace = IF Len(@) < TraceCap THEN Append(@, n) ELSE @]

(* sample_paths: any k of the eligible peers, or all if there are fewer.    *)
Sample(el, k) ==
    {p \in SUBSET el : Cardinality(p) = IF Cardinality(el) < k THEN Cardinality(el) ELSE k}

(* select_synapses: the sets of peers n may choose for f, which came from   *)
(* `via` (empty for its own).  A flood takes all, a targeted signal its     *)
(* destination or else one guess, the rest a sample of max_fanout.  Only    *)
(* the peer a signal came from is left out, not the others in its trace.    *)
Eligible(n, via) == {m \in Nodes \ via : {n, m} \in Synapses}

Plans(n, f, via) ==
    LET el == Eligible(n, via)
    IN  IF el = {} \/ FloodDepthReached(f) THEN {{}}
        ELSE CASE Scope[f.sig] = "flood"    -> {el}
               [] Scope[f.sig] = "weighted" -> Sample(el, MaxFanout)
               [] Scope[f.sig] = "targeted" ->
                     IF Destination[f.sig] \in el THEN {{Destination[f.sig]}}
                     ELSE Sample(el, 1)

-----------------------------------------------------------------------------
(* Sending.  try_send fails without a session or without room. *)

Room(ch, n, m) == {n, m} \in up /\ Len(ch[<<n, m>>]) < PeerQueueDepth

Reached(ch, n, ms) == {m \in ms : Room(ch, n, m)}

Sent(ch, n, ms, f) ==
    [l \in Pairs |-> IF l[1] = n /\ l[2] \in ms THEN Append(ch[l], f) ELSE ch[l]]

(* send_receipt_to: over the session with the origin or not at all;         *)
(* send_receipt: else back to the peer it came from.                        *)
Answered(ch, n, s, ok, via) ==
    LET toward == IF {n, Origin[s]} \in up THEN {Origin[s]} ELSE via
    IN  IF s \in Acked
        THEN Sent(ch, n, Reached(ch, n, toward), [kind |-> "receipt", sig |-> s, ok |-> ok])
        ELSE ch

Decided(n, s, ms) ==
    [open EXCEPT ![n] = [d \in Signals \X Nodes |->
        IF d[1] = s /\ d[2] \in ms THEN @[d] + 1 ELSE @[d]]]

Refusal(n, s, reason) == [node |-> n, sig |-> s, reason |-> reason]

(* release_signal and forward_signal: n hands f to its application, sends   *)
(* it to the peers of plan it can reach, and answers.  A decision that      *)
(* could not be transmitted is resolved at once (fail_forward).             *)
Release(ch, n, f, plan) ==
    LET reached == Reached(ch, n, plan)
        ok      == plan = {} \/ reached # {}
    IN  /\ handled' = handled \cup {<<n, f.sig>>}
        /\ open' = Decided(n, f.sig, reached)
        /\ link' = Answered(Sent(ch, n, reached, Hop(n, f)), n, f.sig, ok, {})
        /\ refused' = IF ok THEN refused
                      ELSE refused \cup {Refusal(n, f.sig, "transport_failure")}

-----------------------------------------------------------------------------
(* Runtime::emit and route: claim the id, plan and send.  What cannot be    *)
(* sent stays an open decision, and a refusal is reported to nobody.        *)
Emit(n, s) ==
    /\ s \notin emitted /\ Origin[s] = n
    /\ Cardinality(emitted) < MaxEmits
    /\ emitted' = emitted \cup {s}
    /\ seen' = [seen EXCEPT ![n][s] = DedupTicks]
    /\ LET f == Emission(s)
       IN  \/ /\ Blocked(n, f) = {}
              /\ \E plan \in Plans(n, f, {}) :
                    /\ open' = Decided(n, s, plan)
                    /\ link' = Sent(link, n, Reached(link, n, plan), Hop(n, f))
           \/ /\ Blocked(n, f) # {}
              /\ UNCHANGED <<open, link>>
    /\ UNCHANGED <<up, held, breaks, history>>

(* n reads the next frame of its session with p. *)
Incoming(n, p, kind) == link[<<p, n>>] # <<>> /\ Head(link[<<p, n>>]).kind = kind

First(n, p) == Head(link[<<p, n>>])

Popped(n, p) == [link EXCEPT ![<<p, n>>] = Tail(@)]

(* apply_receipt: resolves one open decision of n about the peer that sent  *)
(* the receipt; a receipt that matches none is discarded.                   *)
MutMatchingAny(n, p, s) == {p}

MutMatching(n, p, s) == {m \in Nodes : open[n][<<s, m>>] > 0}

Matching(n, p, s) == {m \in {p} : open[n][<<s, m>>] > 0}

ReadReceipt(n, p) ==
    /\ Incoming(n, p, "receipt")
    /\ LET r == First(n, p)
       IN  \/ \E m \in Matching(n, p, r.sig) :
                 /\ open' = [open EXCEPT ![n][<<r.sig, m>>] = @ - 1]
                 /\ credit' = credit \cup {[node |-> n, sig |-> r.sig, peer |-> m, ok |-> r.ok]}
           \/ /\ Matching(n, p, r.sig) = {}
              /\ UNCHANGED <<open, credit>>
    /\ link' = Popped(n, p)
    /\ UNCHANGED <<up, seen, held, emitted, breaks, handled, refused>>

(* The key of a relayed signal is that of its origin's session. *)
KeyKnown(n, p, s) == Origin[s] = p \/ {n, Origin[s]} \in up

IsDuplicate(n, s) == seen[n][s] > 0

(* Without a key, or a second time: dropped without an answer. *)
ReadDropped(n, p) ==
    /\ Incoming(n, p, "signal")
    /\ ~KeyKnown(n, p, First(n, p).sig) \/ IsDuplicate(n, First(n, p).sig)
    /\ link' = Popped(n, p)
    /\ UNCHANGED <<up, seen, held, open, emitted, breaks, history>>

(* A new signal: its id is claimed before any rule is looked at. *)
ReadNew(n, p) ==
    /\ Incoming(n, p, "signal")
    /\ LET s == First(n, p).sig
       IN  /\ KeyKnown(n, p, s) /\ ~IsDuplicate(n, s)
           /\ seen' = [seen EXCEPT ![n][s] = DedupTicks]
    /\ UNCHANGED <<up, emitted, breaks, credit>>

Refuse(ch, n, s, reason, via) ==
    /\ refused' = refused \cup {Refusal(n, s, reason)}
    /\ link' = Answered(ch, n, s, FALSE, via)

(* A rule stands against it. *)
ReadBlocked(n, p) ==
    /\ ReadNew(n, p)
    /\ LET f == Clamped(First(n, p))
       IN  \E reason \in Blocked(n, f) : Refuse(Popped(n, p), n, f.sig, reason, {p})
    /\ UNCHANGED <<held, open, handled>>

(* The gate keeps it, at the price of another signal when the queue is full.*)
ReadQueued(n, p) ==
    /\ ReadNew(n, p)
    /\ LET f == Clamped(First(n, p))
       IN  /\ Blocked(n, f) = {}
           /\ \/ /\ Cardinality(held[n]) < QueueDepth
                 /\ held' = [held EXCEPT ![n] = @ \cup {f}]
                 /\ link' = Popped(n, p)
                 /\ UNCHANGED refused
              \/ /\ Cardinality(held[n]) >= QueueDepth
                 /\ \E g \in held[n] :
                       /\ held' = [held EXCEPT ![n] = (@ \ {g}) \cup {f}]
                       /\ Refuse(Popped(n, p), n, g.sig, "queue_full", {})
    /\ UNCHANGED <<open, handled>>

(* The full queue sheds the arrival itself. *)
ReadShed(n, p) ==
    /\ ReadNew(n, p)
    /\ LET f == Clamped(First(n, p))
       IN  /\ Blocked(n, f) = {}
           /\ Cardinality(held[n]) >= QueueDepth
           /\ Refuse(Popped(n, p), n, f.sig, "queue_full", {p})
    /\ UNCHANGED <<held, open, handled>>

(* It fires the gate and leaves at once.  With no route an acknowledged one *)
(* is refused; any other counts as handled here.                            *)
ReadFired(n, p) ==
    /\ ReadNew(n, p)
    /\ LET f == Clamped(First(n, p))
       IN  /\ Blocked(n, f) = {}
           /\ \E plan \in Plans(n, f, {p}) :
                 \/ /\ plan = {} /\ f.sig \in Acked
                    /\ Refuse(Popped(n, p), n, f.sig, "no_route", {p})
                    /\ UNCHANGED <<open, handled>>
                 \/ /\ plan # {} \/ f.sig \notin Acked
                    /\ Release(Popped(n, p), n, f, plan)
    /\ UNCHANGED held

(* The gate releases a signal it held; it is planned now. *)
MutFire(n) ==
    /\ \E f \in held[n] :
          /\ held' = [held EXCEPT ![n] = @ \ {f}]
          /\ \E plan \in Plans(n, f, {f.trace[Len(f.trace)]}) \ {{}} : Release(link, n, f, plan)
    /\ UNCHANGED <<up, seen, emitted, breaks, credit>>

Fire(n) ==
    /\ \E f \in held[n] :
          /\ held' = [held EXCEPT ![n] = @ \ {f}]
          /\ \E plan \in Plans(n, f, {f.trace[Len(f.trace)]}) : Release(link, n, f, plan)
    /\ UNCHANGED <<up, seen, emitted, breaks, credit>>

(* Time passes and dedup entries run out. *)
Tick ==
    /\ \E n \in Nodes, s \in Signals : seen[n][s] > 0
    /\ seen' = [n \in Nodes |-> [s \in Signals |-> IF seen[n][s] = 0 THEN 0 ELSE seen[n][s] - 1]]
    /\ UNCHANGED <<link, up, held, open, emitted, breaks, history>>

(* A session breaks, and what it carried is gone; it may come back. *)
Break(l) ==
    /\ l \in up \cap Fragile /\ breaks < MaxBreaks
    /\ breaks' = breaks + 1
    /\ up' = up \ {l}
    /\ link' = [e \in Pairs |-> IF {e[1], e[2]} = l THEN <<>> ELSE link[e]]
    /\ UNCHANGED <<seen, held, open, emitted, history>>

Reconnect(l) ==
    /\ l \notin up
    /\ up' = up \cup {l}
    /\ UNCHANGED <<link, seen, held, open, emitted, breaks, history>>

Read(n, p) ==
    \/ ReadReceipt(n, p)
    \/ ReadDropped(n, p)
    \/ ReadBlocked(n, p)
    \/ ReadQueued(n, p)
    \/ ReadShed(n, p)
    \/ ReadFired(n, p)

Next ==
    \/ \E n \in Nodes, s \in Signals : Emit(n, s)
    \/ \E l \in Pairs : Read(l[1], l[2])
    \/ \E n \in Nodes : Fire(n)
    \/ Tick
    \/ \E l \in Synapses : Break(l) \/ Reconnect(l)

Spec == Init /\ [][Next]_vars

(* As long as something has arrived or is held, some read loop or gate does *)
(* its work (a held signal is let go: Activation!EventuallyLeaves).  Which  *)
(* one, and whether anything else happens, is left open.                    *)
Work == (\E l \in Pairs : Read(l[1], l[2])) \/ (\E n \in Nodes : Fire(n))

FairSpec == Spec /\ WF_vars(Work)

-----------------------------------------------------------------------------
(* The signals under way: on the wire towards a node, or held by one. *)
OnWire(l) == {link[l][i] : i \in {j \in DOMAIN link[l] : link[l][j].kind = "signal"}}

(* The trace of a signal under way is the path it took: it starts at the    *)
(* origin, follows synapses, ends at the node that sent it and visits no    *)
(* node twice, also when dedup entries run out while it travels (Rule 2).   *)
IsPath(f, last) ==
    /\ f.trace # <<>>
    /\ f.trace[1] = Origin[f.sig] /\ f.trace[Len(f.trace)] = last
    /\ \A i \in DOMAIN f.trace, j \in DOMAIN f.trace :
          /\ f.trace[i] = f.trace[j] => i = j
          /\ j = i + 1 => {f.trace[i], f.trace[j]} \in Synapses

TraceIsPath ==
    /\ \A l \in Pairs : \A f \in OnWire(l) : IsPath(f, l[1])
    /\ \A n \in Nodes : \A f \in held[n] :
          ~Visited(n, f) /\ IsPath(f, f.trace[Len(f.trace)])

(* No signal goes further than its emitter allowed, whatever the paths: at  *)
(* most ttl hops, and for a flood at most max_hops (Rule 1, flood scope).   *)
Bounded(f) ==
    /\ Len(f.trace) + f.ttl <= Ttl[f.sig]
    /\ Scope[f.sig] = "flood" => Len(f.trace) <= MaxHops

TravelBounded ==
    /\ \A l \in Pairs : \A f \in OnWire(l) : Bounded(f)
    /\ \A n \in Nodes : \A f \in held[n] : Bounded(f)

(* An acknowledged signal its emitter could send is never refused for its   *)
(* weight on the way, however long the path (delivery-semantics 2.3).       *)
AckedKeepsWeight ==
    \A r \in refused : r.sig \in Acked => r.reason # "below_threshold"

(* What a receipt teaches is true of the peer it is credited to: a peer     *)
(* credited with delivery handled the signal, a peer blamed refused it.     *)
CreditIsTrue ==
    \A c \in credit :
        IF c.ok THEN <<c.peer, c.sig>> \in handled
        ELSE \E r \in refused : r.node = c.peer /\ r.sig = c.sig

(* Everything comes to rest: signals do not circulate, although a dedup     *)
(* entry may run out at any time and a signal may be handled again.         *)
EventuallyQuiet ==
    <>[](/\ \A l \in Pairs : link[l] = <<>>
         /\ \A n \in Nodes : held[n] = {})

-----------------------------------------------------------------------------
(* Stated in the code or its specification and not so: refuted by TLC on    *)
(* the instances the README names.                                          *)

(* A flood at its last hop "is still handled locally; it simply goes no     *)
(* further" (Node::plan_forwarding).                                        *)
OuterRingHandles ==
    \A r \in refused :
        Scope[r.sig] = "flood" /\ r.reason = "no_route" =>
            \A m \in Nodes : {r.node, m} \in Synapses => m = Origin[r.sig]

(* "size and TTL, then deduplication" (Node::receive): a copy that arrives  *)
(* with no hops left does not keep the node from a copy that has some.      *)
ExpiredCopyHarmless ==
    \A n \in Nodes, m \in Nodes, s \in Signals :
        <<m, n>> \in Pairs /\ <<n, s>> \notin handled /\ IsDuplicate(n, s) /\ Origin[s] # n
        /\ (\E f \in OnWire(<<m, n>>) : f.sig = s /\ f.ttl > 0)
            => Refusal(n, s, "ttl_exhausted") \notin refused

=============================================================================
