------------------------------ MODULE Sessions ------------------------------
(***************************************************************************)
(* Connections between nodes (ntl-net/src/runtime.rs: dial, listen,        *)
(* run_session, handshake).                                                *)
(*                                                                         *)
(* A connection has two ends, each driven by a task of its node.  An end   *)
(* sends a hello with a fresh challenge, answers the other's challenge     *)
(* with a proof, finds or creates the synapse of the peer it has           *)
(* authenticated, and enters the node's session table unless the peer      *)
(* already has a live session.  It then reads until the connection is      *)
(* gone and takes the peer out of the table.  The table maps a peer to the *)
(* sending half of an outbound queue; the receiving half belongs to the    *)
(* end's writer pump, so a session counts as live as long as its pump      *)
(* runs, and a pump stops when its table entry is dropped.                 *)
(*                                                                         *)
(* Peers follow the protocol; connections break and processes die.         *)
(* Signatures and keys are perfect: a hello names its sender.  Signals     *)
(* that flow over an open session belong to NodeRuntime.                   *)
(***************************************************************************)
EXTENDS Integers, Sequences, FiniteSets

CONSTANTS
    Nodes,
    Conns,      \* the connections ever dialed
    Carried,    \* the sets of connections the network may carry
    Dialer,     \* Dialer[c]: the node that dials c
    Listener,   \* Listener[c]: the node it reaches
    NoEnd,      \* an absent table entry
    Timeout,    \* HANDSHAKE_TIMEOUT
    Sqlite,     \* SqliteStore (one row per peer, durable) or MemoryStore
    MayFail     \* connections may break and processes may die

ASSUME SessionsAssumption ==
    /\ Dialer \in [Conns -> Nodes] /\ Listener \in [Conns -> Nodes]
    /\ Carried \subseteq SUBSET Conns
    /\ Timeout \in Nat \ {0}
    /\ NoEnd \notin Conns \X {"dialer", "listener"}
    /\ {Sqlite, MayFail} \subseteq BOOLEAN

Ends == Conns \X {"dialer", "listener"}

Conn(e) == e[1]
Owner(e) == IF e[2] = "dialer" THEN Dialer[e[1]] ELSE Listener[e[1]]
Other(e) == <<e[1], IF e[2] = "dialer" THEN "listener" ELSE "dialer">>
Peer(e) == Owner(Other(e))

VARIABLES
    phase,   \* what the task of each end is doing
    wire,    \* frames on their way to each end
    timer,   \* how long the end has waited for the frame it reads
    pump,    \* the end's writer pump runs and its table entry holds the queue
    table,   \* table[n][p]: the session of n with p
    syn,     \* syn[n][p]: n's synapse records for p, named by their creator
    cut,     \* connections the network has broken or never carries
    proved,  \* history: ends that have answered the other's challenge
    upset    \* history: connections that met a failure or a timeout, or
             \* overlapped in time with one of the same two nodes

vars == <<phase, wire, timer, pump, table, syn, cut, proved, upset>>

Phases == {"none", "hello", "proof", "form", "put", "admit", "open", "closing", "done"}
Shaking == {"hello", "proof"}
Authenticated == {"form", "put", "admit", "open", "closing"}

Frame == [kind : {"hello", "proof"}, from : Nodes, challenge : Ends]

TypeOK ==
    /\ phase \in [Ends -> Phases]
    /\ wire \in [Ends -> Seq(Frame)]
    /\ timer \in [Ends -> 0..Timeout]
    /\ pump \in [Ends -> BOOLEAN]
    /\ table \in [Nodes -> [Nodes -> Ends \cup {NoEnd}]]
    /\ syn \in [Nodes -> [Nodes -> SUBSET Ends]]
    /\ cut \subseteq Conns
    /\ proved \subseteq Ends
    /\ upset \subseteq Conns

Init ==
    /\ phase = [e \in Ends |-> "none"]
    /\ wire = [e \in Ends |-> <<>>]
    /\ timer = [e \in Ends |-> 0]
    /\ pump = [e \in Ends |-> FALSE]
    /\ table = [n \in Nodes |-> [p \in Nodes |-> NoEnd]]
    /\ syn = [n \in Nodes |-> [p \in Nodes |-> {}]]
    /\ cut \in {Conns \ carried : carried \in Carried}
    /\ proved = {}
    /\ upset = {}

-----------------------------------------------------------------------------
(* Connecting: each end writes its hello at once and waits for the other's. *)

Idle(c) == \A side \in {"dialer", "listener"} : phase[<<c, side>>] \in {"none", "done"}

SamePair(c, d) == {Dialer[c], Listener[c]} = {Dialer[d], Listener[d]}

Upset(c) == upset \cup {x \in Conns : SamePair(c, x) /\ phase[<<x, "dialer">>] # "none"}

(* The task of e goes on to phase ph, the network holding w.  Each frame is *)
(* waited for anew, and an end that is done reads nothing any more.         *)
Goes(e, ph, w) ==
    /\ phase' = [phase EXCEPT ![e] = ph]
    /\ timer' = [timer EXCEPT ![e] = 0]
    /\ wire' = IF ph = "done" THEN [w EXCEPT ![e] = <<>>] ELSE w

Sent(w, e, frame) ==
    IF phase[Other(e)] = "done" THEN w ELSE [w EXCEPT ![Other(e)] = Append(@, frame)]

Hello(e) == [kind |-> "hello", from |-> Owner(e), challenge |-> e]

Begin(e) ==
    /\ phase[e] = "none"
    /\ Goes(e, "hello", Sent(wire, e, Hello(e)))
    /\ UNCHANGED <<pump, table, syn, cut, proved>>

Dial(c) ==
    /\ c \notin cut
    /\ Begin(<<c, "dialer">>)
    /\ LET overlapping == {d \in Conns \ {c} : SamePair(c, d) /\ ~Idle(d)}
       IN  upset' = upset \cup overlapping \cup {x \in {c} : overlapping # {}}

Accept(c) ==
    /\ phase[<<c, "dialer">>] # "none"
    /\ Begin(<<c, "listener">>)
    /\ UNCHANGED upset

-----------------------------------------------------------------------------
(* handshake() *)

(* e takes the next frame off the wire. *)
Reads(e, kind) ==
    /\ phase[e] = kind
    /\ wire[e] # <<>>
    /\ Head(wire[e]).kind = kind

Rest(e) == [wire EXCEPT ![e] = Tail(@)]

(* The hello: refuse our own identity, answer the challenge. *)
OwnIdentity(frame, e) == frame.from = Owner(e)

MutProof(e, hello) == [kind |-> "proof", from |-> Owner(e), challenge |-> e]

Proof(e, hello) == [kind |-> "proof", from |-> Owner(e), challenge |-> hello.challenge]

MutReadHello(e) ==
    /\ Reads(e, "hello")
    /\ IF OwnIdentity(Head(wire[e]), e)
       THEN Goes(e, "done", Rest(e)) /\ UNCHANGED proved
       ELSE /\ Goes(e, "form", Sent(Rest(e), e, Proof(e, Head(wire[e]))))
            /\ proved' = proved \cup {e}
    /\ UNCHANGED <<pump, table, syn, cut, upset>>

ReadHello(e) ==
    /\ Reads(e, "hello")
    /\ IF OwnIdentity(Head(wire[e]), e)
       THEN Goes(e, "done", Rest(e)) /\ UNCHANGED proved
       ELSE /\ Goes(e, "proof", Sent(Rest(e), e, Proof(e, Head(wire[e]))))
            /\ proved' = proved \cup {e}
    /\ UNCHANGED <<pump, table, syn, cut, upset>>

(* The proof: it must come from the same peer and echo our challenge. *)
ReadProof(e) ==
    /\ Reads(e, "proof")
    /\ LET frame == Head(wire[e])
       IN  Goes(e, IF frame.from = Peer(e) /\ frame.challenge = e THEN "form" ELSE "done",
                Rest(e))
    /\ UNCHANGED <<pump, table, syn, cut, proved, upset>>

(* The connection is gone: the other end closed it or the network broke it. *)
Gone(e) == phase[Other(e)] = "done" \/ Conn(e) \in cut

(* A read or write fails, or read_handshake_frame times out. *)
MutExpired(e) == FALSE

Expired(e) == timer[e] = Timeout

Abandon(e) ==
    /\ phase[e] \in Shaking
    /\ Gone(e) \/ Expired(e)
    /\ Goes(e, "done", wire)
    /\ upset' = IF Expired(e) THEN Upset(Conn(e)) ELSE upset
    /\ UNCHANGED <<pump, table, syn, cut, proved>>

(* upsert_synapse(): look the peer up, ... *)
FindSynapse(e) ==
    /\ phase[e] = "form"
    /\ Goes(e, IF syn[Owner(e)][Peer(e)] = {} THEN "put" ELSE "admit", wire)
    /\ UNCHANGED <<pump, table, syn, cut, proved, upset>>

(* ... and create its synapse under a fresh id.  SQLite has a unique index  *)
(* on the peer, so a second row is an error that ends the connection.       *)
MutConflict(e) == FALSE

Conflict(e) == Sqlite /\ syn[Owner(e)][Peer(e)] # {}

PutSynapse(e) ==
    /\ phase[e] = "put"
    /\ IF Conflict(e)
       THEN Goes(e, "done", wire) /\ UNCHANGED syn
       ELSE /\ Goes(e, "admit", wire)
            /\ syn' = [syn EXCEPT ![Owner(e)][Peer(e)] = @ \cup {e}]
    /\ UNCHANGED <<pump, table, cut, proved, upset>>

-----------------------------------------------------------------------------
(* run_session() *)

Entry(e) == table[Owner(e)][Peer(e)]

Taken(e) == Entry(e) # NoEnd /\ pump[Entry(e)]

(* Under the table's lock: refuse a duplicate, otherwise replace the entry, *)
(* which drops the queue it held.                                           *)
Admit(e) ==
    /\ phase[e] = "admit"
    /\ IF Taken(e)
       THEN Goes(e, "done", wire) /\ UNCHANGED <<pump, table>>
       ELSE /\ Goes(e, "open", wire)
            /\ table' = [table EXCEPT ![Owner(e)][Peer(e)] = e]
            /\ pump' = [f \in Ends |-> f = e \/ (pump[f] /\ f # Entry(e))]
    /\ UNCHANGED <<syn, cut, proved, upset>>

(* The writer pump stops at the first write that fails. *)
PumpBreaks(e) ==
    /\ pump[e] /\ Gone(e)
    /\ pump' = [pump EXCEPT ![e] = FALSE]
    /\ UNCHANGED <<phase, wire, timer, table, syn, cut, proved, upset>>

(* read_loop() ends when the connection is gone, ... *)
LoopEnds(e) == Gone(e)

EndRead(e) ==
    /\ phase[e] = "open"
    /\ LoopEnds(e)
    /\ Goes(e, "closing", wire)
    /\ UNCHANGED <<pump, table, syn, cut, proved, upset>>

(* ... or on an error of its own: a malformed frame, a pruned synapse. *)
FailRead(e) ==
    /\ MayFail
    /\ phase[e] = "open"
    /\ Goes(e, "closing", wire)
    /\ upset' = Upset(Conn(e))
    /\ UNCHANGED <<pump, table, syn, cut, proved>>

(* The peer, whatever session it has now, leaves the table. *)
MutUnlist(e) ==
    /\ phase[e] = "closing"
    /\ Goes(e, "done", wire)
    /\ pump' = [pump EXCEPT ![e] = FALSE]
    /\ UNCHANGED <<table, syn, cut, proved, upset>>

Unlist(e) ==
    /\ phase[e] = "closing"
    /\ Goes(e, "done", wire)
    /\ table' = [table EXCEPT ![Owner(e)][Peer(e)] = NoEnd]
    /\ pump' = [f \in Ends |-> pump[f] /\ f # e /\ f # Entry(e)]
    /\ UNCHANGED <<syn, cut, proved, upset>>

-----------------------------------------------------------------------------
(* Time, and what goes wrong. *)

MutTick ==
    /\ \E e \in Ends : phase[e] \in Shaking /\ timer[e] < Timeout
    /\ timer' = [e \in Ends |-> IF phase[e] \in Shaking THEN timer[e] + 1 ELSE timer[e]]
    /\ UNCHANGED <<phase, wire, pump, table, syn, cut, proved, upset>>

Tick ==
    /\ \E e \in Ends : phase[e] \in Shaking
    /\ \A e \in Ends : phase[e] \in Shaking => timer[e] < Timeout
    /\ timer' = [e \in Ends |-> IF phase[e] \in Shaking THEN timer[e] + 1 ELSE timer[e]]
    /\ UNCHANGED <<phase, wire, pump, table, syn, cut, proved, upset>>

Cut(c) ==
    /\ MayFail
    /\ c \notin cut /\ ~Idle(c)
    /\ cut' = cut \cup {c}
    /\ upset' = Upset(c)
    /\ UNCHANGED <<phase, wire, timer, pump, table, syn, proved>>

Crash(n) ==
    LET mine == {e \in Ends : Owner(e) = n /\ phase[e] # "none"}
    IN  /\ MayFail
        /\ \E e \in mine : phase[e] # "done"
        /\ phase' = [e \in Ends |-> IF e \in mine THEN "done" ELSE phase[e]]
        /\ pump' = [e \in Ends |-> pump[e] /\ e \notin mine]
        /\ table' = [table EXCEPT ![n] = [p \in Nodes |-> NoEnd]]
        /\ syn' = IF Sqlite THEN syn ELSE [syn EXCEPT ![n] = [p \in Nodes |-> {}]]
        /\ upset' = UNION {Upset(Conn(e)) : e \in mine}
        /\ wire' = [e \in Ends |-> IF e \in mine THEN <<>> ELSE wire[e]]
        /\ timer' = [e \in Ends |-> IF e \in mine THEN 0 ELSE timer[e]]
        /\ UNCHANGED <<cut, proved>>

Work(e) ==
    \/ ReadHello(e) \/ ReadProof(e) \/ Abandon(e)
    \/ FindSynapse(e) \/ PutSynapse(e) \/ Admit(e)
    \/ EndRead(e) \/ Unlist(e)

Next ==
    \/ \E c \in Conns : Dial(c) \/ Accept(c) \/ Cut(c)
    \/ \E e \in Ends : Work(e) \/ PumpBreaks(e) \/ FailRead(e)
    \/ Tick
    \/ \E n \in Nodes : Crash(n)

Spec == Init /\ [][Next]_vars

(* Tasks that can go on are scheduled and the clock advances; whether a     *)
(* peer ever accepts, answers or writes again is not assumed of anybody.    *)
FairSpec ==
    /\ Spec
    /\ \A e \in Ends : WF_vars(Abandon(e)) /\ WF_vars(EndRead(e)) /\ WF_vars(Unlist(e))
    /\ WF_vars(Tick)

-----------------------------------------------------------------------------
(* Authentication is mutual: an end that goes beyond the handshake has      *)
(* answered the other's challenge and been answered by another node on the  *)
(* same connection, whatever order frames, timeouts and failures come in    *)
(* ("the proof is what makes it an authentication").                        *)
Agreement ==
    \A e \in Ends : phase[e] \in Authenticated
                       => {e, Other(e)} \subseteq proved /\ Owner(e) # Peer(e)

(* No ghosts: every session in the table is being read by a running task of *)
(* the same node, and every pump that could still take signals for a peer   *)
(* is the one the table names.                                              *)
NoGhost ==
    /\ \A n, p \in Nodes : table[n][p] # NoEnd =>
          /\ Owner(table[n][p]) = n /\ Peer(table[n][p]) = p
          /\ phase[table[n][p]] \in {"open", "closing"}
    /\ \A e \in Ends : pump[e] => Entry(e) = e

(* A dial that meets no failure and no other connection of the two nodes    *)
(* connects: once it has come to rest, each lists the other, over it, also  *)
(* after earlier connections failed (Runtime::dial).  Dialing oneself       *)
(* leaves nothing behind.                                                   *)
AtRest(c) == {phase[<<c, "dialer">>], phase[<<c, "listener">>]} \subseteq {"open", "done"}

DialConnects ==
    \A c \in Conns \ upset :
        LET d == <<c, "dialer">>
            l == <<c, "listener">>
        IN  AtRest(c) /\ (\A x \in Conns : SamePair(c, x) => AtRest(x) \/ Idle(x)) =>
               IF Dialer[c] = Listener[c]
               THEN Entry(d) = NoEnd
               ELSE Entry(d) # NoEnd /\ Entry(l) = Other(Entry(d))

(* "One synapse per peer", also when two connections of one peer create it. *)
OneSynapse == \A n, p \in Nodes : Cardinality(syn[n][p]) <= 1

(* Nobody waits for good on a peer that is silent or gone: a task leaves    *)
(* the handshake, and a session whose connection is gone leaves the table,  *)
(* so that nothing is routed to it any more.                                *)
NoLingering ==
    \A e \in Ends :
        /\ (phase[e] \in Shaking) ~> (phase[e] \notin Shaking)
        /\ (phase[e] = "open" /\ Gone(e)) ~> (Entry(e) # e)

-----------------------------------------------------------------------------
(* What a comment says and the code does not do; refuted by TLC on the      *)
(* instance of SessionsOverlap.                                             *)

(* "a live session is working" (run_session): a session goes on until its   *)
(* own connection is gone or its own read loop ends, never because of       *)
(* another connection.                                                      *)
LiveSessionKept ==
    [][\A e \in Ends : pump[e] /\ ~pump'[e]
          => Gone(e) \/ phase[e] = "closing" \/ phase'[e] = "done"]_vars

=============================================================================
