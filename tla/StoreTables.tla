---------------------------- MODULE StoreTables -----------------------------
(***************************************************************************)
(* The tables a NodeStore keeps (ntl-core/src/store/mod.rs), shared by the *)
(* two backends and by what the trait promises of them.  Records keep the  *)
(* columns some query or constraint looks at; peers and synapses are       *)
(* numbered because queries break ties by identifier.                      *)
(***************************************************************************)
EXTENDS Integers, Sequences, FiniteSets

CONSTANTS
    Signals,
    Peers,
    SynapseIds,
    Weights,
    Seeds,      \* identity seeds
    NoSeed,     \* none stored
    Times,      \* 0..the last instant of the clock
    Ttl,        \* dedup_ttl_secs
    MaxIds,     \* bound: journal ids ever handed out
    MaxCharges  \* bound: influence records

ASSUME TablesAssumption ==
    /\ Peers \subseteq Nat /\ SynapseIds \subseteq Nat /\ Weights \subseteq Nat
    /\ Times \subseteq Nat /\ 0 \in Times
    /\ NoSeed \notin Seeds
    /\ Ttl \in Nat \ {0}
    /\ MaxIds \in Nat /\ MaxCharges \in Nat

Outcomes == {"delivered", "timed_out"}

Synapse  == [id : SynapseIds, peer : Peers, weight : Weights]
Peer     == [id : Peers, lastSeen : Times, source : {"configured", "observed"}]
Decision == [id : 1..MaxIds, signal : Signals, peer : Peers, decided : Times,
             outcome : Outcomes \cup {"pending"}]
Charge   == [peer : Peers, at : Times]

(* A database: the dedup table holds the expiry of each entry, 0 for none;  *)
(* the journal and the influence table are in insertion order; `version` is *)
(* the schema's.  `claimed` is history: the expiry of the last claim,       *)
(* whatever has been purged since.                                          *)
Database ==
    [synapses   : SUBSET Synapse,
     peers      : SUBSET Peer,
     seen       : [Signals -> Nat],
     activation : {"none", "snapshot"},
     journal    : Seq(Decision),
     counter    : 0..MaxIds,
     influence  : Seq(Charge),
     history    : SUBSET Signals,
     seed       : Seeds \cup {NoSeed},
     nodeId     : Seeds \cup {NoSeed},
     version    : Nat,
     claimed    : [Signals -> Nat]]

Empty(version) ==
    [synapses   |-> {}, peers |-> {},
     seen       |-> [s \in Signals |-> 0],
     activation |-> "none",
     journal    |-> <<>>, counter |-> 0,
     influence  |-> <<>>,
     history    |-> {},
     seed       |-> NoSeed, nodeId |-> NoSeed,
     version    |-> version,
     claimed    |-> [s \in Signals |-> 0]]

(* An answer is a word with, for ids and totals, a number. *)
Word(w) == <<w, 0>>

Words == Outcomes \cup {"none", "ok", "seen", "unseen", "unknown", "refused", "unsupported"}

Reply == (Words \X {0}) \cup ({"id", "total"} \X Nat)

(* What a call leaves behind and what it answers. *)
Done(db, w) == [db |-> db, reply |-> Word(w)]

Counted(db, w, n) == [db |-> db, reply |-> <<w, n>>]

(* When a claim made now runs out. *)
MutExpiry(now) == now - Ttl

Expiry(now) == now + Ttl

Rows(q) == {q[i] : i \in DOMAIN q}

(* filter(), retain() and DELETE: the rows at the positions in K, in order. *)
Retained(q, K) ==
    LET n    == Cardinality(K)
        from == CHOOSE f \in [1..n -> K] : \A i, j \in 1..n : i < j => f[i] < f[j]
    IN  [i \in 1..n |-> q[from[i]]]

Least(m, n) == IF m < n THEN m ELSE n

(* LIMIT and truncate(). *)
Limited(q, limit) == SubSeq(q, 1, Least(limit, Len(q)))

(* The ways to list the members of S so that no later one goes before an    *)
(* earlier one.                                                             *)
Listings(S, Before(_, _)) ==
    {q \in [1..Cardinality(S) -> S] :
        /\ Rows(q) = S
        /\ \A i, j \in DOMAIN q : i < j => ~Before(q[j], q[i])}

HeavierFirst(x, y) == x.weight > y.weight \/ (x.weight = y.weight /\ x.id < y.id)

LaterSeenFirst(x, y) == x.lastSeen > y.lastSeen \/ (x.lastSeen = y.lastSeen /\ x.id < y.id)

=============================================================================
