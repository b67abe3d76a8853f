---------------------------- MODULE StoresProofs ----------------------------
(***************************************************************************)
(* What both backends keep, for any number of signals, peers, records and  *)
(* callers: types, the identity, the durability they report and, for every *)
(* table, the promises of the NodeStore trait and what its queries answer. *)
(***************************************************************************)
EXTENDS Stores, TotalsProofs, SequenceTheorems

-----------------------------------------------------------------------------
(* Retaining some rows of a table. *)

Increasing(f, n) == \A i, j \in 1..n : i < j => f[i] < f[j]

Listed(S) == \E f \in [1..Cardinality(S) -> S] : Increasing(f, Cardinality(S))

(* Every finite set of naturals can be listed in increasing order: a        *)
(* smallest one that cannot would have a least element, and the rest a      *)
(* listing.                                                                 *)
LEMMA Enumeration ==
    ASSUME NEW K \in SUBSET Nat, IsFiniteSet(K)
    PROVE  Listed(K)
  <1> DEFINE Bad == {n \in Nat : \E S \in SUBSET Nat : /\ IsFiniteSet(S) /\ Cardinality(S) = n
                                                       /\ ~Listed(S)}
  <1>1. SUFFICES ASSUME Bad # {} PROVE FALSE
    <2>1. Cardinality(K) \in Nat
      BY FS_CardinalityType
    <2> QED BY <2>1
  <1>2. PICK n \in Bad : \A k \in Bad : n <= k
    <2>1. Bad \in SUBSET Nat
      OBVIOUS
    <2> HIDE DEF Bad
    <2> QED BY <1>1, <2>1, LeastNumber
  <1>3. PICK S \in SUBSET Nat : IsFiniteSet(S) /\ Cardinality(S) = n /\ ~Listed(S)
    OBVIOUS
  <1>4. n \in Nat
    OBVIOUS
  <1>5. S # {}
    <2> SUFFICES ASSUME S = {} PROVE FALSE
      OBVIOUS
    <2>1. Cardinality(S) = 0
      BY FS_EmptySet
    <2> DEFINE f == [i \in 1..0 |-> 0]
    <2>2. f \in [1..Cardinality(S) -> S] /\ Increasing(f, Cardinality(S))
      BY <2>1 DEF Increasing
    <2> QED BY <1>3, <2>2 DEF Listed
  <1>6. PICK m \in S : \A k \in S : m <= k
    BY <1>5, LeastNumber
  <1> DEFINE R == S \ {m}
  <1>7. IsFiniteSet(R) /\ Cardinality(R) = n - 1 /\ R \in SUBSET Nat
    BY <1>3, FS_RemoveElement
  <1>8. n - 1 \in Nat
    <2>1. Cardinality(R) \in Nat
      BY <1>7, FS_CardinalityType
    <2> QED BY <1>7, <2>1
  <1>9. Listed(R)
    <2>1. n - 1 \notin Bad
      BY <1>2, <1>4
    <2> QED BY <1>7, <1>8, <2>1
  <1>10. PICK g \in [1..(n - 1) -> R] : Increasing(g, n - 1)
    BY <1>7, <1>9 DEF Listed
  <1> HIDE DEF Bad
  <1> DEFINE f == [i \in 1..n |-> IF i = 1 THEN m ELSE g[i - 1]]
  <1>11. \A i \in 1..n : i # 1 => i - 1 \in 1..(n - 1)
    BY <1>4, <1>8
  <1>12. f \in [1..n -> S]
    BY <1>10, <1>11
  <1>13. \A i \in 1..n : f[i] = IF i = 1 THEN m ELSE g[i - 1]
    OBVIOUS
  <1> HIDE DEF f
  <1>14. Increasing(f, n)
    <2> SUFFICES ASSUME NEW i \in 1..n, NEW j \in 1..n, i < j
                 PROVE  f[i] < f[j]
      BY DEF Increasing
    <2>1. j # 1 /\ j - 1 \in 1..(n - 1) /\ g[j - 1] \in R /\ f[j] = g[j - 1]
      BY <1>4, <1>10, <1>11, <1>13
    <2>2. CASE i = 1
      <3>1. g[j - 1] \in Nat /\ m \in Nat /\ g[j - 1] # m /\ m <= g[j - 1]
        BY <2>1, <1>6
      <3> QED BY <2>1, <2>2, <3>1, <1>13
    <2>3. CASE i # 1
      <3>1. i - 1 \in 1..(n - 1) /\ i - 1 < j - 1 /\ f[i] = g[i - 1]
        BY <1>4, <1>11, <1>13, <2>3
      <3> QED BY <2>1, <3>1, <1>10 DEF Increasing
    <2> QED BY <2>2, <2>3
  <1> QED BY <1>3, <1>12, <1>14 DEF Listed

(* What retain() leaves, through the positions its rows come from. *)
LEMMA RetainedFrom ==
    ASSUME NEW S, NEW q \in Seq(S), NEW K \in SUBSET (DOMAIN q)
    PROVE  /\ Retained(q, K) \in Seq(S)
           /\ Len(Retained(q, K)) <= Len(q)
           /\ \E f \in [DOMAIN Retained(q, K) -> K] :
                 /\ \A i, j \in DOMAIN Retained(q, K) : i < j => f[i] < f[j]
                 /\ \A i, j \in DOMAIN Retained(q, K) : f[i] = f[j] => i = j
                 /\ \A k \in K : \E i \in DOMAIN Retained(q, K) : f[i] = k
                 /\ \A i \in DOMAIN Retained(q, K) : Retained(q, K)[i] = q[f[i]]
  <1> DEFINE n == Cardinality(K)
             P(f) == f \in [1..n -> K] /\ \A i, j \in 1..n : i < j => f[i] < f[j]
             from == CHOOSE f \in [1..n -> K] : \A i, j \in 1..n : i < j => f[i] < f[j]
  <1>1. DOMAIN q = 1..Len(q) /\ Len(q) \in Nat
    OBVIOUS
  <1>2. IsFiniteSet(1..Len(q)) /\ Cardinality(1..Len(q)) = Len(q)
    <2> DEFINE l == Len(q)
    <2>1. l \in Nat
      BY <1>1
    <2> HIDE DEF l
    <2>2. IsFiniteSet(1..l) /\ Cardinality(1..l) = l
      BY <2>1, FS_Interval
    <2> QED BY <2>2 DEF l
  <1>3. IsFiniteSet(K) /\ n <= Len(q) /\ n \in Nat
    BY <1>1, <1>2, FS_Subset, FS_CardinalityType
  <1>4. from \in [1..n -> K] /\ \A i, j \in 1..n : i < j => from[i] < from[j]
    <2>1. Listed(K)
      BY <1>1, <1>3, Enumeration
    <2>2. \E f \in [1..n -> K] : \A i, j \in 1..n : i < j => f[i] < f[j]
      BY <2>1 DEF Listed, Increasing
    <2> QED BY <2>2
  <1>5. Retained(q, K) = [i \in 1..n |-> q[from[i]]]
    BY DEF Retained
  <1> HIDE DEF from, n
  <1>6. /\ {from[i] : i \in 1..n} = K
        /\ \A i, j \in 1..n : from[i] = from[j] => i = j
    <2>1. from \in Injection(1..n, K)
      <3>1. \A i, j \in 1..n : from[i] \in Nat /\ (i < j \/ j < i \/ i = j)
        BY <1>1, <1>3, <1>4
      <3>2. \A i, j \in 1..n : from[i] = from[j] => i = j
        BY <1>4, <3>1
      <3> QED BY <1>4, <3>2 DEF Injection, IsInjective
    <2>2. IsFiniteSet(1..n) /\ Cardinality(1..n) = n
      BY <1>3, FS_Interval
    <2>3. from \in Surjection(1..n, K)
      BY <1>3, <2>1, <2>2, FS_Injection DEF n
    <2> QED BY <2>1, <2>3, <1>4 DEF Surjection, Injection, IsInjective
  <1> DEFINE r == Retained(q, K)
  <1>7. /\ r \in Seq(S) /\ Len(r) = n /\ DOMAIN r = 1..n
        /\ \A i \in 1..n : r[i] = q[from[i]] /\ from[i] \in K
    BY <1>1, <1>3, <1>4, <1>5
  <1> HIDE DEF r
  <1>8. from \in [DOMAIN r -> K] /\ \A k \in K : \E i \in DOMAIN r : from[i] = k
    BY <1>4, <1>6, <1>7
  <1> QED BY <1>3, <1>4, <1>6, <1>7, <1>8, SMTT(30) DEF r

(* What retain() leaves: the rows asked for and no others, in their order.  *)
LEMMA RetainedFacts ==
    ASSUME NEW S, NEW q \in Seq(S), NEW K \in SUBSET (DOMAIN q)
    PROVE  /\ Retained(q, K) \in Seq(S)
           /\ Rows(Retained(q, K)) = {q[i] : i \in K}
           /\ Len(Retained(q, K)) <= Len(q)
           /\ \A i, j \in DOMAIN Retained(q, K) :
                 i < j => \E k, l \in K : /\ k < l
                                          /\ Retained(q, K)[i] = q[k]
                                          /\ Retained(q, K)[j] = q[l]
  <1> DEFINE r == Retained(q, K)
  <1>1. PICK f \in [DOMAIN r -> K] :
              /\ \A i, j \in DOMAIN r : i < j => f[i] < f[j]
              /\ \A k \in K : \E i \in DOMAIN r : f[i] = k
              /\ \A i \in DOMAIN r : r[i] = q[f[i]]
    BY RetainedFrom
  <1>2. r \in Seq(S) /\ Len(r) <= Len(q)
    BY RetainedFrom
  <1> HIDE DEF r
  <1>3. Rows(r) = {q[i] : i \in K}
    BY <1>1 DEF Rows
  <1>4. \A i, j \in DOMAIN r : i < j => \E k, l \in K : k < l /\ r[i] = q[k] /\ r[j] = q[l]
    BY <1>1
  <1> QED BY <1>2, <1>3, <1>4 DEF r

-----------------------------------------------------------------------------
(* Types. *)

(* The tables of a database, one by one. *)
LEMMA DatabaseFacts ==
    ASSUME NEW d \in Database
    PROVE  /\ d.synapses \subseteq Synapse /\ d.peers \subseteq Peer
           /\ d.seen \in [Signals -> Nat] /\ d.claimed \in [Signals -> Nat]
           /\ d.journal \in Seq(Decision) /\ d.counter \in 0..MaxIds
           /\ d.influence \in Seq(Charge) /\ d.history \subseteq Signals
           /\ d.seed \in Seeds \cup {NoSeed} /\ d.nodeId \in Seeds \cup {NoSeed}
           /\ d.version \in Nat /\ d.activation \in {"none", "snapshot"}
  BY DEF Database

(* Every call returns a database and an answer. *)
Proper(result) == result \in [db : Database, reply : Reply]

(* Answers are words, ids and totals. *)
LEMMA ReplyFacts ==
    /\ \A w \in Words : <<w, 0>> \in Reply
    /\ \A n \in Nat : <<"id", n>> \in Reply /\ <<"total", n>> \in Reply
  BY DEF Reply

(* The backends share the helpers of StoreTables. *)
LEMMA SharedHelpers ==
    /\ \A q, K : M!Retained(q, K) = Retained(q, K) /\ Q!Retained(q, K) = Retained(q, K)
    /\ \A q : M!Rows(q) = Rows(q) /\ Q!Rows(q) = Rows(q)
    /\ \A K : M!Cardinality(K) = Cardinality(K) /\ Q!Cardinality(K) = Cardinality(K)
  <1>1. \A q : M!Rows(q) = Rows(q) /\ Q!Rows(q) = Rows(q)
    BY DEF M!Rows, Q!Rows, Rows
  <1>2. \A q, K : M!Retained(q, K) = Retained(q, K)
    BY Zenon DEF M!Retained, Retained, M!Cardinality, Cardinality
  <1>3. \A q, K : Q!Retained(q, K) = Retained(q, K)
    BY Zenon DEF Q!Retained, Retained, Q!Cardinality, Cardinality
  <1>4. \A K : M!Cardinality(K) = Cardinality(K) /\ Q!Cardinality(K) = Cardinality(K)
    BY Zenon DEF M!Cardinality, Q!Cardinality, Cardinality
  <1> QED BY <1>1, <1>2, <1>3, <1>4

(* The two engines' writes, table by table. *)
LEMMA RecordsProper ==
    ASSUME NEW d \in Database
    PROVE  /\ \A r \in Synapse : Proper(M!PutSynapse(d, r)) /\ Proper(Q!PutSynapse(d, r))
           /\ \A id \in SynapseIds : Proper(M!DeleteSynapse(d, id)) /\ Proper(Q!DeleteSynapse(d, id))
           /\ \A r \in Peer : Proper(M!PutPeer(d, r)) /\ Proper(Q!PutPeer(d, r))
           /\ Proper(M!SaveActivation(d)) /\ Proper(Q!SaveActivation(d))
           /\ \A s \in Signals, b \in BOOLEAN : /\ Proper(M!PutSignalHistory(d, s, b))
                                                /\ Proper(Q!PutSignalHistory(d, s, b))
  <1> USE DatabaseFacts, ReplyFacts DEF Proper, Words, Outcomes
  <1>1. ASSUME NEW r \in Synapse
        PROVE  Proper(M!PutSynapse(d, r)) /\ Proper(Q!PutSynapse(d, r))
    <2> DEFINE X == {x \in d.synapses : x.id # r.id} \cup {r}
    <2>1. [d EXCEPT !.synapses = X] \in Database
      BY DEF Database
    <2>2. Proper(M!PutSynapse(d, r))
      BY <2>1 DEF M!PutSynapse, M!Done, M!Word
    <2>3. Proper(Q!PutSynapse(d, r))
      BY <2>1 DEF Q!PutSynapse, Q!Done, Q!Word
    <2> QED BY <2>2, <2>3
  <1>2. ASSUME NEW id \in SynapseIds
        PROVE  Proper(M!DeleteSynapse(d, id)) /\ Proper(Q!DeleteSynapse(d, id))
    <2> DEFINE X == {x \in d.synapses : x.id # id}
    <2>1. [d EXCEPT !.synapses = X] \in Database
      BY DEF Database
    <2> QED BY <2>1 DEF M!DeleteSynapse, M!Done, M!Word, Q!DeleteSynapse, Q!Done, Q!Word
  <1>3. ASSUME NEW r \in Peer
        PROVE  Proper(M!PutPeer(d, r)) /\ Proper(Q!PutPeer(d, r))
    <2> DEFINE X == {x \in d.peers : x.id # r.id} \cup {r}
    <2>1. [d EXCEPT !.peers = X] \in Database
      BY DEF Database
    <2> QED BY <2>1 DEF M!PutPeer, M!Done, M!Word, Q!PutPeer, Q!Done, Q!Word
  <1>4. Proper(M!SaveActivation(d)) /\ Proper(Q!SaveActivation(d))
    <2>1. [d EXCEPT !.activation = "snapshot"] \in Database
      BY DEF Database
    <2> QED BY <2>1 DEF M!SaveActivation, M!Done, M!Word, Q!SaveActivation, Q!Done, Q!Word
  <1>5. ASSUME NEW s \in Signals, NEW b \in BOOLEAN
        PROVE  Proper(M!PutSignalHistory(d, s, b)) /\ Proper(Q!PutSignalHistory(d, s, b))
    <2>1. [d EXCEPT !.history = d.history \cup {s}] \in Database
      BY DEF Database
    <2> QED BY <2>1 DEF M!PutSignalHistory, M!Done, M!Word, Q!PutSignalHistory, Q!Done, Q!Word
  <1> QED BY <1>1, <1>2, <1>3, <1>4, <1>5

(* Claims and their purge. *)
LEMMA DedupProper ==
    ASSUME NEW d \in Database, NEW now \in Nat
    PROVE  /\ \A s \in Signals : /\ Proper(Claimed(M!CheckAndSetSeen(d, s, now), s, now))
                                 /\ Proper(Claimed(Q!CheckAndSetSeen(d, s, now), s, now))
           /\ Proper(M!PurgeExpiredSeen(d, now)) /\ Proper(Q!PurgeExpiredSeen(d, now))
  <1> USE ReplyFacts DEF Words, Outcomes
  <1>0. d.seen \in [Signals -> Nat] /\ d.claimed \in [Signals -> Nat] /\ now + Ttl \in Nat
    BY DatabaseFacts, TablesAssumption
  <1>1. ASSUME NEW s \in Signals, NEW result, Proper(result)
        PROVE  Proper(Claimed(result, s, now))
    <2> DEFINE e == result.db
               c == [e.claimed EXCEPT ![s] = now + Ttl]
    <2>1. e \in Database /\ result.reply \in Reply
      BY <1>1 DEF Proper
    <2>2. c \in [Signals -> Nat]
      BY <1>0, <2>1, DatabaseFacts
    <2>3. [e EXCEPT !.claimed = c] \in Database
      BY <2>1, <2>2 DEF Database
    <2>4. CASE result.reply = Word("unseen")
      <3>1. Claimed(result, s, now) = [result EXCEPT !.db = [e EXCEPT !.claimed = c]]
        BY <2>4 DEF Claimed, Expiry
      <3> QED BY <1>1, <2>1, <2>3, <3>1 DEF Proper
    <2>5. CASE result.reply # Word("unseen")
      BY <1>1, <2>5 DEF Claimed
    <2> QED BY <2>4, <2>5
  <1>2. ASSUME NEW s \in Signals
        PROVE  Proper(M!CheckAndSetSeen(d, s, now)) /\ Proper(Q!CheckAndSetSeen(d, s, now))
    <2> DEFINE e == [d EXCEPT !.seen = [d.seen EXCEPT ![s] = now + Ttl]]
    <2>1. e \in Database
      BY <1>0 DEF Database
    <2>2. Proper(M!CheckAndSetSeen(d, s, now))
      <3>1. M!CheckAndSetSeen(d, s, now) = IF d.seen[s] > now
               THEN [db |-> d, reply |-> <<"seen", 0>>]
               ELSE [db |-> e, reply |-> <<"unseen", 0>>]
        BY DEF M!CheckAndSetSeen, M!Done, M!Word, M!Expiry
      <3> HIDE DEF e
      <3> QED BY <2>1, <3>1 DEF Proper
    <2>3. Proper(Q!CheckAndSetSeen(d, s, now))
      <3>1. Q!CheckAndSetSeen(d, s, now) = IF Q!ChangesRow(d, s, now)
               THEN [db |-> e, reply |-> <<"unseen", 0>>]
               ELSE [db |-> d, reply |-> <<"seen", 0>>]
        BY DEF Q!CheckAndSetSeen, Q!Done, Q!Word, Q!Expiry
      <3> HIDE DEF e
      <3> QED BY <2>1, <3>1 DEF Proper
    <2> QED BY <2>2, <2>3
  <1>3. Proper(M!PurgeExpiredSeen(d, now)) /\ Proper(Q!PurgeExpiredSeen(d, now))
    <2> DEFINE m == [s \in Signals |-> IF d.seen[s] > now THEN d.seen[s] ELSE 0]
               q == [s \in Signals |-> IF d.seen[s] <= now THEN 0 ELSE d.seen[s]]
    <2>1. m \in [Signals -> Nat] /\ q \in [Signals -> Nat]
      BY <1>0
    <2>2. [d EXCEPT !.seen = m] \in Database /\ [d EXCEPT !.seen = q] \in Database
      BY <2>1 DEF Database
    <2>3. /\ M!PurgeExpiredSeen(d, now) = [db |-> [d EXCEPT !.seen = m], reply |-> <<"ok", 0>>]
          /\ Q!PurgeExpiredSeen(d, now) = [db |-> [d EXCEPT !.seen = q], reply |-> <<"ok", 0>>]
      BY DEF M!PurgeExpiredSeen, M!Done, M!Word, Q!PurgeExpiredSeen, Q!Done, Q!Word
    <2> QED BY <2>2, <2>3 DEF Proper
  <1> QED BY <1>1, <1>2, <1>3

(* A table may be replaced by another of its type. *)
LEMMA TableUpdates ==
    ASSUME NEW d \in Database
    PROVE  /\ \A q \in Seq(Decision) : [d EXCEPT !.journal = q] \in Database
           /\ \A q \in Seq(Decision), n \in 0..MaxIds :
                 [d EXCEPT !.journal = q, !.counter = n] \in Database
           /\ \A n \in 0..MaxIds : [d EXCEPT !.counter = n] \in Database
           /\ \A q \in Seq(Charge) : [d EXCEPT !.influence = q] \in Database
           /\ \A s \in Seeds \cup {NoSeed} : /\ [d EXCEPT !.seed = s] \in Database
                                            /\ [d EXCEPT !.nodeId = s] \in Database
           /\ \A v \in Nat : [d EXCEPT !.version = v] \in Database
  <1>1. ASSUME NEW q \in Seq(Decision) PROVE [d EXCEPT !.journal = q] \in Database
    BY DEF Database
  <1>2. ASSUME NEW q \in Seq(Decision), NEW n \in 0..MaxIds
        PROVE  [d EXCEPT !.journal = q, !.counter = n] \in Database
    BY DEF Database
  <1>3. ASSUME NEW n \in 0..MaxIds PROVE [d EXCEPT !.counter = n] \in Database
    BY DEF Database
  <1>4. ASSUME NEW q \in Seq(Charge) PROVE [d EXCEPT !.influence = q] \in Database
    BY DEF Database
  <1>5. ASSUME NEW s \in Seeds \cup {NoSeed}
        PROVE  [d EXCEPT !.seed = s] \in Database /\ [d EXCEPT !.nodeId = s] \in Database
    BY DEF Database
  <1>6. ASSUME NEW v \in Nat PROVE [d EXCEPT !.version = v] \in Database
    BY DEF Database
  <1> QED BY <1>1, <1>2, <1>3, <1>4, <1>5, <1>6

(* A row's outcome may be set. *)
LEMMA OutcomeSet ==
    ASSUME NEW x \in Decision, NEW o \in Outcomes
    PROVE  /\ [x EXCEPT !.outcome = o] \in Decision
           /\ [x EXCEPT !.outcome = o].id = x.id
           /\ [x EXCEPT !.outcome = o].outcome = o
  BY DEF Decision

(* Sequences keep their type under a pointwise change. *)
LEMMA SameLength ==
    ASSUME NEW S, NEW q \in Seq(S), NEW r, DOMAIN r = DOMAIN q, r = [i \in DOMAIN r |-> r[i]],
           \A i \in DOMAIN q : r[i] \in S
    PROVE  r \in Seq(S)
  <1>1. DOMAIN q = 1..Len(q) /\ Len(q) \in Nat
    OBVIOUS
  <1>2. r \in [1..Len(q) -> S]
    BY <1>1
  <1> QED BY <1>1, <1>2, IsASeq

(* MemoryStore::resolve_decision, by cases. *)
LEMMA MemoryResolve ==
    ASSUME NEW d \in Database, NEW id \in 1..MaxIds, NEW o \in Outcomes
    PROVE  \/ /\ \A i \in DOMAIN d.journal : d.journal[i].id # id
              /\ M!ResolveDecision(d, id, o) = [db |-> d, reply |-> <<"unknown", 0>>]
           \/ \E i \in DOMAIN d.journal :
                 /\ d.journal[i].id = id
                 /\ \/ /\ d.journal[i].outcome # "pending"
                       /\ M!ResolveDecision(d, id, o) =
                             [db |-> d, reply |-> <<d.journal[i].outcome, 0>>]
                    \/ /\ d.journal[i].outcome = "pending"
                       /\ M!ResolveDecision(d, id, o) =
                             [db |-> [d EXCEPT !.journal =
                                [d.journal EXCEPT ![i] = [d.journal[i] EXCEPT !.outcome = o]]],
                              reply |-> <<o, 0>>]
  <1> DEFINE found == {i \in DOMAIN d.journal : d.journal[i].id = id}
             i == CHOOSE i \in found : \A j \in found : i <= j
  <1>1. M!ResolveDecision(d, id, o) =
          IF found = {} THEN [db |-> d, reply |-> <<"unknown", 0>>]
          ELSE IF d.journal[i].outcome # "pending"
               THEN [db |-> d, reply |-> <<d.journal[i].outcome, 0>>]
               ELSE [db |-> [d EXCEPT !.journal[i].outcome = o], reply |-> <<o, 0>>]
    BY DEF M!ResolveDecision, M!Done, M!Word
  <1>2. CASE found = {}
    BY <1>1, <1>2
  <1>3. CASE found # {}
    <2>1. found \in SUBSET Nat
      <3>1. d.journal \in Seq(Decision)
        BY DatabaseFacts
      <3> QED BY <3>1
    <2>2. i \in found
      <3>1. \E k \in found : \A j \in found : k <= j
        <4> HIDE DEF found
        <4> QED BY <1>3, <2>1, LeastNumber
      <3> QED BY <3>1
    <2>3. [d EXCEPT !.journal[i].outcome = o] =
             [d EXCEPT !.journal = [d.journal EXCEPT ![i] = [d.journal[i] EXCEPT !.outcome = o]]]
      OBVIOUS
    <2>4. i \in DOMAIN d.journal /\ d.journal[i].id = id
      BY <2>2
    <2> HIDE DEF i, found
    <2> QED BY <1>1, <1>3, <2>3, <2>4
  <1> QED BY <1>2, <1>3

(* SqliteStore::resolve_decision: the journal it leaves and its answer. *)
Updated(d, id, o) ==
    [i \in DOMAIN d.journal |-> IF d.journal[i].id = id /\ d.journal[i].outcome = "pending"
                                THEN [d.journal[i] EXCEPT !.outcome = o]
                                ELSE d.journal[i]]

(* resolve_decision() on SQLite: what it leaves and what it answers. *)
LEMMA SqliteResolve ==
    ASSUME NEW d \in Database, NEW id \in 1..MaxIds, NEW o \in Outcomes
    PROVE  /\ Updated(d, id, o) \in Seq(Decision)
           /\ \E w : /\ Q!ResolveDecision(d, id, o) =
                           [db |-> [d EXCEPT !.journal = Updated(d, id, o)], reply |-> <<w, 0>>]
                     /\ \/ w = "unknown" /\ \A i \in DOMAIN d.journal : d.journal[i].id # id
                        \/ \E i \in DOMAIN d.journal :
                              d.journal[i].id = id /\ w = Updated(d, id, o)[i].outcome
  <1> DEFINE u == Updated(d, id, o)
             selected == {row \in Rows(u) : row.id = id}
             w == IF selected = {} THEN "unknown" ELSE (CHOOSE row \in selected : TRUE).outcome
  <1>0. d.journal \in Seq(Decision) /\ \A i \in DOMAIN d.journal : d.journal[i] \in Decision
    BY DatabaseFacts
  <1>1. /\ DOMAIN u = DOMAIN d.journal
        /\ \A i \in DOMAIN d.journal : u[i] = IF d.journal[i].id = id /\ d.journal[i].outcome = "pending"
                                              THEN [d.journal[i] EXCEPT !.outcome = o]
                                              ELSE d.journal[i]
        /\ u = [i \in DOMAIN u |-> u[i]]
    BY DEF Updated
  <1>2. Q!ResolveDecision(d, id, o) = [db |-> [d EXCEPT !.journal = u], reply |-> <<w, 0>>]
    BY SharedHelpers DEF Q!ResolveDecision, Q!Done, Q!Word, Q!Resolvable, Updated, Q!Rows, Rows
  <1> HIDE DEF u
  <1>3. \A i \in DOMAIN d.journal : u[i] \in Decision /\ u[i].id = d.journal[i].id
    <2> SUFFICES ASSUME NEW i \in DOMAIN d.journal
                 PROVE  u[i] \in Decision /\ u[i].id = d.journal[i].id
      OBVIOUS
    <2> DEFINE x == d.journal[i]
    <2>1. x \in Decision /\ (u[i] = [x EXCEPT !.outcome = o] \/ u[i] = x)
      BY <1>0, <1>1
    <2> HIDE DEF x
    <2>2. u[i] \in Decision /\ u[i].id = x.id
      <3>1. CASE u[i] = [x EXCEPT !.outcome = o]
        BY <2>1, <3>1 DEF Decision
      <3> QED BY <2>1, <3>1
    <2> QED BY <2>2 DEF x
  <1>4. u \in Seq(Decision)
    BY <1>0, <1>1, <1>3, SameLength
  <1>5. CASE selected = {}
    <2>1. w = "unknown"
      BY <1>5
    <2>2. \A i \in DOMAIN d.journal : d.journal[i].id # id
      BY <1>5, <1>1, <1>3 DEF Rows
    <2> QED BY <1>2, <1>4, <2>1, <2>2 DEF u
  <1>6. CASE selected # {}
    <2>1. PICK row \in selected : w = row.outcome
      BY <1>6
    <2>2. PICK i \in DOMAIN u : row = u[i]
      BY DEF Rows
    <2>3. d.journal[i].id = id /\ w = u[i].outcome /\ i \in DOMAIN d.journal
      BY <1>1, <1>3, <2>1, <2>2
    <2> HIDE DEF w
    <2> QED BY <1>2, <1>4, <2>3 DEF u
  <1> QED BY <1>5, <1>6

(* The journal. *)
LEMMA JournalProper ==
    ASSUME NEW d \in Database
    PROVE  /\ \A entry \in Decision : Proper(M!Push(d, entry))
           /\ \A s \in Signals, p \in Peers, now \in Times :
                 d.counter < MaxIds => Proper(Q!AppendDecision(d, s, p, now))
           /\ \A id \in 1..MaxIds, o \in Outcomes : /\ Proper(M!ResolveDecision(d, id, o))
                                                   /\ Proper(Q!ResolveDecision(d, id, o))
           /\ \A t \in Times : Proper(M!TrimJournal(d, t)) /\ Proper(Q!TrimJournal(d, t))
  <1> USE ReplyFacts DEF Words
  <1>0. d.journal \in Seq(Decision) /\ d.counter \in 0..MaxIds /\ MaxIds \in Nat
    BY DatabaseFacts, TablesAssumption
  <1>1. ASSUME NEW entry \in Decision PROVE Proper(M!Push(d, entry))
    <2> DEFINE q == Append(d.journal, entry)
    <2>1. q \in Seq(Decision) /\ entry.id \in Nat
      BY <1>0 DEF Decision
    <2>2. M!Push(d, entry) = [db |-> [d EXCEPT !.journal = q], reply |-> <<"id", entry.id>>]
      BY DEF M!Push, M!Counted
    <2> HIDE DEF q
    <2>3. [d EXCEPT !.journal = q] \in Database
      BY <2>1, TableUpdates
    <2>4. <<"id", entry.id>> \in Reply
      BY <2>1
    <2> QED BY <2>2, <2>3, <2>4 DEF Proper
  <1>2. ASSUME NEW s \in Signals, NEW p \in Peers, NEW now \in Times, d.counter < MaxIds
        PROVE  Proper(Q!AppendDecision(d, s, p, now))
    <2> DEFINE id == d.counter + 1
               e == [id |-> id, signal |-> s, peer |-> p, decided |-> now, outcome |-> "pending"]
               q == Append(d.journal, e)
    <2>1. id \in 1..MaxIds /\ id \in 0..MaxIds /\ id \in Nat
      BY <1>0, <1>2
    <2>2. e \in Decision
      BY <2>1 DEF Decision
    <2>3. q \in Seq(Decision)
      BY <1>0, <2>2
    <2>4. Q!AppendDecision(d, s, p, now) =
             [db |-> [d EXCEPT !.journal = q, !.counter = id], reply |-> <<"id", id>>]
      BY DEF Q!AppendDecision, Q!NextId, Q!Counted
    <2> HIDE DEF id, q
    <2>5. [d EXCEPT !.journal = q, !.counter = id] \in Database
      BY <2>1, <2>3, TableUpdates
    <2>6. <<"id", id>> \in Reply
      BY <2>1
    <2> QED BY <2>4, <2>5, <2>6 DEF Proper
  <1>3. ASSUME NEW id \in 1..MaxIds, NEW o \in Outcomes
        PROVE  Proper(M!ResolveDecision(d, id, o)) /\ Proper(Q!ResolveDecision(d, id, o))
    <2>0. \A x \in Decision : x.outcome # "pending" => x.outcome \in Outcomes
      BY DEF Decision
    <2>1. Proper(M!ResolveDecision(d, id, o))
      <3>1. ASSUME NEW i \in DOMAIN d.journal
            PROVE  [d EXCEPT !.journal = [d.journal EXCEPT ![i] = [d.journal[i] EXCEPT !.outcome = o]]]
                      \in Database
        <4>1. d.journal[i] \in Decision
          BY <1>0
        <4> DEFINE q == [d.journal EXCEPT ![i] = [d.journal[i] EXCEPT !.outcome = o]]
        <4>2. q \in Seq(Decision)
          BY <1>0, <4>1, OutcomeSet
        <4> HIDE DEF q
        <4> QED BY <4>2, TableUpdates DEF q
      <3>2. \A i \in DOMAIN d.journal : d.journal[i] \in Decision
        BY <1>0
      <3> QED BY <2>0, <3>1, <3>2, MemoryResolve, SMTT(30) DEF Proper
    <2>2. Proper(Q!ResolveDecision(d, id, o))
      <3>1. PICK w : /\ Q!ResolveDecision(d, id, o) =
                           [db |-> [d EXCEPT !.journal = Updated(d, id, o)], reply |-> <<w, 0>>]
                     /\ \/ w = "unknown"
                        \/ \E i \in DOMAIN d.journal :
                              d.journal[i].id = id /\ w = Updated(d, id, o)[i].outcome
        BY SqliteResolve
      <3>2. [d EXCEPT !.journal = Updated(d, id, o)] \in Database
        BY SqliteResolve, TableUpdates
      <3>3. \A i \in DOMAIN d.journal : d.journal[i].id = id => Updated(d, id, o)[i].outcome \in Outcomes
        <4>1. SUFFICES ASSUME NEW i \in DOMAIN d.journal, d.journal[i].id = id
                       PROVE  Updated(d, id, o)[i].outcome \in Outcomes
          OBVIOUS
        <4>2. d.journal[i] \in Decision
          BY <1>0
        <4> QED BY <2>0, <4>1, <4>2, OutcomeSet DEF Updated
      <3>4. w \in Words
        BY <3>1, <3>3
      <3> QED BY <3>1, <3>2, <3>4 DEF Proper
    <2> QED BY <2>1, <2>2
  <1>4. ASSUME NEW t \in Times
        PROVE  Proper(M!TrimJournal(d, t)) /\ Proper(Q!TrimJournal(d, t))
    <2> DEFINE K == {i \in DOMAIN d.journal : d.journal[i].decided >= t}
               L == {i \in DOMAIN d.journal : ~(d.journal[i].decided < t)}
    <2>1. Retained(d.journal, K) \in Seq(Decision) /\ Retained(d.journal, L) \in Seq(Decision)
      <3>1. K \in SUBSET (DOMAIN d.journal) /\ L \in SUBSET (DOMAIN d.journal)
        OBVIOUS
      <3> HIDE DEF K, L
      <3> QED BY <1>0, <3>1, RetainedFacts
    <2>2. /\ M!TrimJournal(d, t) = [db |-> [d EXCEPT !.journal = Retained(d.journal, K)],
                                    reply |-> <<"ok", 0>>]
          /\ Q!TrimJournal(d, t) = [db |-> [d EXCEPT !.journal = Retained(d.journal, L)],
                                    reply |-> <<"ok", 0>>]
      BY SharedHelpers DEF M!TrimJournal, M!Done, M!Word, Q!TrimJournal, Q!Done, Q!Word
    <2> HIDE DEF K, L
    <2>3. /\ [d EXCEPT !.journal = Retained(d.journal, K)] \in Database
          /\ [d EXCEPT !.journal = Retained(d.journal, L)] \in Database
      BY <2>1 DEF Database
    <2> QED BY <2>2, <2>3 DEF Proper
  <1> QED BY <1>1, <1>2, <1>3, <1>4

(* The influence table. *)
LEMMA InfluenceProper ==
    ASSUME NEW d \in Database
    PROVE  /\ \A p \in Peers, now \in Times, start \in Nat :
                 Proper(M!RecordInfluence(d, p, now, start)) /\ Proper(Q!RecordInfluence(d, p, now, start))
           /\ \A t \in Times : Proper(M!PurgeInfluence(d, t)) /\ Proper(Q!PurgeInfluence(d, t))
  <1>0. d.influence \in Seq(Charge)
    BY DatabaseFacts
  <1>1. ASSUME NEW p \in Peers, NEW now \in Times, NEW start \in Nat
        PROVE  Proper(M!RecordInfluence(d, p, now, start)) /\ Proper(Q!RecordInfluence(d, p, now, start))
    <2> DEFINE e == [peer |-> p, at |-> now]
               q == Append(d.influence, e)
               after == [d EXCEPT !.influence = q]
               C == {i \in DOMAIN after.influence :
                        after.influence[i].peer = p /\ after.influence[i].at >= start}
    <2>1. e \in Charge
      BY DEF Charge
    <2>2. q \in Seq(Charge)
      BY <1>0, <2>1
    <2>3. /\ M!RecordInfluence(d, p, now, start) = [db |-> after, reply |-> <<"total", Cardinality(C)>>]
          /\ Q!RecordInfluence(d, p, now, start) = [db |-> after, reply |-> <<"total", Cardinality(C)>>]
      <3>1. M!RecordInfluence(d, p, now, start) = [db |-> after, reply |-> <<"total", M!Cardinality(C)>>]
        BY DEF M!RecordInfluence, M!Accumulated, M!Counted
      <3>2. Q!RecordInfluence(d, p, now, start) = [db |-> after, reply |-> <<"total", Q!Cardinality(C)>>]
        BY DEF Q!RecordInfluence, Q!InfluenceSince, Q!Counted
      <3> HIDE DEF C, after
      <3> QED BY <3>1, <3>2, SharedHelpers
    <2> HIDE DEF q
    <2>4. after \in Database /\ after.influence = q
      BY <2>2, TableUpdates DEF Database
    <2>5. Cardinality(C) \in Nat
      <3> DEFINE n == Len(q)
      <3>1. n \in Nat /\ DOMAIN after.influence = 1..n
        BY <2>2, <2>4
      <3>2. C \in SUBSET (1..n)
        BY <3>1
      <3> HIDE DEF n, C
      <3>3. IsFiniteSet(1..n)
        BY <3>1, FS_Interval
      <3> QED BY <3>2, <3>3, FS_Subset, FS_CardinalityType
    <2> HIDE DEF after, C
    <2>6. <<"total", Cardinality(C)>> \in Reply
      BY <2>5, ReplyFacts
    <2> QED BY <2>3, <2>4, <2>6 DEF Proper
  <1>2. ASSUME NEW t \in Times
        PROVE  Proper(M!PurgeInfluence(d, t)) /\ Proper(Q!PurgeInfluence(d, t))
    <2> DEFINE K == {i \in DOMAIN d.influence : d.influence[i].at >= t}
               L == {i \in DOMAIN d.influence : ~(d.influence[i].at < t)}
    <2>1. Retained(d.influence, K) \in Seq(Charge) /\ Retained(d.influence, L) \in Seq(Charge)
      <3>1. K \in SUBSET (DOMAIN d.influence) /\ L \in SUBSET (DOMAIN d.influence)
        OBVIOUS
      <3> HIDE DEF K, L
      <3> QED BY <1>0, <3>1, RetainedFacts
    <2>2. /\ M!PurgeInfluence(d, t) = [db |-> [d EXCEPT !.influence = Retained(d.influence, K)],
                                       reply |-> <<"ok", 0>>]
          /\ Q!PurgeInfluence(d, t) = [db |-> [d EXCEPT !.influence = Retained(d.influence, L)],
                                       reply |-> <<"ok", 0>>]
      BY SharedHelpers DEF M!PurgeInfluence, M!Done, M!Word, Q!PurgeInfluence, Q!Done, Q!Word
    <2> HIDE DEF K, L
    <2>3. /\ [d EXCEPT !.influence = Retained(d.influence, K)] \in Database
          /\ [d EXCEPT !.influence = Retained(d.influence, L)] \in Database
      BY <2>1, TableUpdates
    <2> QED BY <2>2, <2>3, ReplyFacts DEF Proper, Words
  <1> QED BY <1>1, <1>2

(* A call that returns properly keeps the types. *)
LEMMA ServeType ==
    ASSUME TypeOK, NEW tables, NEW result, Proper(result), Serve(tables, result)
    PROVE  TypeOK'
  <1>1. db' \in Database /\ reply' \in Reply /\ disk' \in Database
    BY DEF Serve, Proper, TypeOK, Committed
  <1> QED BY <1>1 DEF Serve, TypeOK, who

(* Every step keeps the types. *)
LEMMA TypeStep ==
    ASSUME TypeOK, [Next]_vars
    PROVE  TypeOK'
  <1>0. db \in Database /\ disk \in Database /\ reply \in Reply /\ <<"none", 0>> \in Reply
    BY ReplyFacts DEF TypeOK, Words
  <1>n. Now \subseteq Times /\ Now \subseteq Nat /\ Times \subseteq Nat
    BY TablesAssumption DEF Now
  <1>b. backend.retain \in BOOLEAN
    BY StoresAssumption DEF TypeOK
  <1>1. CASE OpenStore
    BY <1>1 DEF OpenStore, TypeOK, who
  <1>2. CASE Migrate
    <2>1. Q!Migrated(db) \in Database
      <3>1. db.version + 1 \in Nat
        BY <1>0, DatabaseFacts
      <3> QED BY <1>0, <3>1, TableUpdates DEF Q!Migrated
    <2> QED BY <1>2, <2>1 DEF Migrate, TypeOK, Committed, who
  <1>3. CASE Ready
    BY <1>3 DEF Ready, TypeOK, who
  <1>4. CASE LoadSeed
    BY <1>4, <1>0, DatabaseFacts DEF LoadSeed, Identify, First, TypeOK
  <1>5. CASE CreateSeed
    BY <1>5 DEF CreateSeed, Identify, TypeOK
  <1>6. CASE PutSeed
    <2>1. [db EXCEPT !.seed = me] \in Database
      BY <1>0, TableUpdates DEF TypeOK
    <2> QED BY <1>6, <2>1 DEF PutSeed, Identify, TypeOK, Committed
  <1>7. CASE PutNodeId
    <2>1. [db EXCEPT !.nodeId = me] \in Database
      BY <1>0, TableUpdates DEF TypeOK
    <2> QED BY <1>7, <2>1 DEF PutNodeId, Identify, TypeOK, Committed
  <1>8. CASE FlushIdentity
    BY <1>8 DEF FlushIdentity, Identify, First, TypeOK
  <1>9. CASE BuildNode
    <2>1. [db EXCEPT !.nodeId = me] \in Database
      BY <1>0, TableUpdates DEF TypeOK
    <2> QED BY <1>9, <2>1 DEF BuildNode, Identify, TypeOK, Committed
  <1>10. ASSUME NEW s \in Signals, NEW now \in Now, CheckAndSetSeen(s, now) PROVE TypeOK'
    BY <1>10, <1>0, <1>n, DedupProper, ServeType DEF CheckAndSetSeen
  <1>11. ASSUME NEW now \in Now, PurgeExpiredSeen(now) PROVE TypeOK'
    BY <1>11, <1>0, <1>n, DedupProper, ServeType DEF PurgeExpiredSeen
  <1>12. ASSUME NEW s \in Signals, NEW p \in Peers, NEW now \in Now, TakeId(s, p, now)
         PROVE  TypeOK'
    <2> DEFINE n == db.counter + 1
    <2>1. n \in 0..MaxIds /\ n \in 1..MaxIds
      BY <1>0, <1>12, DatabaseFacts, TablesAssumption DEF TakeId
    <2>2. db' = [db EXCEPT !.counter = n]
      BY <1>12 DEF TakeId, M!TakeId
    <2>3. db' \in Database
      BY <1>0, <2>1, <2>2, TableUpdates
    <2>4. db'.counter = n
      BY <1>0, <2>2 DEF Database
    <2> HIDE DEF n
    <2>5. [id |-> n, signal |-> s, peer |-> p, decided |-> now, outcome |-> "pending"] \in Decision
      BY <2>1, <1>n DEF Decision
    <2>6. pushing' \subseteq Decision
      BY <1>12, <2>4, <2>5 DEF TakeId, TypeOK
    <2> QED BY <1>12, <2>3, <2>6 DEF TakeId, TypeOK, who
  <1>13. ASSUME NEW s \in Signals, NEW p \in Peers, NEW now \in Now, AppendDecision(s, p, now)
         PROVE  TypeOK'
    BY <1>13, <1>0, <1>n, JournalProper, ServeType DEF AppendDecision
  <1>14. ASSUME NEW entry \in pushing, Push(entry) PROVE TypeOK'
    <2>1. Proper(M!Push(db, entry))
      BY <1>0, JournalProper DEF TypeOK
    <2>2. db' \in Database /\ reply' \in Reply
      BY <1>14, <2>1 DEF Push, Proper
    <2> QED BY <1>14, <2>2 DEF Push, TypeOK, who
  <1>15. ASSUME NEW id \in 1..MaxIds, NEW o \in Outcomes, ResolveDecision(id, o) PROVE TypeOK'
    BY <1>15, <1>0, JournalProper, ServeType DEF ResolveDecision
  <1>16. ASSUME NEW t \in Times, TrimJournal(t) PROVE TypeOK'
    BY <1>16, <1>0, JournalProper, ServeType DEF TrimJournal
  <1>17. ASSUME NEW t \in Times, PurgeInfluence(t) PROVE TypeOK'
    BY <1>17, <1>0, InfluenceProper, ServeType DEF PurgeInfluence
  <1>18. ASSUME NEW p \in Peers, NEW now \in Now, RecordInfluence(p, now) PROVE TypeOK'
    <2> DEFINE start == IF now < Window THEN 0 ELSE now - Window
    <2>1. start \in Nat /\ now \in Times
      BY <1>n, StoresAssumption
    <2>2. Serve("influence", IF InMemory THEN M!RecordInfluence(db, p, now, start)
                                         ELSE Q!RecordInfluence(db, p, now, start))
      BY <1>18 DEF RecordInfluence
    <2> HIDE DEF start
    <2> QED BY <1>0, <2>1, <2>2, InfluenceProper, ServeType
  <1>19. ASSUME NEW r \in Synapse, PutSynapse(r) PROVE TypeOK'
    BY <1>19, <1>0, RecordsProper, ServeType DEF PutSynapse
  <1>20. ASSUME NEW id \in SynapseIds, DeleteSynapse(id) PROVE TypeOK'
    BY <1>20, <1>0, RecordsProper, ServeType DEF DeleteSynapse
  <1>21. ASSUME NEW r \in Peer, PutPeer(r) PROVE TypeOK'
    BY <1>21, <1>0, RecordsProper, ServeType DEF PutPeer
  <1>22. CASE SaveActivation
    BY <1>22, <1>0, RecordsProper, ServeType DEF SaveActivation
  <1>23. ASSUME NEW s \in Signals, PutSignalHistory(s) PROVE TypeOK'
    BY <1>23, <1>0, <1>b, RecordsProper, ServeType DEF PutSignalHistory
  <1>24. CASE Flush
    <2>1. Word("ok") \in Reply
      BY ReplyFacts DEF Words, Word
    <2> QED BY <1>24, <2>1 DEF Flush, TypeOK, who
  <1>25. CASE WriteBack
    BY <1>25 DEF WriteBack, TypeOK, who
  <1>26. CASE Kill
    BY <1>26, <1>0 DEF Kill, Fails, Word, TypeOK
  <1>27. CASE PowerLoss
    BY <1>27, <1>0 DEF PowerLoss, Fails, Word, TypeOK
  <1>28. CASE Tick
    BY <1>28 DEF Tick, TypeOK, who
  <1>29. CASE UNCHANGED vars
    BY <1>29 DEF vars, who, TypeOK
  <1> QED
    BY <1>1, <1>2, <1>3, <1>4, <1>5, <1>6, <1>7, <1>8, <1>9, <1>10, <1>11, <1>12, <1>13, <1>14,
       <1>15, <1>16, <1>17, <1>18, <1>19, <1>20, <1>21, <1>22, <1>23, <1>24, <1>25, <1>26, <1>27,
       <1>28, <1>29 DEF Next

(* A new database is one. *)
LEMMA TypeInit ==
    Init => TypeOK
  <1> SUFFICES ASSUME Init PROVE TypeOK
    OBVIOUS
  <1>1. \A v \in Nat : Empty(v) \in Database
    BY TablesAssumption DEF Empty, Database
  <1>2. db \in Database
    BY <1>1, StoresAssumption DEF Init
  <1>3. <<"none", 0>> \in Reply
    BY ReplyFacts DEF Words
  <1> QED BY <1>2, <1>3, TablesAssumption DEF Init, TypeOK, Word

(* Every call of either backend, every step of opening, maintenance and     *)
(* failure leaves the store, the disk and the answers well typed.           *)
THEOREM TypeCorrect == Spec => []TypeOK
  BY TypeInit, TypeStep, PTL DEF Spec

-----------------------------------------------------------------------------
(* Who the process is. *)

(* Stable storage and the database agree on the identity first loaded from  *)
(* stable storage or flushed, and the process runs under the stored seed as *)
(* soon as there is one.                                                    *)
Anchored ==
    area = "identity" /\ OnDisk =>
        /\ known # NoSeed => db.seed = known /\ disk.seed = known
        /\ mode = "creating" => db.seed = NoSeed /\ me \in Seeds
        /\ mode \in {"naming", "flushing", "building", "open"} => db.seed = me /\ me # NoSeed
        /\ mode = "open" => db.nodeId = me

(* A step that leaves the identity's rows, the process and its stage alone, *)
(* or only writes them back, keeps the identity anchored.                   *)
LEMMA AnchoredKept ==
    ASSUME TypeOK, Anchored, UNCHANGED <<backend, area, mode, who>>,
           db'.seed = db.seed, db'.nodeId = db.nodeId,
           disk'.seed = disk.seed \/ disk'.seed = db.seed
    PROVE  Anchored'
  BY DEF Anchored, OnDisk, who

(* Every step keeps the identity anchored. *)
LEMMA AnchoredStep ==
    ASSUME TypeOK, Anchored, [Next]_vars
    PROVE  Anchored'
  <1>0. db \in Database /\ disk \in Database /\ NoSeed \notin Seeds
    BY TablesAssumption DEF TypeOK
  <1>s. ASSUME NEW tables \in {"dedup", "journal", "influence", "synapses", "peers"},
               NEW result, Serve(tables, result)
        PROVE  Anchored'
    BY <1>s DEF Serve, Anchored
  <1>1. CASE OpenStore
    BY <1>1 DEF OpenStore, Anchored, OnDisk, who
  <1>2. CASE Migrate
    <2>1. db'.seed = db.seed /\ db'.nodeId = db.nodeId
      BY <1>0, <1>2 DEF Migrate, Q!Migrated, Database
    <2> QED BY <1>2, <2>1, AnchoredKept DEF Migrate, Committed
  <1>3. CASE Ready
    BY <1>3 DEF Ready, Anchored, OnDisk, who
  <1>4. CASE LoadSeed
    BY <1>4, <1>0 DEF LoadSeed, Identify, First, Anchored, OnDisk
  <1>5. CASE CreateSeed
    BY <1>5, <1>0 DEF CreateSeed, Identify, Anchored, OnDisk
  <1>6. CASE PutSeed
    <2>1. db'.seed = me
      BY <1>0, <1>6 DEF PutSeed, Identify, Database
    <2> QED BY <1>6, <1>0, <2>1 DEF PutSeed, Identify, Anchored, OnDisk, Committed
  <1>7. CASE PutNodeId
    <2>1. db'.seed = db.seed
      BY <1>0, <1>7 DEF PutNodeId, Identify, Database
    <2> QED BY <1>7, <2>1 DEF PutNodeId, Identify, Anchored, OnDisk, Committed
  <1>8. CASE FlushIdentity
    BY <1>8 DEF FlushIdentity, Identify, First, Anchored, OnDisk
  <1>9. CASE BuildNode
    <2>1. db'.seed = db.seed /\ db'.nodeId = me
      BY <1>0, <1>9 DEF BuildNode, Identify, Database
    <2> QED BY <1>9, <2>1 DEF BuildNode, Identify, Anchored, OnDisk, Committed
  <1>10. ASSUME NEW s \in Signals, NEW now \in Now, CheckAndSetSeen(s, now) PROVE Anchored'
    BY <1>10, <1>s DEF CheckAndSetSeen
  <1>11. ASSUME NEW now \in Now, PurgeExpiredSeen(now) PROVE Anchored'
    BY <1>11, <1>s DEF PurgeExpiredSeen
  <1>12. ASSUME NEW s \in Signals, NEW p \in Peers, NEW now \in Now, TakeId(s, p, now)
         PROVE  Anchored'
    BY <1>12 DEF TakeId, Anchored
  <1>13. ASSUME NEW s \in Signals, NEW p \in Peers, NEW now \in Now, AppendDecision(s, p, now)
         PROVE  Anchored'
    BY <1>13, <1>s DEF AppendDecision
  <1>14. ASSUME NEW entry \in pushing, Push(entry) PROVE Anchored'
    <2>1. db'.seed = db.seed /\ db'.nodeId = db.nodeId
      BY <1>0, <1>14 DEF Push, M!Push, M!Counted, Database
    <2> QED BY <1>14, <2>1, AnchoredKept DEF Push
  <1>15. ASSUME NEW id \in 1..MaxIds, NEW o \in Outcomes, ResolveDecision(id, o) PROVE Anchored'
    BY <1>15, <1>s DEF ResolveDecision
  <1>16. ASSUME NEW t \in Times, TrimJournal(t) \/ PurgeInfluence(t) PROVE Anchored'
    BY <1>16, <1>s DEF TrimJournal, PurgeInfluence
  <1>18. ASSUME NEW p \in Peers, NEW now \in Now, RecordInfluence(p, now) PROVE Anchored'
    BY <1>18, <1>s DEF RecordInfluence
  <1>19. ASSUME NEW r \in Synapse, PutSynapse(r) PROVE Anchored'
    BY <1>19, <1>s DEF PutSynapse
  <1>20. ASSUME NEW id \in SynapseIds, DeleteSynapse(id) PROVE Anchored'
    BY <1>20, <1>s DEF DeleteSynapse
  <1>21. ASSUME NEW r \in Peer, PutPeer(r) PROVE Anchored'
    BY <1>21, <1>s DEF PutPeer
  <1>22. CASE SaveActivation
    BY <1>22, <1>s DEF SaveActivation
  <1>23. ASSUME NEW s \in Signals, PutSignalHistory(s) PROVE Anchored'
    BY <1>23, <1>s DEF PutSignalHistory
  <1>24. CASE Flush
    BY <1>24, AnchoredKept DEF Flush
  <1>25. CASE WriteBack
    BY <1>25, AnchoredKept DEF WriteBack
  <1>26. CASE Kill
    BY <1>26 DEF Kill, Fails, Anchored, OnDisk
  <1>27. CASE PowerLoss
    BY <1>27 DEF PowerLoss, Fails, Anchored, OnDisk
  <1>28. CASE Tick
    BY <1>28, AnchoredKept DEF Tick
  <1>29. CASE UNCHANGED vars
    BY <1>29, AnchoredKept DEF vars
  <1> QED
    BY <1>1, <1>2, <1>3, <1>4, <1>5, <1>6, <1>7, <1>8, <1>9, <1>10, <1>11, <1>12, <1>13, <1>14,
       <1>15, <1>16, <1>18, <1>19, <1>20, <1>21, <1>22, <1>23, <1>24, <1>25, <1>26, <1>27,
       <1>28, <1>29 DEF Next

(* "Identity must persist": wherever failures cut load_or_create or         *)
(* NodeBuilder::build short, a process on a disk store runs under the seed  *)
(* first found on disk or flushed, and its node id is that seed's.          *)
THEOREM IdentityIsKept == Spec => []IdentityPersists
  <1>1. Init => Anchored
    BY DEF Init, Anchored
  <1>2. TypeOK /\ Anchored => IdentityPersists
    BY DEF TypeOK, Anchored, IdentityPersists
  <1>3. TypeOK /\ Anchored /\ [Next]_vars => Anchored'
    BY AnchoredStep
  <1> QED BY <1>1, <1>2, <1>3, TypeCorrect, PTL DEF Spec

-----------------------------------------------------------------------------
(* What durability() says. *)

(* Under synchronous=FULL stable storage never lags behind, and only the    *)
(* MemoryStore has an append in two halves.                                 *)
InStep ==
    /\ OnDisk /\ backend.sync = "full" => disk = db
    /\ pushing # {} => InMemory

(* Only a failure takes a process down, and one that is down touches        *)
(* nothing.                                                                 *)
Dormant ==
    /\ mode' = "down" => Kill \/ (mode = "down" /\ db' = db)
    /\ mode' = "dark" => PowerLoss \/ (mode = "dark" /\ db' = db)

(* Every step keeps stable storage in step and a process that is down idle. *)
LEMMA InStepStep ==
    ASSUME TypeOK, InStep, [Next]_vars
    PROVE  InStep' /\ Dormant
  <1>0. InMemory => ~OnDisk
    BY StoresAssumption DEF TypeOK, InMemory, OnDisk
  <1> USE DEF InStep, Dormant, InMemory, OnDisk, Committed
  <1>s. ASSUME NEW tables, NEW result, Serve(tables, result)
        PROVE  InStep' /\ Dormant
    BY <1>s DEF Serve
  <1>i. ASSUME NEW a, NEW b, NEW c, NEW e, Identify(a, b, c, e), disk' = Committed(db') \/ disk' = db',
               b \notin {"down", "dark"}
        PROVE  InStep' /\ Dormant
    BY <1>i DEF Identify
  <1>1. CASE OpenStore \/ Ready
    BY <1>1 DEF OpenStore, Ready
  <1>2. CASE Migrate
    BY <1>2 DEF Migrate
  <1>4. CASE LoadSeed
    BY <1>4 DEF LoadSeed, Identify
  <1>5. CASE CreateSeed
    BY <1>5 DEF CreateSeed, Identify
  <1>6. CASE PutSeed
    BY <1>6, <1>i DEF PutSeed
  <1>7. CASE PutNodeId
    BY <1>7, <1>i DEF PutNodeId
  <1>8. CASE FlushIdentity
    BY <1>8 DEF FlushIdentity, Identify
  <1>9. CASE BuildNode
    BY <1>9, <1>i DEF BuildNode
  <1>10. ASSUME NEW s \in Signals, NEW now \in Now, CheckAndSetSeen(s, now) PROVE InStep' /\ Dormant
    BY <1>10, <1>s DEF CheckAndSetSeen
  <1>11. ASSUME NEW now \in Now, PurgeExpiredSeen(now) PROVE InStep' /\ Dormant
    BY <1>11, <1>s DEF PurgeExpiredSeen
  <1>12. ASSUME NEW s \in Signals, NEW p \in Peers, NEW now \in Now, TakeId(s, p, now)
         PROVE  InStep' /\ Dormant
    BY <1>12, <1>0 DEF TakeId
  <1>13. ASSUME NEW s \in Signals, NEW p \in Peers, NEW now \in Now, AppendDecision(s, p, now)
         PROVE  InStep' /\ Dormant
    BY <1>13, <1>s DEF AppendDecision
  <1>14. ASSUME NEW entry \in pushing, Push(entry) PROVE InStep' /\ Dormant
    BY <1>14, <1>0 DEF Push
  <1>15. ASSUME NEW id \in 1..MaxIds, NEW o \in Outcomes, ResolveDecision(id, o)
         PROVE  InStep' /\ Dormant
    BY <1>15, <1>s DEF ResolveDecision
  <1>16. ASSUME NEW t \in Times, TrimJournal(t) \/ PurgeInfluence(t) PROVE InStep' /\ Dormant
    BY <1>16, <1>s DEF TrimJournal, PurgeInfluence
  <1>18. ASSUME NEW p \in Peers, NEW now \in Now, RecordInfluence(p, now) PROVE InStep' /\ Dormant
    BY <1>18, <1>s DEF RecordInfluence
  <1>19. ASSUME NEW r \in Synapse, PutSynapse(r) PROVE InStep' /\ Dormant
    BY <1>19, <1>s DEF PutSynapse
  <1>20. ASSUME NEW id \in SynapseIds, DeleteSynapse(id) PROVE InStep' /\ Dormant
    BY <1>20, <1>s DEF DeleteSynapse
  <1>21. ASSUME NEW r \in Peer, PutPeer(r) PROVE InStep' /\ Dormant
    BY <1>21, <1>s DEF PutPeer
  <1>22. CASE SaveActivation
    BY <1>22, <1>s DEF SaveActivation
  <1>23. ASSUME NEW s \in Signals, PutSignalHistory(s) PROVE InStep' /\ Dormant
    BY <1>23, <1>s DEF PutSignalHistory
  <1>24. CASE Flush
    BY <1>24 DEF Flush
  <1>25. CASE WriteBack
    BY <1>25 DEF WriteBack
  <1>26. CASE Kill
    BY <1>26 DEF Kill, Fails
  <1>27. CASE PowerLoss
    BY <1>27 DEF PowerLoss, Fails
  <1>28. CASE Tick
    BY <1>28 DEF Tick
  <1>29. CASE UNCHANGED vars
    BY <1>29 DEF vars
  <1> QED
    BY <1>1, <1>2, <1>4, <1>5, <1>6, <1>7, <1>8, <1>9, <1>10, <1>11, <1>12, <1>13, <1>14,
       <1>15, <1>16, <1>18, <1>19, <1>20, <1>21, <1>22, <1>23, <1>24, <1>25, <1>26, <1>27,
       <1>28, <1>29 DEF Next

(* What durability() reports holds: a process failure loses nothing unless  *)
(* it says "memory", and a power failure nothing when it says "durable".    *)
THEOREM DurabilityIsHonest == Spec => DurabilityHonest
  <1> DEFINE Honest == /\ mode' = "down" /\ Report # "memory" => db' = db
                       /\ mode' = "dark" /\ Report = "durable" => db' = db
  <1>1. Init => InStep
    BY DEF Init, InStep
  <1>2. TypeOK /\ InStep /\ [Next]_vars => InStep' /\ Dormant
    BY InStepStep
  <1>3. TypeOK /\ InStep /\ Dormant => Honest
    <2> SUFFICES ASSUME TypeOK, InStep, Dormant PROVE Honest
      OBVIOUS
    <2>1. Report # "memory" => OnDisk
      BY DEF Report, Q!Durability
    <2>2. Report = "durable" => OnDisk /\ backend.sync = "full"
      BY DEF Report, Q!Durability
    <2> QED BY <2>1, <2>2 DEF Dormant, Kill, PowerLoss, Fails, InStep
  <1>4. TypeOK /\ InStep /\ [Next]_vars => [Honest]_vars
    BY <1>2, <1>3
  <1> QED BY <1>1, <1>2, <1>4, TypeCorrect, PTL DEF Spec, DurabilityHonest

-----------------------------------------------------------------------------
(* Both backends implement the NodeStore trait. *)

ChargesOf(q) ==
    [x \in Peers |-> [t \in Times |-> Cardinality({i \in DOMAIN q : q[i] = [peer |-> x, at |-> t]})]]

Spent(counter, p) == (1..counter) \ {e.id : e \in p}

(* What the trait talks about, table by table. *)
LEMMA KeptView ==
    ASSUME NEW d, NEW p
    PROVE  Kept(d, p) =
             [synapses |-> d.synapses, peers |-> d.peers,
              activation |-> d.activation, history |-> d.history, claim |-> d.claimed,
              decisions |-> Rows(d.journal), spent |-> Spent(d.counter, p),
              charges |-> ChargesOf(d.influence)]
  BY Zenon DEF Kept, Spent, ChargesOf

(* A change of a table is a change of its part of the view, or of nothing   *)
(* the trait talks about.                                                   *)
LEMMA KeptSynapses ==
    ASSUME NEW d, NEW p, NEW X, NEW e,
           e.synapses = X, e.peers = d.peers, e.history = d.history, e.activation = d.activation,
           e.claimed = d.claimed, e.journal = d.journal, e.counter = d.counter, e.influence = d.influence
    PROVE  Kept(e, p) = [Kept(d, p) EXCEPT !.synapses = X]
  BY KeptView

(* ... the peers, ... *)
LEMMA KeptPeers ==
    ASSUME NEW d, NEW p, NEW X, NEW e,
           e.synapses = d.synapses, e.peers = X, e.history = d.history, e.activation = d.activation,
           e.claimed = d.claimed, e.journal = d.journal, e.counter = d.counter, e.influence = d.influence
    PROVE  Kept(e, p) = [Kept(d, p) EXCEPT !.peers = X]
  BY KeptView

(* ... the signal history, ... *)
LEMMA KeptHistory ==
    ASSUME NEW d, NEW p, NEW X, NEW e,
           e.synapses = d.synapses, e.peers = d.peers, e.history = X, e.activation = d.activation,
           e.claimed = d.claimed, e.journal = d.journal, e.counter = d.counter, e.influence = d.influence
    PROVE  Kept(e, p) = [Kept(d, p) EXCEPT !.history = X]
  BY KeptView

(* ... the activation snapshot, ... *)
LEMMA KeptActivation ==
    ASSUME NEW d, NEW p, NEW X, NEW e,
           e.synapses = d.synapses, e.peers = d.peers, e.history = d.history, e.activation = X,
           e.claimed = d.claimed, e.journal = d.journal, e.counter = d.counter, e.influence = d.influence
    PROVE  Kept(e, p) = [Kept(d, p) EXCEPT !.activation = X]
  BY KeptView

(* ... the journal, ... *)
LEMMA KeptJournal ==
    ASSUME NEW d \in Database, NEW p, NEW X
    PROVE  \A e : e = [d EXCEPT !.journal = X] => Kept(e, p) = [Kept(d, p) EXCEPT !.decisions = Rows(X)]
  <1> DEFINE e == [d EXCEPT !.journal = X]
  <1>1. /\ e.synapses = d.synapses /\ e.peers = d.peers /\ e.history = d.history /\ e.activation = d.activation
        /\ e.claimed = d.claimed /\ e.journal = X /\ e.counter = d.counter /\ e.influence = d.influence
    BY DEF Database
  <1> HIDE DEF e
  <1>2. Kept(e, p) = [Kept(d, p) EXCEPT !.decisions = Rows(X)]
    BY <1>1, KeptView
  <1> QED BY <1>2 DEF e

(* ... the influence table, ... *)
LEMMA KeptInfluence ==
    ASSUME NEW d \in Database, NEW p, NEW X
    PROVE  \A e : e = [d EXCEPT !.influence = X] => Kept(e, p) = [Kept(d, p) EXCEPT !.charges = ChargesOf(X)]
  <1> DEFINE e == [d EXCEPT !.influence = X]
  <1>1. /\ e.synapses = d.synapses /\ e.peers = d.peers /\ e.history = d.history /\ e.activation = d.activation
        /\ e.claimed = d.claimed /\ e.journal = d.journal /\ e.counter = d.counter /\ e.influence = X
    BY DEF Database
  <1> HIDE DEF e
  <1>2. Kept(e, p) = [Kept(d, p) EXCEPT !.charges = ChargesOf(X)]
    BY <1>1, KeptView
  <1> QED BY <1>2 DEF e

(* ... the dedup table ... *)
LEMMA KeptClaims ==
    ASSUME NEW d, NEW p, NEW Y, NEW e,
           e.synapses = d.synapses, e.peers = d.peers, e.history = d.history,
           e.activation = d.activation, e.claimed = Y, e.journal = d.journal,
           e.counter = d.counter, e.influence = d.influence
    PROVE  Kept(e, p) = [Kept(d, p) EXCEPT !.claim = Y]
  BY KeptView

(* ... or, for what the trait does not talk about, nothing. *)
LEMMA KeptSame ==
    ASSUME NEW d \in Database, NEW p, NEW X, NEW e,
           \/ e = [d EXCEPT !.seen = X] \/ e = [d EXCEPT !.version = X]
           \/ e = [d EXCEPT !.seed = X] \/ e = [d EXCEPT !.nodeId = X]
    PROVE  Kept(e, p) = Kept(d, p)
  <1>1. /\ e.synapses = d.synapses /\ e.peers = d.peers /\ e.history = d.history /\ e.activation = d.activation
        /\ e.claimed = d.claimed /\ e.journal = d.journal /\ e.counter = d.counter /\ e.influence = d.influence
    BY DEF Database
  <1> QED BY <1>1, KeptView

Appended(k, decisions, spent) == [k EXCEPT !.decisions = decisions, !.spent = spent]

(* An append changes the journal and the identifiers spent. *)
LEMMA KeptAppend ==
    ASSUME NEW d, NEW p, NEW o, NEW X, NEW n, NEW e,
           e.synapses = d.synapses, e.peers = d.peers, e.history = d.history,
           e.activation = d.activation, e.claimed = d.claimed, e.journal = X,
           e.counter = n, e.influence = d.influence
    PROVE  Kept(e, o) = Appended(Kept(d, p), Rows(X), Spent(n, o))
  <1> DEFINE r == [synapses |-> d.synapses, peers |-> d.peers, activation |-> d.activation,
                   history |-> d.history, claim |-> d.claimed, decisions |-> Rows(d.journal),
                   spent |-> Spent(d.counter, p), charges |-> ChargesOf(d.influence)]
             s == [synapses |-> d.synapses, peers |-> d.peers, activation |-> d.activation,
                   history |-> d.history, claim |-> d.claimed, decisions |-> Rows(X),
                   spent |-> Spent(d.counter, p), charges |-> ChargesOf(d.influence)]
             u == [synapses |-> d.synapses, peers |-> d.peers, activation |-> d.activation,
                   history |-> d.history, claim |-> d.claimed, decisions |-> Rows(X),
                   spent |-> Spent(n, o), charges |-> ChargesOf(d.influence)]
  <1>1. Kept(e, o) = u /\ Kept(d, p) = r
    BY KeptView
  <1>2. [r EXCEPT !.decisions = Rows(X)] = s
    OBVIOUS
  <1>3. [s EXCEPT !.spent = Spent(n, o)] = u
    OBVIOUS
  <1> HIDE DEF r, s, u
  <1>4. [r EXCEPT !.decisions = Rows(X), !.spent = Spent(n, o)] =
           [[r EXCEPT !.decisions = Rows(X)] EXCEPT !.spent = Spent(n, o)]
    OBVIOUS
  <1> QED BY <1>1, <1>2, <1>3, <1>4 DEF Appended

(* Of a database with the entries in p under way at instant c: a claim is   *)
(* in the dedup table until it has run out, journal ids are used once and   *)
(* counted, and the influence table has its size.                           *)
Claims(d, c) ==
    \A s \in Signals : d.seen[s] = d.claimed[s] \/ (d.seen[s] = 0 /\ d.claimed[s] <= c)

Ids(d) ==
    /\ \A i, j \in DOMAIN d.journal : d.journal[i].id = d.journal[j].id => i = j
    /\ \A i \in DOMAIN d.journal : d.journal[i].id <= d.counter

UnderWay(d, p, c) ==
    /\ \A e \in p : /\ e.id <= d.counter /\ e.outcome = "pending" /\ e.decided <= c
                    /\ \A i \in DOMAIN d.journal : d.journal[i].id # e.id
    /\ \A e, f \in p : e.id = f.id => e = f

Coherent(d, p, c) ==
    Claims(d, c) /\ Ids(d) /\ UnderWay(d, p, c) /\ Len(d.influence) <= MaxCharges

(* What a failure leaves is coherent too. *)
Orderly ==
    /\ Coherent(db, pushing, clock)
    /\ Coherent(disk, {}, clock)
    /\ 0..clock \subseteq Times

(* The tables that matter to Coherent. *)
LEMMA CoherentSame ==
    ASSUME NEW d, NEW e, NEW p, NEW c, Coherent(d, p, c),
           e.seen = d.seen, e.claimed = d.claimed, e.journal = d.journal, e.counter = d.counter,
           e.influence = d.influence
    PROVE  Coherent(e, p, c)
  BY DEF Coherent, Claims, Ids, UnderWay

(* A coherent store stays so when the appends under way are abandoned. *)
LEMMA CoherentAlone ==
    ASSUME NEW d, NEW p, NEW c, Coherent(d, p, c)
    PROVE  Coherent(d, {}, c)
  BY DEF Coherent, UnderWay

(* Time only lets claims run out. *)
LEMMA CoherentLater ==
    ASSUME NEW d \in Database, NEW p \in SUBSET Decision, NEW c \in Nat, Coherent(d, p, c)
    PROVE  Coherent(d, p, c + 1)
  <1>1. Claims(d, c + 1)
    <2>1. d.claimed \in [Signals -> Nat]
      BY DatabaseFacts
    <2> QED BY <2>1 DEF Coherent, Claims
  <1>2. UnderWay(d, p, c + 1)
    <2>1. \A e \in p : e.decided \in Nat
      BY TablesAssumption DEF Decision
    <2> QED BY <2>1 DEF Coherent, UnderWay
  <1> QED BY <1>1, <1>2 DEF Coherent

(* A call that leaves the database coherent keeps the invariant. *)
LEMMA ServeOrderly ==
    ASSUME Orderly, NEW tables, NEW result, Serve(tables, result),
           Coherent(result.db, pushing, clock)
    PROVE  Orderly'
  <1>1. Coherent(result.db, {}, clock)
    BY CoherentAlone
  <1>2. db' = result.db /\ pushing' = pushing /\ clock' = clock /\ (disk' = db' \/ disk' = disk)
    BY DEF Serve, Committed
  <1>3. Coherent(db', pushing', clock') /\ Coherent(disk', {}, clock') /\ 0..clock' \subseteq Times
    BY <1>1, <1>2 DEF Orderly
  <1> QED BY <1>3 DEF Orderly

(* A claim, by either backend: refused while the last one lasts, granted    *)
(* only after it has run out.                                               *)
Renewed(d, s, now) ==
    [d EXCEPT !.seen = [d.seen EXCEPT ![s] = now + Ttl],
              !.claimed = [d.claimed EXCEPT ![s] = now + Ttl]]

ClaimServed(d, p, c, s, now, result) ==
    \/ d.claimed[s] > now /\ result = [db |-> d, reply |-> <<"seen", 0>>]
    \/ /\ d.claimed[s] <= c
       /\ result = [db |-> Renewed(d, s, now), reply |-> <<"unseen", 0>>]
       /\ Coherent(Renewed(d, s, now), p, c)

(* check_and_set_seen() keeps a claim and its expiry in step. *)
LEMMA ClaimFacts ==
    ASSUME NEW d \in Database, NEW p, NEW c \in Nat, NEW now \in Nat, now <= c, NEW s \in Signals,
           Coherent(d, p, c)
    PROVE  /\ ClaimServed(d, p, c, s, now, Claimed(M!CheckAndSetSeen(d, s, now), s, now))
           /\ ClaimServed(d, p, c, s, now, Claimed(Q!CheckAndSetSeen(d, s, now), s, now))
  <1>0. d.seen \in [Signals -> Nat] /\ d.claimed \in [Signals -> Nat] /\ now + Ttl \in Nat
    BY DatabaseFacts, TablesAssumption
  <1>1. d.seen[s] = d.claimed[s] \/ (d.seen[s] = 0 /\ d.claimed[s] <= c)
    BY DEF Coherent, Claims
  <1> DEFINE e == [d EXCEPT !.seen[s] = now + Ttl]
             f == Renewed(d, s, now)
  <1>2. f.seen = [d.seen EXCEPT ![s] = now + Ttl] /\ f.claimed = [d.claimed EXCEPT ![s] = now + Ttl]
        /\ f.journal = d.journal /\ f.counter = d.counter /\ f.influence = d.influence
    BY DEF Renewed, Database
  <1>3. Coherent(f, p, c)
    <2> HIDE DEF f
    <2>1. Claims(f, c)
      BY <1>0, <1>2 DEF Coherent, Claims
    <2> QED BY <1>2, <2>1 DEF Coherent, Ids, UnderWay
  <1>4. [[db |-> e, reply |-> <<"unseen", 0>>] EXCEPT !.db.claimed[s] = now + Ttl] =
           [db |-> f, reply |-> <<"unseen", 0>>]
    <2>1. [e EXCEPT !.claimed[s] = now + Ttl] = f
      <3>1. e = [d EXCEPT !.seen = [d.seen EXCEPT ![s] = now + Ttl]] /\ e.claimed = d.claimed
        BY DEF Database
      <3>2. [e EXCEPT !.claimed[s] = now + Ttl] = [e EXCEPT !.claimed = [d.claimed EXCEPT ![s] = now + Ttl]]
        <4> HIDE DEF e
        <4> QED BY <3>1
      <3> QED BY <3>1, <3>2 DEF Renewed
    <2> HIDE DEF e, f
    <2> QED BY <2>1
  <1>5. Claimed([db |-> e, reply |-> <<"unseen", 0>>], s, now) = [db |-> f, reply |-> <<"unseen", 0>>]
    <2> HIDE DEF e, f
    <2> QED BY <1>4 DEF Claimed, Word, Expiry
  <1>6. Claimed([db |-> d, reply |-> <<"seen", 0>>], s, now) = [db |-> d, reply |-> <<"seen", 0>>]
    BY DEF Claimed, Word
  <1>7. M!CheckAndSetSeen(d, s, now) = IF d.seen[s] > now
           THEN [db |-> d, reply |-> <<"seen", 0>>]
           ELSE [db |-> e, reply |-> <<"unseen", 0>>]
    BY DEF M!CheckAndSetSeen, M!Done, M!Word, M!Expiry
  <1>8. Q!CheckAndSetSeen(d, s, now) = IF d.seen[s] = 0 \/ d.seen[s] <= now
           THEN [db |-> e, reply |-> <<"unseen", 0>>]
           ELSE [db |-> d, reply |-> <<"seen", 0>>]
    BY DEF Q!CheckAndSetSeen, Q!ChangesRow, Q!Done, Q!Word, Q!Expiry
  <1> HIDE DEF e, f
  <1>9. CASE d.seen[s] > now
    <2>1. d.claimed[s] > now /\ ~(d.seen[s] = 0 \/ d.seen[s] <= now)
      BY <1>0, <1>1, <1>9
    <2>2. /\ M!CheckAndSetSeen(d, s, now) = [db |-> d, reply |-> <<"seen", 0>>]
          /\ Q!CheckAndSetSeen(d, s, now) = [db |-> d, reply |-> <<"seen", 0>>]
      BY <1>7, <1>8, <1>9, <2>1
    <2> QED BY <1>6, <2>1, <2>2 DEF ClaimServed
  <1>10. CASE ~(d.seen[s] > now)
    <2>1. d.claimed[s] <= c /\ d.seen[s] <= now
      BY <1>0, <1>1, <1>10
    <2>2. /\ M!CheckAndSetSeen(d, s, now) = [db |-> e, reply |-> <<"unseen", 0>>]
          /\ Q!CheckAndSetSeen(d, s, now) = [db |-> e, reply |-> <<"unseen", 0>>]
      BY <1>7, <1>8, <1>10, <2>1
    <2> QED BY <1>3, <1>5, <2>1, <2>2 DEF ClaimServed, f
  <1> QED BY <1>9, <1>10

(* The purge of the dedup table drops entries that have run out. *)
LEMMA PurgeFacts ==
    ASSUME NEW d \in Database, NEW p, NEW c \in Nat, NEW now \in Nat, now <= c, Coherent(d, p, c)
    PROVE  \E m, q : /\ M!PurgeExpiredSeen(d, now) = [db |-> [d EXCEPT !.seen = m], reply |-> <<"ok", 0>>]
                     /\ Q!PurgeExpiredSeen(d, now) = [db |-> [d EXCEPT !.seen = q], reply |-> <<"ok", 0>>]
                     /\ Coherent([d EXCEPT !.seen = m], p, c) /\ Coherent([d EXCEPT !.seen = q], p, c)
  <1>0. d.seen \in [Signals -> Nat] /\ d.claimed \in [Signals -> Nat]
    BY DatabaseFacts
  <1> DEFINE m == [s \in Signals |-> IF d.seen[s] > now THEN d.seen[s] ELSE 0]
             q == [s \in Signals |-> IF d.seen[s] <= now THEN 0 ELSE d.seen[s]]
  <1>1. ASSUME NEW x, \A s \in Signals : x[s] = d.seen[s] \/ (x[s] = 0 /\ d.seen[s] <= now)
        PROVE  Coherent([d EXCEPT !.seen = x], p, c)
    <2> DEFINE e == [d EXCEPT !.seen = x]
    <2>1. e.seen = x /\ e.claimed = d.claimed
          /\ e.journal = d.journal /\ e.counter = d.counter /\ e.influence = d.influence
      BY DEF Database
    <2> HIDE DEF e
    <2>2. Claims(e, c)
      BY <1>0, <1>1, <2>1 DEF Coherent, Claims
    <2>3. Coherent(e, p, c)
      BY <2>1, <2>2 DEF Coherent, Ids, UnderWay
    <2> QED BY <2>3 DEF e
  <1>2. /\ M!PurgeExpiredSeen(d, now) = [db |-> [d EXCEPT !.seen = m], reply |-> <<"ok", 0>>]
        /\ Q!PurgeExpiredSeen(d, now) = [db |-> [d EXCEPT !.seen = q], reply |-> <<"ok", 0>>]
    BY DEF M!PurgeExpiredSeen, M!Done, M!Word, Q!PurgeExpiredSeen, Q!Done, Q!Word
  <1>3. \A s \in Signals : m[s] = d.seen[s] \/ (m[s] = 0 /\ d.seen[s] <= now)
    BY <1>0
  <1>4. \A s \in Signals : q[s] = d.seen[s] \/ (q[s] = 0 /\ d.seen[s] <= now)
    BY <1>0
  <1> HIDE DEF m, q
  <1> QED BY <1>1, <1>2, <1>3, <1>4

(* A journal whose ids are some of those of another. *)
LEMMA JournalSame ==
    ASSUME NEW d, NEW e, NEW p, NEW c, Coherent(d, p, c),
           e.seen = d.seen, e.claimed = d.claimed, e.counter = d.counter, e.influence = d.influence,
           \A i \in DOMAIN e.journal : \E k \in DOMAIN d.journal : e.journal[i].id = d.journal[k].id,
           \A i, j \in DOMAIN e.journal : e.journal[i].id = e.journal[j].id => i = j
    PROVE  Coherent(e, p, c)
  <1>1. Ids(e)
    BY DEF Coherent, Ids
  <1>2. UnderWay(e, p, c)
    BY DEF Coherent, UnderWay
  <1> QED BY <1>1, <1>2 DEF Coherent, Claims

(* The rows after an append. *)
LEMMA AppendRows ==
    ASSUME NEW S, NEW q \in Seq(S), NEW x \in S
    PROVE  /\ Rows(Append(q, x)) = Rows(q) \cup {x}
           /\ DOMAIN Append(q, x) = DOMAIN q \cup {Len(q) + 1} /\ Len(q) + 1 \notin DOMAIN q
           /\ \A i \in DOMAIN q : Append(q, x)[i] = q[i]
           /\ Append(q, x)[Len(q) + 1] = x
  <1> DEFINE r == Append(q, x)
  <1>1. /\ DOMAIN r = DOMAIN q \cup {Len(q) + 1} /\ Len(q) + 1 \notin DOMAIN q
        /\ \A i \in DOMAIN q : r[i] = q[i]
        /\ r[Len(q) + 1] = x
    OBVIOUS
  <1> HIDE DEF r
  <1>2. Rows(r) = Rows(q) \cup {x}
    BY <1>1 DEF Rows
  <1> QED BY <1>1, <1>2 DEF r

(* A journal with one more row, under an id no row has. *)
LEMMA JournalGrows ==
    ASSUME NEW d \in Database, NEW e, NEW p \in SUBSET Decision, NEW o \in SUBSET p, NEW c,
           NEW entry \in Decision, Coherent(d, p, c),
           e.seen = d.seen, e.claimed = d.claimed, e.influence = d.influence,
           e.journal = Append(d.journal, entry), e.counter \in Nat, d.counter <= e.counter,
           entry.id <= e.counter, \A i \in DOMAIN d.journal : d.journal[i].id # entry.id,
           \A x \in o : x.id # entry.id
    PROVE  Coherent(e, o, c)
  <1>0. d.journal \in Seq(Decision) /\ d.counter \in Nat
    BY DatabaseFacts, TablesAssumption
  <1> DEFINE l == Len(d.journal) + 1
  <1>1. /\ DOMAIN e.journal = DOMAIN d.journal \cup {l} /\ l \notin DOMAIN d.journal
        /\ \A i \in DOMAIN d.journal : e.journal[i] = d.journal[i]
        /\ e.journal[l] = entry
    BY <1>0, AppendRows
  <1>2. \A x \in Decision : x.id \in Nat
    BY TablesAssumption DEF Decision
  <1>3. \A i \in DOMAIN d.journal : d.journal[i] \in Decision
    BY <1>0
  <1> HIDE DEF l
  <1>4. Ids(e)
    <2>1. \A i, j \in DOMAIN e.journal : e.journal[i].id = e.journal[j].id => i = j
      BY <1>1 DEF Coherent, Ids
    <2>2. \A i \in DOMAIN d.journal : d.journal[i].id <= e.counter
      BY <1>0, <1>2, <1>3 DEF Coherent, Ids
    <2> QED BY <1>1, <2>1, <2>2 DEF Ids
  <1>5. UnderWay(e, o, c)
    <2>1. \A x \in o : x.id <= e.counter
      BY <1>0, <1>2 DEF Coherent, UnderWay
    <2> QED BY <1>1, <2>1 DEF Coherent, UnderWay
  <1> QED BY <1>4, <1>5 DEF Coherent, Claims

(* Which ids are spent after an append, and after its first half. *)
LEMMA SpentFacts ==
    ASSUME NEW c \in Nat, NEW p \in SUBSET Decision, \A e \in p : e.id <= c,
           \A e, f \in p : e.id = f.id => e = f
    PROVE  /\ \A e \in p : /\ Spent(c, p \ {e}) = Spent(c, p) \cup {e.id}
                           /\ e.id \in (1..MaxIds) \ Spent(c, p)
           /\ Spent(c + 1, p) = Spent(c, p) \cup {c + 1} /\ c + 1 \notin Spent(c, p)
           /\ \A e : e.id = c + 1 => Spent(c + 1, p \cup {e}) = Spent(c, p)
  <1>1. \A e \in p : e.id \in 1..MaxIds /\ e.id \in 1..c
    BY TablesAssumption DEF Decision
  <1>2. ASSUME NEW e \in p PROVE Spent(c, p \ {e}) = Spent(c, p) \cup {e.id}
    BY <1>1 DEF Spent
  <1>3. Spent(c + 1, p) = Spent(c, p) \cup {c + 1} /\ c + 1 \notin Spent(c, p)
    <2>1. \A e \in p : e.id # c + 1
      BY <1>1
    <2>2. 1..(c + 1) = (1..c) \cup {c + 1} /\ c + 1 \notin 1..c
      OBVIOUS
    <2> QED BY <2>1, <2>2 DEF Spent
  <1>4. ASSUME NEW e, e.id = c + 1 PROVE Spent(c + 1, p \cup {e}) = Spent(c, p)
    <2>1. \A x \in p : x.id # c + 1
      BY <1>1
    <2>2. 1..(c + 1) = (1..c) \cup {c + 1} /\ c + 1 \notin 1..c
      OBVIOUS
    <2> QED BY <1>4, <2>1, <2>2 DEF Spent
  <1> QED BY <1>1, <1>2, <1>3, <1>4 DEF Spent

(* A decision resolved, by either backend: the first outcome stands, and a  *)
(* decision that is not there is unknown.                                   *)
ResolvedBy(d, p, c, id, o, result, q, w) ==
    /\ result = [db |-> [d EXCEPT !.journal = q], reply |-> <<w, 0>>]
    /\ Coherent([d EXCEPT !.journal = q], p, c)
    /\ \/ /\ \A x \in Rows(d.journal) : x.id # id
          /\ Rows(q) = Rows(d.journal) /\ w = "unknown"
       \/ \E x \in Rows(d.journal) :
             /\ x.id = id
             /\ w = IF x.outcome = "pending" THEN o ELSE x.outcome
             /\ Rows(q) = (Rows(d.journal) \ {x}) \cup {[x EXCEPT !.outcome = w]}

ResolveServed(d, p, c, id, o, result) ==
    \E q, w : ResolvedBy(d, p, c, id, o, result, q, w)

(* With unique ids, setting the outcome of the row at position i, or of     *)
(* none, is what the trait asks for.                                        *)
LEMMA ResolveAt ==
    ASSUME NEW d \in Database, NEW p, NEW c, NEW id \in 1..MaxIds, NEW o \in Outcomes,
           Coherent(d, p, c), NEW q, NEW w, NEW i \in DOMAIN d.journal, d.journal[i].id = id,
           w = IF d.journal[i].outcome = "pending" THEN o ELSE d.journal[i].outcome,
           DOMAIN q = DOMAIN d.journal, \A j \in DOMAIN d.journal \ {i} : q[j] = d.journal[j],
           q[i] = [d.journal[i] EXCEPT !.outcome = w],
           NEW result, result = [db |-> [d EXCEPT !.journal = q], reply |-> <<w, 0>>]
    PROVE  ResolveServed(d, p, c, id, o, result)
  <1>0. d.journal \in Seq(Decision) /\ \A j \in DOMAIN d.journal : d.journal[j] \in Decision
    BY DatabaseFacts
  <1> DEFINE x == d.journal[i]
             e == [d EXCEPT !.journal = q]
  <1>1. x \in Decision /\ x.id = id /\ x \in Rows(d.journal)
    BY <1>0 DEF Rows
  <1>2. [x EXCEPT !.outcome = w].id = x.id
    <2> HIDE DEF x
    <2> QED BY <1>1 DEF Decision
  <1>3. e.seen = d.seen /\ e.claimed = d.claimed /\ e.counter = d.counter
        /\ e.influence = d.influence /\ e.journal = q
    BY DEF Database
  <1>4. \A j \in DOMAIN d.journal : q[j].id = d.journal[j].id
    BY <1>2
  <1>5. \A j, k \in DOMAIN d.journal : d.journal[j].id = d.journal[k].id => j = k
    BY DEF Coherent, Ids
  <1>6. Rows(q) = (Rows(d.journal) \ {x}) \cup {[x EXCEPT !.outcome = w]}
    <2>1. \A j \in DOMAIN d.journal \ {i} : d.journal[j] # x
      BY <1>5
    <2> DEFINE y == [x EXCEPT !.outcome = w]
    <2>2. q[i] = y
      OBVIOUS
    <2>3. d.journal[i] = x
      OBVIOUS
    <2> HIDE DEF x, y
    <2> QED BY <2>1, <2>2, <2>3 DEF Rows
  <1> HIDE DEF e
  <1>7. Coherent(e, p, c)
    BY <1>3, <1>4, <1>5, JournalSame
  <1>8. w = IF x.outcome = "pending" THEN o ELSE x.outcome
    OBVIOUS
  <1> HIDE DEF x
  <1>9. \E y \in Rows(d.journal) :
           /\ y.id = id
           /\ w = IF y.outcome = "pending" THEN o ELSE y.outcome
           /\ Rows(q) = (Rows(d.journal) \ {y}) \cup {[y EXCEPT !.outcome = w]}
    BY <1>1, <1>6, <1>8
  <1>10. result = [db |-> e, reply |-> <<w, 0>>]
    BY DEF e
  <1>11. ResolvedBy(d, p, c, id, o, result, q, w)
    BY <1>7, <1>9, <1>10 DEF ResolvedBy, e
  <1> QED BY <1>11 DEF ResolveServed

(* resolve_decision() changes the outcome of one decision. *)
LEMMA ResolveFacts ==
    ASSUME NEW d \in Database, NEW p, NEW c, NEW id \in 1..MaxIds, NEW o \in Outcomes,
           Coherent(d, p, c)
    PROVE  /\ ResolveServed(d, p, c, id, o, M!ResolveDecision(d, id, o))
           /\ ResolveServed(d, p, c, id, o, Q!ResolveDecision(d, id, o))
  <1>0. d.journal \in Seq(Decision) /\ \A j \in DOMAIN d.journal : d.journal[j] \in Decision
    BY DatabaseFacts
  <1>e. \A x \in Decision : [x EXCEPT !.outcome = x.outcome] = x
    BY DEF Decision
  <1>d. [d EXCEPT !.journal = d.journal] = d
    BY DEF Database
  <1>u. \A j, k \in DOMAIN d.journal : d.journal[j].id = d.journal[k].id => j = k
    BY DEF Coherent, Ids
  <1>n. ASSUME \A i \in DOMAIN d.journal : d.journal[i].id # id,
               NEW q, Rows(q) = Rows(d.journal), q = d.journal
        PROVE  ResolveServed(d, p, c, id, o, [db |-> [d EXCEPT !.journal = q], reply |-> <<"unknown", 0>>])
    <2>1. \A x \in Rows(d.journal) : x.id # id
      BY <1>n DEF Rows
    <2>2. Coherent([d EXCEPT !.journal = q], p, c)
      BY <1>d, <1>n
    <2> DEFINE result == [db |-> [d EXCEPT !.journal = q], reply |-> <<"unknown", 0>>]
    <2>3. ResolvedBy(d, p, c, id, o, result, q, "unknown")
      BY <1>n, <2>1, <2>2 DEF ResolvedBy
    <2> HIDE DEF result
    <2>4. ResolveServed(d, p, c, id, o, result)
      BY <2>3 DEF ResolveServed
    <2> QED BY <2>4 DEF result
  <1>1. ResolveServed(d, p, c, id, o, M!ResolveDecision(d, id, o))
    <2>1. CASE /\ \A i \in DOMAIN d.journal : d.journal[i].id # id
               /\ M!ResolveDecision(d, id, o) = [db |-> d, reply |-> <<"unknown", 0>>]
      BY <1>d, <1>n, <2>1
    <2>2. ASSUME NEW i \in DOMAIN d.journal, d.journal[i].id = id, d.journal[i].outcome # "pending",
                 M!ResolveDecision(d, id, o) = [db |-> d, reply |-> <<d.journal[i].outcome, 0>>]
          PROVE  ResolveServed(d, p, c, id, o, M!ResolveDecision(d, id, o))
      <3> DEFINE q == d.journal
                 w == d.journal[i].outcome
      <3>1. q[i] = [d.journal[i] EXCEPT !.outcome = w] /\ DOMAIN q = DOMAIN d.journal
            /\ \A j \in DOMAIN d.journal \ {i} : q[j] = d.journal[j]
        BY <1>0, <1>e
      <3>2. M!ResolveDecision(d, id, o) = [db |-> [d EXCEPT !.journal = q], reply |-> <<w, 0>>]
        BY <1>d, <2>2
      <3>3. w = IF d.journal[i].outcome = "pending" THEN o ELSE d.journal[i].outcome
        BY <2>2
      <3> HIDE DEF q, w
      <3> QED BY <2>2, <3>1, <3>2, <3>3, ResolveAt
    <2>3. ASSUME NEW i \in DOMAIN d.journal, d.journal[i].id = id, d.journal[i].outcome = "pending",
                 M!ResolveDecision(d, id, o) =
                    [db |-> [d EXCEPT !.journal =
                       [d.journal EXCEPT ![i] = [d.journal[i] EXCEPT !.outcome = o]]],
                     reply |-> <<o, 0>>]
          PROVE  ResolveServed(d, p, c, id, o, M!ResolveDecision(d, id, o))
      <3> DEFINE y == [d.journal[i] EXCEPT !.outcome = o]
                 q == [d.journal EXCEPT ![i] = y]
      <3>1. q[i] = y /\ DOMAIN q = DOMAIN d.journal
            /\ \A j \in DOMAIN d.journal \ {i} : q[j] = d.journal[j]
        BY <1>0
      <3>2. q[i] = [d.journal[i] EXCEPT !.outcome = o]
        BY <3>1
      <3>3. M!ResolveDecision(d, id, o) = [db |-> [d EXCEPT !.journal = q], reply |-> <<o, 0>>]
        BY <2>3
      <3>4. o = IF d.journal[i].outcome = "pending" THEN o ELSE d.journal[i].outcome
        BY <2>3
      <3> HIDE DEF q
      <3> QED BY <2>3, <3>1, <3>2, <3>3, <3>4, ResolveAt
    <2> QED BY <2>1, <2>2, <2>3, MemoryResolve
  <1>2. ResolveServed(d, p, c, id, o, Q!ResolveDecision(d, id, o))
    <2> DEFINE q == Updated(d, id, o)
    <2>0. DOMAIN q = DOMAIN d.journal /\ q \in Seq(Decision)
          /\ \A j \in DOMAIN d.journal : q[j] = IF d.journal[j].id = id /\ d.journal[j].outcome = "pending"
                                                THEN [d.journal[j] EXCEPT !.outcome = o]
                                                ELSE d.journal[j]
      BY SqliteResolve DEF Updated
    <2>1. PICK w : /\ Q!ResolveDecision(d, id, o) = [db |-> [d EXCEPT !.journal = q], reply |-> <<w, 0>>]
                   /\ \/ w = "unknown" /\ \A i \in DOMAIN d.journal : d.journal[i].id # id
                      \/ \E i \in DOMAIN d.journal : d.journal[i].id = id /\ w = q[i].outcome
      BY SqliteResolve
    <2> HIDE DEF q
    <2>2. CASE w = "unknown" /\ \A i \in DOMAIN d.journal : d.journal[i].id # id
      <3>1. \A j \in DOMAIN d.journal : q[j] = d.journal[j]
        BY <2>0, <2>2
      <3>2. q = d.journal
        BY <1>0, <2>0, <3>1
      <3> QED BY <1>n, <2>1, <2>2, <3>2
    <2>3. ASSUME NEW i \in DOMAIN d.journal, d.journal[i].id = id, w = q[i].outcome
          PROVE  ResolveServed(d, p, c, id, o, Q!ResolveDecision(d, id, o))
      <3>1. \A j \in DOMAIN d.journal \ {i} : q[j] = d.journal[j]
        BY <1>u, <2>0, <2>3
      <3>2. CASE d.journal[i].outcome = "pending"
        <4> DEFINE x == d.journal[i]
        <4>1. q[i] = [x EXCEPT !.outcome = o] /\ x \in Decision
          BY <1>0, <2>0, <2>3, <3>2
        <4> HIDE DEF x
        <4>2. w = o
          BY <2>3, <4>1, OutcomeSet
        <4>3. q[i] = [d.journal[i] EXCEPT !.outcome = w]
          BY <4>1, <4>2 DEF x
        <4> QED BY <2>0, <2>1, <2>3, <3>1, <3>2, <4>2, <4>3, ResolveAt
      <3>3. CASE d.journal[i].outcome # "pending"
        <4>1. q[i] = d.journal[i]
          BY <2>0, <3>3
        <4>2. w = d.journal[i].outcome
          BY <2>3, <4>1
        <4>3. q[i] = [d.journal[i] EXCEPT !.outcome = w]
          BY <1>0, <1>e, <4>1, <4>2
        <4> QED BY <2>0, <2>1, <2>3, <3>1, <3>3, <4>2, <4>3, ResolveAt
      <3> QED BY <3>2, <3>3
    <2> QED BY <2>1, <2>2, <2>3
  <1> QED BY <1>1, <1>2

(* A trimmed journal holds the rows that are not too old. *)
TrimServed(d, p, c, t, result) ==
    \E q : /\ result = [db |-> [d EXCEPT !.journal = q], reply |-> <<"ok", 0>>]
           /\ Coherent([d EXCEPT !.journal = q], p, c)
           /\ Rows(q) = {x \in Rows(d.journal) : x.decided >= t}

(* trim_journal() keeps the decisions from the cutoff on. *)
LEMMA TrimFacts ==
    ASSUME NEW d \in Database, NEW p, NEW c, NEW t \in Times, Coherent(d, p, c)
    PROVE  /\ TrimServed(d, p, c, t, M!TrimJournal(d, t))
           /\ TrimServed(d, p, c, t, Q!TrimJournal(d, t))
  <1>0. d.journal \in Seq(Decision) /\ \A i \in DOMAIN d.journal : d.journal[i].decided \in Nat
    <2>1. \A x \in Decision : x.decided \in Nat
      BY TablesAssumption DEF Decision
    <2>2. d.journal \in Seq(Decision)
      BY DatabaseFacts
    <2> QED BY <2>1, <2>2
  <1> DEFINE K == {i \in DOMAIN d.journal : d.journal[i].decided >= t}
             q == Retained(d.journal, K)
             e == [d EXCEPT !.journal = q]
  <1>1. {i \in DOMAIN d.journal : ~(d.journal[i].decided < t)} = K
    BY <1>0, TablesAssumption
  <1>2. /\ M!TrimJournal(d, t) = [db |-> e, reply |-> <<"ok", 0>>]
        /\ Q!TrimJournal(d, t) = [db |-> e, reply |-> <<"ok", 0>>]
    <2>1. M!TrimJournal(d, t) = [db |-> [d EXCEPT !.journal = M!Retained(d.journal, K)], reply |-> <<"ok", 0>>]
      BY DEF M!TrimJournal, M!Done, M!Word
    <2>2. Q!TrimJournal(d, t) = [db |-> [d EXCEPT !.journal = Q!Retained(d.journal,
              {i \in DOMAIN d.journal : ~(d.journal[i].decided < t)})], reply |-> <<"ok", 0>>]
      BY DEF Q!TrimJournal, Q!Done, Q!Word
    <2> HIDE DEF K
    <2> QED BY <1>1, <2>1, <2>2, SharedHelpers
  <1>3. K \in SUBSET (DOMAIN d.journal)
    OBVIOUS
  <1>4. /\ q \in Seq(Decision) /\ Rows(q) = {d.journal[i] : i \in K}
        /\ \A i, j \in DOMAIN q :
              i < j => \E k, l \in K : k < l /\ q[i] = d.journal[k] /\ q[j] = d.journal[l]
    <2> HIDE DEF K
    <2> QED BY <1>0, <1>3, RetainedFacts
  <1>5. Rows(q) = {x \in Rows(d.journal) : x.decided >= t}
    <2> HIDE DEF q
    <2> QED BY <1>4 DEF Rows
  <1>6. e.seen = d.seen /\ e.claimed = d.claimed /\ e.counter = d.counter
        /\ e.influence = d.influence /\ e.journal = q
    BY DEF Database
  <1> HIDE DEF q, e
  <1>7. \A i \in DOMAIN q : \E k \in DOMAIN d.journal : q[i].id = d.journal[k].id
    BY <1>4 DEF Rows
  <1>8. \A i, j \in DOMAIN q : q[i].id = q[j].id => i = j
    <2>1. \A k, l \in DOMAIN d.journal : d.journal[k].id = d.journal[l].id => k = l
      BY DEF Coherent, Ids
    <2>2. \A k \in DOMAIN d.journal : k \in Nat
      BY <1>0
    <2>3. \A i, j \in DOMAIN q : ~(i < j /\ q[i].id = q[j].id)
      <3> SUFFICES ASSUME NEW i \in DOMAIN q, NEW j \in DOMAIN q, i < j, q[i].id = q[j].id
                   PROVE  FALSE
        OBVIOUS
      <3>1. PICK k \in K, l \in K : k < l /\ q[i] = d.journal[k] /\ q[j] = d.journal[l]
        BY <1>4
      <3>2. k = l /\ k \in Nat
        BY <2>1, <2>2, <3>1
      <3> QED BY <3>1, <3>2
    <2>4. \A i, j \in DOMAIN q : i < j \/ j < i \/ i = j
      BY <1>4
    <2> QED BY <2>3, <2>4
  <1>9. Coherent(e, p, c)
    BY <1>6, <1>7, <1>8, JournalSame
  <1>10. TrimServed(d, p, c, t, [db |-> e, reply |-> <<"ok", 0>>])
    BY <1>5, <1>9 DEF TrimServed, e
  <1> QED BY <1>2, <1>10

-----------------------------------------------------------------------------
(* Counting influence. *)

At(q, x, t) == {i \in DOMAIN q : q[i] = [peer |-> x, at |-> t]}

(* Two sets in one-to-one correspondence have the same size. *)
LEMMA Counting ==
    ASSUME NEW S, NEW T, IsFiniteSet(T), NEW f \in [S -> T],
           \A x, y \in S : f[x] = f[y] => x = y,
           \A z \in T : \E x \in S : f[x] = z
    PROVE  IsFiniteSet(S) /\ Cardinality(S) = Cardinality(T)
  <1>1. f \in Injection(S, T) /\ f \in Surjection(S, T)
    BY DEF Injection, IsInjective, Surjection
  <1> QED BY <1>1, FS_Injection

(* The positions of a sequence are finitely many. *)
LEMMA AtFinite ==
    ASSUME NEW S, NEW q \in Seq(S), NEW K \in SUBSET (DOMAIN q)
    PROVE  IsFiniteSet(K) /\ Cardinality(K) \in Nat /\ Cardinality(K) <= Len(q)
  <1> DEFINE n == Len(q)
  <1>1. n \in Nat /\ DOMAIN q = 1..n
    OBVIOUS
  <1> HIDE DEF n
  <1>2. IsFiniteSet(1..n) /\ Cardinality(1..n) = n
    BY <1>1, FS_Interval
  <1> QED BY <1>1, <1>2, FS_Subset, FS_CardinalityType DEF n

(* One charge more. *)
LEMMA ChargesGrow ==
    ASSUME NEW q \in Seq(Charge), NEW x \in Peers, NEW now \in Times
    PROVE  ChargesOf(Append(q, [peer |-> x, at |-> now])) = [ChargesOf(q) EXCEPT ![x][now] = @ + 1]
  <1> DEFINE e == [peer |-> x, at |-> now]
             r == Append(q, e)
             l == Len(q) + 1
  <1>1. e \in Charge
    BY DEF Charge
  <1>2. /\ DOMAIN r = DOMAIN q \cup {l} /\ l \notin DOMAIN q
        /\ \A i \in DOMAIN q : r[i] = q[i]
        /\ r[l] = e
    BY <1>1, AppendRows
  <1> HIDE DEF r, l
  <1>3. ASSUME NEW y \in Peers, NEW t \in Times
        PROVE  Cardinality(At(r, y, t)) = IF y = x /\ t = now THEN Cardinality(At(q, y, t)) + 1
                                                              ELSE Cardinality(At(q, y, t))
    <2>1. IsFiniteSet(At(q, y, t)) /\ l \notin At(q, y, t)
      BY <1>2, AtFinite DEF At
    <2>2. CASE y = x /\ t = now
      <3>1. At(r, y, t) = At(q, y, t) \cup {l}
        BY <1>2, <2>2 DEF At
      <3> QED BY <2>1, <2>2, <3>1, FS_AddElement, ZenonT(40)
    <2>3. CASE ~(y = x /\ t = now)
      <3>1. e # [peer |-> y, at |-> t]
        BY <2>3
      <3>2. At(r, y, t) = At(q, y, t)
        <4> HIDE DEF e
        <4> QED BY <1>2, <3>1 DEF At
      <3> QED BY <2>3, <3>2
    <2> QED BY <2>2, <2>3
  <1>4. /\ ChargesOf(r) = [y \in Peers |-> [t \in Times |-> Cardinality(At(r, y, t))]]
        /\ ChargesOf(q) = [y \in Peers |-> [t \in Times |-> Cardinality(At(q, y, t))]]
    BY Zenon DEF ChargesOf, At
  <1>5. ChargesOf(r) = [ChargesOf(q) EXCEPT ![x][now] = @ + 1]
    <2> DEFINE a == ChargesOf(q)
               c == ChargesOf(r)
               b == [a[x] EXCEPT ![now] = a[x][now] + 1]
    <2>1. /\ a = [y \in Peers |-> a[y]] /\ c = [y \in Peers |-> c[y]]
          /\ \A y \in Peers : a[y] = [t \in Times |-> a[y][t]] /\ c[y] = [t \in Times |-> c[y][t]]
      BY <1>4
    <2>2. \A y \in Peers, t \in Times : c[y][t] = IF y = x /\ t = now THEN a[y][t] + 1 ELSE a[y][t]
      BY <1>3, <1>4
    <2>3. [a EXCEPT ![x][now] = @ + 1] = [a EXCEPT ![x] = b]
      OBVIOUS
    <2> HIDE DEF a, c
    <2>4. c[x] = b
      BY <2>1, <2>2
    <2>5. \A y \in Peers \ {x} : c[y] = a[y]
      BY <2>1, <2>2
    <2> HIDE DEF b
    <2>6. c = [a EXCEPT ![x] = b]
      BY <2>1, <2>4, <2>5
    <2> QED BY <2>3, <2>6 DEF a, c
  <1> QED BY <1>5 DEF r

(* The old charges gone. *)
LEMMA ChargesPurged ==
    ASSUME NEW q \in Seq(Charge), NEW cutoff \in Times
    PROVE  ChargesOf(Retained(q, {i \in DOMAIN q : q[i].at >= cutoff})) =
             [x \in Peers |-> [t \in Times |-> IF t < cutoff THEN 0 ELSE ChargesOf(q)[x][t]]]
  <1> DEFINE K == {i \in DOMAIN q : q[i].at >= cutoff}
             r == Retained(q, K)
  <1>0. K \in SUBSET (DOMAIN q)
    OBVIOUS
  <1>1. \A i : i \in K <=> i \in DOMAIN q /\ q[i].at >= cutoff
    OBVIOUS
  <1> HIDE DEF K
  <1>2. PICK f \in [DOMAIN r -> K] :
              /\ \A i, j \in DOMAIN r : f[i] = f[j] => i = j
              /\ \A k \in K : \E i \in DOMAIN r : f[i] = k
              /\ \A i \in DOMAIN r : r[i] = q[f[i]]
    BY <1>0, RetainedFrom
  <1> HIDE DEF r
  <1>3. ASSUME NEW x \in Peers, NEW t \in Times
        PROVE  Cardinality(At(r, x, t)) = IF t < cutoff THEN 0 ELSE Cardinality(At(q, x, t))
    <2> DEFINE e == [peer |-> x, at |-> t]
    <2>1. e.at = t /\ t \in Nat /\ cutoff \in Nat
      BY TablesAssumption
    <2>2. /\ At(r, x, t) = {i \in DOMAIN r : r[i] = e}
          /\ At(q, x, t) = {i \in DOMAIN q : q[i] = e}
      BY DEF At
    <2> HIDE DEF e
    <2>3. CASE t < cutoff
      <3>1. \A i \in DOMAIN r : r[i] # e
        BY <1>1, <1>2, <2>1, <2>3
      <3>2. At(r, x, t) = {}
        BY <2>2, <3>1
      <3> QED BY <2>3, <3>2, FS_EmptySet
    <2>4. CASE ~(t < cutoff)
      <3>1. \A i \in DOMAIN q : q[i] = e => i \in K
        BY <1>1, <2>1, <2>4
      <3> DEFINE S == At(r, x, t)
                 T == At(q, x, t)
                 g == [i \in S |-> f[i]]
      <3>2. g \in [S -> T]
        BY <1>0, <1>2, <2>2
      <3>3. \A i, j \in S : g[i] = g[j] => i = j
        BY <1>2, <2>2
      <3>4. \A k \in T : \E i \in S : g[i] = k
        BY <1>2, <2>2, <3>1
      <3>5. IsFiniteSet(T)
        BY AtFinite DEF At
      <3> HIDE DEF S, T, g
      <3>6. Cardinality(S) = Cardinality(T)
        BY <3>2, <3>3, <3>4, <3>5, Counting
      <3> QED BY <2>4, <3>6 DEF S, T
    <2> QED BY <2>3, <2>4
  <1>4. /\ ChargesOf(r) = [y \in Peers |-> [t \in Times |-> Cardinality(At(r, y, t))]]
        /\ ChargesOf(q) = [y \in Peers |-> [t \in Times |-> Cardinality(At(q, y, t))]]
    BY Zenon DEF ChargesOf, At
  <1>5. ChargesOf(r) = [x \in Peers |-> [t \in Times |-> IF t < cutoff THEN 0 ELSE ChargesOf(q)[x][t]]]
    BY <1>3, <1>4
  <1> QED BY <1>5 DEF r, K

(* What the trait adds up is what the backends count. *)
LEMMA TotalCounts ==
    ASSUME NEW q \in Seq(Charge), Len(q) <= MaxCharges, NEW x \in Peers, NEW start \in Nat
    PROVE  Trait!Total(ChargesOf(q), x, start) =
             Cardinality({i \in DOMAIN q : q[i].peer = x /\ q[i].at >= start})
  <1> DEFINE N(t) == Cardinality(At(q, x, t))
             U == {u \in Times \X (1..MaxCharges) : u[1] >= start /\ u[2] <= N(u[1])}
             I == {i \in DOMAIN q : q[i].peer = x /\ q[i].at >= start}
             b == [t \in Times |-> CHOOSE f \in Bijection(1..N(t), At(q, x, t)) : TRUE]
             h == [u \in U |-> b[u[1]][u[2]]]
  <1>0. \A i \in DOMAIN q : q[i] \in Charge /\ q[i].at \in Times /\ q[i] = [peer |-> q[i].peer, at |-> q[i].at]
    <2>1. \A e \in Charge : e.at \in Times /\ e = [peer |-> e.peer, at |-> e.at]
      BY DEF Charge
    <2>2. \A i \in DOMAIN q : q[i] \in Charge
      OBVIOUS
    <2> QED BY <2>1, <2>2
  <1>1. \A t \in Times : IsFiniteSet(At(q, x, t)) /\ N(t) \in Nat /\ N(t) <= Len(q)
    BY AtFinite DEF At
  <1>2. ASSUME NEW t \in Times
        PROVE  /\ b[t] \in [1..N(t) -> At(q, x, t)]
               /\ \A m, n \in 1..N(t) : b[t][m] = b[t][n] => m = n
               /\ \A i \in At(q, x, t) : \E n \in 1..N(t) : b[t][n] = i
    <2>1. Bijection(1..N(t), At(q, x, t)) # {}
      BY <1>1, FS_CardinalityType DEF ExistsBijection
    <2>2. b[t] \in Bijection(1..N(t), At(q, x, t))
      BY <2>1
    <2> HIDE DEF b, N
    <2> QED BY <2>2 DEF Bijection, Injection, IsInjective, Surjection
  <1> HIDE DEF b
  <1>3. \A t \in Times : \A i \in At(q, x, t) : i \in DOMAIN q /\ q[i].peer = x /\ q[i].at = t
    BY DEF At
  <1>4. ASSUME NEW u \in U
        PROVE  /\ u[1] \in Times /\ u[2] \in 1..N(u[1]) /\ u = <<u[1], u[2]>>
               /\ h[u] = b[u[1]][u[2]] /\ h[u] \in At(q, x, u[1]) /\ h[u] \in I
               /\ q[h[u]].at = u[1]
    <2>1. u[1] \in Times /\ u[2] \in 1..N(u[1]) /\ u = <<u[1], u[2]>> /\ u[1] >= start
      BY <1>1, TablesAssumption
    <2>2. h[u] = b[u[1]][u[2]]
      OBVIOUS
    <2>3. h[u] \in At(q, x, u[1])
      <3> HIDE DEF h, U, I, N
      <3>1. b[u[1]][u[2]] \in At(q, x, u[1])
        BY <1>2, <2>1
      <3> QED BY <2>2, <3>1
    <2> QED BY <1>3, <2>1, <2>2, <2>3
  <1>5. h \in [U -> I]
    BY <1>4
  <1>6. ASSUME NEW u \in U, NEW v \in U, h[u] = h[v] PROVE u = v
    <2>0. q[h[u]].at = u[1] /\ q[h[v]].at = v[1]
      BY <1>4
    <2> HIDE DEF h
    <2>1. u[1] = v[1]
      BY <1>6, <2>0
    <2>2. u[2] = v[2]
      BY <1>2, <1>4, <1>6, <2>1
    <2> QED BY <1>4, <2>1, <2>2
  <1>7. ASSUME NEW i \in I PROVE \E u \in U : h[u] = i
    <2> DEFINE t == q[i].at
    <2>1. t \in Times /\ i \in At(q, x, t) /\ t >= start
      BY <1>0 DEF At
    <2>2. PICK n \in 1..N(t) : b[t][n] = i
      BY <1>2, <2>1
    <2>3. n \in 1..MaxCharges /\ n <= N(t)
      BY <1>1, <2>1, TablesAssumption
    <2> DEFINE u == <<t, n>>
    <2>4. u \in U
      BY <2>1, <2>3
    <2>5. h[u] = i
      BY <2>2, <2>4
    <2> QED BY <2>4, <2>5
  <1>8. IsFiniteSet(I)
    BY AtFinite
  <1>9. Cardinality(U) = Cardinality(I)
    <2> HIDE DEF U, I, h
    <2> QED BY <1>5, <1>6, <1>7, <1>8, Counting
  <1>10. Trait!Total(ChargesOf(q), x, start) = Cardinality(U)
    <2>1. \A S : Trait!Cardinality(S) = Cardinality(S)
      BY Zenon DEF Trait!Cardinality, Cardinality
    <2>2. \A t \in Times : ChargesOf(q)[x][t] = N(t)
      BY DEF ChargesOf, At
    <2> DEFINE V == {u \in Times \X (1..MaxCharges) : u[1] >= start /\ u[2] <= ChargesOf(q)[x][u[1]]}
    <2>3. V = U
      <3> HIDE DEF N
      <3> QED BY <2>2
    <2>4. Trait!Total(ChargesOf(q), x, start) = Trait!Cardinality(V)
      BY DEF Trait!Total
    <2> HIDE DEF U, V
    <2> QED BY <2>1, <2>3, <2>4
  <1> HIDE DEF U
  <1> QED BY <1>9, <1>10

(* A charge recorded and charges purged, by either backend. *)
LEMMA InfluenceCoherent ==
    ASSUME NEW d \in Database, NEW p, NEW c, NEW q, Coherent(d, p, c), Len(q) <= MaxCharges
    PROVE  Coherent([d EXCEPT !.influence = q], p, c)
  <1> DEFINE e == [d EXCEPT !.influence = q]
  <1>1. e.seen = d.seen /\ e.claimed = d.claimed /\ e.counter = d.counter
        /\ e.influence = q /\ e.journal = d.journal
    BY DEF Database
  <1> HIDE DEF e
  <1>2. Coherent(e, p, c)
    BY <1>1 DEF Coherent, Claims, Ids, UnderWay
  <1> QED BY <1>2 DEF e

RecordServed(d, p, c, x, now, start, result) ==
    \E q : /\ result = [db |-> [d EXCEPT !.influence = q],
                        reply |-> <<"total", Trait!Total(ChargesOf(q), x, start)>>]
           /\ ChargesOf(q) = [ChargesOf(d.influence) EXCEPT ![x][now] = @ + 1]
           /\ Coherent([d EXCEPT !.influence = q], p, c)

(* record_influence() adds one charge. *)
LEMMA RecordFacts ==
    ASSUME NEW d \in Database, NEW p, NEW c, NEW x \in Peers, NEW now \in Times, NEW start \in Nat,
           Coherent(d, p, c), Len(d.influence) < MaxCharges
    PROVE  /\ RecordServed(d, p, c, x, now, start, M!RecordInfluence(d, x, now, start))
           /\ RecordServed(d, p, c, x, now, start, Q!RecordInfluence(d, x, now, start))
  <1> DEFINE q == Append(d.influence, [peer |-> x, at |-> now])
             e == [d EXCEPT !.influence = q]
             C == {i \in DOMAIN e.influence : e.influence[i].peer = x /\ e.influence[i].at >= start}
  <1>0. d.influence \in Seq(Charge) /\ [peer |-> x, at |-> now] \in Charge
    BY DatabaseFacts DEF Charge
  <1>1. q \in Seq(Charge) /\ Len(q) = Len(d.influence) + 1
    BY <1>0
  <1>2. Len(q) <= MaxCharges
    <2>1. Len(d.influence) \in Nat
      BY <1>0
    <2> QED BY <1>1, <2>1, TablesAssumption
  <1>3. ChargesOf(q) = [ChargesOf(d.influence) EXCEPT ![x][now] = @ + 1]
    BY <1>0, ChargesGrow
  <1>4. M!RecordInfluence(d, x, now, start) = [db |-> e, reply |-> <<"total", M!Cardinality(C)>>]
    BY DEF M!RecordInfluence, M!Accumulated, M!Counted
  <1>5. Q!RecordInfluence(d, x, now, start) = [db |-> e, reply |-> <<"total", Q!Cardinality(C)>>]
    BY DEF Q!RecordInfluence, Q!InfluenceSince, Q!Counted
  <1> HIDE DEF q
  <1>6. e.influence = q
    BY DEF Database
  <1>7. Cardinality(C) = Trait!Total(ChargesOf(q), x, start)
    BY <1>1, <1>2, <1>6, TotalCounts
  <1>8. Coherent(e, p, c)
    BY <1>2, InfluenceCoherent
  <1> DEFINE result == [db |-> e, reply |-> <<"total", Trait!Total(ChargesOf(q), x, start)>>]
  <1>9. M!RecordInfluence(d, x, now, start) = result /\ Q!RecordInfluence(d, x, now, start) = result
    <2> HIDE DEF C, e
    <2> QED BY <1>4, <1>5, <1>7, SharedHelpers
  <1>10. RecordServed(d, p, c, x, now, start, result)
    BY <1>3, <1>8 DEF RecordServed
  <1> HIDE DEF result
  <1> QED BY <1>9, <1>10

PurgeServed(d, p, c, cutoff, result) ==
    \E q : /\ result = [db |-> [d EXCEPT !.influence = q], reply |-> <<"ok", 0>>]
           /\ ChargesOf(q) = [x \in Peers |-> [t \in Times |->
                                 IF t < cutoff THEN 0 ELSE ChargesOf(d.influence)[x][t]]]
           /\ Coherent([d EXCEPT !.influence = q], p, c)

(* purge_influence() keeps the charges from the cutoff on. *)
LEMMA PurgeInfluenceFacts ==
    ASSUME NEW d \in Database, NEW p, NEW c, NEW cutoff \in Times, Coherent(d, p, c)
    PROVE  /\ PurgeServed(d, p, c, cutoff, M!PurgeInfluence(d, cutoff))
           /\ PurgeServed(d, p, c, cutoff, Q!PurgeInfluence(d, cutoff))
  <1>0. d.influence \in Seq(Charge) /\ \A i \in DOMAIN d.influence : d.influence[i].at \in Nat
    <2>1. \A x \in Charge : x.at \in Nat
      BY TablesAssumption DEF Charge
    <2>2. d.influence \in Seq(Charge)
      BY DatabaseFacts
    <2> QED BY <2>1, <2>2
  <1> DEFINE K == {i \in DOMAIN d.influence : d.influence[i].at >= cutoff}
             L == {i \in DOMAIN d.influence : ~(d.influence[i].at < cutoff)}
             q == Retained(d.influence, K)
             result == [db |-> [d EXCEPT !.influence = q], reply |-> <<"ok", 0>>]
  <1>1. L = K
    BY <1>0, TablesAssumption
  <1>2. M!PurgeInfluence(d, cutoff) = result /\ Q!PurgeInfluence(d, cutoff) = result
    <2>1. M!PurgeInfluence(d, cutoff) =
             [db |-> [d EXCEPT !.influence = M!Retained(d.influence, K)], reply |-> <<"ok", 0>>]
      BY DEF M!PurgeInfluence, M!Done, M!Word
    <2>2. Q!PurgeInfluence(d, cutoff) =
             [db |-> [d EXCEPT !.influence = Q!Retained(d.influence, L)], reply |-> <<"ok", 0>>]
      BY DEF Q!PurgeInfluence, Q!Done, Q!Word
    <2> HIDE DEF K, L
    <2> QED BY <1>1, <2>1, <2>2, SharedHelpers
  <1>3. ChargesOf(q) = [x \in Peers |-> [t \in Times |->
                           IF t < cutoff THEN 0 ELSE ChargesOf(d.influence)[x][t]]]
    BY <1>0, ChargesPurged
  <1>4. Len(q) <= Len(d.influence) /\ q \in Seq(Charge)
    <2>1. K \in SUBSET (DOMAIN d.influence)
      OBVIOUS
    <2> HIDE DEF K
    <2> QED BY <1>0, <2>1, RetainedFrom
  <1> HIDE DEF K, L, q
  <1>5. Len(q) <= MaxCharges
    <2>1. Len(q) \in Nat /\ Len(d.influence) \in Nat /\ Len(d.influence) <= MaxCharges
      BY <1>0, <1>4 DEF Coherent
    <2> QED BY <1>4, <2>1, TablesAssumption
  <1>6. Coherent([d EXCEPT !.influence = q], p, c)
    BY <1>5, InfluenceCoherent
  <1>7. PurgeServed(d, p, c, cutoff, result)
    BY <1>3, <1>6 DEF PurgeServed
  <1> HIDE DEF result
  <1> QED BY <1>2, <1>7

-----------------------------------------------------------------------------
(* Every step is one the trait allows. *)

Promised == Trait!Next \/ UNCHANGED Trait!vars

(* The trait's names for types, times and answers. *)
LEMMA TraitNames ==
    /\ Trait!Synapse = Synapse /\ Trait!Peer = Peer /\ Trait!Outcomes = Outcomes
    /\ Trait!Now = Now
    /\ \A w : Trait!Word(w) = <<w, 0>>
    /\ \A t : Trait!Expiry(t) = t + Ttl
  BY DEF Trait!Synapse, Synapse, Trait!Peer, Peer, Trait!Outcomes, Outcomes, Trait!Now, Now,
         Trait!Word, Trait!Expiry

(* The parts of the view the trait has of a database. *)
LEMMA KeptParts ==
    ASSUME NEW d, NEW p
    PROVE  /\ Kept(d, p).synapses = d.synapses /\ Kept(d, p).peers = d.peers
           /\ Kept(d, p).history = d.history /\ Kept(d, p).claim = d.claimed
           /\ Kept(d, p).decisions = Rows(d.journal) /\ Kept(d, p).spent = Spent(d.counter, p)
           /\ Kept(d, p).charges = ChargesOf(d.influence)
  BY KeptView

(* A call leaves what it returns, on stable storage too or not yet. *)
LEMMA ServeLeaves ==
    ASSUME TypeOK, InStep, NEW tables, NEW result, Serve(tables, result)
    PROVE  Trait!Leaves(Kept(result.db, pushing), result.reply)
  <1>0. OnDisk => pushing = {}
    BY StoresAssumption DEF TypeOK, InStep, InMemory, OnDisk
  <1>1. db' = result.db /\ pushing' = pushing /\ reply' = result.reply /\ clock' = clock
    BY DEF Serve
  <1>2. disk' = disk \/ (disk' = db' /\ pushing' = {})
    BY <1>0 DEF Serve, Committed
  <1>3. Kept(disk', {}) \in {Kept(disk, {}), Kept(db', pushing')}
    BY <1>2
  <1> QED BY <1>1, <1>3 DEF Trait!Leaves

(* Claims. *)
LEMMA ClaimPromised ==
    ASSUME TypeOK, InStep, Orderly, NEW s \in Signals, NEW now \in Now, CheckAndSetSeen(s, now)
    PROVE  Orderly' /\ Promised
  <1> DEFINE R == Claimed(IF InMemory THEN M!CheckAndSetSeen(db, s, now)
                                      ELSE Q!CheckAndSetSeen(db, s, now), s, now)
  <1>0. db \in Database /\ clock \in Nat /\ now \in Nat /\ now <= clock /\ Coherent(db, pushing, clock)
    BY TablesAssumption DEF TypeOK, Orderly, Now
  <1>1. ClaimServed(db, pushing, clock, s, now, R)
    BY <1>0, ClaimFacts
  <1>2. Serve("dedup", R)
    BY DEF CheckAndSetSeen
  <1> HIDE DEF R
  <1>3. Trait!Leaves(Kept(R.db, pushing), R.reply)
    BY <1>2, ServeLeaves
  <1>4. CASE db.claimed[s] > now /\ R = [db |-> db, reply |-> <<"seen", 0>>]
    <2>1. R.db = db /\ R.reply = <<"seen", 0>>
      BY <1>4
    <2>2. Orderly'
      BY <1>0, <1>2, <2>1, ServeOrderly
    <2>3. Trait!Claim(s, now)
      BY <1>3, <1>4, <2>1, KeptParts, TraitNames DEF Trait!Claim, Trait!Answer
    <2>4. Trait!Next
      BY <2>3, TraitNames DEF Trait!Next
    <2> QED BY <2>2, <2>4 DEF Promised
  <1>5. CASE /\ db.claimed[s] <= clock
             /\ R = [db |-> Renewed(db, s, now), reply |-> <<"unseen", 0>>]
             /\ Coherent(Renewed(db, s, now), pushing, clock)
    <2> DEFINE after == Kept(Renewed(db, s, now), pushing)
    <2>1. R.db = Renewed(db, s, now) /\ R.reply = <<"unseen", 0>>
      BY <1>5
    <2>2. Orderly'
      BY <1>2, <1>5, <2>1, ServeOrderly
    <2>3. after = [Kept(db, pushing) EXCEPT !.claim[s] = Trait!Expiry(now)]
      <3> DEFINE k == Kept(db, pushing)
                 y == [db.claimed EXCEPT ![s] = now + Ttl]
      <3>1. after = [k EXCEPT !.claim = y]
        <4> DEFINE e == Renewed(db, s, now)
        <4>1. /\ e.synapses = db.synapses /\ e.peers = db.peers /\ e.history = db.history
              /\ e.activation = db.activation /\ e.claimed = y /\ e.journal = db.journal
              /\ e.counter = db.counter /\ e.influence = db.influence
          BY <1>0 DEF Renewed, Database
        <4> HIDE DEF y, e
        <4>2. Kept(e, pushing) = [k EXCEPT !.claim = y]
          BY <4>1, KeptClaims
        <4> QED BY <4>2 DEF e
      <3>2. k.claim = db.claimed
        BY KeptParts
      <3> HIDE DEF k
      <3>3. [k EXCEPT !.claim[s] = now + Ttl] = [k EXCEPT !.claim = y]
        BY <3>2
      <3>4. [k EXCEPT !.claim[s] = Trait!Expiry(now)] = [k EXCEPT !.claim[s] = now + Ttl]
        BY TraitNames
      <3> QED BY <3>1, <3>3, <3>4 DEF k
    <2> HIDE DEF after
    <2>4. Trait!Leaves(after, <<"unseen", 0>>)
      BY <1>3, <2>1 DEF after
    <2>5. Kept(db, pushing).claim[s] <= clock
      BY <1>5, KeptParts
    <2>6. Trait!Claim(s, now)
      BY <2>3, <2>4, <2>5, TraitNames DEF Trait!Claim, Trait!Answer
    <2>7. Trait!Next
      BY <2>6, TraitNames DEF Trait!Next
    <2> QED BY <2>2, <2>7 DEF Promised
  <1> QED BY <1>1, <1>4, <1>5 DEF ClaimServed

(* A call that changes nothing the trait talks about. *)
LEMMA UpkeepPromised ==
    ASSUME NEW r, Trait!Leaves(Kept(db, pushing), r), r = <<"ok", 0>> \/ r = reply
    PROVE  Promised
  <1>1. Trait!Upkeep
    BY TraitNames DEF Trait!Upkeep, Trait!Answer
  <1> QED BY <1>1 DEF Trait!Next, Promised

(* Purging the dedup table is a step the trait allows. *)
LEMMA PurgePromised ==
    ASSUME TypeOK, InStep, Orderly, NEW now \in Now, PurgeExpiredSeen(now)
    PROVE  Orderly' /\ Promised
  <1> DEFINE R == IF InMemory THEN M!PurgeExpiredSeen(db, now) ELSE Q!PurgeExpiredSeen(db, now)
  <1>0. db \in Database /\ clock \in Nat /\ now \in Nat /\ now <= clock /\ Coherent(db, pushing, clock)
    BY TablesAssumption DEF TypeOK, Orderly, Now
  <1>1. PICK x : R = [db |-> [db EXCEPT !.seen = x], reply |-> <<"ok", 0>>]
                 /\ Coherent([db EXCEPT !.seen = x], pushing, clock)
    BY <1>0, PurgeFacts
  <1>2. Serve("dedup", R)
    BY DEF PurgeExpiredSeen
  <1> HIDE DEF R
  <1>3. R.db = [db EXCEPT !.seen = x] /\ R.reply = <<"ok", 0>>
    BY <1>1
  <1>4. Orderly'
    BY <1>1, <1>2, <1>3, ServeOrderly
  <1>5. Kept(R.db, pushing) = Kept(db, pushing)
    BY <1>0, <1>3, KeptSame
  <1>6. Promised
    BY <1>2, <1>3, <1>5, ServeLeaves, UpkeepPromised
  <1> QED BY <1>4, <1>6

(* What a decision appended leaves, and that it is what the trait allows. *)
LEMMA AppendPromised ==
    ASSUME NEW entry \in Decision, entry.outcome = "pending", entry.decided <= clock,
           entry.id \in (1..MaxIds) \ Spent(db.counter, pushing),
           NEW after, Trait!Leaves(after, <<"id", entry.id>>),
           after = Appended(Kept(db, pushing), Rows(db.journal) \cup {entry},
                            Spent(db.counter, pushing) \cup {entry.id})
    PROVE  Promised
  <1> DEFINE k == Kept(db, pushing)
             s == entry.signal
             p == entry.peer
             t == entry.decided
             id == entry.id
             x == [id |-> id, signal |-> s, peer |-> p, decided |-> t, outcome |-> "pending"]
  <1>1. s \in Signals /\ p \in Peers /\ t \in Times /\ entry = x
    BY DEF Decision
  <1>2. k.decisions = Rows(db.journal) /\ k.spent = Spent(db.counter, pushing)
    BY KeptParts
  <1> HIDE DEF k
  <1>3. [k EXCEPT !.decisions = k.decisions \cup {x}, !.spent = k.spent \cup {id}] = after
    BY <1>1, <1>2 DEF k, Appended
  <1>4. [k EXCEPT !.decisions = @ \cup {x}, !.spent = @ \cup {id}] = after
    <2>1. [k EXCEPT !.decisions = @ \cup {x}, !.spent = @ \cup {id}] =
             [k EXCEPT !.decisions = k.decisions \cup {x}, !.spent = k.spent \cup {id}]
      BY KeptView DEF k
    <2> QED BY <1>3, <2>1
  <1>5. Trait!AppendDecision(s, p, t)
    <2>1. id \in (1..MaxIds) \ k.spent
      BY <1>2
    <2> HIDE DEF id, s, p, t
    <2>2. Trait!Leaves(after, <<"id", id>>)
      BY DEF id
    <2> QED BY <1>4, <2>1, <2>2 DEF Trait!AppendDecision, k
  <1>6. t \in {u \in Times : u <= clock}
    BY <1>1
  <1> HIDE DEF s, p, t
  <1> QED BY <1>1, <1>5, <1>6 DEF Trait!Next, Promised

(* The second half of a memory append. *)
LEMMA PushPromised ==
    ASSUME TypeOK, InStep, Orderly, NEW entry \in pushing, Push(entry)
    PROVE  Orderly' /\ Promised
  <1>0. /\ db \in Database /\ pushing \in SUBSET Decision /\ entry \in Decision
        /\ Coherent(db, pushing, clock) /\ db.journal \in Seq(Decision) /\ db.counter \in Nat
    BY DatabaseFacts, TablesAssumption DEF TypeOK, Orderly
  <1>1. /\ \A i \in DOMAIN db.journal : db.journal[i].id # entry.id
        /\ entry.id <= db.counter /\ entry.outcome = "pending" /\ entry.decided <= clock
        /\ \A x \in pushing : x.id <= db.counter
        /\ \A x, y \in pushing : x.id = y.id => x = y
    BY <1>0 DEF Coherent, UnderWay
  <1> DEFINE q == Append(db.journal, entry)
             o == pushing \ {entry}
  <1>2. /\ db' = [db EXCEPT !.journal = q] /\ reply' = <<"id", entry.id>> /\ pushing' = o
        /\ disk' = disk /\ clock' = clock
    BY DEF Push, M!Push, M!Counted
  <1>3. /\ db'.synapses = db.synapses /\ db'.peers = db.peers /\ db'.history = db.history
        /\ db'.activation = db.activation /\ db'.claimed = db.claimed /\ db'.journal = q
        /\ db'.counter = db.counter /\ db'.influence = db.influence /\ db'.seen = db.seen
    BY <1>0, <1>2 DEF Database
  <1>4. Rows(q) = Rows(db.journal) \cup {entry}
    BY <1>0, AppendRows
  <1>5. /\ Spent(db.counter, o) = Spent(db.counter, pushing) \cup {entry.id}
        /\ entry.id \in (1..MaxIds) \ Spent(db.counter, pushing)
    BY <1>0, <1>1, SpentFacts
  <1>6. Orderly'
    <2>1. Coherent(db', o, clock)
      <3>1. o \in SUBSET pushing /\ \A x \in o : x.id # entry.id
        BY <1>1
      <3>2. db'.counter \in Nat /\ db.counter <= db'.counter /\ entry.id <= db'.counter
        BY <1>0, <1>1, <1>3
      <3> HIDE DEF o
      <3> QED BY <1>0, <1>1, <1>3, <3>1, <3>2, JournalGrows
    <2> QED BY <1>2, <2>1 DEF Orderly
  <1> HIDE DEF q, o
  <1>7. Kept(db', o) = Appended(Kept(db, pushing), Rows(db.journal) \cup {entry},
                                Spent(db.counter, pushing) \cup {entry.id})
    <2> DEFINE e == db'
    <2>1. Kept(e, o) = Appended(Kept(db, pushing), Rows(q), Spent(db.counter, o))
      BY <1>3, KeptAppend
    <2> QED BY <1>4, <1>5, <2>1
  <1>8. Trait!Leaves(Kept(db', o), <<"id", entry.id>>)
    BY <1>2 DEF Trait!Leaves
  <1>9. Promised
    BY <1>0, <1>1, <1>5, <1>7, <1>8, AppendPromised
  <1> QED BY <1>6, <1>9

(* The first half of a memory append is not visible. *)
LEMMA TakeIdPromised ==
    ASSUME TypeOK, InStep, Orderly, NEW s \in Signals, NEW p \in Peers, NEW now \in Now,
           TakeId(s, p, now)
    PROVE  Orderly' /\ Promised
  <1>0. /\ db \in Database /\ pushing \in SUBSET Decision /\ now \in Times /\ now <= clock
        /\ Coherent(db, pushing, clock) /\ db.journal \in Seq(Decision) /\ db.counter \in 0..MaxIds
        /\ db.counter \in Nat /\ clock \in Nat /\ MaxIds \in Nat
    BY DatabaseFacts, TablesAssumption DEF TypeOK, Orderly, Now
  <1> DEFINE n == db.counter + 1
             x == [id |-> n, signal |-> s, peer |-> p, decided |-> now, outcome |-> "pending"]
             o == pushing \cup {x}
  <1>1. /\ db' = [db EXCEPT !.counter = n] /\ disk' = disk /\ clock' = clock /\ reply' = reply
        /\ n \in 1..MaxIds /\ n \in Nat
    BY <1>0 DEF TakeId, M!TakeId
  <1>2. /\ db'.synapses = db.synapses /\ db'.peers = db.peers /\ db'.history = db.history
        /\ db'.activation = db.activation /\ db'.claimed = db.claimed /\ db'.journal = db.journal
        /\ db'.counter = n /\ db'.influence = db.influence /\ db'.seen = db.seen
    BY <1>0, <1>1 DEF Database
  <1>3. pushing' = o
    BY <1>2 DEF TakeId
  <1>4. x.id = n /\ x.outcome = "pending" /\ x.decided = now
    OBVIOUS
  <1>5. /\ \A y \in pushing : y.id <= db.counter /\ y.id \in Nat
        /\ \A y, z \in pushing : y.id = z.id => y = z
    BY <1>0 DEF Coherent, UnderWay, Decision
  <1> HIDE DEF x
  <1>6. Coherent(db', o, clock)
    <2>1. \A i \in DOMAIN db.journal : db.journal[i].id \in Nat /\ db.journal[i].id <= db.counter
      <3>1. \A y \in Decision : y.id \in Nat
        BY <1>0 DEF Decision
      <3> QED BY <1>0, <3>1 DEF Coherent, Ids
    <2>2. \A i \in DOMAIN db.journal : db.journal[i].id <= n /\ db.journal[i].id # n
      BY <1>0, <2>1
    <2>3. \A y \in pushing : y.id <= n /\ y.id # n
      BY <1>0, <1>5
    <2> HIDE DEF n
    <2>4. Ids(db')
      BY <1>0, <1>2, <2>2 DEF Coherent, Ids
    <2>5. UnderWay(db', o, clock)
      <3>1. \A e \in o : /\ e.id <= n /\ e.outcome = "pending" /\ e.decided <= clock
                         /\ \A i \in DOMAIN db.journal : db.journal[i].id # e.id
        BY <1>0, <1>1, <1>4, <2>2, <2>3 DEF Coherent, UnderWay
      <3>2. \A e, f \in o : e.id = f.id => e = f
        BY <1>4, <1>5, <2>3
      <3> HIDE DEF o
      <3> QED BY <1>2, <3>1, <3>2 DEF UnderWay
    <2> QED BY <1>0, <1>2, <2>4, <2>5 DEF Coherent, Claims
  <1>7. Orderly'
    BY <1>1, <1>3, <1>6 DEF Orderly
  <1>8. Spent(n, o) = Spent(db.counter, pushing)
    BY <1>0, <1>4, <1>5, SpentFacts
  <1> HIDE DEF o, n
  <1>9. Kept(db', o) = Kept(db, pushing)
    BY <1>2, <1>8, KeptView
  <1>10. UNCHANGED Trait!vars
    BY <1>1, <1>3, <1>9 DEF Trait!vars
  <1> QED BY <1>7, <1>10 DEF Promised

(* An SQLite append. *)
LEMMA SqliteAppendPromised ==
    ASSUME TypeOK, InStep, Orderly, NEW s \in Signals, NEW p \in Peers, NEW now \in Now,
           AppendDecision(s, p, now)
    PROVE  Orderly' /\ Promised
  <1>0. /\ db \in Database /\ pushing \in SUBSET Decision /\ now \in Times /\ now <= clock
        /\ Coherent(db, pushing, clock) /\ db.journal \in Seq(Decision) /\ db.counter \in 0..MaxIds
        /\ db.counter \in Nat /\ clock \in Nat /\ MaxIds \in Nat
    BY DatabaseFacts, TablesAssumption DEF TypeOK, Orderly, Now
  <1> DEFINE n == db.counter + 1
             x == [id |-> n, signal |-> s, peer |-> p, decided |-> now, outcome |-> "pending"]
             q == Append(db.journal, x)
             e == [db EXCEPT !.journal = q, !.counter = n]
             R == Q!AppendDecision(db, s, p, now)
  <1>1. R = [db |-> e, reply |-> <<"id", n>>]
    BY DEF Q!AppendDecision, Q!NextId, Q!Counted
  <1>2. Serve("journal", R) /\ n \in 1..MaxIds /\ n \in Nat /\ db.counter <= n
    BY <1>0 DEF AppendDecision
  <1>3. x \in Decision /\ x.id = n /\ x.outcome = "pending" /\ x.decided = now
    BY <1>0, <1>2 DEF Decision
  <1> HIDE DEF R, x
  <1>4. /\ e.synapses = db.synapses /\ e.peers = db.peers /\ e.history = db.history
        /\ e.activation = db.activation /\ e.claimed = db.claimed /\ e.journal = q
        /\ e.counter = n /\ e.influence = db.influence /\ e.seen = db.seen
    BY <1>0 DEF Database
  <1> HIDE DEF e
  <1>5. /\ \A y \in pushing : y.id <= db.counter /\ y.id \in Nat
        /\ \A y, z \in pushing : y.id = z.id => y = z
    BY <1>0 DEF Coherent, UnderWay, Decision
  <1>6. Coherent(e, pushing, clock)
    <2>1. \A i \in DOMAIN db.journal : db.journal[i].id \in Nat /\ db.journal[i].id <= db.counter
      <3>1. \A y \in Decision : y.id \in Nat
        BY <1>0 DEF Decision
      <3> QED BY <1>0, <3>1 DEF Coherent, Ids
    <2>2. \A i \in DOMAIN db.journal : db.journal[i].id # x.id
      BY <1>0, <1>3, <2>1
    <2>3. \A y \in pushing : y.id # x.id
      BY <1>0, <1>3, <1>5
    <2>4. e.counter \in Nat /\ db.counter <= e.counter /\ x.id <= e.counter
      BY <1>2, <1>3, <1>4
    <2>5. pushing \in SUBSET pushing
      OBVIOUS
    <2> QED BY <1>0, <1>3, <1>4, <2>2, <2>3, <2>4, <2>5, JournalGrows
  <1>7. Orderly'
    <2>1. R.db = e
      BY <1>1
    <2> QED BY <1>2, <1>6, <2>1, ServeOrderly
  <1>8. Rows(q) = Rows(db.journal) \cup {x}
    BY <1>0, <1>3, AppendRows
  <1>9. /\ Spent(n, pushing) = Spent(db.counter, pushing) \cup {n}
        /\ n \in (1..MaxIds) \ Spent(db.counter, pushing)
    BY <1>0, <1>2, <1>5, SpentFacts
  <1> HIDE DEF q, n
  <1>10. Kept(e, pushing) = Appended(Kept(db, pushing), Rows(db.journal) \cup {x},
                                     Spent(db.counter, pushing) \cup {x.id})
    <2>1. Kept(e, pushing) = Appended(Kept(db, pushing), Rows(q), Spent(n, pushing))
      BY <1>4, KeptAppend
    <2> QED BY <1>3, <1>8, <1>9, <2>1
  <1>11. Trait!Leaves(Kept(e, pushing), <<"id", x.id>>)
    <2>1. R.db = e /\ R.reply = <<"id", x.id>>
      BY <1>1, <1>3
    <2>2. Trait!Leaves(Kept(R.db, pushing), R.reply)
      BY <1>2, ServeLeaves
    <2> QED BY <2>1, <2>2
  <1>12. Promised
    BY <1>0, <1>3, <1>9, <1>10, <1>11, AppendPromised
  <1> QED BY <1>7, <1>12

(* Resolving a decision. *)
LEMMA ResolvePromised ==
    ASSUME TypeOK, InStep, Orderly, NEW id \in 1..MaxIds, NEW o \in Outcomes, ResolveDecision(id, o)
    PROVE  Orderly' /\ Promised
  <1> DEFINE R == IF InMemory THEN M!ResolveDecision(db, id, o) ELSE Q!ResolveDecision(db, id, o)
             k == Kept(db, pushing)
  <1>0. db \in Database /\ Coherent(db, pushing, clock)
    BY DEF TypeOK, Orderly
  <1>1. ResolveServed(db, pushing, clock, id, o, R)
    BY <1>0, ResolveFacts
  <1>2. Serve("journal", R)
    BY DEF ResolveDecision
  <1> HIDE DEF R
  <1>3. PICK q, w : ResolvedBy(db, pushing, clock, id, o, R, q, w)
    BY <1>1 DEF ResolveServed
  <1>4. R.db = [db EXCEPT !.journal = q] /\ R.reply = <<w, 0>> /\ Coherent(R.db, pushing, clock)
    BY <1>3 DEF ResolvedBy
  <1>5. Orderly'
    BY <1>2, <1>4, ServeOrderly
  <1>6. Kept(R.db, pushing) = [k EXCEPT !.decisions = Rows(q)]
    BY <1>0, <1>4, KeptJournal
  <1>7. Trait!Answer([k EXCEPT !.decisions = Rows(q)], w)
    <2>1. Trait!Leaves(Kept(R.db, pushing), R.reply)
      BY <1>2, ServeLeaves
    <2> QED BY <1>4, <1>6, <2>1, TraitNames DEF Trait!Answer
  <1>8. k.decisions = Rows(db.journal)
    BY KeptParts
  <1>9. [k EXCEPT !.decisions = k.decisions] = k
    BY KeptView
  <1>10. Trait!Resolve(id, o)
    <2>1. CASE /\ \A x \in Rows(db.journal) : x.id # id
               /\ Rows(q) = Rows(db.journal) /\ w = "unknown"
      <3>1. Trait!Answer(k, "unknown")
        <4> HIDE DEF k
        <4> QED BY <1>7, <1>8, <1>9, <2>1
      <3>2. \A x \in k.decisions : x.id # id
        BY <1>8, <2>1
      <3> QED BY <3>1, <3>2 DEF Trait!Resolve
    <2>2. ASSUME NEW x \in Rows(db.journal), x.id = id,
                 w = IF x.outcome = "pending" THEN o ELSE x.outcome,
                 Rows(q) = (Rows(db.journal) \ {x}) \cup {[x EXCEPT !.outcome = w]}
          PROVE  Trait!Resolve(id, o)
      <3> DEFINE final == IF x.outcome = "pending" THEN o ELSE x.outcome
      <3>1. w = final
        BY <2>2
      <3> HIDE DEF final, k
      <3>2. Trait!Answer([k EXCEPT !.decisions = (k.decisions \ {x}) \cup {[x EXCEPT !.outcome = final]}], final)
        BY <1>7, <1>8, <2>2, <3>1
      <3>3. x \in k.decisions /\ x.id = id
        BY <1>8, <2>2
      <3> QED BY <3>2, <3>3 DEF Trait!Resolve, final, k
    <2> QED BY <1>3, <2>1, <2>2 DEF ResolvedBy
  <1>11. Trait!Next
    BY <1>10, TraitNames DEF Trait!Next
  <1> QED BY <1>5, <1>11 DEF Promised

(* Trimming the journal. *)
LEMMA TrimPromised ==
    ASSUME TypeOK, InStep, Orderly, NEW t \in Times, TrimJournal(t)
    PROVE  Orderly' /\ Promised
  <1> DEFINE R == IF InMemory THEN M!TrimJournal(db, t) ELSE Q!TrimJournal(db, t)
             k == Kept(db, pushing)
  <1>0. db \in Database /\ Coherent(db, pushing, clock)
    BY DEF TypeOK, Orderly
  <1>t. TrimServed(db, pushing, clock, t, R)
    BY <1>0, TrimFacts
  <1>2. Serve("journal", R)
    BY DEF TrimJournal
  <1> HIDE DEF R
  <1>1. PICK q : /\ R = [db |-> [db EXCEPT !.journal = q], reply |-> <<"ok", 0>>]
                 /\ Coherent([db EXCEPT !.journal = q], pushing, clock)
                 /\ Rows(q) = {x \in Rows(db.journal) : x.decided >= t}
    BY <1>t DEF TrimServed
  <1>3. R.db = [db EXCEPT !.journal = q] /\ R.reply = <<"ok", 0>> /\ Coherent(R.db, pushing, clock)
    BY <1>1
  <1>4. Orderly'
    BY <1>2, <1>3, ServeOrderly
  <1>5. Kept(R.db, pushing) = [k EXCEPT !.decisions = Rows(q)]
    BY <1>0, <1>3, KeptJournal
  <1>6. k.decisions = Rows(db.journal)
    BY KeptParts
  <1>7. Trait!TrimJournal(t)
    <2>1. Trait!Leaves(Kept(R.db, pushing), R.reply)
      BY <1>2, ServeLeaves
    <2>2. Trait!Answer([k EXCEPT !.decisions = {x \in k.decisions : x.decided >= t}], "ok")
      <3> HIDE DEF k
      <3> QED BY <1>1, <1>3, <1>5, <1>6, <2>1, TraitNames DEF Trait!Answer
    <2> QED BY <2>2 DEF Trait!TrimJournal
  <1>8. Trait!Next
    BY <1>7 DEF Trait!Next
  <1> QED BY <1>4, <1>8 DEF Promised

(* Recording influence: the start of the window is an instant the clock has *)
(* passed.                                                                  *)
LEMMA RecordPromised ==
    ASSUME TypeOK, InStep, Orderly, NEW x \in Peers, NEW now \in Now, RecordInfluence(x, now)
    PROVE  Orderly' /\ Promised
  <1> DEFINE start == IF now < Window THEN 0 ELSE now - Window
             R == IF InMemory THEN M!RecordInfluence(db, x, now, start)
                              ELSE Q!RecordInfluence(db, x, now, start)
             k == Kept(db, pushing)
  <1>0. /\ db \in Database /\ Coherent(db, pushing, clock) /\ now \in Times /\ now \in Nat
        /\ now <= clock /\ clock \in Nat /\ Len(db.influence) < MaxCharges
    BY TablesAssumption DEF TypeOK, Orderly, Now, RecordInfluence
  <1>1. start \in Nat /\ start \in Times
    <2>1. start \in 0..clock
      BY <1>0, StoresAssumption
    <2> QED BY <2>1, TablesAssumption DEF Orderly
  <1>2. Serve("influence", R)
    BY DEF RecordInfluence
  <1> HIDE DEF start
  <1>3. RecordServed(db, pushing, clock, x, now, start, R)
    BY <1>0, <1>1, RecordFacts
  <1> HIDE DEF R
  <1>4. PICK q : /\ R = [db |-> [db EXCEPT !.influence = q],
                         reply |-> <<"total", Trait!Total(ChargesOf(q), x, start)>>]
                 /\ ChargesOf(q) = [ChargesOf(db.influence) EXCEPT ![x][now] = @ + 1]
                 /\ Coherent([db EXCEPT !.influence = q], pushing, clock)
    BY <1>3 DEF RecordServed
  <1>5. /\ R.db = [db EXCEPT !.influence = q] /\ Coherent(R.db, pushing, clock)
        /\ R.reply = <<"total", Trait!Total(ChargesOf(q), x, start)>>
    BY <1>4
  <1>6. Orderly'
    BY <1>2, <1>5, ServeOrderly
  <1>7. Kept(R.db, pushing) = [k EXCEPT !.charges = ChargesOf(q)]
    BY <1>0, <1>5, KeptInfluence
  <1>8. k.charges = ChargesOf(db.influence)
    BY KeptParts
  <1>9. Trait!Record(x, now, start)
    <2> DEFINE after == [k.charges EXCEPT ![x][now] = @ + 1]
    <2>1. Trait!Leaves(Kept(R.db, pushing), R.reply)
      BY <1>2, ServeLeaves
    <2>2. after = ChargesOf(q)
      BY <1>4, <1>8
    <2> HIDE DEF after, k
    <2>3. Trait!Leaves([k EXCEPT !.charges = after], <<"total", Trait!Total(after, x, start)>>)
      BY <1>5, <1>7, <2>1, <2>2
    <2> QED BY <2>3 DEF Trait!Record, after, k
  <1>10. Trait!Next
    BY <1>0, <1>1, <1>9, TraitNames DEF Trait!Next
  <1> QED BY <1>6, <1>10 DEF Promised

(* Purging influence. *)
LEMMA PurgeInfluencePromised ==
    ASSUME TypeOK, InStep, Orderly, NEW t \in Times, PurgeInfluence(t)
    PROVE  Orderly' /\ Promised
  <1> DEFINE R == IF InMemory THEN M!PurgeInfluence(db, t) ELSE Q!PurgeInfluence(db, t)
             k == Kept(db, pushing)
  <1>0. db \in Database /\ Coherent(db, pushing, clock)
    BY DEF TypeOK, Orderly
  <1>1. PurgeServed(db, pushing, clock, t, R)
    BY <1>0, PurgeInfluenceFacts
  <1>2. Serve("influence", R)
    BY DEF PurgeInfluence
  <1> HIDE DEF R
  <1>3. PICK q : /\ R = [db |-> [db EXCEPT !.influence = q], reply |-> <<"ok", 0>>]
                 /\ ChargesOf(q) = [x \in Peers |-> [u \in Times |->
                                      IF u < t THEN 0 ELSE ChargesOf(db.influence)[x][u]]]
                 /\ Coherent([db EXCEPT !.influence = q], pushing, clock)
    BY <1>1 DEF PurgeServed
  <1>4. /\ R.db = [db EXCEPT !.influence = q] /\ Coherent(R.db, pushing, clock)
        /\ R.reply = <<"ok", 0>>
    BY <1>3
  <1>5. Orderly'
    BY <1>2, <1>4, ServeOrderly
  <1>6. Kept(R.db, pushing) = [k EXCEPT !.charges = ChargesOf(q)]
    BY <1>0, <1>4, KeptInfluence
  <1>7. k.charges = ChargesOf(db.influence)
    BY KeptParts
  <1>8. Trait!PurgeInfluence(t)
    <2> DEFINE after == [x \in Peers |-> [u \in Times |-> IF u < t THEN 0 ELSE k.charges[x][u]]]
    <2>1. Trait!Leaves(Kept(R.db, pushing), R.reply)
      BY <1>2, ServeLeaves
    <2>2. after = ChargesOf(q)
      BY <1>3, <1>7
    <2> HIDE DEF after, k
    <2>3. Trait!Answer([k EXCEPT !.charges = after], "ok")
      BY <1>4, <1>6, <2>1, <2>2, TraitNames DEF Trait!Answer
    <2> QED BY <2>3 DEF Trait!PurgeInfluence, after, k
  <1>9. Trait!Next
    BY <1>8 DEF Trait!Next
  <1> QED BY <1>5, <1>9 DEF Promised

(* Records, snapshots and history. *)
LEMMA RecordsPromised ==
    ASSUME TypeOK, InStep, Orderly,
           \/ \E r \in Synapse : PutSynapse(r)
           \/ \E id \in SynapseIds : DeleteSynapse(id)
           \/ \E r \in Peer : PutPeer(r)
           \/ SaveActivation
           \/ \E s \in Signals : PutSignalHistory(s)
    PROVE  Orderly' /\ Promised
  <1> DEFINE k == Kept(db, pushing)
  <1>0. db \in Database /\ Coherent(db, pushing, clock)
    BY DEF TypeOK, Orderly
  <1>k. k.synapses = db.synapses /\ k.peers = db.peers /\ k.history = db.history
    BY KeptParts
  <1>o. ASSUME NEW tables, NEW R, Serve(tables, R), NEW X,
               \/ R.db = db
               \/ R.db = [db EXCEPT !.synapses = X] \/ R.db = [db EXCEPT !.peers = X]
               \/ R.db = [db EXCEPT !.activation = X] \/ R.db = [db EXCEPT !.history = X]
        PROVE  Orderly' /\ Trait!Leaves(Kept(R.db, pushing), R.reply)
    <2> DEFINE e == R.db
    <2>1. /\ e.seen = db.seen /\ e.claimed = db.claimed /\ e.journal = db.journal
          /\ e.counter = db.counter /\ e.influence = db.influence
      BY <1>0, <1>o DEF Database
    <2> HIDE DEF e
    <2>2. Coherent(e, pushing, clock)
      BY <1>0, <2>1, CoherentSame
    <2>3. Orderly'
      BY <1>o, <2>2, ServeOrderly DEF e
    <2> QED BY <1>o, <2>3, ServeLeaves
  <1>1. ASSUME NEW r \in Synapse, PutSynapse(r) PROVE Orderly' /\ Promised
    <2> DEFINE R == IF InMemory THEN M!PutSynapse(db, r) ELSE Q!PutSynapse(db, r)
               X == {x \in db.synapses : x.id # r.id} \cup {r}
               taken == \E x \in db.synapses : x.peer = r.peer /\ x.id # r.id
    <2>1. Serve("synapses", R)
      BY <1>1 DEF PutSynapse
    <2>2. \/ R = [db |-> [db EXCEPT !.synapses = X], reply |-> <<"ok", 0>>]
          \/ taken /\ R = [db |-> db, reply |-> <<"refused", 0>>]
      BY DEF M!PutSynapse, Q!PutSynapse, M!Done, Q!Done, M!Word, Q!Word
    <2> HIDE DEF R
    <2>3. CASE R = [db |-> [db EXCEPT !.synapses = X], reply |-> <<"ok", 0>>]
      <3> HIDE DEF X
      <3>1. R.db = [db EXCEPT !.synapses = X] /\ R.reply = <<"ok", 0>>
        BY <2>3
      <3>2. Orderly' /\ Trait!Leaves(Kept(R.db, pushing), R.reply)
        BY <1>o, <2>1, <3>1
      <3>3. Kept(R.db, pushing) = [k EXCEPT !.synapses = X]
        <4> DEFINE e == R.db
        <4>1. /\ e.synapses = X /\ e.peers = db.peers /\ e.history = db.history /\ e.activation = db.activation
              /\ e.claimed = db.claimed /\ e.journal = db.journal /\ e.counter = db.counter /\ e.influence = db.influence
          BY <1>0, <3>1 DEF Database
        <4> HIDE DEF e
        <4>2. Kept(e, pushing) = [Kept(db, pushing) EXCEPT !.synapses = X]
          BY <4>1, KeptSynapses
        <4> QED BY <4>2 DEF e
      <3>4. X = Trait!Replaced(k.synapses, r)
        BY <1>k DEF Trait!Replaced, X
      <3> HIDE DEF k
      <3>5. Trait!Answer([k EXCEPT !.synapses = Trait!Replaced(k.synapses, r)], "ok")
        BY <3>1, <3>2, <3>3, <3>4, TraitNames DEF Trait!Answer
      <3>6. Trait!PutSynapse(r)
        BY <3>5 DEF Trait!PutSynapse, k
      <3> QED BY <3>2, <3>6, TraitNames DEF Trait!Next, Promised
    <2>4. CASE taken /\ R = [db |-> db, reply |-> <<"refused", 0>>]
      <3>1. R.db = db /\ R.reply = <<"refused", 0>>
        BY <2>4
      <3>2. Orderly' /\ Trait!Leaves(Kept(R.db, pushing), R.reply)
        BY <1>o, <2>1, <3>1
      <3>3. Trait!Answer(k, "refused")
        BY <3>1, <3>2, TraitNames DEF Trait!Answer
      <3>4. Trait!PutSynapse(r)
        BY <1>k, <2>4, <3>3 DEF Trait!PutSynapse
      <3> QED BY <3>2, <3>4, TraitNames DEF Trait!Next, Promised
    <2> QED BY <2>2, <2>3, <2>4
  <1>2. ASSUME NEW id \in SynapseIds, DeleteSynapse(id) PROVE Orderly' /\ Promised
    <2> DEFINE R == IF InMemory THEN M!DeleteSynapse(db, id) ELSE Q!DeleteSynapse(db, id)
               X == {x \in db.synapses : x.id # id}
    <2>1. Serve("synapses", R)
      BY <1>2 DEF DeleteSynapse
    <2>2. R = [db |-> [db EXCEPT !.synapses = X], reply |-> <<"ok", 0>>]
      BY DEF M!DeleteSynapse, Q!DeleteSynapse, M!Done, Q!Done, M!Word, Q!Word
    <2> HIDE DEF R, X
    <2>3. R.db = [db EXCEPT !.synapses = X] /\ R.reply = <<"ok", 0>>
      BY <2>2
    <2>4. Orderly' /\ Trait!Leaves(Kept(R.db, pushing), R.reply)
      BY <1>o, <2>1, <2>3
    <2>5. Kept(R.db, pushing) = [k EXCEPT !.synapses = X]
      <3> DEFINE e == R.db
      <3>1. /\ e.synapses = X /\ e.peers = db.peers /\ e.history = db.history /\ e.activation = db.activation
            /\ e.claimed = db.claimed /\ e.journal = db.journal /\ e.counter = db.counter /\ e.influence = db.influence
        BY <1>0, <2>3 DEF Database
      <3> HIDE DEF e
      <3>2. Kept(e, pushing) = [Kept(db, pushing) EXCEPT !.synapses = X]
        BY <3>1, KeptSynapses
      <3> QED BY <3>2 DEF e
    <2>6. X = {x \in k.synapses : x.id # id}
      BY <1>k DEF X
    <2> HIDE DEF k
    <2>7. Trait!Answer([k EXCEPT !.synapses = {x \in k.synapses : x.id # id}], "ok")
      BY <2>3, <2>4, <2>5, <2>6, TraitNames DEF Trait!Answer
    <2>8. Trait!DeleteSynapse(id)
      BY <2>7 DEF Trait!DeleteSynapse, k
    <2> QED BY <2>4, <2>8 DEF Trait!Next, Promised
  <1>3. ASSUME NEW r \in Peer, PutPeer(r) PROVE Orderly' /\ Promised
    <2> DEFINE R == IF InMemory THEN M!PutPeer(db, r) ELSE Q!PutPeer(db, r)
               X == {x \in db.peers : x.id # r.id} \cup {r}
    <2>1. Serve("peers", R)
      BY <1>3 DEF PutPeer
    <2>2. R = [db |-> [db EXCEPT !.peers = X], reply |-> <<"ok", 0>>]
      BY DEF M!PutPeer, Q!PutPeer, M!Done, Q!Done, M!Word, Q!Word
    <2> HIDE DEF R, X
    <2>3. R.db = [db EXCEPT !.peers = X] /\ R.reply = <<"ok", 0>>
      BY <2>2
    <2>4. Orderly' /\ Trait!Leaves(Kept(R.db, pushing), R.reply)
      BY <1>o, <2>1, <2>3
    <2>5. Kept(R.db, pushing) = [k EXCEPT !.peers = X]
      <3> DEFINE e == R.db
      <3>1. /\ e.synapses = db.synapses /\ e.peers = X /\ e.history = db.history /\ e.activation = db.activation
            /\ e.claimed = db.claimed /\ e.journal = db.journal /\ e.counter = db.counter /\ e.influence = db.influence
        BY <1>0, <2>3 DEF Database
      <3> HIDE DEF e
      <3>2. Kept(e, pushing) = [Kept(db, pushing) EXCEPT !.peers = X]
        BY <3>1, KeptPeers
      <3> QED BY <3>2 DEF e
    <2>6. X = Trait!Replaced(k.peers, r)
      BY <1>k DEF Trait!Replaced, X
    <2> HIDE DEF k
    <2>7. Trait!Answer([k EXCEPT !.peers = Trait!Replaced(k.peers, r)], "ok")
      BY <2>3, <2>4, <2>5, <2>6, TraitNames DEF Trait!Answer
    <2>8. Trait!PutPeer(r)
      BY <2>7 DEF Trait!PutPeer, k
    <2> QED BY <2>4, <2>8, TraitNames DEF Trait!Next, Promised
  <1>4. CASE SaveActivation
    <2> DEFINE R == IF InMemory THEN M!SaveActivation(db) ELSE Q!SaveActivation(db)
    <2>1. Serve("dedup", R)
      BY <1>4 DEF SaveActivation
    <2>2. R = [db |-> [db EXCEPT !.activation = "snapshot"], reply |-> <<"ok", 0>>]
      BY DEF M!SaveActivation, Q!SaveActivation, M!Done, Q!Done, M!Word, Q!Word
    <2> HIDE DEF R
    <2>3. R.db = [db EXCEPT !.activation = "snapshot"] /\ R.reply = <<"ok", 0>>
      BY <2>2
    <2>4. Orderly' /\ Trait!Leaves(Kept(R.db, pushing), R.reply)
      BY <1>o, <2>1, <2>3
    <2>5. Kept(R.db, pushing) = [k EXCEPT !.activation = "snapshot"]
      <3> DEFINE e == R.db
      <3>1. /\ e.synapses = db.synapses /\ e.peers = db.peers /\ e.history = db.history /\ e.activation = "snapshot"
            /\ e.claimed = db.claimed /\ e.journal = db.journal /\ e.counter = db.counter /\ e.influence = db.influence
        BY <1>0, <2>3 DEF Database
      <3> HIDE DEF e
      <3>2. Kept(e, pushing) = [Kept(db, pushing) EXCEPT !.activation = "snapshot"]
        BY <3>1, KeptActivation
      <3> QED BY <3>2 DEF e
    <2>6. Trait!SaveActivation
      <3> HIDE DEF k
      <3>1. Trait!Answer([k EXCEPT !.activation = "snapshot"], "ok")
        BY <2>3, <2>4, <2>5, TraitNames DEF Trait!Answer
      <3> QED BY <3>1 DEF Trait!SaveActivation, k
    <2> QED BY <2>4, <2>6 DEF Trait!Next, Promised
  <1>5. ASSUME NEW s \in Signals, PutSignalHistory(s) PROVE Orderly' /\ Promised
    <2> DEFINE R == IF InMemory THEN M!PutSignalHistory(db, s, backend.retain)
                                ELSE Q!PutSignalHistory(db, s, backend.retain)
               X == db.history \cup {s}
    <2>1. Serve("dedup", R)
      BY <1>5 DEF PutSignalHistory
    <2>2. \/ R = [db |-> [db EXCEPT !.history = X], reply |-> <<"ok", 0>>]
          \/ R = [db |-> db, reply |-> <<"unsupported", 0>>]
      BY DEF M!PutSignalHistory, Q!PutSignalHistory, M!Done, Q!Done, M!Word, Q!Word
    <2> HIDE DEF R, X
    <2>3. CASE R = [db |-> [db EXCEPT !.history = X], reply |-> <<"ok", 0>>]
      <3>1. R.db = [db EXCEPT !.history = X] /\ R.reply = <<"ok", 0>>
        BY <2>3
      <3>2. Orderly' /\ Trait!Leaves(Kept(R.db, pushing), R.reply)
        BY <1>o, <2>1, <3>1
      <3>3. Kept(R.db, pushing) = [k EXCEPT !.history = X]
        <4> DEFINE e == R.db
        <4>1. /\ e.synapses = db.synapses /\ e.peers = db.peers /\ e.history = X /\ e.activation = db.activation
              /\ e.claimed = db.claimed /\ e.journal = db.journal /\ e.counter = db.counter /\ e.influence = db.influence
          BY <1>0, <3>1 DEF Database
        <4> HIDE DEF e
        <4>2. Kept(e, pushing) = [Kept(db, pushing) EXCEPT !.history = X]
          BY <4>1, KeptHistory
        <4> QED BY <4>2 DEF e
      <3>4. X = k.history \cup {s}
        BY <1>k DEF X
      <3> HIDE DEF k
      <3>5. Trait!Answer([k EXCEPT !.history = k.history \cup {s}], "ok")
        BY <3>1, <3>2, <3>3, <3>4, TraitNames DEF Trait!Answer
      <3>6. Trait!PutSignalHistory(s)
        BY <3>5 DEF Trait!PutSignalHistory, k
      <3> QED BY <3>2, <3>6 DEF Trait!Next, Promised
    <2>4. CASE R = [db |-> db, reply |-> <<"unsupported", 0>>]
      <3>1. R.db = db /\ R.reply = <<"unsupported", 0>>
        BY <2>4
      <3>2. Orderly' /\ Trait!Leaves(Kept(R.db, pushing), R.reply)
        BY <1>o, <2>1, <3>1
      <3>3. Trait!PutSignalHistory(s)
        BY <3>1, <3>2, TraitNames DEF Trait!PutSignalHistory, Trait!Answer
      <3> QED BY <3>2, <3>3 DEF Trait!Next, Promised
    <2> QED BY <2>2, <2>3, <2>4
  <1> QED BY <1>1, <1>2, <1>3, <1>4, <1>5

(* Opening, identity and write-back touch nothing the trait talks about. *)
LEMMA QuietPromised ==
    ASSUME TypeOK, InStep, Orderly, NEW X,
           \/ db' = db \/ db' = [db EXCEPT !.version = X]
           \/ db' = [db EXCEPT !.seed = X] \/ db' = [db EXCEPT !.nodeId = X],
           disk' = disk \/ (disk' = db' /\ OnDisk),
           reply' = reply \/ reply' = <<"ok", 0>>,
           pushing' = pushing, clock' = clock
    PROVE  Orderly' /\ Promised
  <1>0. db \in Database /\ Coherent(db, pushing, clock)
    BY DEF TypeOK, Orderly
  <1>1. OnDisk => pushing = {}
    BY StoresAssumption DEF TypeOK, InStep, InMemory, OnDisk
  <1>2. /\ db'.seen = db.seen /\ db'.claimed = db.claimed /\ db'.journal = db.journal
        /\ db'.counter = db.counter /\ db'.influence = db.influence
        /\ db'.synapses = db.synapses /\ db'.peers = db.peers /\ db'.history = db.history
        /\ db'.activation = db.activation
    BY <1>0 DEF Database
  <1>3. Coherent(db', pushing, clock)
    <2> DEFINE e == db'
    <2>1. e.seen = db.seen /\ e.claimed = db.claimed /\ e.journal = db.journal
          /\ e.counter = db.counter /\ e.influence = db.influence
      BY <1>2
    <2>2. Coherent(e, pushing, clock)
      BY <1>0, <2>1, CoherentSame
    <2> QED BY <2>2
  <1>4. Orderly'
    <2>1. Coherent(disk', {}, clock)
      BY <1>1, <1>3 DEF Orderly
    <2> QED BY <1>3, <2>1 DEF Orderly
  <1>5. Kept(db', pushing') = Kept(db, pushing)
    BY <1>2, KeptView
  <1>6. Kept(disk', {}) \in {Kept(disk, {}), Kept(db', pushing')}
    BY <1>1
  <1>7. Trait!Leaves(Kept(db, pushing), reply')
    BY <1>5, <1>6 DEF Trait!Leaves
  <1>8. Promised
    BY <1>7, UpkeepPromised
  <1> QED BY <1>4, <1>8

(* A failure leaves what the store held or what was stable. *)
LEMMA FailurePromised ==
    ASSUME TypeOK, InStep, Orderly, Kill \/ PowerLoss
    PROVE  Orderly' /\ Promised
  <1>1. OnDisk => pushing = {}
    BY StoresAssumption DEF TypeOK, InStep, InMemory, OnDisk
  <1>2. /\ db' = disk \/ (db' = db /\ pushing = {})
        /\ pushing' = {} /\ disk' = disk /\ clock' = clock /\ reply' = <<"none", 0>>
    BY <1>1 DEF Kill, PowerLoss, Fails, Word
  <1>3. Coherent(db', {}, clock)
    BY <1>2 DEF Orderly
  <1>4. Orderly'
    BY <1>2, <1>3 DEF Orderly
  <1>5. Kept(db', pushing') \in {Kept(db, pushing), Kept(disk, {})}
    BY <1>2
  <1>6. Trait!Restart
    BY <1>2, <1>5, TraitNames DEF Trait!Restart
  <1> QED BY <1>4, <1>6 DEF Trait!Next, Promised

(* Every step keeps the store orderly and is one the trait allows. *)
LEMMA TraitStep ==
    ASSUME TypeOK, InStep, Orderly, [Next]_vars
    PROVE  Orderly' /\ Promised
  <1>q. ASSUME NEW a, NEW b, NEW e, NEW self, Identify(a, b, e, self)
        PROVE  db' = e /\ reply' = reply /\ pushing' = pushing /\ clock' = clock
    BY <1>q DEF Identify
  <1>1. CASE OpenStore \/ Ready
    BY <1>1, QuietPromised DEF OpenStore, Ready
  <1>2. CASE Migrate
    <2>1. /\ db' = [db EXCEPT !.version = db.version + 1]
          /\ disk' = disk \/ (disk' = db' /\ OnDisk)
          /\ reply' = reply /\ pushing' = pushing /\ clock' = clock
      BY <1>2 DEF Migrate, Q!Migrated, Committed
    <2> QED BY <2>1, QuietPromised
  <1>3. CASE LoadSeed \/ CreateSeed
    <2>1. db' = db /\ disk' = disk /\ reply' = reply /\ pushing' = pushing /\ clock' = clock
      BY <1>3 DEF LoadSeed, CreateSeed, Identify
    <2> QED BY <2>1, QuietPromised
  <1>4. CASE PutSeed
    <2>1. db' = [db EXCEPT !.seed = me] /\ (disk' = disk \/ (disk' = db' /\ OnDisk))
      BY <1>4, <1>q DEF PutSeed, Committed
    <2> QED BY <1>4, <1>q, <2>1, QuietPromised DEF PutSeed
  <1>5. CASE PutNodeId \/ BuildNode
    <2>1. /\ db' = [db EXCEPT !.nodeId = me] /\ (disk' = disk \/ (disk' = db' /\ OnDisk))
          /\ reply' = reply /\ pushing' = pushing /\ clock' = clock
      BY <1>5, <1>q DEF PutNodeId, BuildNode, Committed
    <2> QED BY <2>1, QuietPromised
  <1>6. CASE FlushIdentity
    <2>1. /\ db' = db /\ (disk' = disk \/ (disk' = db' /\ OnDisk))
          /\ reply' = reply /\ pushing' = pushing /\ clock' = clock
      BY <1>6 DEF FlushIdentity, Identify
    <2> QED BY <2>1, QuietPromised
  <1>7. CASE Flush
    <2>1. /\ db' = db /\ (disk' = disk \/ (disk' = db' /\ OnDisk))
          /\ reply' = <<"ok", 0>> /\ pushing' = pushing /\ clock' = clock
      BY <1>7 DEF Flush, Word
    <2> QED BY <2>1, QuietPromised
  <1>8. CASE WriteBack
    BY <1>8, QuietPromised DEF WriteBack
  <1>9. CASE Kill \/ PowerLoss
    BY <1>9, FailurePromised
  <1>10. CASE Tick
    <2>0. /\ db \in Database /\ disk \in Database /\ pushing \in SUBSET Decision
          /\ {} \in SUBSET Decision /\ clock \in Nat
      BY TablesAssumption DEF TypeOK
    <2>1. /\ clock + 1 \in Times /\ clock' = clock + 1 /\ db' = db /\ disk' = disk
          /\ pushing' = pushing /\ reply' = reply
      BY <1>10 DEF Tick
    <2>2. Coherent(db', pushing', clock') /\ Coherent(disk', {}, clock')
      BY <2>0, <2>1, CoherentLater DEF Orderly
    <2>3. 0..clock' \subseteq Times
      <3>1. 0..clock' = (0..clock) \cup {clock + 1}
        BY <2>0, <2>1
      <3> QED BY <2>1, <3>1 DEF Orderly
    <2>4. Orderly'
      BY <2>2, <2>3 DEF Orderly
    <2>5. Trait!Tick
      BY <2>1 DEF Trait!Tick
    <2> QED BY <2>4, <2>5 DEF Trait!Next, Promised
  <1>11. CASE UNCHANGED vars
    BY <1>11, QuietPromised DEF vars
  <1>12. ASSUME NEW s \in Signals, NEW now \in Now, CheckAndSetSeen(s, now) PROVE Orderly' /\ Promised
    BY <1>12, ClaimPromised
  <1>13. ASSUME NEW now \in Now, PurgeExpiredSeen(now) PROVE Orderly' /\ Promised
    BY <1>13, PurgePromised
  <1>14. ASSUME NEW s \in Signals, NEW p \in Peers, NEW now \in Now,
                TakeId(s, p, now) \/ AppendDecision(s, p, now)
         PROVE  Orderly' /\ Promised
    BY <1>14, TakeIdPromised, SqliteAppendPromised
  <1>15. ASSUME NEW entry \in pushing, Push(entry) PROVE Orderly' /\ Promised
    BY <1>15, PushPromised
  <1>16. ASSUME NEW id \in 1..MaxIds, NEW o \in Outcomes, ResolveDecision(id, o)
         PROVE  Orderly' /\ Promised
    BY <1>16, ResolvePromised
  <1>17. ASSUME NEW t \in Times, TrimJournal(t) \/ PurgeInfluence(t) PROVE Orderly' /\ Promised
    BY <1>17, TrimPromised, PurgeInfluencePromised
  <1>18. ASSUME NEW p \in Peers, NEW now \in Now, RecordInfluence(p, now) PROVE Orderly' /\ Promised
    BY <1>18, RecordPromised
  <1>19. CASE \/ \E r \in Synapse : PutSynapse(r)
              \/ \E id \in SynapseIds : DeleteSynapse(id)
              \/ \E r \in Peer : r.lastSeen \in Now /\ PutPeer(r)
              \/ SaveActivation
              \/ \E s \in Signals : PutSignalHistory(s)
    BY <1>19, RecordsPromised
  <1> QED
    BY <1>1, <1>2, <1>3, <1>4, <1>5, <1>6, <1>7, <1>8, <1>9, <1>10, <1>11, <1>12, <1>13, <1>14,
       <1>15, <1>16, <1>17, <1>18, <1>19 DEF Next

(* A new store is one the trait starts with. *)
LEMMA TraitInit ==
    ASSUME Init
    PROVE  Orderly /\ Trait!Init
  <1>1. PICK v : db = Empty(v)
    BY DEF Init
  <1>2. /\ db.synapses = {} /\ db.peers = {} /\ db.history = {} /\ db.activation = "none"
        /\ db.claimed = [s \in Signals |-> 0] /\ db.seen = [s \in Signals |-> 0]
        /\ db.journal = <<>> /\ db.counter = 0 /\ db.influence = <<>>
    BY <1>1 DEF Empty
  <1>3. disk = db /\ pushing = {} /\ reply = <<"none", 0>> /\ clock = 0
    BY DEF Init, Word
  <1>4. Coherent(db, {}, 0)
    BY <1>2, TablesAssumption DEF Coherent, Claims, Ids, UnderWay
  <1>5. Orderly
    <2>1. 0..0 \subseteq Times
      BY TablesAssumption
    <2> QED BY <1>3, <1>4, <2>1 DEF Orderly
  <1>6. Rows(db.journal) = {} /\ Spent(db.counter, {}) = {}
    BY <1>2 DEF Rows, Spent
  <1>7. ChargesOf(db.influence) = [x \in Peers |-> [t \in Times |-> 0]]
    <2>1. \A x, t : At(db.influence, x, t) = {}
      BY <1>2 DEF At
    <2>2. ChargesOf(db.influence) =
             [x \in Peers |-> [t \in Times |-> Cardinality(At(db.influence, x, t))]]
      BY Zenon DEF ChargesOf, At
    <2> QED BY <2>1, <2>2, FS_EmptySet
  <1>8. Kept(db, {}) = Trait!Nothing
    BY <1>2, <1>6, <1>7, KeptView DEF Trait!Nothing
  <1>9. Trait!Init
    BY <1>3, <1>8, TraitNames DEF Trait!Init
  <1> QED BY <1>5, <1>9

(* Both backends implement the NodeStore trait, every table of it, through  *)
(* maintenance, restarts, power loss and the two halves of a memory append: *)
(* each step of the store is a step the trait allows or changes nothing     *)
(* the trait talks about.                                                   *)
THEOREM ImplementsTrait == Spec => ConformsToTrait
  <1>1. Init => InStep
    BY DEF Init, InStep
  <1>2. Init => Orderly /\ Trait!Init
    BY TraitInit
  <1>3. TypeOK /\ InStep /\ [Next]_vars => InStep'
    BY InStepStep
  <1>4. TypeOK /\ InStep /\ Orderly /\ [Next]_vars => Orderly' /\ [Trait!Next]_(Trait!vars)
    BY TraitStep DEF Promised
  <1> QED BY <1>1, <1>2, <1>3, <1>4, TypeCorrect, PTL DEF Spec, ConformsToTrait, Trait!Spec

-----------------------------------------------------------------------------
(* Queries: what a listing returns, for orders given as relations. *)

(* R is a strict order on S. *)
Strict(R, S) ==
    /\ \A x \in S : <<x, x>> \notin R
    /\ \A x, y, z \in S : <<x, y>> \in R /\ <<y, z>> \in R => <<x, z>> \in R

(* The listings of S in which no later member goes before an earlier one. *)
InOrder(S, R) ==
    {q \in [1..Cardinality(S) -> S] :
        /\ Rows(q) = S
        /\ \A i, j \in DOMAIN q : i < j => <<q[j], q[i]>> \notin R}

(* As many members of S as the limit allows, the first in the order first,  *)
(* each once.                                                               *)
Leads(q, S, limit, R) ==
    /\ Len(q) = Least(limit, Cardinality(S)) /\ Rows(q) \subseteq S
    /\ \A i, j \in DOMAIN q : i < j => q[i] # q[j] /\ <<q[j], q[i]>> \notin R
    /\ \A x \in S \ Rows(q), y \in Rows(q) : <<x, y>> \notin R

(* Some member of a finite set has none before it: a smallest set without   *)
(* one would lose it with any of its members.                               *)
LEMMA SomeFirst ==
    ASSUME NEW S, IsFiniteSet(S), NEW R, Strict(R, S), S # {}
    PROVE  \E m \in S : \A x \in S : <<x, m>> \notin R
  <1> DEFINE HasFirst(T) == \E m \in T : \A x \in T : <<x, m>> \notin R
             Bad == {n \in Nat : \E T \in SUBSET S : T # {} /\ Cardinality(T) = n /\ ~HasFirst(T)}
  <1>1. SUFFICES ASSUME Bad # {} PROVE FALSE
    <2>1. Cardinality(S) \in Nat
      BY FS_CardinalityType
    <2> QED BY <2>1
  <1>2. PICK n \in Bad : \A k \in Bad : n <= k
    <2>1. Bad \in SUBSET Nat
      OBVIOUS
    <2> HIDE DEF Bad
    <2> QED BY <1>1, <2>1, LeastNumber
  <1>3. PICK T \in SUBSET S : T # {} /\ Cardinality(T) = n /\ ~HasFirst(T)
    OBVIOUS
  <1>4. PICK a \in T : TRUE
    BY <1>3
  <1> DEFINE U == T \ {a}
  <1>5. IsFiniteSet(T) /\ IsFiniteSet(U) /\ Cardinality(U) = n - 1 /\ U \in SUBSET S /\ n \in Nat
    BY <1>3, <1>4, FS_Subset, FS_RemoveElement
  <1>6. U # {}
    BY <1>3, <1>4 DEF Strict
  <1>7. Cardinality(U) \in Nat /\ Cardinality(U) \notin Bad
    <2>1. Cardinality(U) \in Nat
      BY <1>5, FS_CardinalityType
    <2>2. ~(n <= Cardinality(U))
      BY <1>5, <2>1
    <2> HIDE DEF Bad
    <2> QED BY <1>2, <2>1, <2>2
  <1>8. PICK m \in U : \A x \in U : <<x, m>> \notin R
    BY <1>5, <1>6, <1>7
  <1>9. CASE <<a, m>> \notin R
    BY <1>3, <1>4, <1>8, <1>9
  <1>10. CASE <<a, m>> \in R
    <2>1. \A x \in U : <<x, a>> \notin R
      BY <1>4, <1>5, <1>8, <1>10 DEF Strict
    <2> QED BY <1>3, <1>4, <2>1 DEF Strict
  <1> QED BY <1>9, <1>10

(* Every finite set can be listed in a strict order: first what nothing     *)
(* goes before, then a listing of the rest.                                 *)
LEMMA SomeListing ==
    ASSUME NEW S, IsFiniteSet(S), NEW R, Strict(R, S)
    PROVE  InOrder(S, R) # {}
  <1> DEFINE Bad == {n \in Nat : \E T \in SUBSET S : Cardinality(T) = n /\ InOrder(T, R) = {}}
  <1>1. SUFFICES ASSUME Bad # {} PROVE FALSE
    <2>1. Cardinality(S) \in Nat
      BY FS_CardinalityType
    <2> QED BY <2>1
  <1>2. PICK n \in Bad : \A k \in Bad : n <= k
    <2>1. Bad \in SUBSET Nat
      OBVIOUS
    <2> HIDE DEF Bad
    <2> QED BY <1>1, <2>1, LeastNumber
  <1>3. PICK T \in SUBSET S : Cardinality(T) = n /\ InOrder(T, R) = {}
    OBVIOUS
  <1>4. IsFiniteSet(T) /\ n \in Nat
    BY FS_Subset
  <1>5. T # {}
    <2> SUFFICES ASSUME T = {} PROVE FALSE
      OBVIOUS
    <2>1. Cardinality(T) = 0
      BY FS_EmptySet
    <2> DEFINE q == [i \in 1..0 |-> 0]
    <2>2. q \in [1..Cardinality(T) -> T] /\ Rows(q) = T /\ DOMAIN q = {}
      BY <2>1 DEF Rows
    <2> HIDE DEF q
    <2> QED BY <1>3, <2>2 DEF InOrder
  <1>6. PICK m \in T : \A x \in T : <<x, m>> \notin R
    <2>1. Strict(R, T)
      BY DEF Strict
    <2> QED BY <1>4, <1>5, <2>1, SomeFirst
  <1> DEFINE U == T \ {m}
  <1>7. IsFiniteSet(U) /\ Cardinality(U) = n - 1 /\ U \in SUBSET S
    BY <1>3, <1>4, FS_RemoveElement
  <1>8. n - 1 \in Nat
    <2>1. Cardinality(U) \in Nat
      BY <1>7, FS_CardinalityType
    <2> QED BY <1>7, <2>1
  <1>9. PICK g : g \in InOrder(U, R)
    <2>1. n - 1 \notin Bad
      BY <1>2, <1>4
    <2> QED BY <1>7, <1>8, <2>1
  <1>10. /\ g \in [1..(n - 1) -> U] /\ Rows(g) = U
         /\ \A i, j \in 1..(n - 1) : i < j => <<g[j], g[i]>> \notin R
    BY <1>7, <1>9 DEF InOrder
  <1> HIDE DEF Bad
  <1> DEFINE q == [i \in 1..n |-> IF i = 1 THEN m ELSE g[i - 1]]
  <1>11. \A i \in 1..n : i # 1 => i - 1 \in 1..(n - 1)
    BY <1>4, <1>8
  <1>12. q \in [1..n -> T] /\ DOMAIN q = 1..n
    BY <1>10, <1>11
  <1>13. \A i \in 1..n : q[i] = IF i = 1 THEN m ELSE g[i - 1]
    OBVIOUS
  <1> HIDE DEF q
  <1>14. Rows(q) = T
    <2>1. \A x \in U : \E i \in 1..(n - 1) : g[i] = x
      BY <1>10 DEF Rows
    <2>2. \A i \in 1..(n - 1) : i + 1 \in 1..n /\ i + 1 # 1 /\ q[i + 1] = g[i]
      BY <1>4, <1>8, <1>13
    <2>3. 1 \in 1..n /\ q[1] = m
      BY <1>4, <1>8, <1>13
    <2>4. \A x \in T : \E i \in 1..n : q[i] = x
      BY <2>1, <2>2, <2>3
    <2> QED BY <1>12, <2>4 DEF Rows
  <1>15. ASSUME NEW i \in 1..n, NEW j \in 1..n, i < j
         PROVE  <<q[j], q[i]>> \notin R
    <2>1. j # 1 /\ j - 1 \in 1..(n - 1) /\ q[j] = g[j - 1] /\ q[j] \in T
      BY <1>4, <1>11, <1>12, <1>13, <1>15
    <2>2. CASE i = 1
      BY <1>6, <1>13, <2>1, <2>2
    <2>3. CASE i # 1
      <3>1. i - 1 \in 1..(n - 1) /\ i - 1 < j - 1 /\ q[i] = g[i - 1]
        BY <1>4, <1>11, <1>13, <1>15, <2>3
      <3> QED BY <1>10, <2>1, <3>1
    <2> QED BY <2>2, <2>3
  <1>16. q \in InOrder(T, R)
    BY <1>3, <1>12, <1>14, <1>15 DEF InOrder
  <1> QED BY <1>3, <1>16

(* A listing cut at the limit leads its set. *)
LEMMA CutLeads ==
    ASSUME NEW S, IsFiniteSet(S), NEW R, NEW q \in InOrder(S, R), NEW limit \in Nat
    PROVE  Leads(Limited(q, limit), S, limit, R)
  <1> DEFINE n == Cardinality(S)
             k == Least(limit, n)
  <1>1. n \in Nat /\ k \in 0..n
    BY FS_CardinalityType DEF Least
  <1>2. /\ q \in [1..n -> S] /\ Rows(q) = S /\ DOMAIN q = 1..n
        /\ \A i, j \in 1..n : i < j => <<q[j], q[i]>> \notin R
    BY DEF InOrder
  <1>3. \A i, j \in 1..n : q[i] = q[j] => i = j
    <2>1. IsFiniteSet(1..n) /\ Cardinality(1..n) = n
      BY <1>1, FS_Interval
    <2>2. q \in Surjection(1..n, S)
      BY <1>2 DEF Surjection, Rows
    <2>3. q \in Injection(1..n, S)
      BY <2>1, <2>2, FS_SurjSameCardinalityImpliesInj
    <2> QED BY <2>3 DEF Injection, IsInjective
  <1> HIDE DEF n
  <1>4. q \in Seq(S) /\ Len(q) = n
    BY <1>1, <1>2
  <1> DEFINE l == Limited(q, limit)
  <1>5. /\ Len(l) = k /\ DOMAIN l = 1..k
        /\ \A i \in 1..k : l[i] = q[i] /\ i \in 1..n
    <2>1. l = SubSeq(q, 1, k)
      BY <1>4 DEF Limited
    <2>2. \A i \in 1..k : i \in 1..n
      BY <1>1
    <2> HIDE DEF k
    <2> QED BY <1>1, <1>4, <2>1, <2>2
  <1> HIDE DEF k, l
  <1>6. Rows(l) \subseteq S
    BY <1>2, <1>5 DEF Rows
  <1>7. \A i, j \in DOMAIN l : i < j => l[i] # l[j] /\ <<l[j], l[i]>> \notin R
    <2> SUFFICES ASSUME NEW i \in 1..k, NEW j \in 1..k, i < j
                 PROVE  l[i] # l[j] /\ <<l[j], l[i]>> \notin R
      BY <1>5
    <2>1. i \in 1..n /\ j \in 1..n /\ l[i] = q[i] /\ l[j] = q[j] /\ i # j
      BY <1>1, <1>5
    <2> QED BY <1>2, <1>3, <2>1
  <1>8. ASSUME NEW x \in S \ Rows(l), NEW y \in Rows(l)
        PROVE  <<x, y>> \notin R
    <2>1. PICK j \in 1..k : y = l[j]
      BY <1>5 DEF Rows
    <2>2. PICK i \in 1..n : x = q[i]
      BY <1>2 DEF Rows
    <2>3. i \notin 1..k
      BY <1>5, <2>2 DEF Rows
    <2>4. j \in 1..n /\ j < i /\ y = q[j]
      BY <1>1, <1>5, <2>1, <2>2, <2>3
    <2> QED BY <1>2, <2>2, <2>4
  <1>9. Len(l) = Least(limit, Cardinality(S))
    BY <1>5 DEF k, n
  <1> QED BY <1>6, <1>7, <1>8, <1>9 DEF Leads, l

(* The rows of a table are finitely many. *)
LEMMA RowsFinite ==
    ASSUME NEW S, NEW q \in Seq(S)
    PROVE  IsFiniteSet(DOMAIN q) /\ IsFiniteSet(Rows(q)) /\ Rows(q) \subseteq S
  <1> DEFINE n == Len(q)
  <1>1. n \in Nat /\ DOMAIN q = 1..n /\ q \in [1..n -> S]
    OBVIOUS
  <1> HIDE DEF n
  <1>2. IsFiniteSet(1..n)
    BY <1>1, FS_Interval
  <1>3. q \in Surjection(1..n, Rows(q))
    BY <1>1 DEF Surjection, Rows
  <1>4. IsFiniteSet(Rows(q))
    BY <1>2, <1>3, FS_Surjection
  <1> QED BY <1>1, <1>2, <1>4 DEF Rows

(* filter() over a table without doubles lists the rows it lets through. *)
LEMMA FilterLists ==
    ASSUME NEW S, NEW q \in Seq(S), NEW K \in SUBSET (DOMAIN q),
           \A i, j \in DOMAIN q : q[i] = q[j] => i = j
    PROVE  Retained(q, K) \in InOrder({q[i] : i \in K}, {})
  <1> DEFINE r == Retained(q, K)
             n == Len(r)
             T == {q[i] : i \in K}
  <1>1. r \in Seq(S) /\ Rows(r) = T
    BY RetainedFacts
  <1>2. PICK f \in [DOMAIN r -> K] :
              /\ \A i, j \in DOMAIN r : f[i] = f[j] => i = j
              /\ \A i \in DOMAIN r : r[i] = q[f[i]]
    BY RetainedFrom
  <1> HIDE DEF r, T
  <1>3. n \in Nat /\ DOMAIN r = 1..n /\ r \in [1..n -> S]
    BY <1>1
  <1> HIDE DEF n
  <1>4. r \in Bijection(1..n, T)
    <2>1. \A i, j \in 1..n : r[i] = r[j] => i = j
      BY <1>2, <1>3
    <2>2. r \in [1..n -> T] /\ \A x \in T : \E i \in 1..n : r[i] = x
      BY <1>1, <1>3 DEF Rows
    <2> QED BY <2>1, <2>2 DEF Bijection, Injection, IsInjective, Surjection
  <1>5. Cardinality(T) = n
    <2>1. IsFiniteSet(1..n) /\ Cardinality(1..n) = n
      BY <1>3, FS_Interval
    <2> QED BY <1>4, <2>1, FS_Bijection DEF ExistsBijection
  <1>6. r \in [1..n -> T]
    BY <1>4 DEF Bijection, Injection
  <1>7. r \in InOrder(T, {})
    BY <1>1, <1>5, <1>6 DEF InOrder
  <1> QED BY <1>7 DEF r, T

(* Sorting the positions of a table without doubles lists its rows. *)
LEMMA PositionsList ==
    ASSUME NEW S, NEW q \in Seq(S), \A i, j \in DOMAIN q : q[i] = q[j] => i = j,
           NEW P, NEW R, \A i, j \in DOMAIN q : <<q[i], q[j]>> \in R => <<i, j>> \in P,
           NEW f \in InOrder(DOMAIN q, P)
    PROVE  [k \in DOMAIN f |-> q[f[k]]] \in InOrder(Rows(q), R)
  <1> DEFINE n == Len(q)
             r == [k \in DOMAIN f |-> q[f[k]]]
  <1>1. n \in Nat /\ DOMAIN q = 1..n /\ q \in [1..n -> S]
    OBVIOUS
  <1> HIDE DEF n
  <1>2. IsFiniteSet(1..n) /\ Cardinality(1..n) = n
    BY <1>1, FS_Interval
  <1>3. /\ f \in [1..n -> 1..n] /\ DOMAIN f = 1..n /\ Rows(f) = 1..n
        /\ \A i, j \in 1..n : i < j => <<f[j], f[i]>> \notin P
    BY <1>1, <1>2 DEF InOrder
  <1>4. Cardinality(Rows(q)) = n
    <2>1. q \in Bijection(1..n, Rows(q))
      BY <1>1 DEF Bijection, Injection, IsInjective, Surjection, Rows
    <2> QED BY <1>2, <2>1, FS_Bijection DEF ExistsBijection
  <1>5. r \in [1..n -> Rows(q)] /\ DOMAIN r = 1..n /\ \A k \in 1..n : r[k] = q[f[k]]
    BY <1>1, <1>3 DEF Rows
  <1> HIDE DEF r
  <1>6. Rows(r) = Rows(q)
    <2>1. \A i \in 1..n : \E k \in 1..n : f[k] = i
      BY <1>3 DEF Rows
    <2>2. \A i \in 1..n : \E k \in 1..n : r[k] = q[i]
      BY <1>5, <2>1
    <2>3. Rows(q) \subseteq Rows(r)
      BY <1>1, <1>5, <2>2 DEF Rows
    <2> QED BY <1>5, <2>3 DEF Rows
  <1>7. \A i, j \in 1..n : i < j => <<r[j], r[i]>> \notin R
    BY <1>1, <1>3, <1>5
  <1>8. r \in InOrder(Rows(q), R)
    BY <1>4, <1>5, <1>6, <1>7 DEF InOrder
  <1> QED BY <1>8 DEF r

-----------------------------------------------------------------------------
(* The orders of the queries, as relations. *)
Heavier(S) == {u \in S \X S : HeavierFirst(u[1], u[2])}
LaterSeen(S) == {u \in S \X S : LaterSeenFirst(u[1], u[2])}
Older(S) == {u \in S \X S : Q!OlderFirst(u[1], u[2])}
Recent(S) == {u \in S \X S : Q!NewerFirst(u[1], u[2])}
NewerThan(S) == {u \in S \X S : Newer(u[1], u[2])}

(* Positions of a journal, the newer decision first, then the earlier one. *)
NewerAt(q) ==
    {u \in (DOMAIN q) \X (DOMAIN q) :
        \/ q[u[1]].decided > q[u[2]].decided
        \/ q[u[1]].decided = q[u[2]].decided /\ u[1] < u[2]}

(* They are strict orders. *)
LEMMA StrictOrders ==
    /\ \A S \in SUBSET Synapse : Strict(Heavier(S), S)
    /\ \A S \in SUBSET Peer : Strict(LaterSeen(S), S)
    /\ \A S \in SUBSET Decision : Strict(Older(S), S) /\ Strict(Recent(S), S)
    /\ \A q \in Seq(Decision) : Strict(NewerAt(q), DOMAIN q)
  <1>1. ASSUME NEW S \in SUBSET Synapse PROVE Strict(Heavier(S), S)
    <2>1. \A x \in S : x.weight \in Nat /\ x.id \in Nat
      BY TablesAssumption DEF Synapse
    <2>2. \A x, y \in S : <<x, y>> \in Heavier(S) <=> HeavierFirst(x, y)
      BY DEF Heavier
    <2>3. \A x \in S : ~HeavierFirst(x, x)
      BY <2>1 DEF HeavierFirst
    <2>4. \A x, y, z \in S : HeavierFirst(x, y) /\ HeavierFirst(y, z) => HeavierFirst(x, z)
      BY <2>1 DEF HeavierFirst
    <2> QED BY <2>2, <2>3, <2>4 DEF Strict
  <1>2. ASSUME NEW S \in SUBSET Peer PROVE Strict(LaterSeen(S), S)
    <2>1. \A x \in S : x.lastSeen \in Nat /\ x.id \in Nat
      BY TablesAssumption DEF Peer
    <2>2. \A x, y \in S : <<x, y>> \in LaterSeen(S) <=> LaterSeenFirst(x, y)
      BY DEF LaterSeen
    <2>3. \A x \in S : ~LaterSeenFirst(x, x)
      BY <2>1 DEF LaterSeenFirst
    <2>4. \A x, y, z \in S : LaterSeenFirst(x, y) /\ LaterSeenFirst(y, z) => LaterSeenFirst(x, z)
      BY <2>1 DEF LaterSeenFirst
    <2> QED BY <2>2, <2>3, <2>4 DEF Strict
  <1>3. ASSUME NEW S \in SUBSET Decision PROVE Strict(Older(S), S) /\ Strict(Recent(S), S)
    <2>1. \A x \in S : x.decided \in Nat /\ x.id \in Nat
      <3>1. \A x \in Decision : x.decided \in Times /\ x.id \in 1..MaxIds
        BY Zenon DEF Decision
      <3>2. Times \subseteq Nat /\ 1..MaxIds \subseteq Nat
        BY TablesAssumption
      <3> HIDE DEF Decision
      <3>3. \A x \in S : x \in Decision
        OBVIOUS
      <3> QED BY <3>1, <3>2, <3>3, Zenon
    <2>2. \A x, y \in S : /\ <<x, y>> \in Older(S) <=> Q!OlderFirst(x, y)
                          /\ <<x, y>> \in Recent(S) <=> Q!NewerFirst(x, y)
      BY DEF Older, Recent
    <2>3. \A x \in S : ~Q!OlderFirst(x, x) /\ ~Q!NewerFirst(x, x)
      BY <2>1 DEF Q!OlderFirst, Q!NewerFirst
    <2>4. \A x, y, z \in S : Q!OlderFirst(x, y) /\ Q!OlderFirst(y, z) => Q!OlderFirst(x, z)
      BY <2>1 DEF Q!OlderFirst
    <2>5. \A x, y, z \in S : Q!NewerFirst(x, y) /\ Q!NewerFirst(y, z) => Q!NewerFirst(x, z)
      BY <2>1 DEF Q!NewerFirst
    <2> QED BY <2>2, <2>3, <2>4, <2>5 DEF Strict
  <1>4. ASSUME NEW q \in Seq(Decision) PROVE Strict(NewerAt(q), DOMAIN q)
    <2>1. \A i \in DOMAIN q : q[i].decided \in Nat /\ i \in Nat
      <3>1. \A i \in DOMAIN q : q[i] \in Decision /\ i \in Nat
        OBVIOUS
      <3> QED BY <3>1, TablesAssumption DEF Decision
    <2>2. \A i, j \in DOMAIN q : <<i, j>> \in NewerAt(q) <=>
              \/ q[i].decided > q[j].decided
              \/ q[i].decided = q[j].decided /\ i < j
      BY DEF NewerAt
    <2> HIDE DEF NewerAt
    <2> QED BY <2>1, <2>2 DEF Strict
  <1> QED BY <1>1, <1>2, <1>3, <1>4

-----------------------------------------------------------------------------
(* What the backends' listings are. *)
LEMMA ListingsInOrder ==
    ASSUME NEW S
    PROVE  /\ M!Listings(S, M!HeavierFirst) = InOrder(S, Heavier(S))
           /\ Q!Listings(S, Q!HeavierFirst) = InOrder(S, Heavier(S))
           /\ M!Listings(S, M!LaterSeenFirst) = InOrder(S, LaterSeen(S))
           /\ Q!Listings(S, Q!LaterSeenFirst) = InOrder(S, LaterSeen(S))
           /\ Q!Listings(S, Q!OlderFirst) = InOrder(S, Older(S))
           /\ Q!Listings(S, Q!NewerFirst) = InOrder(S, Recent(S))
  <1> DEFINE F == [1..Cardinality(S) -> S]
  <1>1. \A x, y \in S : /\ <<x, y>> \in Heavier(S) <=> HeavierFirst(x, y)
                        /\ <<x, y>> \in LaterSeen(S) <=> LaterSeenFirst(x, y)
                        /\ <<x, y>> \in Older(S) <=> Q!OlderFirst(x, y)
                        /\ <<x, y>> \in Recent(S) <=> Q!NewerFirst(x, y)
    BY DEF Heavier, LaterSeen, Older, Recent
  <1>2. \A x, y : /\ M!HeavierFirst(x, y) <=> HeavierFirst(x, y)
                  /\ Q!HeavierFirst(x, y) <=> HeavierFirst(x, y)
                  /\ M!LaterSeenFirst(x, y) <=> LaterSeenFirst(x, y)
                  /\ Q!LaterSeenFirst(x, y) <=> LaterSeenFirst(x, y)
    BY DEF HeavierFirst, M!HeavierFirst, Q!HeavierFirst,
           LaterSeenFirst, M!LaterSeenFirst, Q!LaterSeenFirst
  <1>3. \A q \in F : \A i \in DOMAIN q : q[i] \in S
    OBVIOUS
  <1>4. InOrder(S, Heavier(S)) = {q \in F : /\ Rows(q) = S
            /\ \A i, j \in DOMAIN q : i < j => ~HeavierFirst(q[j], q[i])}
    BY <1>1, <1>3 DEF InOrder
  <1>5. InOrder(S, LaterSeen(S)) = {q \in F : /\ Rows(q) = S
            /\ \A i, j \in DOMAIN q : i < j => ~LaterSeenFirst(q[j], q[i])}
    BY <1>1, <1>3 DEF InOrder
  <1>6. InOrder(S, Older(S)) = {q \in F : /\ Rows(q) = S
            /\ \A i, j \in DOMAIN q : i < j => ~Q!OlderFirst(q[j], q[i])}
    BY <1>1, <1>3 DEF InOrder
  <1>7. InOrder(S, Recent(S)) = {q \in F : /\ Rows(q) = S
            /\ \A i, j \in DOMAIN q : i < j => ~Q!NewerFirst(q[j], q[i])}
    BY <1>1, <1>3 DEF InOrder
  <1>8. M!Listings(S, M!HeavierFirst) = InOrder(S, Heavier(S))
    BY <1>2, <1>4, SharedHelpers DEF M!Listings
  <1>9. Q!Listings(S, Q!HeavierFirst) = InOrder(S, Heavier(S))
    BY <1>2, <1>4, SharedHelpers DEF Q!Listings
  <1>10. M!Listings(S, M!LaterSeenFirst) = InOrder(S, LaterSeen(S))
    BY <1>2, <1>5, SharedHelpers DEF M!Listings
  <1>11. Q!Listings(S, Q!LaterSeenFirst) = InOrder(S, LaterSeen(S))
    BY <1>2, <1>5, SharedHelpers DEF Q!Listings
  <1>12. Q!Listings(S, Q!OlderFirst) = InOrder(S, Older(S))
    BY <1>6, SharedHelpers DEF Q!Listings
  <1>13. Q!Listings(S, Q!NewerFirst) = InOrder(S, Recent(S))
    BY <1>7, SharedHelpers DEF Q!Listings
  <1> QED BY <1>8, <1>9, <1>10, <1>11, <1>12, <1>13

(* The backends cut listings alike. *)
LEMMA Cuts ==
    \A q, limit : M!Limited(q, limit) = Limited(q, limit) /\ Q!Limited(q, limit) = Limited(q, limit)
  BY DEF M!Limited, Q!Limited, Limited, M!Least, Q!Least, Least

(* Listings in a strict order of a finite set, cut at the limit, answer.    *)
LEMMA CutsAnswer ==
    ASSUME NEW S, IsFiniteSet(S), NEW R, Strict(R, S), NEW limit \in Nat
    PROVE  LET A == {Limited(q, limit) : q \in InOrder(S, R)}
           IN  A # {} /\ \A a \in A : Leads(a, S, limit, R)
  BY SomeListing, CutLeads

(* The trait's descriptions, with the order as a relation. *)
LEMMA TopsLead ==
    ASSUME NEW q, NEW S, NEW limit
    PROVE  /\ Leads(q, S, limit, Heavier(S)) => Tops(q, S, limit, HeavierFirst)
           /\ Leads(q, S, limit, LaterSeen(S)) => Tops(q, S, limit, LaterSeenFirst)
           /\ Leads(q, S, limit, NewerThan(S)) => Tops(q, S, limit, Newer)
           /\ \A R : Leads(q, S, limit, R) => Tops(q, S, limit, NoOrder)
  <1>1. \A x, y \in S : /\ <<x, y>> \in Heavier(S) <=> HeavierFirst(x, y)
                        /\ <<x, y>> \in LaterSeen(S) <=> LaterSeenFirst(x, y)
                        /\ <<x, y>> \in NewerThan(S) <=> Newer(x, y)
    BY DEF Heavier, LaterSeen, NewerThan
  <1>2. Rows(q) \subseteq S => \A i \in DOMAIN q : q[i] \in S
    BY DEF Rows
  <1>3. Leads(q, S, limit, Heavier(S)) => Tops(q, S, limit, HeavierFirst)
    BY <1>1, <1>2 DEF Leads, Tops
  <1>4. Leads(q, S, limit, LaterSeen(S)) => Tops(q, S, limit, LaterSeenFirst)
    BY <1>1, <1>2 DEF Leads, Tops
  <1>5. Leads(q, S, limit, NewerThan(S)) => Tops(q, S, limit, Newer)
    BY <1>1, <1>2 DEF Leads, Tops
  <1>6. ASSUME NEW R, Leads(q, S, limit, R) PROVE Tops(q, S, limit, NoOrder)
    BY <1>6 DEF Leads, Tops, NoOrder
  <1> QED BY <1>3, <1>4, <1>5, <1>6

-----------------------------------------------------------------------------
(* A record of what the trait talks about has finitely many synapses and    *)
(* peers.                                                                   *)
Small(k) == IsFiniteSet(k.synapses) /\ IsFiniteSet(k.peers)

Tidy == Small(Kept(db, pushing)) /\ Small(Kept(disk, {}))

(* Records are put and deleted one at a time. *)
LEMMA TidyStep ==
    ASSUME Promised, Tidy
    PROVE  Tidy'
  <1> DEFINE k == Kept(db, pushing)
             l == Kept(disk, {})
  <1>0. Small(k) /\ Small(l)
    BY DEF Tidy
  <1>1. SUFFICES Small(k') /\ Small(l')
    BY DEF Tidy
  <1>r. PICK X1, X2, X3, X4, X5, X6, X7, X8 :
           k = [synapses |-> X1, peers |-> X2, activation |-> X3, history |-> X4, claim |-> X5,
                decisions |-> X6, spent |-> X7, charges |-> X8]
    BY KeptView
  <1> HIDE DEF k, l
  <1>2. ASSUME NEW after, NEW r, Trait!Leaves(after, r), Small(after)
        PROVE  Small(k') /\ Small(l')
    BY <1>0, <1>2 DEF Trait!Leaves, k, l
  <1>3. ASSUME NEW after, NEW w, Trait!Answer(after, w), Small(after)
        PROVE  Small(k') /\ Small(l')
    BY <1>2, <1>3 DEF Trait!Answer
  <1>4. ASSUME NEW s, Trait!PutSignalHistory(s) PROVE Small(k') /\ Small(l')
    <2>1. Small([k EXCEPT !.history = k.history \cup {s}])
      BY <1>0, <1>r DEF Small
    <2> QED BY <1>0, <1>3, <1>4, <2>1 DEF Trait!PutSignalHistory, k
  <1>5. ASSUME NEW s, NEW now, Trait!Claim(s, now) PROVE Small(k') /\ Small(l')
    <2>1. Small([k EXCEPT !.claim[s] = Trait!Expiry(now)])
      BY <1>0, <1>r DEF Small
    <2> QED BY <1>0, <1>3, <1>5, <2>1 DEF Trait!Claim, k
  <1>6. ASSUME NEW s, NEW p, NEW t, Trait!AppendDecision(s, p, t) PROVE Small(k') /\ Small(l')
    <2>1. \A D, U : Small([k EXCEPT !.decisions = D, !.spent = U])
      BY <1>0, <1>r DEF Small
    <2> QED BY <1>2, <1>6, <2>1 DEF Trait!AppendDecision, k
  <1>7. \A D : Small([k EXCEPT !.decisions = D])
    BY <1>0, <1>r DEF Small
  <1>8. ASSUME NEW id, NEW o, Trait!Resolve(id, o) PROVE Small(k') /\ Small(l')
    BY <1>0, <1>3, <1>7, <1>8 DEF Trait!Resolve, k
  <1>9. ASSUME NEW t, Trait!TrimJournal(t) PROVE Small(k') /\ Small(l')
    BY <1>3, <1>7, <1>9 DEF Trait!TrimJournal, k
  <1>10. \A C : Small([k EXCEPT !.charges = C])
    BY <1>0, <1>r DEF Small
  <1>11. ASSUME NEW t, Trait!PurgeInfluence(t) PROVE Small(k') /\ Small(l')
    BY <1>3, <1>10, <1>11 DEF Trait!PurgeInfluence, k
  <1>12. ASSUME NEW p, NEW now, NEW start, Trait!Record(p, now, start) PROVE Small(k') /\ Small(l')
    BY <1>2, <1>10, <1>12 DEF Trait!Record, k
  <1>13. ASSUME NEW S, IsFiniteSet(S), NEW r PROVE IsFiniteSet(Trait!Replaced(S, r))
    <2>1. IsFiniteSet({x \in S : x.id # r.id})
      BY <1>13, FS_Subset
    <2> QED BY <2>1, FS_AddElement DEF Trait!Replaced
  <1>14. \A S : IsFiniteSet(S) => /\ Small([k EXCEPT !.synapses = S])
                                  /\ Small([k EXCEPT !.peers = S])
    BY <1>0, <1>r DEF Small
  <1>15. IsFiniteSet(k.synapses) /\ IsFiniteSet(k.peers)
    BY <1>0 DEF Small
  <1>16. ASSUME NEW r, Trait!PutSynapse(r) PROVE Small(k') /\ Small(l')
    BY <1>0, <1>3, <1>13, <1>14, <1>15, <1>16 DEF Trait!PutSynapse, k
  <1>17. ASSUME NEW id, Trait!DeleteSynapse(id) PROVE Small(k') /\ Small(l')
    <2>1. IsFiniteSet({x \in k.synapses : x.id # id})
      BY <1>15, FS_Subset
    <2> QED BY <1>3, <1>14, <1>17, <2>1 DEF Trait!DeleteSynapse, k
  <1>18. ASSUME NEW r, Trait!PutPeer(r) PROVE Small(k') /\ Small(l')
    BY <1>3, <1>13, <1>14, <1>15, <1>18 DEF Trait!PutPeer, k
  <1>19. CASE Trait!SaveActivation
    <2>1. Small([k EXCEPT !.activation = "snapshot"])
      BY <1>0, <1>r DEF Small
    <2> QED BY <1>3, <1>19, <2>1 DEF Trait!SaveActivation, k
  <1>20. CASE Trait!Upkeep
    BY <1>0, <1>2, <1>3, <1>20 DEF Trait!Upkeep, k
  <1>21. CASE Trait!Restart
    BY <1>0, <1>21 DEF Trait!Restart, k, l
  <1>22. CASE Trait!Tick \/ UNCHANGED Trait!vars
    BY <1>0, <1>22 DEF Trait!Tick, Trait!vars, k, l
  <1> QED BY <1>4, <1>5, <1>6, <1>8, <1>9, <1>11, <1>12, <1>16, <1>17, <1>18, <1>19, <1>20,
             <1>21, <1>22 DEF Promised, Trait!Next

-----------------------------------------------------------------------------
(* What a query answers in a state the invariants allow. *)

(* Listings of synapses and peers. *)
LEMMA RecordsAnswer ==
    ASSUME TypeOK, Tidy
    PROVE  RecordAnswers
  <1>0. /\ db.synapses \in SUBSET Synapse /\ db.peers \in SUBSET Peer
        /\ IsFiniteSet(db.synapses) /\ IsFiniteSet(db.peers)
    BY DatabaseFacts, KeptParts DEF TypeOK, Tidy, Small
  <1>1. ASSUME NEW limit \in Limits, NEW w \in Weights
        PROVE  Answers(IF InMemory THEN M!ListSynapses(db, w, limit) ELSE Q!ListSynapses(db, w, limit),
                       {x \in db.synapses : x.weight >= w}, limit, HeavierFirst)
    <2> DEFINE S == {x \in db.synapses : x.weight >= w}
               A == {Limited(q, limit) : q \in InOrder(S, Heavier(S))}
    <2>1. S \in SUBSET Synapse /\ IsFiniteSet(S) /\ limit \in Nat
      BY <1>0, FS_Subset, StoresAssumption
    <2>2. M!ListSynapses(db, w, limit) = A /\ Q!ListSynapses(db, w, limit) = A
      BY ListingsInOrder, Cuts DEF M!ListSynapses, Q!ListSynapses
    <2>3. Strict(Heavier(S), S)
      BY <2>1, StrictOrders
    <2> HIDE DEF S
    <2>4. A # {} /\ \A a \in A : Leads(a, S, limit, Heavier(S))
      BY <2>1, <2>3, CutsAnswer
    <2> HIDE DEF A
    <2>5. Answers(A, S, limit, HeavierFirst)
      BY <2>4, TopsLead DEF Answers
    <2> QED BY <2>2, <2>5 DEF S
  <1>2. ASSUME NEW limit \in Limits
        PROVE  Answers(IF InMemory THEN M!ListPeers(db, limit) ELSE Q!ListPeers(db, limit),
                       db.peers, limit, LaterSeenFirst)
    <2> DEFINE S == db.peers
               A == {Limited(q, limit) : q \in InOrder(S, LaterSeen(S))}
    <2>1. S \in SUBSET Peer /\ IsFiniteSet(S) /\ limit \in Nat
      BY <1>0, StoresAssumption
    <2>2. M!ListPeers(db, limit) = A /\ Q!ListPeers(db, limit) = A
      BY ListingsInOrder, Cuts DEF M!ListPeers, Q!ListPeers
    <2>3. Strict(LaterSeen(S), S)
      BY <2>1, StrictOrders
    <2> HIDE DEF S
    <2>4. A # {} /\ \A a \in A : Leads(a, S, limit, LaterSeen(S))
      BY <2>1, <2>3, CutsAnswer
    <2> HIDE DEF A
    <2>5. Answers(A, S, limit, LaterSeenFirst)
      BY <2>4, TopsLead DEF Answers
    <2> QED BY <2>2, <2>5 DEF S
  <1>3. \A p \in Peers : \A x \in IF InMemory THEN M!SynapseForPeer(db, p)
                                              ELSE Q!SynapseForPeer(db, p) :
            x \in db.synapses /\ x.peer = p
    BY DEF M!SynapseForPeer, Q!SynapseForPeer
  <1> QED BY <1>1, <1>2, <1>3 DEF RecordAnswers

(* Claims that last, and the influence of a window. *)
LEMMA CountsAnswer ==
    ASSUME TypeOK, Orderly
    PROVE  /\ \A s \in Signals : /\ M!HasSeen(db, s, clock) <=> db.claimed[s] > clock
                                 /\ Q!HasSeen(db, s, clock) <=> db.claimed[s] > clock
           /\ \A p \in Peers, t \in Times :
                 /\ M!InfluenceSince(db, p, t) = Trait!Total(Kept(db, pushing).charges, p, t)
                 /\ Q!InfluenceSince(db, p, t) = Trait!Total(Kept(db, pushing).charges, p, t)
  <1>0. /\ db.seen \in [Signals -> Nat] /\ db.claimed \in [Signals -> Nat] /\ clock \in Nat
        /\ db.influence \in Seq(Charge)
    BY DatabaseFacts, TablesAssumption DEF TypeOK
  <1>1. Claims(db, clock) /\ Len(db.influence) <= MaxCharges
    BY DEF Orderly, Coherent
  <1>2. ASSUME NEW s \in Signals
        PROVE  /\ M!HasSeen(db, s, clock) <=> db.claimed[s] > clock
               /\ Q!HasSeen(db, s, clock) <=> db.claimed[s] > clock
    <2>1. db.seen[s] \in Nat /\ db.claimed[s] \in Nat
      BY <1>0
    <2>2. db.seen[s] = db.claimed[s] \/ (db.seen[s] = 0 /\ db.claimed[s] <= clock)
      BY <1>1 DEF Claims
    <2> QED BY <1>0, <2>1, <2>2 DEF M!HasSeen, Q!HasSeen
  <1>3. ASSUME NEW p \in Peers, NEW t \in Times
        PROVE  /\ M!InfluenceSince(db, p, t) = Trait!Total(Kept(db, pushing).charges, p, t)
               /\ Q!InfluenceSince(db, p, t) = Trait!Total(Kept(db, pushing).charges, p, t)
    <2> DEFINE I == {i \in DOMAIN db.influence : db.influence[i].peer = p /\ db.influence[i].at >= t}
    <2>1. Kept(db, pushing).charges = ChargesOf(db.influence)
      BY KeptParts
    <2>2. Trait!Total(ChargesOf(db.influence), p, t) = Cardinality(I)
      BY <1>0, <1>1, TotalCounts, TablesAssumption
    <2>3. M!InfluenceSince(db, p, t) = Cardinality(I) /\ Q!InfluenceSince(db, p, t) = Cardinality(I)
      BY SharedHelpers DEF M!InfluenceSince, M!Accumulated, Q!InfluenceSince
    <2> QED BY <2>1, <2>2, <2>3
  <1> QED BY <1>2, <1>3

(* Decisions found in the journal. *)
LEMMA DecisionsAnswer ==
    ASSUME TypeOK, Orderly
    PROVE  JournalAnswers
  <1> DEFINE J == db.journal
             rows == Rows(J)
             pending == {x \in rows : x.outcome = "pending"}
  <1>0. J \in Seq(Decision) /\ \A i, j \in DOMAIN J : J[i] = J[j] => i = j
    BY DatabaseFacts DEF TypeOK, Orderly, Coherent, Ids
  <1>1. IsFiniteSet(DOMAIN J) /\ IsFiniteSet(rows) /\ rows \in SUBSET Decision
    BY <1>0, RowsFinite
  <1>f. ASSUME NEW K \in SUBSET (DOMAIN J), NEW limit \in Nat
        PROVE  Answers({M!Limited(M!Retained(J, K), limit)}, {J[i] : i \in K}, limit, NoOrder)
    <2> DEFINE S == {J[i] : i \in K}
               q == Retained(J, K)
    <2>1. S \subseteq rows
      BY DEF Rows
    <2>2. IsFiniteSet(S)
      BY <1>1, <2>1, FS_Subset
    <2>3. q \in InOrder(S, {})
      BY <1>0, FilterLists
    <2> HIDE DEF S, q
    <2>4. Leads(Limited(q, limit), S, limit, {})
      BY <2>2, <2>3, CutLeads
    <2>5. Tops(Limited(q, limit), S, limit, NoOrder)
      BY <2>4, TopsLead
    <2>6. Answers({Limited(q, limit)}, S, limit, NoOrder)
      BY <2>5 DEF Answers
    <2> QED BY <2>6, SharedHelpers, Cuts DEF S, q
  <1>o. ASSUME NEW S \in SUBSET rows, NEW limit \in Nat
        PROVE  Answers({Q!Limited(q, limit) : q \in Q!Listings(S, Q!OlderFirst)}, S, limit, NoOrder)
    <2> DEFINE A == {Limited(q, limit) : q \in InOrder(S, Older(S))}
    <2>1. IsFiniteSet(S) /\ Strict(Older(S), S)
      BY <1>1, FS_Subset, StrictOrders
    <2>2. {Q!Limited(q, limit) : q \in Q!Listings(S, Q!OlderFirst)} = A
      BY ListingsInOrder, Cuts
    <2>3. A # {} /\ \A a \in A : Leads(a, S, limit, Older(S))
      BY <2>1, CutsAnswer
    <2> HIDE DEF A
    <2>4. Answers(A, S, limit, NoOrder)
      BY <2>3, TopsLead DEF Answers
    <2> QED BY <2>2, <2>4
  <1>2. ASSUME NEW s \in Signals, NEW p \in Peers
        PROVE  Answers(IF InMemory THEN M!PendingDecisionFor(db, s, p)
                                   ELSE Q!PendingDecisionFor(db, s, p),
                       {x \in pending : x.signal = s /\ x.peer = p}, 1, NoOrder)
    <2> DEFINE S == {x \in pending : x.signal = s /\ x.peer = p}
               K == {i \in DOMAIN J : M!Awaits(J[i], s, p)}
    <2>1. {J[i] : i \in K} = S /\ K \in SUBSET (DOMAIN J) /\ S \in SUBSET rows
      BY DEF Rows, M!Awaits
    <2>2. M!PendingDecisionFor(db, s, p) = {M!Limited(M!Retained(J, K), 1)}
      BY DEF M!PendingDecisionFor
    <2>3. Q!PendingDecisionFor(db, s, p) = {Q!Limited(q, 1) : q \in Q!Listings(S, Q!OlderFirst)}
      <3>1. Q!Awaiting(db, s, p) = S
        BY SharedHelpers DEF Q!Awaiting
      <3> HIDE DEF S
      <3> QED BY <3>1 DEF Q!PendingDecisionFor
    <2> HIDE DEF S, K, J
    <2>4. Answers({M!Limited(M!Retained(J, K), 1)}, S, 1, NoOrder)
      BY <1>f, <2>1
    <2>5. Answers({Q!Limited(q, 1) : q \in Q!Listings(S, Q!OlderFirst)}, S, 1, NoOrder)
      BY <1>o, <2>1
    <2>6. Answers(IF InMemory THEN M!PendingDecisionFor(db, s, p)
                              ELSE Q!PendingDecisionFor(db, s, p), S, 1, NoOrder)
      BY <2>2, <2>3, <2>4, <2>5
    <2> QED BY <2>6 DEF S
  <1>3. ASSUME NEW limit \in Limits, NEW t \in Times
        PROVE  Answers(IF InMemory THEN M!ExpiredDecisions(db, t, limit)
                                   ELSE Q!ExpiredDecisions(db, t, limit),
                       {x \in pending : x.decided < t}, limit, NoOrder)
    <2> DEFINE S == {x \in pending : x.decided < t}
               K == {i \in DOMAIN J : M!Expired(J[i], t)}
    <2>0. limit \in Nat
      BY StoresAssumption
    <2>1. {J[i] : i \in K} = S /\ K \in SUBSET (DOMAIN J) /\ S \in SUBSET rows
      BY DEF Rows, M!Expired
    <2>2. M!ExpiredDecisions(db, t, limit) = {M!Limited(M!Retained(J, K), limit)}
      BY DEF M!ExpiredDecisions
    <2>3. Q!ExpiredDecisions(db, t, limit) = {Q!Limited(q, limit) : q \in Q!Listings(S, Q!OlderFirst)}
      <3>1. {x \in Q!Rows(db.journal) : x.outcome = "pending" /\ x.decided < t} = S
        BY SharedHelpers
      <3> HIDE DEF S
      <3> QED BY <3>1 DEF Q!ExpiredDecisions
    <2> HIDE DEF S, K, J
    <2> QED BY <1>f, <1>o, <2>0, <2>1, <2>2, <2>3 DEF S
  <1>4. ASSUME NEW limit \in Limits
        PROVE  Answers(IF InMemory THEN M!RecentDecisions(db, limit)
                                   ELSE Q!RecentDecisions(db, limit), rows, limit, Newer)
    <2>0. limit \in Nat
      BY StoresAssumption
    <2>1. ASSUME NEW a, Leads(a, rows, limit, NewerThan(rows))
          PROVE  Tops(a, rows, limit, Newer)
      BY <2>1, TopsLead
    <2>2. Answers(Q!RecentDecisions(db, limit), rows, limit, Newer)
      <3> DEFINE A == {Limited(q, limit) : q \in InOrder(rows, Recent(rows))}
      <3>1. Q!RecentDecisions(db, limit) = A
        BY ListingsInOrder, Cuts, SharedHelpers DEF Q!RecentDecisions
      <3>2. Strict(Recent(rows), rows)
        BY <1>1, StrictOrders
      <3>3. NewerThan(rows) \subseteq Recent(rows)
        BY DEF NewerThan, Recent, Newer, Q!NewerFirst
      <3> HIDE DEF rows
      <3>4. A # {} /\ \A a \in A : Leads(a, rows, limit, Recent(rows))
        BY <1>1, <2>0, <3>2, CutsAnswer
      <3> HIDE DEF A
      <3>5. \A a \in A : Leads(a, rows, limit, NewerThan(rows))
        BY <3>3, <3>4 DEF Leads
      <3> QED BY <2>1, <3>1, <3>4, <3>5 DEF Answers
    <2>3. Answers(M!RecentDecisions(db, limit), rows, limit, Newer)
      <3> DEFINE G == InOrder(DOMAIN J, NewerAt(J))
                 r(f) == [k \in DOMAIN f |-> J[f[k]]]
                 A == {Limited(r(f), limit) : f \in G}
      <3>1. M!RecentDecisions(db, limit) = A
        <4> DEFINE newer(i, j) == \/ J[i].decided > J[j].decided
                                  \/ J[i].decided = J[j].decided /\ i < j
                   F == [1..Cardinality(DOMAIN J) -> DOMAIN J]
        <4>1. \A i, j \in DOMAIN J : <<i, j>> \in NewerAt(J) <=> newer(i, j)
          BY DEF NewerAt
        <4>2. \A q \in F : \A i \in DOMAIN q : q[i] \in DOMAIN J
          OBVIOUS
        <4>3. G = {q \in F : /\ Rows(q) = DOMAIN J
                             /\ \A i, j \in DOMAIN q : i < j => ~newer(q[j], q[i])}
          BY <4>1, <4>2 DEF InOrder
        <4>4. M!Listings(DOMAIN J, newer) = G
          BY <4>3, SharedHelpers DEF M!Listings
        <4>5. M!RecentDecisions(db, limit) = {M!Limited(r(q), limit) : q \in M!Listings(DOMAIN J, newer)}
          BY DEF M!RecentDecisions
        <4> HIDE DEF G
        <4> QED BY <4>4, <4>5, Cuts
      <3>2. Strict(NewerAt(J), DOMAIN J)
        BY <1>0, StrictOrders
      <3>3. G # {}
        BY <1>1, <3>2, SomeListing
      <3>4. \A i, j \in DOMAIN J : <<J[i], J[j]>> \in NewerThan(rows) => <<i, j>> \in NewerAt(J)
        BY DEF NewerThan, NewerAt, Newer
      <3>5. \A f \in G : r(f) \in InOrder(rows, NewerThan(rows))
        BY <1>0, <3>4, PositionsList
      <3> HIDE DEF G, J, r, rows
      <3>6. \A f \in G : Leads(Limited(r(f), limit), rows, limit, NewerThan(rows))
        BY <1>1, <2>0, <3>5, CutLeads
      <3> QED BY <2>1, <3>1, <3>3, <3>6 DEF Answers
    <2> QED BY <2>2, <2>3
  <1> QED BY <1>2, <1>3, <1>4 DEF JournalAnswers

(* In every state of every behaviour the queries of both backends answer    *)
(* what the trait describes: claims that still last, the influence of a     *)
(* window, and listings that are complete up to their limit and in order.   *)
THEOREM QueriesHold == Spec => []QueriesConform
  <1>1. Init => InStep
    BY DEF Init, InStep
  <1>2. Init => Orderly
    BY TraitInit
  <1>3. Init => Tidy
    <2> SUFFICES ASSUME Init PROVE Tidy
      OBVIOUS
    <2>1. db.synapses = {} /\ db.peers = {} /\ disk = db
      BY DEF Init, Empty
    <2> QED BY <2>1, KeptParts, FS_EmptySet DEF Tidy, Small
  <1>4. TypeOK /\ InStep /\ [Next]_vars => InStep'
    BY InStepStep
  <1>5. TypeOK /\ InStep /\ Orderly /\ Tidy /\ [Next]_vars => Orderly' /\ Tidy'
    BY TraitStep, TidyStep
  <1>6. TypeOK /\ Orderly /\ Tidy => QueriesConform
    BY RecordsAnswer, CountsAnswer, DecisionsAnswer DEF QueriesConform
  <1> QED BY <1>1, <1>2, <1>3, <1>4, <1>5, <1>6, TypeCorrect, PTL DEF Spec

=============================================================================
