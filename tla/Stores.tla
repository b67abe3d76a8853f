------------------------------- MODULE Stores -------------------------------
(***************************************************************************)
(* A node's store in use: opened by a process (ntl-net/src/bin_support.rs, *)
(* open_store), called by its tasks, maintained, and lost with the process *)
(* or with the power.  The backend is the MemoryStore or a SqliteStore.    *)
(*                                                                         *)
(* Callers read the clock before they call, so the time they pass may be   *)
(* behind.  No method touches two tables, so a behaviour exercises the     *)
(* tables of one area.                                                     *)
(***************************************************************************)
EXTENDS StoreTables

CONSTANTS
    Backends,   \* the configurations of a store
    Areas,      \* the groups of tables exercised
    Versions,   \* schema versions found on disk
    Lag,        \* how far behind the time a caller passes may be
    Window,     \* the influence window
    Limits      \* the limits callers give their queries

ASSUME StoresAssumption ==
    /\ Backends \subseteq [engine : {"memory", "sqlite"}, home : {"ram", "disk"},
                           sync : {"full", "normal"}, retain : BOOLEAN]
    /\ \A b \in Backends : b.engine = "memory" => b.home = "ram"
    /\ Areas \subseteq {"journal", "dedup", "influence", "synapses", "peers", "identity"}
    /\ Versions \subseteq Nat
    /\ Lag \in Nat /\ Window \in Nat
    /\ Limits \subseteq Nat

M == INSTANCE MemoryStore
Q == INSTANCE SqliteStore

VARIABLES
    backend,
    area,
    mode,      \* how far the process is: down or dark after a failure, ... open
    db,        \* the database as callers see it
    disk,      \* what is on stable storage
    pushing,   \* MemoryStore: entries with an id that are not yet in the journal
    reply,     \* the answer of the last call
    me,        \* the identity the process runs under
    known,     \* history: the identity first loaded from stable storage or flushed
    clock

who == <<me, known>>

vars == <<backend, area, mode, db, disk, pushing, reply, clock, who>>

InMemory == backend.engine = "memory"
OnDisk == backend.home = "disk"

TypeOK ==
    /\ backend \in Backends /\ area \in Areas
    /\ mode \in {"down", "dark", "opening", "open", "refused",
                 "loading", "creating", "naming", "flushing", "building"}
    /\ me \in Seeds \cup {NoSeed} /\ known \in Seeds \cup {NoSeed}
    /\ db \in Database /\ disk \in Database
    /\ pushing \subseteq Decision
    /\ reply \in Reply
    /\ clock \in Times

Init ==
    /\ backend \in Backends /\ area \in Areas
    /\ mode = "down"
    /\ \E v \in Versions : db = Empty(IF backend.home = "disk" THEN v ELSE 0)
    /\ disk = db
    /\ pushing = {}
    /\ reply = Word("none")
    /\ me = NoSeed /\ known = NoSeed
    /\ clock = 0

-----------------------------------------------------------------------------
(* Opening: the schema is brought up to date one transaction at a time.     *)

(* A commit is on stable storage at once only under synchronous=FULL. *)
Committed(after) == IF OnDisk /\ backend.sync = "full" THEN after ELSE disk

OpenStore ==
    /\ mode \in {"down", "dark"}
    /\ mode' = "opening"
    /\ UNCHANGED <<backend, area, db, disk, pushing, reply, clock, who>>

Migrate ==
    /\ mode = "opening" /\ ~InMemory
    /\ db.version < Q!CurrentVersion
    /\ db' = Q!Migrated(db)
    /\ disk' = Committed(db')
    /\ UNCHANGED <<backend, area, mode, pushing, reply, clock, who>>

Ready ==
    /\ mode = "opening"
    /\ InMemory \/ db.version >= Q!CurrentVersion
    /\ mode' = CASE ~InMemory /\ Q!MigrationRefused(db) -> "refused"
                 [] area = "identity" -> "loading"
                 [] OTHER -> "open"
    /\ UNCHANGED <<backend, area, db, disk, pushing, reply, clock, who>>

-----------------------------------------------------------------------------
(* Who the process is: Identity::load_or_create and, once it has returned,  *)
(* NodeBuilder::build, one store call at a time.                            *)

Identify(stage, next, after, self) ==
    /\ mode = stage
    /\ mode' = next
    /\ db' = after
    /\ me' = self
    /\ UNCHANGED <<backend, area, pushing, reply, clock>>

First(seed) == IF known = NoSeed THEN seed ELSE known

LoadSeed ==
    /\ db.seed # NoSeed
    /\ Identify("loading", "building", db, db.seed)
    /\ known' = IF disk.seed = db.seed THEN First(db.seed) ELSE known
    /\ UNCHANGED disk

(* No two draws of the operating system's generator agree. *)
CreateSeed ==
    /\ db.seed = NoSeed
    /\ \E s \in Seeds \ {disk.seed, known} : Identify("loading", "creating", db, s)
    /\ UNCHANGED <<disk, known>>

PutSeed ==
    /\ Identify("creating", "naming", [db EXCEPT !.seed = me], me)
    /\ disk' = Committed(db')
    /\ UNCHANGED known

PutNodeId ==
    /\ Identify("naming", "flushing", [db EXCEPT !.nodeId = me], me)
    /\ disk' = Committed(db')
    /\ UNCHANGED known

MutFlushIdentity ==
    /\ Identify("flushing", "building", db, me)
    /\ known' = First(me)
    /\ UNCHANGED disk

FlushIdentity ==
    /\ Identify("flushing", "building", db, me)
    /\ disk' = IF OnDisk THEN db ELSE disk
    /\ known' = First(me)

BuildNode ==
    /\ Identify("building", "open", [db EXCEPT !.nodeId = me], me)
    /\ disk' = Committed(db')
    /\ UNCHANGED known

-----------------------------------------------------------------------------
(* Calls. *)

Now == {t \in Times : clock - Lag <= t /\ t <= clock}

Serve(tables, result) ==
    /\ mode = "open" /\ area = tables
    /\ db' = result.db
    /\ reply' = result.reply
    /\ disk' = Committed(db')
    /\ UNCHANGED <<backend, area, mode, pushing, clock, who>>

Claimed(result, s, now) ==
    IF result.reply = Word("unseen") THEN [result EXCEPT !.db.claimed[s] = Expiry(now)] ELSE result

CheckAndSetSeen(s, now) ==
    Serve("dedup", Claimed(IF InMemory THEN M!CheckAndSetSeen(db, s, now)
                                       ELSE Q!CheckAndSetSeen(db, s, now), s, now))

PurgeExpiredSeen(now) ==
    Serve("dedup", IF InMemory THEN M!PurgeExpiredSeen(db, now) ELSE Q!PurgeExpiredSeen(db, now))

(* MemoryStore::append_decision takes the counter's lock, then the          *)
(* journal's: two callers may push in the other order.                      *)
TakeId(s, p, now) ==
    /\ mode = "open" /\ area = "journal" /\ InMemory
    /\ db.counter < MaxIds
    /\ db' = M!TakeId(db)
    /\ pushing' = pushing \cup {[id |-> db'.counter, signal |-> s, peer |-> p,
                                 decided |-> now, outcome |-> "pending"]}
    /\ UNCHANGED <<backend, area, mode, disk, reply, clock, who>>

Push(entry) ==
    /\ mode = "open"
    /\ db' = M!Push(db, entry).db
    /\ reply' = M!Push(db, entry).reply
    /\ pushing' = pushing \ {entry}
    /\ UNCHANGED <<backend, area, mode, disk, clock, who>>

AppendDecision(s, p, now) ==
    /\ ~InMemory
    /\ db.counter < MaxIds
    /\ Serve("journal", Q!AppendDecision(db, s, p, now))

ResolveDecision(id, outcome) ==
    Serve("journal", IF InMemory THEN M!ResolveDecision(db, id, outcome)
                                 ELSE Q!ResolveDecision(db, id, outcome))

TrimJournal(cutoff) ==
    Serve("journal", IF InMemory THEN M!TrimJournal(db, cutoff) ELSE Q!TrimJournal(db, cutoff))

RecordInfluence(p, now) ==
    /\ Len(db.influence) < MaxCharges
    /\ LET start == IF now < Window THEN 0 ELSE now - Window
       IN  Serve("influence", IF InMemory THEN M!RecordInfluence(db, p, now, start)
                                          ELSE Q!RecordInfluence(db, p, now, start))

PurgeInfluence(cutoff) ==
    Serve("influence", IF InMemory THEN M!PurgeInfluence(db, cutoff) ELSE Q!PurgeInfluence(db, cutoff))

PutSynapse(r) ==
    Serve("synapses", IF InMemory THEN M!PutSynapse(db, r) ELSE Q!PutSynapse(db, r))

DeleteSynapse(id) ==
    Serve("synapses", IF InMemory THEN M!DeleteSynapse(db, id) ELSE Q!DeleteSynapse(db, id))

PutPeer(r) == Serve("peers", IF InMemory THEN M!PutPeer(db, r) ELSE Q!PutPeer(db, r))

SaveActivation ==
    Serve("dedup", IF InMemory THEN M!SaveActivation(db) ELSE Q!SaveActivation(db))

PutSignalHistory(s) ==
    Serve("dedup", IF InMemory THEN M!PutSignalHistory(db, s, backend.retain)
                               ELSE Q!PutSignalHistory(db, s, backend.retain))

(* flush(): PRAGMA wal_checkpoint brings the log to the database file. *)
Flush ==
    /\ mode = "open"
    /\ disk' = IF OnDisk THEN db ELSE disk
    /\ reply' = Word("ok")
    /\ UNCHANGED <<backend, area, mode, db, pushing, clock, who>>

-----------------------------------------------------------------------------
(* What happens to the store. *)

(* SQLite and the system write back on their own. *)
WriteBack ==
    /\ OnDisk /\ disk # db
    /\ disk' = db
    /\ UNCHANGED <<backend, area, mode, db, pushing, reply, clock, who>>

Fails(how, left) ==
    /\ mode \notin {"down", "dark"}
    /\ mode' = how
    /\ db' = left
    /\ pushing' = {}
    /\ reply' = Word("none")
    /\ me' = NoSeed
    /\ UNCHANGED <<backend, area, disk, known, clock>>

(* The operating system keeps what a dead process committed. *)
Kill == Fails("down", IF OnDisk THEN db ELSE disk)

PowerLoss == Fails("dark", disk)

Tick ==
    /\ clock + 1 \in Times
    /\ clock' = clock + 1
    /\ UNCHANGED <<backend, area, mode, db, disk, pushing, reply, who>>

Next ==
    \/ OpenStore \/ Migrate \/ Ready
    \/ LoadSeed \/ CreateSeed \/ PutSeed \/ PutNodeId \/ FlushIdentity \/ BuildNode
    \/ \E s \in Signals, now \in Now : CheckAndSetSeen(s, now)
    \/ \E now \in Now : PurgeExpiredSeen(now)
    \/ \E s \in Signals, p \in Peers, now \in Now : TakeId(s, p, now) \/ AppendDecision(s, p, now)
    \/ \E entry \in pushing : Push(entry)
    \/ \E id \in 1..MaxIds, o \in Outcomes : ResolveDecision(id, o)
    \/ \E t \in Times : TrimJournal(t) \/ PurgeInfluence(t)
    \/ \E p \in Peers, now \in Now : RecordInfluence(p, now)
    \/ \E r \in Synapse : PutSynapse(r)
    \/ \E id \in SynapseIds : DeleteSynapse(id)
    \/ \E r \in Peer : r.lastSeen \in Now /\ PutPeer(r)
    \/ SaveActivation
    \/ \E s \in Signals : PutSignalHistory(s)
    \/ Flush \/ WriteBack \/ Kill \/ PowerLoss \/ Tick

Spec == Init /\ [][Next]_vars

-----------------------------------------------------------------------------
(* The refinement: what the trait talks about, in a database of which the   *)
(* entries in p have an id and are not there yet.                           *)
Kept(d, p) ==
    [synapses   |-> d.synapses, peers |-> d.peers,
     activation |-> d.activation, history |-> d.history,
     claim      |-> d.claimed,
     decisions  |-> Rows(d.journal),
     spent      |-> (1..d.counter) \ {e.id : e \in p},
     charges    |-> [x \in Peers |-> [t \in Times |->
                       Cardinality({i \in DOMAIN d.influence :
                                       d.influence[i] = [peer |-> x, at |-> t]})]]]

Trait == INSTANCE NodeStore WITH kept <- Kept(db, pushing), stable <- Kept(disk, {})

(* Both backends keep the trait's promises through maintenance, restarts    *)
(* and power loss: claims outlive the purge, the two halves of a memory     *)
(* append look like one step, journal ids are not reused after a trim, the  *)
(* first outcome stands, and a failure leaves a state the store was in.     *)
ConformsToTrait == Trait!Spec

(* Nobody is promised more than the backend does: what durability() says    *)
(* survives a process or a power failure does ("reporting otherwise would   *)
(* mislead an operator").                                                   *)
Report == IF InMemory THEN "memory" ELSE Q!Durability(~OnDisk, backend.sync)

DurabilityHonest ==
    [][/\ mode' = "down" /\ Report # "memory" => db' = db
       /\ mode' = "dark" /\ Report = "durable" => db' = db]_vars

(* "Identity must persist": once load_or_create has returned with a seed    *)
(* that is on disk, every later process runs under it, wherever a process   *)
(* or power failure cuts it short, and the node identifier is its seed's.   *)
(* A seed whose process died before the flush is loaded as it is found, and *)
(* may still be lost.                                                       *)
IdentityPersists ==
    area = "identity" /\ mode = "open" /\ OnDisk =>
        /\ known # NoSeed => me = known
        /\ db.seed = me /\ db.nodeId = me

-----------------------------------------------------------------------------
(* Queries. *)

(* q lists as many members of S as the limit allows, the first in the order *)
(* first, each once.                                                        *)
Tops(q, S, limit, Before(_, _)) ==
    /\ Len(q) = Least(limit, Cardinality(S)) /\ Rows(q) \subseteq S
    /\ \A i, j \in DOMAIN q : i < j => q[i] # q[j] /\ ~Before(q[j], q[i])
    /\ \A x \in S \ Rows(q), y \in Rows(q) : ~Before(x, y)

Answers(answers, S, limit, Before(_, _)) ==
    answers # {} /\ \A q \in answers : Tops(q, S, limit, Before)

NoOrder(x, y) == FALSE
Newer(x, y) == x.decided > y.decided

JournalAnswers ==
    LET rows == Rows(db.journal)
        pending == {x \in rows : x.outcome = "pending"}
    IN  /\ \A s \in Signals, p \in Peers :
              Answers(IF InMemory THEN M!PendingDecisionFor(db, s, p)
                                  ELSE Q!PendingDecisionFor(db, s, p),
                      {x \in pending : x.signal = s /\ x.peer = p}, 1, NoOrder)
        /\ \A limit \in Limits, t \in Times :
              Answers(IF InMemory THEN M!ExpiredDecisions(db, t, limit)
                                  ELSE Q!ExpiredDecisions(db, t, limit),
                      {x \in pending : x.decided < t}, limit, NoOrder)
        /\ \A limit \in Limits :
              Answers(IF InMemory THEN M!RecentDecisions(db, limit)
                                  ELSE Q!RecentDecisions(db, limit),
                      rows, limit, Newer)

RecordAnswers ==
    /\ \A limit \in Limits, w \in Weights :
          Answers(IF InMemory THEN M!ListSynapses(db, w, limit) ELSE Q!ListSynapses(db, w, limit),
                  {x \in db.synapses : x.weight >= w}, limit, HeavierFirst)
    /\ \A limit \in Limits :
          Answers(IF InMemory THEN M!ListPeers(db, limit) ELSE Q!ListPeers(db, limit),
                  db.peers, limit, LaterSeenFirst)
    /\ \A p \in Peers : \A x \in IF InMemory THEN M!SynapseForPeer(db, p)
                                             ELSE Q!SynapseForPeer(db, p) :
          x \in db.synapses /\ x.peer = p

(* In every state a query gets what the trait describes: the claims that    *)
(* still last, as many decisions as the limit allows and only matching      *)
(* ones, listings in their order with nothing left out that should come     *)
(* first, and the influence of the window.                                  *)
QueriesConform ==
    mode = "open" =>
        /\ \A s \in Signals :
              (IF InMemory THEN M!HasSeen(db, s, clock) ELSE Q!HasSeen(db, s, clock))
                 <=> db.claimed[s] > clock
        /\ \A p \in Peers, t \in Times :
              (IF InMemory THEN M!InfluenceSince(db, p, t) ELSE Q!InfluenceSince(db, p, t))
                 = Trait!Total(Kept(db, pushing).charges, p, t)
        /\ area = "journal" => JournalAnswers
        /\ area \in {"synapses", "peers"} => RecordAnswers

=============================================================================
