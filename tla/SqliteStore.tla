---------------------------- MODULE SqliteStore -----------------------------
(***************************************************************************)
(* SqliteStore (ntl-store-sqlite/src/lib.rs, schema.rs): one connection    *)
(* behind a mutex, so a method is atomic among the callers of a process.   *)
(* What SQLite itself does (upserts, AUTOINCREMENT, the unique index, WAL  *)
(* and its synchronous levels) is modelled from how the code uses it.      *)
(***************************************************************************)
EXTENDS StoreTables

CurrentVersion == 2

(* migrate(): a newer schema is refused, an older one upgraded one version  *)
(* per transaction.                                                         *)
MigrationRefused(db) == db.version > CurrentVersion

Migrated(db) == [db EXCEPT !.version = @ + 1]

(* durability(), from PRAGMA synchronous. *)
MutDurability(inMemory, sync) == IF inMemory THEN "memory" ELSE "durable"

Durability(inMemory, sync) ==
    CASE inMemory                   -> "memory"
      [] ~inMemory /\ sync = "full" -> "durable"
      [] OTHER                      -> "best_effort"

(* UNIQUE INDEX on the peer: the upsert replaces the row with the same id   *)
(* and fails on a row of the same peer with another id.                     *)
PutSynapse(db, r) ==
    IF \E x \in db.synapses : x.peer = r.peer /\ x.id # r.id
    THEN Done(db, "refused")
    ELSE Done([db EXCEPT !.synapses = {x \in @ : x.id # r.id} \cup {r}], "ok")

SynapseForPeer(db, p) == {x \in db.synapses : x.peer = p}

MutListSynapses(db, min, limit) ==
    {q \in Listings({x \in db.synapses : x.weight >= min}, HeavierFirst) : Len(q) <= limit}

(* WHERE weight >= ? ORDER BY weight DESC, id ASC LIMIT ? *)
ListSynapses(db, min, limit) ==
    {Limited(q, limit) : q \in Listings({x \in db.synapses : x.weight >= min}, HeavierFirst)}

DeleteSynapse(db, id) == Done([db EXCEPT !.synapses = {x \in @ : x.id # id}], "ok")

PutPeer(db, r) == Done([db EXCEPT !.peers = {x \in @ : x.id # r.id} \cup {r}], "ok")

(* ORDER BY last_seen_ns DESC, id ASC LIMIT ? *)
ListPeers(db, limit) == {Limited(q, limit) : q \in Listings(db.peers, LaterSeenFirst)}

(* One upsert decides presence and inserts: it changes a row unless a live  *)
(* one is there.                                                            *)
ChangesRow(db, s, now) == db.seen[s] = 0 \/ db.seen[s] <= now

CheckAndSetSeen(db, s, now) ==
    IF ChangesRow(db, s, now)
    THEN Done([db EXCEPT !.seen[s] = Expiry(now)], "unseen")
    ELSE Done(db, "seen")

HasSeen(db, s, now) == db.seen[s] # 0 /\ db.seen[s] > now

PurgeExpiredSeen(db, now) ==
    Done([db EXCEPT !.seen = [s \in Signals |-> IF @[s] <= now THEN 0 ELSE @[s]]], "ok")

SaveActivation(db) == Done([db EXCEPT !.activation = "snapshot"], "ok")

(* AUTOINCREMENT: one more than any id ever used, also by a deleted row.    *)
(* Without it SQLite takes one more than the largest id in the table.       *)
MutNextId(db) ==
    LET ids == {db.journal[i].id : i \in DOMAIN db.journal}
    IN  IF ids = {} THEN 1 ELSE 1 + CHOOSE m \in ids : \A n \in ids : n <= m

NextId(db) == db.counter + 1

AppendDecision(db, s, p, now) ==
    LET id == NextId(db)
    IN  Counted([db EXCEPT !.journal = Append(@, [id |-> id, signal |-> s, peer |-> p,
                                                  decided |-> now, outcome |-> "pending"]),
                           !.counter = id], "id", id)

(* UPDATE ... WHERE id = ? AND outcome = 'pending', then SELECT the row. *)
Resolvable(row, id) == row.id = id /\ row.outcome = "pending"

ResolveDecision(db, id, outcome) ==
    LET updated  == [i \in DOMAIN db.journal |->
                       IF Resolvable(db.journal[i], id)
                       THEN [db.journal[i] EXCEPT !.outcome = outcome]
                       ELSE db.journal[i]]
        selected == {row \in Rows(updated) : row.id = id}
    IN  Done([db EXCEPT !.journal = updated],
             IF selected = {} THEN "unknown" ELSE (CHOOSE row \in selected : TRUE).outcome)

OlderFirst(x, y) == x.decided < y.decided

Awaiting(db, s, p) ==
    {x \in Rows(db.journal) : x.signal = s /\ x.peer = p /\ x.outcome = "pending"}

(* ORDER BY decided_at_ns ASC; nothing breaks a tie. *)
PendingDecisionFor(db, s, p) == {Limited(q, 1) : q \in Listings(Awaiting(db, s, p), OlderFirst)}

ExpiredDecisions(db, deadline, limit) ==
    {Limited(q, limit) :
        q \in Listings({x \in Rows(db.journal) : x.outcome = "pending" /\ x.decided < deadline},
                       OlderFirst)}

NewerFirst(x, y) == x.decided > y.decided \/ (x.decided = y.decided /\ x.id > y.id)

(* ORDER BY decided_at_ns DESC, id DESC LIMIT ? *)
RecentDecisions(db, limit) == {Limited(q, limit) : q \in Listings(Rows(db.journal), NewerFirst)}

TrimJournal(db, cutoff) ==
    Done([db EXCEPT !.journal = Retained(@, {i \in DOMAIN @ : ~(@[i].decided < cutoff)})], "ok")

(* INSERT, then SELECT SUM(magnitude) ... AND at_ns >= ? *)
InfluenceSince(db, p, start) ==
    Cardinality({i \in DOMAIN db.influence :
                    db.influence[i].peer = p /\ db.influence[i].at >= start})

RecordInfluence(db, p, now, start) ==
    LET after == [db EXCEPT !.influence = Append(@, [peer |-> p, at |-> now])]
    IN  Counted(after, "total", InfluenceSince(after, p, start))

PurgeInfluence(db, cutoff) ==
    Done([db EXCEPT !.influence = Retained(@, {i \in DOMAIN @ : ~(@[i].at < cutoff)})], "ok")

PutSignalHistory(db, s, retain) ==
    IF retain THEN Done([db EXCEPT !.history = @ \cup {s}], "ok")
              ELSE Done(db, "unsupported")

=============================================================================
