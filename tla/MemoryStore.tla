---------------------------- MODULE MemoryStore -----------------------------
(***************************************************************************)
(* MemoryStore (ntl-core/src/store/memory.rs): every table behind a lock   *)
(* of its own.  A method is an operator from the database to what it       *)
(* leaves behind and answers; the only method that takes two locks one     *)
(* after the other is append_decision, whose halves are TakeId and Push.   *)
(***************************************************************************)
EXTENDS StoreTables

PutSynapse(db, r) ==
    Done([db EXCEPT !.synapses = {x \in @ : x.id # r.id} \cup {r}], "ok")

(* The first match in the iteration order of a hash map. *)
SynapseForPeer(db, p) == {x \in db.synapses : x.peer = p}

ListSynapses(db, min, limit) ==
    {Limited(q, limit) : q \in Listings({x \in db.synapses : x.weight >= min}, HeavierFirst)}

DeleteSynapse(db, id) == Done([db EXCEPT !.synapses = {x \in @ : x.id # id}], "ok")

PutPeer(db, r) == Done([db EXCEPT !.peers = {x \in @ : x.id # r.id} \cup {r}], "ok")

ListPeers(db, limit) == {Limited(q, limit) : q \in Listings(db.peers, LaterSeenFirst)}

CheckAndSetSeen(db, s, now) ==
    IF db.seen[s] > now
    THEN Done(db, "seen")
    ELSE Done([db EXCEPT !.seen[s] = Expiry(now)], "unseen")

HasSeen(db, s, now) == db.seen[s] > now

PurgeExpiredSeen(db, now) ==
    Done([db EXCEPT !.seen = [s \in Signals |-> IF @[s] > now THEN @[s] ELSE 0]], "ok")

SaveActivation(db) == Done([db EXCEPT !.activation = "snapshot"], "ok")

TakeId(db) == [db EXCEPT !.counter = @ + 1]

Push(db, entry) == Counted([db EXCEPT !.journal = Append(@, entry)], "id", entry.id)

(* find() looks at the first entry with the id. *)
ResolveDecision(db, id, outcome) ==
    LET found == {i \in DOMAIN db.journal : db.journal[i].id = id}
    IN  IF found = {}
        THEN Done(db, "unknown")
        ELSE LET i == CHOOSE i \in found : \A j \in found : i <= j
             IN  IF db.journal[i].outcome # "pending"
                 THEN Done(db, db.journal[i].outcome)
                 ELSE Done([db EXCEPT !.journal[i].outcome = outcome], outcome)

Awaits(e, s, p) == e.signal = s /\ e.peer = p /\ e.outcome = "pending"

PendingDecisionFor(db, s, p) ==
    {Limited(Retained(db.journal, {i \in DOMAIN db.journal : Awaits(db.journal[i], s, p)}), 1)}

Expired(e, deadline) == e.outcome = "pending" /\ e.decided < deadline

ExpiredDecisions(db, deadline, limit) ==
    {Limited(Retained(db.journal, {i \in DOMAIN db.journal : Expired(db.journal[i], deadline)}),
             limit)}

(* A stable sort by decision time, newest first. *)
RecentDecisions(db, limit) ==
    LET newer(i, j) == \/ db.journal[i].decided > db.journal[j].decided
                       \/ db.journal[i].decided = db.journal[j].decided /\ i < j
    IN  {Limited([k \in DOMAIN q |-> db.journal[q[k]]], limit)
           : q \in Listings(DOMAIN db.journal, newer)}

TrimJournal(db, cutoff) ==
    Done([db EXCEPT !.journal = Retained(@, {i \in DOMAIN @ : @[i].decided >= cutoff})], "ok")

Accumulated(db, p, start) ==
    Cardinality({i \in DOMAIN db.influence :
                    db.influence[i].peer = p /\ db.influence[i].at >= start})

RecordInfluence(db, p, now, start) ==
    LET after == [db EXCEPT !.influence = Append(@, [peer |-> p, at |-> now])]
    IN  Counted(after, "total", Accumulated(after, p, start))

InfluenceSince(db, p, start) == Accumulated(db, p, start)

PurgeInfluence(db, cutoff) ==
    Done([db EXCEPT !.influence = Retained(@, {i \in DOMAIN @ : @[i].at >= cutoff})], "ok")

PutSignalHistory(db, s, retain) ==
    IF retain THEN Done([db EXCEPT !.history = @ \cup {s}], "ok")
              ELSE Done(db, "unsupported")

=============================================================================
