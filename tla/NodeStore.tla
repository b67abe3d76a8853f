----------------------------- MODULE NodeStore ------------------------------
(***************************************************************************)
(* What the NodeStore trait promises its callers                           *)
(* (ntl-core/src/store/mod.rs), whatever the backend: claims of signal     *)
(* identifiers that cannot be made twice while they last, decisions whose  *)
(* identifiers are never used again and whose first outcome stands,        *)
(* influence that adds up, records that are replaced whole.  What is left  *)
(* after a failure is a state the store was in, never a mixture.           *)
(***************************************************************************)
EXTENDS StoreTables

CONSTANT Lag  \* how stale the time a caller passes may be

VARIABLES
    kept,     \* what the store holds
    stable,   \* what a failure would leave of it
    reply,    \* the answer of the last call
    clock

vars == <<kept, stable, reply, clock>>

Nothing ==
    [synapses |-> {}, peers |-> {}, activation |-> "none", history |-> {},
     claim |-> [s \in Signals |-> 0], decisions |-> {}, spent |-> {},
     charges |-> [p \in Peers |-> [t \in Times |-> 0]]]

Init == kept = Nothing /\ stable = Nothing /\ reply = Word("none") /\ clock = 0

Now == {t \in Times : clock - Lag <= t /\ t <= clock}

(* A call is one step; it may or may not reach stable storage at once. *)
Leaves(after, r) ==
    /\ kept' = after
    /\ reply' = r
    /\ stable' \in {stable, kept'}
    /\ UNCHANGED clock

Answer(after, w) == Leaves(after, Word(w))

(* While a claim lasts no other caller is told it is the first. *)
Claim(s, now) ==
    \/ kept.claim[s] > now /\ Answer(kept, "seen")
    \/ kept.claim[s] <= clock /\ Answer([kept EXCEPT !.claim[s] = Expiry(now)], "unseen")

AppendDecision(s, p, now) ==
    \E id \in (1..MaxIds) \ kept.spent :
        Leaves([kept EXCEPT !.decisions = @ \cup {[id |-> id, signal |-> s, peer |-> p,
                                                   decided |-> now, outcome |-> "pending"]},
                            !.spent = @ \cup {id}], <<"id", id>>)

(* The first outcome wins; a trimmed decision is unknown, not an error. *)
Resolve(id, outcome) ==
    \/ /\ \A d \in kept.decisions : d.id # id
       /\ Answer(kept, "unknown")
    \/ \E d \in kept.decisions :
          /\ d.id = id
          /\ LET final == IF d.outcome = "pending" THEN outcome ELSE d.outcome
             IN  Answer([kept EXCEPT !.decisions = (@ \ {d}) \cup {[d EXCEPT !.outcome = final]}],
                        final)

TrimJournal(cutoff) ==
    Answer([kept EXCEPT !.decisions = {d \in @ : d.decided >= cutoff}], "ok")

Total(charges, p, start) ==
    Cardinality({u \in Times \X (1..MaxCharges) : u[1] >= start /\ u[2] <= charges[p][u[1]]})

Record(p, now, start) ==
    LET after == [kept.charges EXCEPT ![p][now] = @ + 1]
    IN  Leaves([kept EXCEPT !.charges = after], <<"total", Total(after, p, start)>>)

PurgeInfluence(cutoff) ==
    Answer([kept EXCEPT !.charges =
               [p \in Peers |-> [t \in Times |-> IF t < cutoff THEN 0 ELSE @[p][t]]]], "ok")

Replaced(S, r) == {x \in S : x.id # r.id} \cup {r}

(* A backend may insist on one synapse per peer. *)
PutSynapse(r) ==
    \/ Answer([kept EXCEPT !.synapses = Replaced(@, r)], "ok")
    \/ /\ \E x \in kept.synapses : x.peer = r.peer /\ x.id # r.id
       /\ Answer(kept, "refused")

DeleteSynapse(id) == Answer([kept EXCEPT !.synapses = {x \in @ : x.id # id}], "ok")

PutPeer(r) == Answer([kept EXCEPT !.peers = Replaced(@, r)], "ok")

SaveActivation == Answer([kept EXCEPT !.activation = "snapshot"], "ok")

PutSignalHistory(s) ==
    \/ Answer([kept EXCEPT !.history = @ \cup {s}], "ok")
    \/ Answer(kept, "unsupported")

(* migrate(), flush() and purge_expired_seen() change nothing a caller sees. *)
Upkeep == Answer(kept, "ok") \/ Leaves(kept, reply)

Restart ==
    /\ kept' \in {kept, stable}
    /\ reply' = Word("none")
    /\ UNCHANGED <<stable, clock>>

Tick == clock + 1 \in Times /\ clock' = clock + 1 /\ UNCHANGED <<kept, stable, reply>>

Next ==
    \/ \E s \in Signals : PutSignalHistory(s) \/ \E now \in Now : Claim(s, now)
    \/ \E s \in Signals, p \in Peers, t \in {t \in Times : t <= clock} : AppendDecision(s, p, t)
    \/ \E id \in 1..MaxIds, o \in Outcomes : Resolve(id, o)
    \/ \E t \in Times : TrimJournal(t) \/ PurgeInfluence(t)
    \/ \E p \in Peers, now \in Now, start \in Times : Record(p, now, start)
    \/ \E r \in Synapse : PutSynapse(r)
    \/ \E id \in SynapseIds : DeleteSynapse(id)
    \/ \E r \in Peer : PutPeer(r)
    \/ SaveActivation \/ Upkeep \/ Restart \/ Tick

Spec == Init /\ [][Next]_vars

=============================================================================
