--------------------------- MODULE LearningProofs ---------------------------
(***************************************************************************)
(* The learning node, proved for any number of peers, any configuration    *)
(* and any interleaving, with store errors and crashes between store calls.*)
(*                                                                         *)
(*   TeachesOnce   every decision teaches exactly once, provided no two    *)
(*                 handlers read the same instant (CoarseClock = FALSE);   *)
(*                 invariant LInv, about who owns a resolved decision      *)
(*   TypeCorrect   weights stay in range; invariant Sound, which adds that *)
(*                 every record a handler carries is fit to be written     *)
(*   CapHolds      the influence cap; invariant Paid: gains are charged    *)
(*                 before they are written, and read before that           *)
(*   PrunesHold    a pruned synapse waits for its cooldown, and            *)
(*   BudgetHolds   a renormalisation ends within budget, when handlers do  *)
(*                 not interleave (Parallel = FALSE); invariant Orderly:   *)
(*                 what a handler carries still goes with the store        *)
(***************************************************************************)
EXTENDS Learning, TotalsProofs, SequenceTheorems

(* The items of a task's todo list, and the fields of a task. *)
Item == [id : Nat, outcome : Resolutions]
Fields == {"phase", "todo", "stamp", "used", "rec", "delta", "writes"}

(* The phases of a handler that has a decision to resolve, and of one that  *)
(* has won it and still has to write the synapse.                           *)
Learning == {"resolve", "influence", "read", "charge", "put", "list", "rewrite"}
Owning == {"influence", "read", "charge", "put"}

(* Task t has won decision d and has not written its lesson yet. *)
Owns(t, d) == task[t].phase \in Owning /\ task[t].todo[1].id = d

(* What a task is in the middle of, when the journal has n entries. *)
WorkOK(w, n) ==
    /\ w = [f \in Fields |-> w[f]]
    /\ w.phase \in Phases
    /\ w.stamp \in Clock
    /\ w.todo \in Seq(Item)
    /\ \A i \in 1..Len(w.todo) : w.todo[i].id \in 1..n
    /\ w.phase \in Learning => w.todo # <<>>

(* Types of what decisions and handlers are made of. *)
Shape ==
    /\ clock \in Clock
    /\ journal \in Seq(Entry)
    /\ taught \in [Decisions -> Nat]
    /\ broken \in BOOLEAN
    /\ task = [t \in Tasks |-> task[t]]
    /\ \A t \in Tasks : WorkOK(task[t], Len(journal))

(* A decision somebody owns is resolved and has not taught yet, it has one  *)
(* owner, and a resolved decision nobody owns has taught.                   *)
Ownership ==
    /\ Len(journal) <= MaxDecisions
    /\ \A t \in Tasks, d \in Decisions :
          Owns(t, d) => journal[d].outcome # "pending" /\ taught[d] = 0
    /\ \A t, u \in Tasks, d \in Decisions : Owns(t, d) /\ Owns(u, d) => t = u
    /\ \A d \in Decisions : taught[d] <= 1
    /\ \A d \in Decisions : d > Len(journal) => taught[d] = 0
    /\ \A d \in 1..Len(journal) : journal[d].outcome = "pending" => taught[d] = 0
    /\ \A d \in 1..Len(journal) :
          ~broken /\ journal[d].outcome # "pending"
             => taught[d] = 1 \/ \E t \in Tasks : Owns(t, d)

(* The inductive invariant of TaughtOnce. *)
LInv == Shape /\ Ownership

-----------------------------------------------------------------------------
(* An idle task is well formed. *)
LEMMA FreeOK ==
    ASSUME NEW n \in Nat
    PROVE  WorkOK(Free, n) /\ Free.phase = "idle" /\ Free.todo = <<>>
  <1>1. Free.phase = "idle" /\ Free.todo = <<>> /\ Free.stamp = 0
    BY DEF Free
  <1>2. Free = [f \in Fields |-> Free[f]]
    BY DEF Free, Fields
  <1>3. 0 \in Clock
    BY LearningAssumption DEF Clock
  <1>4. <<>> \in Seq(Item) /\ Len(<<>>) = 0
    OBVIOUS
  <1> QED BY <1>1, <1>2, <1>3, <1>4 DEF WorkOK, Phases, Learning

(* A task moves on without taking or giving up a decision. *)
LEMMA TaskMoves ==
    ASSUME LInv, NEW t \in Tasks, NEW w, WorkOK(w, Len(journal)),
           w.phase \in Owning <=> task[t].phase \in Owning,
           w.phase \in Owning => w.todo = task[t].todo,
           task' = [task EXCEPT ![t] = w],
           clock' = clock, journal' = journal, taught' = taught, broken' = broken
    PROVE  LInv'
  <1>1. task' = [u \in Tasks |-> task'[u]] /\ \A u \in Tasks : task'[u] = IF u = t THEN w ELSE task[u]
    BY DEF LInv, Shape
  <1>2. Shape'
    BY <1>1 DEF LInv, Shape
  <1>3. \A u \in Tasks : \A d : Owns(u, d)' <=> Owns(u, d)
    BY <1>1 DEF Owns
  <1>4. Ownership'
    BY <1>3 DEF LInv, Ownership
  <1> QED BY <1>2, <1>4 DEF LInv

(* A handler with something to do names a journalled decision. *)
LEMMA CurrentOK ==
    ASSUME LInv, NEW t \in Tasks, task[t].phase \in Learning
    PROVE  /\ Current(t) = task[t].todo[1] /\ task[t].todo[1] \in Item
           /\ task[t].todo[1].id \in 1..Len(journal)
           /\ task[t].todo[1].id \in Decisions
  <1> DEFINE s == task[t].todo
  <1>1. s \in Seq(Item) /\ s # <<>> /\ \A i \in 1..Len(s) : s[i].id \in 1..Len(journal)
    BY DEF LInv, Shape, WorkOK
  <1>2. Len(journal) \in Nat /\ Len(journal) <= MaxDecisions /\ MaxDecisions \in Nat
    BY LearningAssumption DEF LInv, Shape, Ownership
  <1>3. Current(t) = Head(s)
    BY DEF Current
  <1> HIDE DEF s
  <1>4. Len(s) \in Nat /\ Len(s) # 0
    BY <1>1, EmptySeq
  <1>5. 1 \in 1..Len(s) /\ s[1] \in Item /\ Head(s) = s[1]
    BY <1>1, <1>4
  <1>6. s[1].id \in 1..Len(journal)
    BY <1>1, <1>5
  <1>7. s[1].id \in Decisions
    BY <1>2, <1>6 DEF Decisions
  <1> QED BY <1>3, <1>5, <1>6, <1>7 DEF s

(* A handler goes on to its next decision, or ends. *)
LEMMA ProceedOK ==
    ASSUME LInv, NEW t \in Tasks, task[t].phase \in Learning
    PROVE  WorkOK(Proceed(t), Len(journal)) /\ Proceed(t).phase \in {"idle", "resolve"}
  <1> DEFINE w == task[t]
  <1>1. /\ WorkOK(w, Len(journal)) /\ Len(journal) \in Nat
        /\ w.todo \in Seq(Item) /\ Len(w.todo) \in Nat /\ w.todo # <<>>
        /\ w.stamp \in Clock
    BY DEF LInv, Shape, WorkOK
  <1>2. CASE Len(w.todo) > 1
    <2> DEFINE r == [Free EXCEPT !.phase = "resolve", !.stamp = w.stamp, !.todo = Tail(w.todo)]
    <2>1. /\ r = [f \in Fields |-> r[f]] /\ r.phase = "resolve"
          /\ r.stamp = w.stamp /\ r.todo = Tail(w.todo)
      BY DEF Free, Fields
    <2>2. /\ Tail(w.todo) \in Seq(Item) /\ Len(Tail(w.todo)) = Len(w.todo) - 1
          /\ \A i \in 1..Len(Tail(w.todo)) : Tail(w.todo)[i] = w.todo[i + 1]
      BY <1>1
    <2>3. Tail(w.todo) # <<>>
      BY <1>1, <1>2, <2>2, SMTT(30)
    <2>4. \A i \in 1..Len(Tail(w.todo)) : Tail(w.todo)[i].id \in 1..Len(journal)
      BY <1>1, <2>2, SMTT(30) DEF WorkOK
    <2>5. WorkOK(r, Len(journal))
      BY <1>1, <2>1, <2>2, <2>3, <2>4 DEF WorkOK, Phases
    <2> QED BY <1>2, <2>1, <2>5 DEF Proceed
  <1>3. CASE ~(Len(w.todo) > 1)
    BY <1>1, <1>3, FreeOK DEF Proceed
  <1> QED BY <1>2, <1>3

(* A new decision is journalled; nobody owns it yet. *)
LEMMA NewDecision ==
    ASSUME LInv, NEW p \in Peers, Journalled(p),
           task' = [u \in Tasks |-> task'[u]],
           \A u \in Tasks : WorkOK(task'[u], Len(journal) + 1),
           \A u \in Tasks : \A d : Owns(u, d)' <=> Owns(u, d),
           clock' = clock, taught' = taught, broken' = broken
    PROVE  LInv'
  <1> DEFINE e == [peer |-> p, outcome |-> "pending", at |-> clock, resolved |-> 0]
  <1>1. /\ journal \in Seq(Entry) /\ Len(journal) \in Nat /\ Len(journal) < MaxDecisions
        /\ journal' = Append(journal, e)
    BY DEF LInv, Shape, Journalled
  <1>2. e \in Entry
    BY LearningAssumption DEF LInv, Shape, Entry, Clock
  <1>3. /\ journal' \in Seq(Entry) /\ Len(journal') = Len(journal) + 1
        /\ \A i \in 1..Len(journal) : journal'[i] = journal[i]
        /\ journal'[Len(journal) + 1] = e
    BY <1>1, <1>2
  <1>4. Shape'
    BY <1>3 DEF LInv, Shape
  <1>5. ASSUME NEW u \in Tasks, NEW d, Owns(u, d) PROVE d \in 1..Len(journal)
    BY <1>5, CurrentOK DEF Owns, Owning, Learning
  <1>6. e.outcome = "pending"
    OBVIOUS
  <1> HIDE DEF e
  <1>7. Len(journal') <= MaxDecisions /\ MaxDecisions \in Nat
    BY <1>1, <1>3, LearningAssumption
  <1>8. \A u \in Tasks, d \in Decisions :
          Owns(u, d)' => journal'[d].outcome # "pending" /\ taught'[d] = 0
    BY <1>3, <1>5 DEF LInv, Ownership
  <1>9. \A u, v \in Tasks, d \in Decisions : Owns(u, d)' /\ Owns(v, d)' => u = v
    BY DEF LInv, Ownership
  <1>10. \A d \in 1..Len(journal') : journal'[d].outcome = "pending" => taught'[d] = 0
    <2> SUFFICES ASSUME NEW d \in 1..Len(journal'), journal'[d].outcome = "pending"
                 PROVE  taught[d] = 0
      OBVIOUS
    <2>1. CASE d \in 1..Len(journal)
      BY <1>3, <2>1 DEF LInv, Ownership
    <2>2. CASE d = Len(journal) + 1
      <3>1. d \in Decisions /\ d > Len(journal)
        BY <1>1, <1>7, <2>2 DEF Decisions
      <3> QED BY <3>1 DEF LInv, Ownership
    <2> QED BY <1>1, <1>3, <2>1, <2>2
  <1>11. \A d \in 1..Len(journal') :
            ~broken' /\ journal'[d].outcome # "pending"
               => taught'[d] = 1 \/ \E u \in Tasks : Owns(u, d)'
    <2> SUFFICES ASSUME NEW d \in 1..Len(journal'), ~broken, journal'[d].outcome # "pending"
                 PROVE  taught[d] = 1 \/ \E u \in Tasks : Owns(u, d)
      OBVIOUS
    <2>1. d \in 1..Len(journal)
      BY <1>1, <1>3, <1>6
    <2> QED BY <1>3, <2>1 DEF LInv, Ownership
  <1>12. \A d \in Decisions : taught'[d] <= 1
    BY DEF LInv, Ownership
  <1>13. \A d \in Decisions : d > Len(journal') => taught'[d] = 0
    <2> SUFFICES ASSUME NEW d \in Decisions, d > Len(journal')
                 PROVE  taught[d] = 0
      OBVIOUS
    <2>1. d > Len(journal)
      BY <1>1, <1>3, <1>7 DEF Decisions
    <2> QED BY <2>1 DEF LInv, Ownership
  <1>14. Ownership'
    BY <1>7, <1>8, <1>9, <1>10, <1>11, <1>12, <1>13 DEF Ownership
  <1> QED BY <1>4, <1>14 DEF LInv

(* The first to resolve a decision becomes its owner; a later one learns    *)
(* nothing.                                                                 *)
LEMMA ResolveInv ==
    ASSUME LInv, ~CoarseClock, NEW t \in Tasks, Resolve(t)
    PROVE  LInv'
  <1> DEFINE w == task[t]
             d == Current(t).id
             now == IF Current(t).outcome = "transport_failure" THEN clock ELSE w.stamp
  <1>1. /\ WorkOK(w, Len(journal)) /\ Len(journal) \in Nat /\ w.phase = "resolve"
        /\ w.todo \in Seq(Item) /\ w.todo # <<>> /\ Len(w.todo) \in Nat
        /\ journal \in Seq(Entry)
    BY DEF LInv, Shape, WorkOK, Resolve, At, Learning
  <1>2. /\ Current(t) = w.todo[1] /\ Current(t) \in Item
        /\ d \in 1..Len(journal) /\ d \in Decisions
    BY <1>1, CurrentOK DEF Learning
  <1>3. now \in Clock
    BY <1>1 DEF LInv, Shape, WorkOK
  <1>4. Current(t).outcome \in Resolutions
    BY <1>2 DEF Item
  <1>6. CASE journal[d].outcome = "pending"
    <2>1. /\ journal' = [journal EXCEPT ![d].outcome = Current(t).outcome, ![d].resolved = now]
          /\ task' = [task EXCEPT ![t].phase = "influence", ![t].stamp = now]
          /\ clock' = clock /\ taught' = taught /\ broken' = broken
      BY <1>6 DEF Resolve, Wins
    <2>2. /\ journal' \in Seq(Entry) /\ Len(journal') = Len(journal)
          /\ journal'[d].outcome # "pending"
          /\ \A i \in 1..Len(journal) : i # d => journal'[i] = journal[i]
      <3>1. journal[d] \in Entry
        BY <1>1, <1>2
      <3>2. [journal[d] EXCEPT !.outcome = Current(t).outcome, !.resolved = now] \in Entry
        BY <1>3, <1>4, <3>1 DEF Entry
      <3>3. journal' = [journal EXCEPT ![d] = [journal[d] EXCEPT !.outcome = Current(t).outcome,
                                                                 !.resolved = now]]
        BY <2>1
      <3>4. [journal[d] EXCEPT !.outcome = Current(t).outcome, !.resolved = now].outcome # "pending"
        BY <1>4, <3>1 DEF Entry, Resolutions
      <3> HIDE DEF d, now
      <3> QED BY <1>1, <1>2, <3>2, <3>3, <3>4
    <2>3. /\ task' = [u \in Tasks |-> task'[u]]
          /\ \A u \in Tasks : u # t => task'[u] = task[u]
          /\ task'[t] = [w EXCEPT !.phase = "influence", !.stamp = now]
      BY <2>1 DEF LInv, Shape
    <2>4. /\ task'[t] = [f \in Fields |-> task'[t][f]]
          /\ task'[t].phase = "influence" /\ task'[t].stamp = now /\ task'[t].todo = w.todo
      <3>1. w = [f \in Fields |-> w[f]]
        BY <1>1 DEF WorkOK
      <3> HIDE DEF w, now
      <3> QED BY <2>3, <3>1 DEF Fields
    <2>5. WorkOK(task'[t], Len(journal))
      BY <1>1, <1>3, <2>4 DEF WorkOK, Phases
    <2>6. Shape'
      BY <2>1, <2>2, <2>3, <2>5 DEF LInv, Shape
    <2>7. \A u \in Tasks : \A c : u # t => (Owns(u, c)' <=> Owns(u, c))
      BY <2>3 DEF Owns
    <2>8. \A c : Owns(t, c)' <=> c = d
      BY <1>2, <2>4 DEF Owns, Owning
    <2>9. \A u \in Tasks : ~Owns(u, d) /\ taught[d] = 0
      BY <1>2, <1>6 DEF LInv, Ownership
    <2>10. \A c : ~Owns(t, c)
      BY <1>1 DEF Owns, Owning
    <2> HIDE DEF d, now, w
    <2>11. \A u \in Tasks, c \in Decisions :
              Owns(u, c)' => journal'[c].outcome # "pending" /\ taught'[c] = 0
      <3> SUFFICES ASSUME NEW u \in Tasks, NEW c \in Decisions, Owns(u, c)'
                   PROVE  journal'[c].outcome # "pending" /\ taught[c] = 0
        BY <2>1
      <3>1. CASE u = t
        BY <2>2, <2>8, <2>9, <3>1
      <3>2. CASE u # t
        <4>1. Owns(u, c) /\ c # d
          BY <2>7, <2>9, <3>2
        <4>2. c \in 1..Len(journal)
          BY <4>1, CurrentOK DEF Owns, Owning, Learning
        <4> QED BY <2>2, <4>1, <4>2 DEF LInv, Ownership
      <3> QED BY <3>1, <3>2
    <2>12. \A u, v \in Tasks, c \in Decisions : Owns(u, c)' /\ Owns(v, c)' => u = v
      BY <2>7, <2>8, <2>9 DEF LInv, Ownership
    <2>13. \A c \in 1..Len(journal') : journal'[c].outcome = "pending" => taught'[c] = 0
      BY <2>1, <2>2 DEF LInv, Ownership
    <2>14. \A c \in 1..Len(journal') :
              ~broken' /\ journal'[c].outcome # "pending"
                 => taught'[c] = 1 \/ \E u \in Tasks : Owns(u, c)'
      <3> SUFFICES ASSUME NEW c \in 1..Len(journal), ~broken, journal'[c].outcome # "pending"
                   PROVE  taught[c] = 1 \/ \E u \in Tasks : Owns(u, c)'
        BY <2>1, <2>2
      <3>1. CASE c = d
        BY <2>8, <3>1
      <3>2. CASE c # d
        <4>1. taught[c] = 1 \/ \E u \in Tasks : Owns(u, c)
          BY <2>2, <3>2 DEF LInv, Ownership
        <4> QED BY <2>7, <2>10, <4>1
      <3> QED BY <3>1, <3>2
    <2>15. Ownership'
      BY <2>1, <2>2, <2>11, <2>12, <2>13, <2>14 DEF LInv, Ownership
    <2> QED BY <2>6, <2>15 DEF LInv
  <1>7. CASE journal[d].outcome # "pending"
    <2>1. /\ task' = [task EXCEPT ![t] = Proceed(t)] /\ journal' = journal
          /\ clock' = clock /\ taught' = taught /\ broken' = broken
      BY <1>7 DEF Resolve, Wins
    <2>2. WorkOK(Proceed(t), Len(journal)) /\ Proceed(t).phase \in {"idle", "resolve"}
      BY <1>1, ProceedOK DEF Learning
    <2> QED BY <1>1, <2>1, <2>2, TaskMoves DEF Owning
  <1> QED BY <1>6, <1>7

(* Writing the synapse discharges the decision. *)
LEMMA PutInv ==
    ASSUME LInv, NEW t \in Tasks, PutSynapse(t)
    PROVE  LInv'
  <1> DEFINE w == task[t]
             d == Current(t).id
  <1>1. /\ WorkOK(w, Len(journal)) /\ w.phase = "put"
        /\ taught' = [taught EXCEPT ![d] = @ + 1]
        /\ task' = [task EXCEPT ![t].phase = "list", ![t].rec = NoSynapse]
        /\ clock' = clock /\ journal' = journal /\ broken' = broken
    BY DEF LInv, Shape, PutSynapse, At
  <1>2. d = w.todo[1].id /\ d \in 1..Len(journal) /\ d \in Decisions
    BY <1>1, CurrentOK DEF Learning
  <1>3. Owns(t, d) /\ taught[d] = 0 /\ journal[d].outcome # "pending"
    BY <1>1, <1>2 DEF Owns, Owning, LInv, Ownership
  <1>4. /\ task' = [u \in Tasks |-> task'[u]]
        /\ \A u \in Tasks : u # t => task'[u] = task[u]
        /\ task'[t] = [w EXCEPT !.phase = "list", !.rec = NoSynapse]
    BY <1>1 DEF LInv, Shape
  <1>5. /\ task'[t] = [f \in Fields |-> task'[t][f]] /\ task'[t].phase = "list"
        /\ task'[t].stamp = w.stamp /\ task'[t].todo = w.todo
    <2>1. w = [f \in Fields |-> w[f]]
      BY <1>1 DEF WorkOK
    <2> HIDE DEF w
    <2> QED BY <1>4, <2>1 DEF Fields
  <1>6. WorkOK(task'[t], Len(journal))
    BY <1>1, <1>5 DEF WorkOK, Phases, Learning
  <1>7. /\ taught' \in [Decisions -> Nat] /\ taught'[d] = 1
        /\ \A c \in Decisions : c # d => taught'[c] = taught[c]
    <2> HIDE DEF d
    <2> QED BY <1>1, <1>2, <1>3 DEF LInv, Shape
  <1>8. Shape'
    BY <1>1, <1>4, <1>6, <1>7 DEF LInv, Shape
  <1>9. \A u \in Tasks : \A c : Owns(u, c)' <=> u # t /\ Owns(u, c)
    BY <1>4, <1>5 DEF Owns, Owning
  <1>10. \A u \in Tasks : u # t => ~Owns(u, d)
    BY <1>2, <1>3 DEF LInv, Ownership
  <1>11. \A c : Owns(t, c) => c = d
    BY <1>2 DEF Owns
  <1>12. /\ Len(journal) \in Nat /\ Len(journal) <= MaxDecisions
         /\ 1..Len(journal) \subseteq Decisions
    BY LearningAssumption DEF LInv, Shape, Ownership, Decisions
  <1> HIDE DEF d, w
  <1>13. \A u \in Tasks, c \in Decisions :
            Owns(u, c)' => journal'[c].outcome # "pending" /\ taught'[c] = 0
    BY <1>1, <1>7, <1>9, <1>10 DEF LInv, Ownership
  <1>14. \A u, v \in Tasks, c \in Decisions : Owns(u, c)' /\ Owns(v, c)' => u = v
    BY <1>9 DEF LInv, Ownership
  <1>15. \A c \in Decisions : taught'[c] <= 1
    BY <1>7 DEF LInv, Ownership
  <1>16. \A c \in Decisions : c > Len(journal') => taught'[c] = 0
    BY <1>1, <1>2, <1>7, <1>12 DEF LInv, Ownership
  <1>17. \A c \in 1..Len(journal') : journal'[c].outcome = "pending" => taught'[c] = 0
    BY <1>1, <1>3, <1>7, <1>12 DEF LInv, Ownership
  <1>18. \A c \in 1..Len(journal') :
            ~broken' /\ journal'[c].outcome # "pending"
               => taught'[c] = 1 \/ \E u \in Tasks : Owns(u, c)'
    <2> SUFFICES ASSUME NEW c \in 1..Len(journal), ~broken, journal[c].outcome # "pending"
                 PROVE  taught'[c] = 1 \/ \E u \in Tasks : Owns(u, c)'
      BY <1>1
    <2>1. CASE c = d
      BY <1>7, <2>1
    <2>2. CASE c # d
      <3>1. taught[c] = 1 \/ \E u \in Tasks : Owns(u, c)
        BY DEF LInv, Ownership
      <3>2. c \in Decisions
        BY <1>12
      <3> QED BY <1>7, <1>9, <1>11, <2>2, <3>1, <3>2
    <2> QED BY <2>1, <2>2
  <1>19. Ownership'
    BY <1>1, <1>12, <1>13, <1>14, <1>15, <1>16, <1>17, <1>18 DEF Ownership
  <1> QED BY <1>8, <1>19 DEF LInv

(* Handlers cut short drop what they own; nothing is promised for it.       *)
LEMMA BrokenInv ==
    ASSUME LInv, broken' = TRUE,
           task' = [u \in Tasks |-> task'[u]],
           \A u \in Tasks : task'[u] = Free \/ task'[u] = task[u],
           clock' = clock, journal' = journal, taught' = taught
    PROVE  LInv'
  <1>1. Len(journal) \in Nat
    BY DEF LInv, Shape
  <1>2. \A u \in Tasks : WorkOK(task'[u], Len(journal))
    BY <1>1, FreeOK DEF LInv, Shape
  <1>3. Shape'
    BY <1>2 DEF LInv, Shape
  <1>4. Free.phase \notin Owning
    BY <1>1, FreeOK DEF Owning
  <1>5. \A u \in Tasks : \A d : Owns(u, d)' => Owns(u, d)
    BY <1>4 DEF Owns
  <1>6. Ownership'
    BY <1>5 DEF LInv, Ownership
  <1> QED BY <1>3, <1>6 DEF LInv

(* A handler that starts by resolving decisions. *)
LEMMA StartOK ==
    ASSUME NEW n \in Nat, NEW s \in Seq(Item), s # <<>>, NEW now \in Clock,
           \A i \in 1..Len(s) : s[i].id \in 1..n
    PROVE  LET w == [Free EXCEPT !.phase = "resolve", !.stamp = now, !.todo = s]
           IN  WorkOK(w, n) /\ w.phase = "resolve"
  <1> DEFINE w == [Free EXCEPT !.phase = "resolve", !.stamp = now, !.todo = s]
  <1>1. /\ w = [f \in Fields |-> w[f]] /\ w.phase = "resolve"
        /\ w.stamp = now /\ w.todo = s
    BY DEF Free, Fields
  <1> HIDE DEF w
  <1>2. WorkOK(w, n)
    BY <1>1 DEF WorkOK, Phases
  <1> QED BY <1>1, <1>2 DEF w

(* The same for a handler with a single decision. *)
LEMMA StartOneOK ==
    ASSUME NEW n \in Nat, NEW d \in 1..n, NEW o \in Resolutions, NEW now \in Clock
    PROVE  LET w == [Free EXCEPT !.phase = "resolve", !.stamp = now,
                                 !.todo = <<[id |-> d, outcome |-> o]>>]
           IN  WorkOK(w, n) /\ w.phase = "resolve"
  <1> DEFINE s == <<[id |-> d, outcome |-> o]>>
  <1>1. [id |-> d, outcome |-> o] \in Item
    BY DEF Item
  <1>2. s \in Seq(Item) /\ Len(s) = 1 /\ s[1].id = d /\ s # <<>>
    BY <1>1
  <1>3. \A i \in 1..Len(s) : s[i].id \in 1..n
    BY <1>2
  <1> HIDE DEF s
  <1>4. LET w == [Free EXCEPT !.phase = "resolve", !.stamp = now, !.todo = s]
        IN  WorkOK(w, n) /\ w.phase = "resolve"
    BY <1>2, <1>3, StartOK
  <1> QED BY <1>4 DEF s

(* A handler between reading a record and writing it back. *)
LEMMA PauseOK ==
    ASSUME NEW n \in Nat, NEW r, NEW now \in Clock, NEW ph \in {"form", "penalise"}
    PROVE  LET w == [Free EXCEPT !.phase = ph, !.stamp = now, !.rec = r]
           IN  WorkOK(w, n) /\ w.phase = ph
  <1> DEFINE w == [Free EXCEPT !.phase = ph, !.stamp = now, !.rec = r]
  <1>1. /\ w = [f \in Fields |-> w[f]] /\ w.phase = ph
        /\ w.stamp = now /\ w.todo = <<>>
    BY DEF Free, Fields
  <1>2. <<>> \in Seq(Item) /\ Len(<<>>) = 0
    OBVIOUS
  <1> HIDE DEF w
  <1>3. ph \in Phases /\ ph \notin Learning
    BY DEF Phases, Learning
  <1>4. \A i \in 1..Len(w.todo) : w.todo[i].id \in 1..n
    BY <1>1, <1>2
  <1>5. WorkOK(w, n)
    BY <1>1, <1>2, <1>3, <1>4 DEF WorkOK
  <1> QED BY <1>1, <1>5 DEF w

(* A step that touches none of the state the invariant speaks of. *)
LEMMA Elsewhere ==
    ASSUME LInv, clock' \in Clock, UNCHANGED <<journal, task, taught, broken>>
    PROVE  LInv'
  <1>1. Shape'
    BY DEF LInv, Shape
  <1>2. \A u \in Tasks : \A d : Owns(u, d)' <=> Owns(u, d)
    BY DEF Owns
  <1>3. Ownership'
    BY <1>2 DEF LInv, Ownership
  <1> QED BY <1>1, <1>3 DEF LInv

(* Sessions and penalties leave decisions alone. *)
LEMMA SessionInv ==
    ASSUME LInv, NEW p \in Peers,
           \/ Handshake(p) \/ PutFormed(p) \/ Close(p)
           \/ SignatureFailure(p) \/ PutPenalised(p)
    PROVE  LInv'
  <1>0. p \in Tasks /\ Len(journal) \in Nat /\ clock \in Clock
    BY DEF Tasks, LInv, Shape
  <1>1. CASE Handshake(p)
    <2>1. CASE syn[p] = Upserted(p)
      BY <1>0, <1>1, <2>1, Elsewhere DEF Handshake
    <2>2. CASE syn[p] # Upserted(p)
      <3> DEFINE w == [Free EXCEPT !.phase = "form", !.stamp = clock, !.rec = Upserted(p)]
      <3>1. WorkOK(w, Len(journal)) /\ w.phase = "form"
        BY <1>0, PauseOK
      <3>2. /\ task' = [task EXCEPT ![p] = w] /\ task[p].phase = "idle"
            /\ clock' = clock /\ journal' = journal /\ taught' = taught /\ broken' = broken
        BY <1>1, <2>2 DEF Handshake, At
      <3> HIDE DEF w
      <3> QED BY <1>0, <3>1, <3>2, TaskMoves DEF Owning
    <2> QED BY <2>1, <2>2
  <1>2. CASE PutFormed(p)
    BY <1>0, <1>2, FreeOK, TaskMoves DEF PutFormed, At, Owning
  <1>3. CASE Close(p)
    BY <1>0, <1>3, Elsewhere DEF Close
  <1>4. CASE SignatureFailure(p)
    <2> DEFINE w == [Free EXCEPT !.phase = "penalise", !.stamp = clock,
                                 !.rec = Penalised(syn[p], clock)]
    <2>1. WorkOK(w, Len(journal)) /\ w.phase = "penalise"
      BY <1>0, PauseOK
    <2>2. /\ task' = [task EXCEPT ![p] = w] /\ task[p].phase = "idle"
          /\ clock' = clock /\ journal' = journal /\ taught' = taught /\ broken' = broken
      BY <1>4 DEF SignatureFailure, At
    <2> HIDE DEF w
    <2> QED BY <1>0, <2>1, <2>2, TaskMoves DEF Owning
  <1>5. CASE PutPenalised(p)
    BY <1>0, <1>5, FreeOK, TaskMoves DEF PutPenalised, At, Owning
  <1> QED BY <1>1, <1>2, <1>3, <1>4, <1>5

(* Work on a longer journal stays well formed. *)
LEMMA LongerOK ==
    ASSUME NEW n \in Nat, NEW w, WorkOK(w, n)
    PROVE  WorkOK(w, n + 1)
  <1>1. \A k \in 1..n : k \in 1..(n + 1)
    OBVIOUS
  <1>2. \A i \in 1..Len(w.todo) : w.todo[i].id \in 1..(n + 1)
    BY <1>1 DEF WorkOK
  <1> QED BY <1>2, Zenon DEF WorkOK

(* Decisions are made. *)
LEMMA DecisionInv ==
    ASSUME LInv, NEW p \in Peers,
           Route(p) \/ \E t \in Tasks : Forward(t, p)
    PROVE  LInv'
  <1>0. /\ Len(journal) \in Nat /\ clock \in Clock
        /\ task = [u \in Tasks |-> task[u]]
        /\ \A u \in Tasks : WorkOK(task[u], Len(journal) + 1)
    BY LongerOK DEF LInv, Shape
  <1>1. ASSUME Journalled(p), UNCHANGED <<clock, task, taught, broken>>
        PROVE  LInv'
    <2>1. \A u \in Tasks : \A d : Owns(u, d)' <=> Owns(u, d)
      BY <1>1 DEF Owns
    <2> QED BY <1>0, <1>1, <2>1, NewDecision
  <1>2. CASE Route(p)
    BY <1>1, <1>2 DEF Route
  <1>3. ASSUME NEW t \in Tasks, Forward(t, p)
        PROVE  LInv'
    <2> DEFINE w == [Free EXCEPT !.phase = "resolve", !.stamp = clock,
                         !.todo = <<[id |-> Len(journal) + 1,
                                     outcome |-> "transport_failure"]>>]
    <2>1. CASE UNCHANGED task
      BY <1>1, <1>3, <2>1 DEF Forward
    <2>2. CASE task' = [task EXCEPT ![t] = w]
      <3> DEFINE m == Len(journal) + 1
      <3>1. m \in Nat /\ m \in 1..m /\ "transport_failure" \in Resolutions
        BY <1>0 DEF Resolutions
      <3>2. WorkOK(w, m) /\ w.phase = "resolve"
        <4> HIDE DEF m
        <4>1. LET v == [Free EXCEPT !.phase = "resolve", !.stamp = clock,
                           !.todo = <<[id |-> m, outcome |-> "transport_failure"]>>]
              IN  WorkOK(v, m) /\ v.phase = "resolve"
          BY <1>0, <3>1, StartOneOK
        <4> QED BY <4>1 DEF m
      <3> HIDE DEF w
      <3>3. task' = [u \in Tasks |-> task'[u]] /\ \A u \in Tasks : task'[u] = IF u = t THEN w ELSE task[u]
        BY <1>0, <2>2
      <3>4. task[t].phase = "idle" /\ Journalled(p)
            /\ clock' = clock /\ taught' = taught /\ broken' = broken
        BY <1>3 DEF Forward, At
      <3>5. \A u \in Tasks : \A d : Owns(u, d)' <=> Owns(u, d)
        BY <3>2, <3>3, <3>4 DEF Owns, Owning
      <3> QED BY <1>0, <3>2, <3>3, <3>4, <3>5, NewDecision
    <2> QED BY <1>3, <2>1, <2>2 DEF Forward
  <1> QED BY <1>2, <1>3

(* Receipts and the sweep start handlers. *)
LEMMA ReceiptInv ==
    ASSUME LInv, NEW p \in Peers, NEW d \in DOMAIN journal,
           NEW o \in {"delivered", "rejected"}, Receipt(p, d, o)
    PROVE  LInv'
  <1> DEFINE w == [Free EXCEPT !.phase = "resolve", !.stamp = clock,
                               !.todo = <<[id |-> d, outcome |-> o]>>]
  <1>1. /\ p \in Tasks /\ Len(journal) \in Nat /\ clock \in Clock
        /\ d \in 1..Len(journal) /\ o \in Resolutions
    BY DEF Tasks, LInv, Shape, Resolutions
  <1>2. WorkOK(w, Len(journal)) /\ w.phase = "resolve"
    BY <1>1, StartOneOK
  <1>3. /\ task' = [task EXCEPT ![p] = w] /\ task[p].phase = "idle"
        /\ clock' = clock /\ journal' = journal /\ taught' = taught /\ broken' = broken
    BY DEF Receipt, At
  <1> HIDE DEF w
  <1> QED BY <1>1, <1>2, <1>3, TaskMoves DEF Owning

(* A sweep takes pending decisions of the journal. *)
LEMMA SweepInv ==
    ASSUME LInv, Sweep
    PROVE  LInv'
  <1> DEFINE expired == {d \in DOMAIN journal : Expired(d)}
             taken == {d \in expired : Cardinality({c \in expired : c < d}) < SweepLimit}
  <1>1. /\ Maintenance \in Tasks /\ Len(journal) \in Nat /\ clock \in Clock
        /\ DOMAIN journal = 1..Len(journal)
    BY DEF Tasks, LInv, Shape
  <1>2. taken \subseteq 1..Len(journal) /\ taken # {}
    BY <1>1 DEF Sweep
  <1>3. PICK order \in [1..Cardinality(taken) -> taken] :
           task' = [task EXCEPT ![Maintenance] =
                      [Free EXCEPT !.phase = "resolve", !.stamp = clock,
                          !.todo = [i \in 1..Cardinality(taken) |->
                                      [id |-> order[i], outcome |-> "timed_out"]]]]
    BY DEF Sweep
  <1>4. /\ task[Maintenance].phase = "idle"
        /\ clock' = clock /\ journal' = journal /\ taught' = taught /\ broken' = broken
    BY DEF Sweep, At
  <1> HIDE DEF taken
  <1>5. IsFiniteSet(taken)
    <2>1. IsFiniteSet(1..Len(journal))
      BY <1>1, FS_Interval
    <2> QED BY <1>2, <2>1, FS_Subset
  <1>6. Cardinality(taken) \in Nat /\ Cardinality(taken) # 0
    BY <1>2, <1>5, FS_CardinalityType, FS_EmptySet
  <1> DEFINE n == Cardinality(taken)
             s == [i \in 1..n |-> [id |-> order[i], outcome |-> "timed_out"]]
             w == [Free EXCEPT !.phase = "resolve", !.stamp = clock, !.todo = s]
  <1>7. \A i \in 1..n : /\ [id |-> order[i], outcome |-> "timed_out"] \in Item
                         /\ order[i] \in 1..Len(journal)
    <2> SUFFICES ASSUME NEW i \in 1..n
                 PROVE  /\ [id |-> order[i], outcome |-> "timed_out"] \in Item
                        /\ order[i] \in 1..Len(journal)
      OBVIOUS
    <2>1. order[i] \in taken
      BY <1>3
    <2>2. order[i] \in 1..Len(journal)
      BY <1>2, <2>1
    <2>3. order[i] \in Nat /\ "timed_out" \in Resolutions
      BY <2>2 DEF Resolutions
    <2> QED BY <2>2, <2>3 DEF Item
  <1>8. s \in Seq(Item) /\ Len(s) = n
    BY <1>6, <1>7, IsASeq
  <1>9. s # <<>> /\ \A i \in 1..Len(s) : s[i].id \in 1..Len(journal)
    BY <1>6, <1>7, <1>8
  <1>10. task' = [task EXCEPT ![Maintenance] = w]
    BY <1>3
  <1> HIDE DEF s, n
  <1>11. WorkOK(w, Len(journal)) /\ w.phase = "resolve"
    BY <1>1, <1>8, <1>9, StartOK
  <1> HIDE DEF w
  <1> QED BY <1>1, <1>4, <1>10, <1>11, TaskMoves DEF Owning

(* The steps of a handler that learns. *)
LEMMA LearnInv ==
    ASSUME LInv, ~CoarseClock, NEW t \in Tasks, LearnStep(t)
    PROVE  LInv'
  <1>0. /\ task = [u \in Tasks |-> task[u]] /\ WorkOK(task[t], Len(journal))
        /\ task[t] = [f \in Fields |-> task[t][f]]
    BY DEF LInv, Shape, WorkOK
  <1>1. ASSUME NEW ph \in Learning, NEW w, w = [f \in Fields |-> w[f]], w.phase = ph,
               w.todo = task[t].todo, w.stamp = task[t].stamp,
               task[t].phase \in Learning, ph \in Owning <=> task[t].phase \in Owning,
               task' = [task EXCEPT ![t] = w],
               clock' = clock, journal' = journal, taught' = taught, broken' = broken
        PROVE  LInv'
    <2>1. WorkOK(w, Len(journal))
      BY <1>0, <1>1 DEF WorkOK, Learning, Phases
    <2> QED BY <1>1, <2>1, TaskMoves
  <1>2. ASSUME task[t].phase \in {"list", "rewrite"}, task' = [task EXCEPT ![t] = Proceed(t)],
               clock' = clock, journal' = journal, taught' = taught, broken' = broken
        PROVE  LInv'
    <2>1. WorkOK(Proceed(t), Len(journal)) /\ Proceed(t).phase \in {"idle", "resolve"}
      BY <1>2, ProceedOK DEF Learning
    <2> QED BY <1>2, <2>1, TaskMoves DEF Owning
  <1>3. CASE Resolve(t)
    BY <1>3, ResolveInv
  <1>4. CASE ReadInfluence(t)
    <2> DEFINE used == InfluenceSince(PeerOf(t), Since(task[t].stamp, Window))
               w == [task[t] EXCEPT !.phase = "read", !.used = used]
    <2>1. /\ task[t].phase = "influence" /\ task' = [task EXCEPT ![t] = w]
          /\ clock' = clock /\ journal' = journal /\ taught' = taught /\ broken' = broken
      BY <1>4 DEF ReadInfluence, At
    <2> HIDE DEF used
    <2>2. /\ w = [f \in Fields |-> w[f]] /\ w.phase = "read"
          /\ w.todo = task[t].todo /\ w.stamp = task[t].stamp
      BY <1>0 DEF Fields
    <2> HIDE DEF w
    <2> QED BY <1>1, <2>1, <2>2 DEF Learning, Owning
  <1>5. CASE ReadSynapse(t)
    <2>0. PICK ph \in {"put", "charge"} : \E dl, r :
            task' = [task EXCEPT ![t].phase = ph, ![t].delta = dl, ![t].rec = r]
      BY <1>5, Zenon DEF ReadSynapse
    <2>1. PICK dl, r :
            task' = [task EXCEPT ![t].phase = ph, ![t].delta = dl, ![t].rec = r]
      BY <2>0
    <2> DEFINE w == [task[t] EXCEPT !.phase = ph, !.delta = dl, !.rec = r]
    <2>2. /\ task[t].phase = "read" /\ task' = [task EXCEPT ![t] = w]
          /\ clock' = clock /\ journal' = journal /\ taught' = taught /\ broken' = broken
      BY <1>5, <2>1 DEF ReadSynapse, At
    <2>3. /\ w = [f \in Fields |-> w[f]] /\ w.phase = ph
          /\ w.todo = task[t].todo /\ w.stamp = task[t].stamp
      BY <1>0 DEF Fields
    <2> HIDE DEF w
    <2> QED BY <1>1, <2>0, <2>2, <2>3 DEF Learning, Owning
  <1>6. CASE ChargeInfluence(t)
    <2> DEFINE w == [task[t] EXCEPT !.phase = "put"]
    <2>1. /\ task[t].phase = "charge" /\ task' = [task EXCEPT ![t] = w]
          /\ clock' = clock /\ journal' = journal /\ taught' = taught /\ broken' = broken
      BY <1>6 DEF ChargeInfluence, At
    <2>2. /\ w = [f \in Fields |-> w[f]] /\ w.phase = "put"
          /\ w.todo = task[t].todo /\ w.stamp = task[t].stamp
      BY <1>0 DEF Fields
    <2> HIDE DEF w
    <2> QED BY <1>1, <2>1, <2>2 DEF Learning, Owning
  <1>7. CASE PutSynapse(t)
    BY <1>7, PutInv
  <1>8. CASE ListSynapses(t)
    <2>1. /\ task[t].phase = "list"
          /\ clock' = clock /\ journal' = journal /\ taught' = taught /\ broken' = broken
      BY <1>8 DEF ListSynapses, At
    <2>2. CASE task' = [task EXCEPT ![t] = Proceed(t)]
      BY <1>2, <2>1, <2>2
    <2>3. CASE task' = [task EXCEPT ![t].phase = "rewrite", ![t].writes = Rescaled]
      <3> DEFINE w == [task[t] EXCEPT !.phase = "rewrite", !.writes = Rescaled]
      <3>1. task' = [task EXCEPT ![t] = w]
        BY <2>3
      <3>2. /\ w = [f \in Fields |-> w[f]] /\ w.phase = "rewrite"
            /\ w.todo = task[t].todo /\ w.stamp = task[t].stamp
        BY <1>0 DEF Fields
      <3> HIDE DEF w
      <3> QED BY <1>1, <2>1, <3>1, <3>2 DEF Learning, Owning
    <2> QED BY <1>8, <2>2, <2>3 DEF ListSynapses
  <1>9. ASSUME NEW p \in Peers, Rewrite(t, p) PROVE LInv'
    <2> DEFINE left == DOMAIN task[t].writes \ {p}
               rest == [q \in left |-> task[t].writes[q]]
    <2>1. /\ task[t].phase = "rewrite"
          /\ clock' = clock /\ journal' = journal /\ taught' = taught /\ broken' = broken
      BY <1>9 DEF Rewrite, At
    <2>2. CASE task' = [task EXCEPT ![t] = Proceed(t)]
      BY <1>2, <2>1, <2>2
    <2>3. CASE task' = [task EXCEPT ![t].writes = rest]
      <3> DEFINE w == [task[t] EXCEPT !.writes = rest]
      <3>1. task' = [task EXCEPT ![t] = w]
        BY <2>3
      <3> HIDE DEF rest
      <3>2. /\ w = [f \in Fields |-> w[f]] /\ w.phase = "rewrite"
            /\ w.todo = task[t].todo /\ w.stamp = task[t].stamp
        BY <1>0, <2>1 DEF Fields
      <3> HIDE DEF w
      <3> QED BY <1>1, <2>1, <3>1, <3>2 DEF Learning, Owning
    <2> QED BY <1>9, <2>2, <2>3 DEF Rewrite
  <1> QED BY <1>3, <1>4, <1>5, <1>6, <1>7, <1>8, <1>9 DEF LearnStep

(* The invariant is inductive. *)
LEMMA StepInv ==
    ASSUME LInv, ~CoarseClock, [Next]_vars
    PROVE  LInv'
  <1>1. ASSUME NEW p \in Peers,
               \/ Handshake(p) \/ PutFormed(p) \/ Close(p)
               \/ SignatureFailure(p) \/ PutPenalised(p)
        PROVE  LInv'
    BY <1>1, SessionInv
  <1>2. ASSUME NEW p \in Peers, Route(p) \/ \E t \in Tasks : Forward(t, p)
        PROVE  LInv'
    BY <1>2, DecisionInv
  <1>3. ASSUME NEW p \in Peers, NEW d \in DOMAIN journal,
               NEW o \in {"delivered", "rejected"}, Receipt(p, d, o)
        PROVE  LInv'
    BY <1>3, ReceiptInv
  <1>4. CASE Sweep
    BY <1>4, SweepInv
  <1>5. ASSUME NEW t \in Tasks, LearnStep(t) PROVE LInv'
    BY <1>5, LearnInv
  <1>6. ASSUME NEW t \in Tasks, StoreError(t) PROVE LInv'
    <2>1. /\ task' = [task EXCEPT ![t] = Free] /\ broken' = TRUE
          /\ clock' = clock /\ journal' = journal /\ taught' = taught
      BY <1>6 DEF StoreError
    <2>2. /\ task' = [u \in Tasks |-> task'[u]]
          /\ \A u \in Tasks : task'[u] = Free \/ task'[u] = task[u]
      BY <2>1 DEF LInv, Shape
    <2> QED BY <2>1, <2>2, BrokenInv
  <1>7. CASE Tick
    <2>1. clock' \in Clock
      BY <1>7, LearningAssumption DEF Tick, LInv, Shape, Clock
    <2> QED BY <1>7, <2>1, Elsewhere DEF Tick
  <1>8. CASE Crash
    <2>1. /\ task' = [t \in Tasks |-> Free] /\ broken' = TRUE
          /\ clock' = clock /\ journal' = journal /\ taught' = taught
      BY <1>8 DEF Crash
    <2>2. task' = [u \in Tasks |-> task'[u]] /\ \A u \in Tasks : task'[u] = Free
      BY <2>1
    <2> QED BY <2>1, <2>2, BrokenInv
  <1>9. CASE UNCHANGED vars
    BY <1>9, Elsewhere DEF vars, LInv, Shape
  <1> QED BY <1>1, <1>2, <1>3, <1>4, <1>5, <1>6, <1>7, <1>8, <1>9 DEF Next

(* The empty node satisfies it. *)
LEMMA InitInv ==
    ASSUME Init
    PROVE  LInv
  <1>1. /\ clock = 0 /\ journal = <<>> /\ task = [t \in Tasks |-> Free]
        /\ taught = [d \in Decisions |-> 0] /\ broken = FALSE
    BY DEF Init
  <1>2. 0 \in Clock /\ MaxDecisions \in Nat
    BY LearningAssumption DEF Clock
  <1>3. journal \in Seq(Entry) /\ Len(journal) = 0
    BY <1>1
  <1>4. \A t \in Tasks : WorkOK(task[t], Len(journal)) /\ task[t].phase = "idle"
    BY <1>1, <1>3, FreeOK
  <1>5. Shape
    BY <1>1, <1>2, <1>3, <1>4 DEF Shape
  <1>6. \A t \in Tasks, d \in Decisions : ~Owns(t, d)
    BY <1>4 DEF Owns, Owning
  <1>7. Ownership
    BY <1>1, <1>2, <1>3, <1>6 DEF Ownership
  <1> QED BY <1>5, <1>7 DEF LInv

(* The invariant gives the property: with every handler idle nobody owns a  *)
(* decision, so every resolved one has taught.                              *)
LEMMA InvTeaches ==
    ASSUME LInv
    PROVE  TaughtOnce
  <1>1. /\ Len(journal) \in Nat /\ DOMAIN journal = 1..Len(journal)
        /\ 1..Len(journal) \subseteq Decisions
    BY LearningAssumption DEF LInv, Shape, Ownership, Decisions
  <1>2. Free.phase = "idle"
    BY <1>1, FreeOK
  <1>3. Quiet => \A t \in Tasks : \A d : ~Owns(t, d)
    BY <1>2 DEF Quiet, Owns, Owning
  <1> QED BY <1>1, <1>3 DEF LInv, Ownership, TaughtOnce

(* Every decision teaches exactly once, however receipts, replays, timeouts *)
(* and transport failures race for it, as long as no two handlers resolve   *)
(* at the same instant (resolve_decision and the resolved_at_ns test of     *)
(* apply_receipt, sweep_timeouts and fail_forward).                         *)
THEOREM TeachesOnce ==
    ASSUME ~CoarseClock
    PROVE  Spec => []TaughtOnce
  <1>1. Init => LInv
    BY InitInv
  <1>2. LInv /\ [Next]_vars => LInv'
    BY StepInv
  <1>3. LInv => TaughtOnce
    BY InvTeaches
  <1> QED BY <1>1, <1>2, <1>3, PTL DEF Spec

-----------------------------------------------------------------------------
(* What keeps weights in range, gains capped, prunes in force and totals    *)
(* within budget.                                                           *)

(* A record a synapse may have, and the marks of one that is pruned. *)
Fine == {r \in Record : r.weight \in MinWeight..MaxWeight}
Cut(r) == r # NoSynapse /\ r.state = "pruned"

(* Nothing to write back. *)
NoWrites == [p \in {} |-> NoSynapse]

(* What a task holds is fit to be written. *)
Holding(w) ==
    /\ w.used \in Nat /\ w.delta \in Int
    /\ w.phase \in {"form", "penalise", "charge", "put"} => w.rec \in Fine
    /\ w.writes \in [DOMAIN w.writes -> Fine] /\ DOMAIN w.writes \subseteq Peers

(* Types, and what every decision and session rests on: a synapse that was  *)
(* formed and is never deleted.                                             *)
Sound ==
    /\ Shape
    /\ Len(journal) <= MaxDecisions
    /\ syn \in [Peers -> Fine \cup {NoSynapse}]
    /\ \A d \in DOMAIN journal : syn[journal[d].peer] # NoSynapse
    /\ open \subseteq Present
    /\ sent \subseteq Decisions
    /\ influence \in [Peers -> [Clock -> Nat]]
    /\ gained \in [Peers -> [Clock -> Nat]]
    /\ prunedAt \in [Peers -> Clock]
    /\ \A t \in Tasks : Holding(task[t])

(* A handler on its way to a gain. *)
Earns(w) ==
    w.phase \in {"resolve", "influence", "read", "charge", "put"}
       /\ w.todo[1].outcome = "delivered"

(* Only a peer's own task earns for it, for one decision at a time, and     *)
(* never more than the cap leaves of what it saw used.                      *)
Credit(t, w, now, j) ==
    /\ w.stamp <= now
    /\ \A i \in 1..Len(w.todo) :
          w.todo[i].outcome = "delivered"
             => Len(w.todo) = 1 /\ t \in Peers /\ j[w.todo[i].id].peer = t
    /\ w.phase \in {"charge", "put"} /\ w.delta > 0
          => Earns(w) /\ w.delta <= Cap - w.used

(* What a peer gained (g) has been charged to it before (f), and nothing is *)
(* dated in the future.                                                     *)
Charged(g, f, now) ==
    /\ \A c \in Clock : c > now => g[c] = 0
    /\ \A c \in Clock : g[c] <= f[c]

(* The influence the peer's task has read covers what the peer gained in    *)
(* its window, and what it is about to write has been charged.              *)
Cover(w, g, f) ==
    Earns(w) =>
       /\ \A c \in Clock : c > w.stamp => g[c] = 0
       /\ w.phase \in {"read", "charge", "put"}
             => Total(g, Since(w.stamp, Window)..w.stamp) <= w.used
       /\ w.phase = "put" /\ w.delta > 0 => g[w.stamp] + w.delta <= f[w.stamp]

(* In no window does a peer gain more than the cap. *)
Capped(g) == \A to \in Clock : Total(g, Since(to, Window)..to) <= Cap

(* The inductive invariant of GainCapped, given Sound. *)
Paid ==
    /\ \A t \in Tasks : Credit(t, task[t], clock, journal)
    /\ \A p \in Peers : /\ Charged(gained[p], influence[p], clock)
                        /\ Cover(task[p], gained[p], influence[p])
                        /\ Capped(gained[p])

(* The weights a renormalisation will leave when it has written wr over sy, *)
(* and that they are within budget.                                         *)
Formed(sy) == {p \in Peers : sy[p] # NoSynapse}
Goal(wr, sy) == [p \in Formed(sy) |-> IF p \in DOMAIN wr THEN wr[p].weight ELSE sy[p].weight]
Within(wr, sy) ==
    Total(Goal(wr, sy), Formed(sy)) <= Budget + MinWeight * Cardinality(Formed(sy))

(* With one handler at a time, what it holds still goes with the store: it  *)
(* started at this instant, and it replaces a pruned record only by one     *)
(* that is pruned too, or by one formed after the cooldown.                 *)
Respect(t, w, now, sy, op, j) ==
    /\ w # Free => w.stamp = now
    /\ w.phase = "form" =>
          /\ w.rec.state # "pruned"
          /\ Cut(sy[t]) => w.stamp >= sy[t].last + Cooldown
    /\ w.phase = "penalise" =>
          /\ t \in op
          /\ w.rec.state = "pruned" => w.rec.last = w.stamp
    /\ w.phase \in {"charge", "put"} =>
          /\ w.rec.last = w.stamp
          /\ w.rec.state = "pruned" <=> Cut(sy[j[w.todo[1].id].peer])
    /\ w.phase = "rewrite" =>
          /\ \A p \in DOMAIN w.writes : /\ sy[p] # NoSynapse
                                      /\ w.writes[p].state = sy[p].state
                                      /\ w.writes[p].last = sy[p].last
          /\ Within(w.writes, sy)

(* No session has a pruned synapse, and a pruned record knows no date       *)
(* before its prune.                                                        *)
Dated(sy, op, at, now) ==
    /\ \A p \in Peers : at[p] <= now /\ (Cut(sy[p]) => sy[p].last >= at[p])
    /\ \A p \in op : ~Cut(sy[p])

(* The inductive invariant of PruneHolds and BudgetRestored, given Sound. *)
Orderly ==
    /\ \A t, u \in Tasks : t # u => task[t] = Free \/ task[u] = Free
    /\ \A t \in Tasks : Respect(t, task[t], clock, syn, open, journal)
    /\ Dated(syn, open, prunedAt, clock)

-----------------------------------------------------------------------------
(* The learning rule keeps records fine. *)

(* A record formed or revived by a handshake. *)
LEMMA UpsertedFine ==
    ASSUME Sound, NEW p \in Peers
    PROVE  /\ Upserted(p) \in Fine
           /\ Upserted(p).state # "pruned" \/ Upserted(p) = syn[p]
           /\ Cut(syn[p]) => Upserted(p).state # "pruned"
  <1>0. clock \in Clock /\ 0 \in Clock /\ InitialWeight \in MinWeight..MaxWeight
        /\ MinWeight \in Nat /\ MaxWeight \in Nat
    BY LearningAssumption DEF Sound, Shape, Clock, ValidConfig
  <1>1. syn[p] \in Fine \cup {NoSynapse}
    BY DEF Sound
  <1>2. Blank(clock) \in Fine /\ Blank(clock).state = "active"
    BY <1>0 DEF Blank, Fine, Record
  <1>3. CASE syn[p] = NoSynapse \/ syn[p].state = "pruned"
    BY <1>2, <1>3 DEF Upserted
  <1>4. CASE syn[p] # NoSynapse /\ syn[p].state = "dormant"
    <2>1. ASSUME NEW r \in Fine
          PROVE  /\ [r EXCEPT !.weight = InitialWeight, !.state = "active"] \in Fine
                 /\ [r EXCEPT !.weight = InitialWeight, !.state = "active"].state = "active"
      <3>1. InitialWeight \in Nat
        BY <1>0
      <3> QED BY <1>0, <3>1 DEF Fine, Record
    <2>2. Upserted(p) = [syn[p] EXCEPT !.weight = InitialWeight, !.state = "active"]
      BY <1>4 DEF Upserted
    <2> QED BY <1>1, <1>4, <2>1, <2>2
  <1>5. CASE syn[p] # NoSynapse /\ syn[p].state \notin {"pruned", "dormant"}
    BY <1>1, <1>5 DEF Upserted, Cut
  <1> QED BY <1>3, <1>4, <1>5

(* A record after a signature failure; it is pruned now, or was before. *)
LEMMA PenalisedFine ==
    ASSUME NEW r \in Fine, NEW now \in Clock
    PROVE  /\ Penalised(r, now) \in Fine
           /\ Penalised(r, now).state = "pruned" /\ r.state # "pruned"
                 => Penalised(r, now).last = now
  <1> DEFINE fresh == r.win < Since(now, Window)
             weight == Upper(r.weight \div 2, MinWeight)
             fails == IF fresh THEN 1 ELSE r.fails + 1
             win == IF fresh THEN now ELSE r.win
             hit == [r EXCEPT !.weight = weight, !.fails = fails, !.win = win]
  <1>1. /\ r \in Record /\ r.weight \in MinWeight..MaxWeight
        /\ MinWeight \in Nat /\ MaxWeight \in Nat
    BY LearningAssumption DEF Fine
  <1>2. r.weight \in Nat /\ r.fails \in Nat /\ r.win \in Clock
    BY <1>1 DEF Record
  <1>3. r.weight \div 2 \in Nat /\ r.weight \div 2 <= r.weight
    BY <1>2
  <1>4. weight \in MinWeight..MaxWeight /\ weight \in Nat
    BY <1>1, <1>3 DEF Upper
  <1>5. fails \in Nat /\ win \in Clock
    BY <1>2
  <1> HIDE DEF weight, fails, win, fresh
  <1>6. hit \in Fine /\ hit.state = r.state /\ hit.fails = fails /\ hit.weight = weight
    BY <1>1, <1>4, <1>5 DEF Fine, Record
  <1>7. Penalised(r, now) = IF hit.fails >= PruneThreshold
                            THEN [hit EXCEPT !.state = "pruned", !.last = now]
                            ELSE UpdateState(hit)
    BY Zenon DEF Penalised, hit, weight, fails, win, fresh
  <1> HIDE DEF hit
  <1>8. CASE hit.fails >= PruneThreshold
    <2> DEFINE v == [hit EXCEPT !.state = "pruned", !.last = now]
    <2>1. v \in Fine /\ v.last = now
      BY <1>6 DEF Fine, Record
    <2> QED BY <1>7, <1>8, <2>1
  <1>9. CASE ~(hit.fails >= PruneThreshold)
    <2> DEFINE v == [hit EXCEPT !.state = StateFor(hit.weight)]
    <2>1. v \in Fine /\ v.state # "pruned"
      BY <1>6 DEF Fine, Record, StateFor
    <2>2. UpdateState(hit) = IF hit.state = "pruned" THEN hit ELSE v
      BY DEF UpdateState
    <2> QED BY <1>6, <1>7, <1>9, <2>1, <2>2
  <1> QED BY <1>8, <1>9

(* A reward keeps the weight in range; only a delivery is one, and it gives *)
(* no more than the cap leaves.                                             *)
LEMMA RewardFacts ==
    ASSUME NEW w \in MinWeight..MaxWeight, NEW o \in Resolutions, NEW used \in Nat
    PROVE  /\ ApplyReward(w, o, used) \in Int
           /\ w + ApplyReward(w, o, used) \in MinWeight..MaxWeight
           /\ ApplyReward(w, o, used) > 0 =>
                 o = "delivered" /\ ApplyReward(w, o, used) <= Cap - used
  <1>1. MinWeight \in Nat /\ MaxWeight \in Nat /\ Cap \in Nat /\ MinWeight < MaxWeight
    BY LearningAssumption DEF ValidConfig
  <1>2. Reward(o) \in {4, -1, -2} /\ (Reward(o) > 0 => o = "delivered" /\ Reward(o) = 4)
    BY DEF Reward, Resolutions
  <1> DEFINE raw == Reward(o)
             delta == IF raw > 0 THEN Upper(0, Lower(raw, Cap - used)) ELSE raw
  <1>3. ApplyReward(w, o, used) = Clamp(w + delta) - w
    BY DEF ApplyReward
  <1>4. delta \in Int /\ (delta > 0 => o = "delivered" /\ delta <= Cap - used)
    BY <1>1, <1>2 DEF Upper, Lower
  <1> HIDE DEF delta
  <1>5. /\ Clamp(w + delta) \in MinWeight..MaxWeight
        /\ delta <= 0 => Clamp(w + delta) <= w
        /\ delta > 0 => Clamp(w + delta) <= w + delta
    BY <1>1, <1>4 DEF Clamp, Upper, Lower
  <1> QED BY <1>1, <1>3, <1>4, <1>5

(* The record a lesson writes back. *)
Learnt(r, delta, now) == [UpdateState([r EXCEPT !.weight = @ + delta]) EXCEPT !.last = now]

(* It is fine, dated now, and pruned when the old one was. *)
LEMMA LearntFine ==
    ASSUME NEW r \in Fine, NEW delta \in Int, r.weight + delta \in MinWeight..MaxWeight,
           NEW now \in Clock
    PROVE  /\ Learnt(r, delta, now) \in Fine
           /\ Learnt(r, delta, now).last = now
           /\ Learnt(r, delta, now).state = "pruned" <=> r.state = "pruned"
  <1> DEFINE n == r.weight + delta
             v == [r EXCEPT !.weight = n]
             u == [v EXCEPT !.state = StateFor(n)]
             x == IF v.state = "pruned" THEN v ELSE u
  <1>1. n \in MinWeight..MaxWeight /\ n \in Nat
    BY LearningAssumption
  <1> HIDE DEF n
  <1>2. v \in Fine /\ v.state = r.state /\ v.weight = n
    BY <1>1 DEF Fine, Record
  <1>3. u \in Fine /\ u.state # "pruned"
    BY <1>2 DEF Fine, Record, StateFor
  <1>4. Learnt(r, delta, now) = [x EXCEPT !.last = now]
    BY <1>2 DEF Learnt, UpdateState, n
  <1> HIDE DEF v, u
  <1>5. x \in Fine /\ (x.state = "pruned" <=> r.state = "pruned")
    BY <1>2, <1>3
  <1> HIDE DEF x
  <1>6. [x EXCEPT !.last = now] \in Fine /\ [x EXCEPT !.last = now].last = now
        /\ [x EXCEPT !.last = now].state = x.state
    BY <1>5 DEF Fine, Record
  <1> QED BY <1>4, <1>5, <1>6

(* Division rounds down. *)
LEMMA Quotient ==
    ASSUME NEW a \in Nat, NEW b \in Nat \ {0}
    PROVE  a \div b \in Nat /\ b * (a \div b) <= a
  OBVIOUS

(* A product grows with its factors, and the other way round. *)
LEMMA Products ==
    ASSUME NEW t \in Nat \ {0}
    PROVE  /\ \A a, b \in Int : t * a <= t * b => a <= b
           /\ \A a, b \in Int : a <= b => t * a <= t * b
           /\ \A a, b \in Int : t * a \in Int /\ t * a = a * t
  <1>1. \A a, b \in Int : t * a \in Int /\ t * a = a * t
    OBVIOUS
  <1>2. ASSUME NEW a \in Int, NEW b \in Int, a <= b PROVE t * a <= t * b
    <2>1. b - a \in Nat /\ b = a + (b - a)
      BY <1>2
    <2>2. t * b = t * a + t * (b - a)
      BY <2>1, Distributes
    <2>3. t * (b - a) >= 0
      BY <2>1
    <2> QED BY <1>1, <2>1, <2>2, <2>3
  <1>3. ASSUME NEW a \in Int, NEW b \in Int, t * a <= t * b PROVE a <= b
    <2> SUFFICES ASSUME b + 1 <= a PROVE FALSE
      OBVIOUS
    <2>1. t * (b + 1) <= t * a
      BY <1>2
    <2>2. t * (b + 1) = t * b + t * 1
      BY Distributes
    <2>3. t * 1 = t
      OBVIOUS
    <2> QED BY <1>1, <1>3, <2>1, <2>2, <2>3
  <1> QED BY <1>1, <1>2, <1>3

(* One weight scaled to the budget, with the floor. *)
LEMMA ShareFacts ==
    ASSUME NEW w \in MinWeight..MaxWeight, NEW t \in Nat, t > Budget
    PROVE  /\ Upper((w * Budget) \div t, MinWeight) \in MinWeight..MaxWeight
           /\ t * Upper((w * Budget) \div t, MinWeight) <= Budget * w + t * MinWeight
  <1>1. /\ MinWeight \in Nat /\ MaxWeight \in Nat /\ Budget \in Nat /\ w \in Nat
        /\ MinWeight <= MaxWeight /\ t \in Nat \ {0} /\ w <= MaxWeight
    BY LearningAssumption DEF ValidConfig
  <1> DEFINE a == w * Budget
             q == a \div t
  <1>2. a \in Nat /\ a = Budget * w
    BY <1>1
  <1>3. q \in Nat /\ t * q <= a
    <2> HIDE DEF a
    <2> QED BY <1>1, <1>2, Quotient
  <1>4. a <= t * w
    <2>1. w = 0 \/ w \in Nat \ {0}
      BY <1>1
    <2>2. w * Budget <= w * t
      BY <1>1, <2>1, Products
    <2> QED BY <1>1, <2>2
  <1>5. q <= w
    <2>1. t * q \in Int /\ t * w \in Int /\ a \in Int
      BY <1>1, <1>2, <1>3
    <2>2. t * q <= t * w
      BY <1>3, <1>4, <2>1
    <2> HIDE DEF q, a
    <2> QED BY <1>1, <1>3, <2>2, Products
  <1>6. t * MinWeight \in Nat /\ t * q \in Int
    BY <1>1, <1>3
  <1> HIDE DEF q, a
  <1>7. Upper(q, MinWeight) \in MinWeight..MaxWeight
    BY <1>1, <1>3, <1>5 DEF Upper
  <1>8. t * Upper(q, MinWeight) <= a + t * MinWeight
    <2>1. CASE q > MinWeight
      BY <1>2, <1>3, <1>6, <2>1 DEF Upper
    <2>2. CASE ~(q > MinWeight)
      BY <1>2, <1>6, <2>2 DEF Upper
    <2> QED BY <2>1, <2>2
  <1> QED BY <1>2, <1>7, <1>8 DEF q, a

(* The weights of some records. *)
WeightsOf(m) == [p \in DOMAIN m |-> m[p].weight]

(* normalize_outbound(): nothing to write when the total is within budget;  *)
(* otherwise every synapse, at a fine weight, and in all no more than the   *)
(* budget and a floor each.                                                 *)
RescaleServed ==
    \/ Rescaled = NoWrites /\ TotalOf(Present) <= Budget
    \/ /\ Rescaled # NoWrites
       /\ Rescaled \in [Present -> Fine]
       /\ \A p \in Present : Rescaled[p].state = syn[p].state /\ Rescaled[p].last = syn[p].last
       /\ Total(WeightsOf(Rescaled), Present) <= Budget + MinWeight * Cardinality(Present)

(* The renormalisation does serve the budget. *)
LEMMA RescaledFine ==
    ASSUME Sound
    PROVE  RescaleServed
  <1> DEFINE ws == [p \in Present |-> syn[p].weight]
             T == TotalOf(Present)
  <1>0. /\ IsFiniteSet(Present) /\ Cardinality(Present) \in Nat
        /\ \A p \in Present : syn[p] \in Fine
        /\ MinWeight \in Nat /\ MaxWeight \in Nat /\ Budget \in Nat
    <2>1. Present \in SUBSET Peers /\ IsFiniteSet(Peers)
      BY LearningAssumption DEF Present
    <2> QED BY <2>1, LearningAssumption, FS_Subset, FS_CardinalityType DEF Present, Sound
  <1>1. \A p \in Present : ws[p] = syn[p].weight /\ ws[p] \in MinWeight..MaxWeight /\ ws[p] \in Nat
    BY <1>0 DEF Fine
  <1>2. T = Total(ws, Present) /\ T \in Nat
    <2> HIDE DEF ws
    <2>1. Total(ws, Present) \in Nat
      BY <1>0, <1>1, TotalRegular DEF Regular
    <2> QED BY <2>1 DEF TotalOf, ws
  <1> HIDE DEF ws
  <1>3. CASE T <= Budget
    BY <1>3 DEF Rescaled, NoWrites, RescaleServed
  <1>4. CASE ~(T <= Budget)
    <2> DEFINE share(p) == Upper((syn[p].weight * Budget) \div T, MinWeight)
               R == [p \in Present |-> [syn[p] EXCEPT !.weight = share(p)]]
               hs == [p \in Present |-> share(p)]
    <2>1. T > Budget /\ T \in Nat \ {0}
      BY <1>0, <1>2, <1>4
    <2>2. Rescaled = R
      BY <1>4 DEF Rescaled
    <2> HIDE DEF T
    <2>3. \A p \in Present : /\ share(p) \in MinWeight..MaxWeight
                             /\ T * share(p) <= Budget * ws[p] + T * MinWeight
      BY <1>1, <2>1, ShareFacts
    <2> HIDE DEF share
    <2>4. \A p \in Present : /\ R[p] \in Fine /\ R[p].state = syn[p].state
                             /\ R[p].last = syn[p].last /\ R[p].weight = share(p)
      <3> SUFFICES ASSUME NEW p \in Present
                   PROVE  /\ [syn[p] EXCEPT !.weight = share(p)] \in Fine
                          /\ R[p].state = syn[p].state
                          /\ R[p].last = syn[p].last /\ R[p].weight = share(p)
        OBVIOUS
      <3>1. syn[p] \in Fine /\ share(p) \in MinWeight..MaxWeight /\ share(p) \in Nat
        BY <1>0, <2>3
      <3> QED BY <3>1 DEF Fine, Record
    <2>5. Present # {}
      <3> SUFFICES ASSUME Present = {} PROVE FALSE
        OBVIOUS
      <3>1. Total(ws, Present) = 0
        BY <1>0, TotalPick
      <3> QED BY <1>0, <1>2, <2>1, <3>1
    <2>6. R # NoWrites
      <3>1. DOMAIN R = Present /\ DOMAIN NoWrites = {}
        BY DEF NoWrites
      <3> HIDE DEF R
      <3> QED BY <2>5, <3>1
    <2>7. WeightsOf(R) = hs
      BY <2>4 DEF WeightsOf
    <2>8. Total(hs, Present) <= Budget + MinWeight * Cardinality(Present)
      <3> DEFINE c == T * MinWeight
                 k == Cardinality(Present)
      <3>1. c \in Nat
        BY <1>0, <2>1
      <3>2. \A p \in Present : hs[p] \in Nat /\ T * hs[p] <= Budget * ws[p] + c
        BY <1>0, <2>3
      <3> HIDE DEF hs
      <3>3. Scaled(ws, hs, T, Budget, c, Present)
        <4> HIDE DEF c
        <4> QED BY <1>0, <1>1, <2>1, <3>1, <3>2, TotalScaled
      <3>4. T * Total(hs, Present) <= Budget * T + c * k
        BY <1>2, <3>3 DEF Scaled
      <3>5. Total(hs, Present) \in Nat
        BY <1>0, <3>2, TotalRegular DEF Regular
      <3>6. c * k = T * (MinWeight * k) /\ Budget * T = T * Budget
        BY <1>0, <2>1
      <3>7. T * Total(hs, Present) <= T * (Budget + MinWeight * k)
        <4>1. MinWeight * k \in Int
          BY <1>0
        <4>2. T * (Budget + MinWeight * k) = T * Budget + T * (MinWeight * k)
          BY <1>0, <2>1, <4>1, Distributes
        <4> QED BY <3>4, <3>6, <4>2
      <3>8. Budget + MinWeight * k \in Int
        BY <1>0
      <3> HIDE DEF c, k
      <3>9. Total(hs, Present) <= Budget + MinWeight * k
        BY <2>1, <3>5, <3>7, <3>8, Products
      <3> QED BY <3>9 DEF k
    <2>9. R \in [Present -> Fine]
      BY <2>4
    <2> HIDE DEF R, hs
    <2> QED BY <2>2, <2>4, <2>6, <2>7, <2>8, <2>9 DEF RescaleServed
  <1> QED BY <1>3, <1>4

-----------------------------------------------------------------------------
(* What each step does to the tasks.  A task, field by field: *)
Busy(ph, td, st, us, rc, dl, wr) ==
    [phase |-> ph, todo |-> td, stamp |-> st, used |-> us, rec |-> rc, delta |-> dl, writes |-> wr]

(* Task t becomes w and the others stay. *)
SetTo(t, w) == task' = [u \in Tasks |-> IF u = t THEN w ELSE task[u]]

(* The fields of such a task, ... *)
LEMMA BusyFields ==
    \A ph, td, st, us, rc, dl, wr :
       LET w == Busy(ph, td, st, us, rc, dl, wr)
       IN  /\ w = [f \in Fields |-> w[f]]
           /\ w.phase = ph /\ w.todo = td /\ w.stamp = st /\ w.used = us
           /\ w.rec = rc /\ w.delta = dl /\ w.writes = wr
  BY DEF Busy, Fields

(* ... of which the idle one is a case. *)
LEMMA FreeIsBusy == Free = Busy("idle", <<>>, 0, 0, NoSynapse, 0, NoWrites)
  BY DEF Free, Busy, NoWrites

(* A task is the sum of its fields. *)
LEMMA Alike ==
    ASSUME NEW r, r = [f \in Fields |-> r[f]]
    PROVE  r = Busy(r.phase, r.todo, r.stamp, r.used, r.rec, r.delta, r.writes)
  BY DEF Busy, Fields

(* A task that begins or changes, as a whole record. *)
LEMMA Begins ==
    \A ph, td, st, rc :
       /\ [Free EXCEPT !.phase = ph, !.stamp = st, !.todo = td]
             = Busy(ph, td, st, 0, NoSynapse, 0, NoWrites)
       /\ [Free EXCEPT !.phase = ph, !.stamp = st, !.rec = rc]
             = Busy(ph, <<>>, st, 0, rc, 0, NoWrites)
  <1> TAKE ph, td, st, rc
  <1>0. /\ Free = [f \in Fields |-> Free[f]]
        /\ Free.phase = "idle" /\ Free.todo = <<>> /\ Free.stamp = 0 /\ Free.used = 0
        /\ Free.rec = NoSynapse /\ Free.delta = 0 /\ Free.writes = NoWrites
    BY BusyFields, FreeIsBusy
  <1>1. [Free EXCEPT !.phase = ph, !.stamp = st, !.todo = td]
           = Busy(ph, td, st, 0, NoSynapse, 0, NoWrites)
    <2> DEFINE r == [Free EXCEPT !.phase = ph, !.stamp = st, !.todo = td]
    <2>1. /\ r = [f \in Fields |-> r[f]]
          /\ r.phase = ph /\ r.todo = td /\ r.stamp = st /\ r.used = 0
          /\ r.rec = NoSynapse /\ r.delta = 0 /\ r.writes = NoWrites
      BY <1>0 DEF Fields
    <2> HIDE DEF r
    <2>2. r = Busy(ph, td, st, 0, NoSynapse, 0, NoWrites)
      BY <2>1, Alike
    <2> QED BY <2>2 DEF r
  <1>2. [Free EXCEPT !.phase = ph, !.stamp = st, !.rec = rc]
           = Busy(ph, <<>>, st, 0, rc, 0, NoWrites)
    <2> DEFINE r == [Free EXCEPT !.phase = ph, !.stamp = st, !.rec = rc]
    <2>1. /\ r = [f \in Fields |-> r[f]]
          /\ r.phase = ph /\ r.todo = <<>> /\ r.stamp = st /\ r.used = 0
          /\ r.rec = rc /\ r.delta = 0 /\ r.writes = NoWrites
      BY <1>0 DEF Fields
    <2> HIDE DEF r
    <2>2. r = Busy(ph, <<>>, st, 0, rc, 0, NoWrites)
      BY <2>1, Alike
    <2> QED BY <2>2 DEF r
  <1> QED BY <1>1, <1>2

(* An EXCEPT sets one task. *)
LEMMA Sets ==
    ASSUME Shape, NEW t \in Tasks, NEW w, task' = [task EXCEPT ![t] = w]
    PROVE  SetTo(t, w)
  BY DEF Shape, SetTo

(* What is left to do after a decision. *)
LEMMA Proceeds ==
    ASSUME NEW t
    PROVE  Proceed(t) = IF Len(task[t].todo) > 1
                        THEN Busy("resolve", Tail(task[t].todo), task[t].stamp, 0, NoSynapse, 0, NoWrites)
                        ELSE Free
  BY Begins DEF Proceed

(* The actions, by what they set their task to: a handshake reads, ... *)
LEMMA HandshakeStep ==
    ASSUME Shape, NEW p \in Peers, Handshake(p)
    PROVE  /\ p \notin open /\ ~InCooldown(p) /\ task[p].phase = "idle" /\ MayRun(p)
           /\ \/ syn[p] = Upserted(p) /\ open' = open \cup {p} /\ UNCHANGED task
              \/ /\ SetTo(p, Busy("form", <<>>, clock, 0, Upserted(p), 0, NoWrites))
                 /\ syn[p] # Upserted(p) /\ UNCHANGED open
           /\ UNCHANGED <<clock, syn, journal, influence, sent, taught, gained, prunedAt, broken>>
  <1>1. CASE syn[p] = Upserted(p)
    BY <1>1 DEF Handshake, At
  <1>2. CASE syn[p] # Upserted(p)
    <2>1. task' = [task EXCEPT ![p] = Busy("form", <<>>, clock, 0, Upserted(p), 0, NoWrites)]
      BY <1>2, Begins DEF Handshake
    <2>2. SetTo(p, Busy("form", <<>>, clock, 0, Upserted(p), 0, NoWrites))
      BY <2>1, Sets DEF Tasks
    <2> QED BY <1>2, <2>2 DEF Handshake, At
  <1> QED BY <1>1, <1>2

(* ... upsert_synapse writes the record, ... *)
LEMMA PutFormedStep ==
    ASSUME Shape, NEW p \in Peers, PutFormed(p)
    PROVE  /\ task[p].phase = "form" /\ MayRun(p)
           /\ syn' = [syn EXCEPT ![p] = task[p].rec] /\ open' = open \cup {p}
           /\ SetTo(p, Free)
           /\ UNCHANGED <<clock, journal, influence, sent, taught, gained, prunedAt, broken>>
  BY Sets DEF PutFormed, At, Tasks

(* ... penalize_signature_failure reads it ... *)
LEMMA SignatureFailureStep ==
    ASSUME Shape, NEW p \in Peers, SignatureFailure(p)
    PROVE  /\ p \in open /\ task[p].phase = "idle" /\ MayRun(p)
           /\ SetTo(p, Busy("penalise", <<>>, clock, 0, Penalised(syn[p], clock), 0, NoWrites))
           /\ UNCHANGED <<clock, syn, journal, influence, open, sent, taught, gained, prunedAt, broken>>
  <1>1. task' = [task EXCEPT ![p] = Busy("penalise", <<>>, clock, 0, Penalised(syn[p], clock), 0, NoWrites)]
    BY Begins DEF SignatureFailure
  <1> QED BY <1>1, Sets DEF SignatureFailure, At, Tasks

(* ... and writes it back, ... *)
LEMMA PutPenalisedStep ==
    ASSUME Shape, NEW p \in Peers, PutPenalised(p)
    PROVE  /\ task[p].phase = "penalise" /\ MayRun(p)
           /\ syn' = [syn EXCEPT ![p] = task[p].rec]
           /\ \/ /\ task[p].rec.state = "pruned" /\ open' = open \ {p}
                 /\ prunedAt' = [prunedAt EXCEPT ![p] = task[p].stamp]
              \/ task[p].rec.state # "pruned" /\ UNCHANGED <<open, prunedAt>>
           /\ SetTo(p, Free)
           /\ UNCHANGED <<clock, journal, influence, sent, taught, gained, broken>>
  BY Sets DEF PutPenalised, At, Tasks

(* ... forward_signal journals and may have to fail at once, ... *)
LEMMA ForwardStep ==
    ASSUME Shape, NEW p \in Peers, NEW t \in Tasks, Forward(t, p)
    PROVE  /\ Journalled(p) /\ task[t].phase = "idle" /\ MayRun(t)
           /\ sent' \subseteq sent \cup {Len(journal) + 1}
           /\ \/ UNCHANGED task
              \/ SetTo(t, Busy("resolve", <<[id |-> Len(journal) + 1, outcome |-> "transport_failure"]>>,
                               clock, 0, NoSynapse, 0, NoWrites))
           /\ UNCHANGED <<clock, syn, influence, open, taught, gained, prunedAt, broken>>
  <1> DEFINE td == <<[id |-> Len(journal) + 1, outcome |-> "transport_failure"]>>
  <1>1. ASSUME task' = [task EXCEPT ![t] = [Free EXCEPT !.phase = "resolve", !.stamp = clock, !.todo = td]]
        PROVE  SetTo(t, Busy("resolve", td, clock, 0, NoSynapse, 0, NoWrites))
    <2> HIDE DEF td
    <2>1. task' = [task EXCEPT ![t] = Busy("resolve", td, clock, 0, NoSynapse, 0, NoWrites)]
      BY <1>1, Begins
    <2> QED BY <2>1, Sets
  <1>2. \/ UNCHANGED task /\ sent' = sent \cup {Len(journal) + 1}
        \/ /\ task' = [task EXCEPT ![t] = [Free EXCEPT !.phase = "resolve", !.stamp = clock, !.todo = td]]
           /\ UNCHANGED sent
    BY DEF Forward
  <1> HIDE DEF td
  <1>3. UNCHANGED task \/ SetTo(t, Busy("resolve", td, clock, 0, NoSynapse, 0, NoWrites))
    BY <1>1, <1>2
  <1>4. sent' \subseteq sent \cup {Len(journal) + 1}
    BY <1>2
  <1> QED BY <1>3, <1>4 DEF Forward, At, td

(* ... apply_receipt starts on one decision of its peer, ... *)
LEMMA ReceiptStep ==
    ASSUME Shape, NEW p \in Peers, NEW d \in DOMAIN journal, NEW o, Receipt(p, d, o)
    PROVE  /\ p \in open /\ task[p].phase = "idle" /\ MayRun(p) /\ journal[d].peer = p
           /\ SetTo(p, Busy("resolve", <<[id |-> d, outcome |-> o]>>, clock, 0, NoSynapse, 0, NoWrites))
           /\ UNCHANGED <<clock, syn, journal, influence, open, sent, taught, gained, prunedAt, broken>>
  <1> DEFINE td == <<[id |-> d, outcome |-> o]>>
  <1>1. task' = [task EXCEPT ![p] = [Free EXCEPT !.phase = "resolve", !.stamp = clock, !.todo = td]]
    BY DEF Receipt
  <1> HIDE DEF td
  <1>2. SetTo(p, Busy("resolve", td, clock, 0, NoSynapse, 0, NoWrites))
    <2>1. task' = [task EXCEPT ![p] = Busy("resolve", td, clock, 0, NoSynapse, 0, NoWrites)]
      BY <1>1, Begins
    <2> QED BY <2>1, Sets DEF Tasks
  <1> QED BY <1>2 DEF Receipt, At, td

(* ... and sweep_timeouts on the expired ones. *)
LEMMA SweepStep ==
    ASSUME Shape, Sweep
    PROVE  /\ Maintenance \in Tasks /\ task[Maintenance].phase = "idle" /\ MayRun(Maintenance)
           /\ \E td \in Seq(Item) :
                 /\ td # <<>>
                 /\ \A i \in 1..Len(td) : td[i].id \in 1..Len(journal) /\ td[i].outcome = "timed_out"
                 /\ SetTo(Maintenance, Busy("resolve", td, clock, 0, NoSynapse, 0, NoWrites))
           /\ UNCHANGED <<clock, syn, journal, influence, open, sent, taught, gained, prunedAt, broken>>
  <1> DEFINE expired == {d \in DOMAIN journal : Expired(d)}
             taken == {d \in expired : Cardinality({c \in expired : c < d}) < SweepLimit}
  <1>1. /\ Maintenance \in Tasks /\ Len(journal) \in Nat /\ DOMAIN journal = 1..Len(journal)
    BY DEF Tasks, Shape
  <1>2. taken \subseteq 1..Len(journal) /\ taken # {}
    BY <1>1 DEF Sweep
  <1>3. PICK order \in [1..Cardinality(taken) -> taken] :
           task' = [task EXCEPT ![Maintenance] =
                      [Free EXCEPT !.phase = "resolve", !.stamp = clock,
                          !.todo = [i \in 1..Cardinality(taken) |->
                                      [id |-> order[i], outcome |-> "timed_out"]]]]
    BY DEF Sweep
  <1> HIDE DEF taken
  <1>5. IsFiniteSet(taken)
    <2>1. IsFiniteSet(1..Len(journal))
      BY <1>1, FS_Interval
    <2> QED BY <1>2, <2>1, FS_Subset
  <1>6. Cardinality(taken) \in Nat /\ Cardinality(taken) # 0
    BY <1>2, <1>5, FS_CardinalityType, FS_EmptySet
  <1> DEFINE n == Cardinality(taken)
             s == [i \in 1..n |-> [id |-> order[i], outcome |-> "timed_out"]]
  <1>7. \A i \in 1..n : /\ [id |-> order[i], outcome |-> "timed_out"] \in Item
                         /\ order[i] \in 1..Len(journal)
    <2> SUFFICES ASSUME NEW i \in 1..n
                 PROVE  /\ [id |-> order[i], outcome |-> "timed_out"] \in Item
                        /\ order[i] \in 1..Len(journal)
      OBVIOUS
    <2>1. order[i] \in taken
      BY <1>3
    <2>2. order[i] \in 1..Len(journal)
      BY <1>2, <2>1
    <2>3. order[i] \in Nat /\ "timed_out" \in Resolutions
      BY <2>2 DEF Resolutions
    <2> QED BY <2>2, <2>3 DEF Item
  <1>8. s \in Seq(Item) /\ Len(s) = n
    BY <1>6, <1>7, IsASeq
  <1>9. s # <<>> /\ \A i \in 1..Len(s) : s[i].id \in 1..Len(journal) /\ s[i].outcome = "timed_out"
    BY <1>6, <1>7, <1>8
  <1>10. task' = [task EXCEPT ![Maintenance] = [Free EXCEPT !.phase = "resolve", !.stamp = clock, !.todo = s]]
    BY <1>3
  <1> HIDE DEF s, n
  <1>11. SetTo(Maintenance, Busy("resolve", s, clock, 0, NoSynapse, 0, NoWrites))
    <2>1. task' = [task EXCEPT ![Maintenance] = Busy("resolve", s, clock, 0, NoSynapse, 0, NoWrites)]
      BY <1>10, Begins
    <2> QED BY <1>1, <2>1, Sets
  <1> QED BY <1>1, <1>8, <1>9, <1>11 DEF Sweep, At

(* The steps of a handler, from the fields it had: the race for a decision. *)
LEMMA ResolveStep ==
    ASSUME Shape, NEW t \in Tasks, Resolve(t)
    PROVE  /\ task[t].phase = "resolve" /\ MayRun(t)
           /\ \E now \in {clock, task[t].stamp} :
                 /\ Current(t).outcome # "transport_failure" => now = task[t].stamp
                 /\ journal' = IF journal[Current(t).id].outcome = "pending"
                               THEN [journal EXCEPT ![Current(t).id].outcome = Current(t).outcome,
                                                    ![Current(t).id].resolved = now]
                               ELSE journal
                 /\ \/ SetTo(t, Busy("influence", task[t].todo, now, task[t].used, task[t].rec,
                                     task[t].delta, task[t].writes))
                    \/ SetTo(t, Proceed(t))
           /\ UNCHANGED <<clock, syn, influence, open, sent, taught, gained, prunedAt, broken>>
  <1> DEFINE now == IF Current(t).outcome = "transport_failure" THEN clock ELSE task[t].stamp
             w == Busy("influence", task[t].todo, now, task[t].used, task[t].rec,
                       task[t].delta, task[t].writes)
  <1>0. task[t] = [f \in Fields |-> task[t][f]] /\ task = [u \in Tasks |-> task[u]]
    BY DEF Shape, WorkOK
  <1>1. now \in {clock, task[t].stamp} /\ (Current(t).outcome # "transport_failure" => now = task[t].stamp)
    OBVIOUS
  <1>2. /\ journal' = IF journal[Current(t).id].outcome = "pending"
                      THEN [journal EXCEPT ![Current(t).id].outcome = Current(t).outcome,
                                           ![Current(t).id].resolved = now]
                      ELSE journal
        /\ \/ task' = [task EXCEPT ![t].phase = "influence", ![t].stamp = now]
           \/ task' = [task EXCEPT ![t] = Proceed(t)]
    BY Zenon DEF Resolve
  <1> HIDE DEF now
  <1>3. ASSUME task' = [task EXCEPT ![t].phase = "influence", ![t].stamp = now]
        PROVE  SetTo(t, w)
    <2>1. task' = [task EXCEPT ![t] = [task[t] EXCEPT !.phase = "influence", !.stamp = now]]
      BY <1>0, <1>3
    <2>2. [task[t] EXCEPT !.phase = "influence", !.stamp = now] = w
      <3> DEFINE r == [task[t] EXCEPT !.phase = "influence", !.stamp = now]
      <3>1. /\ r = [f \in Fields |-> r[f]]
             /\ r.phase = "influence" /\ r.todo = task[t].todo /\ r.stamp = now
             /\ r.used = task[t].used /\ r.rec = task[t].rec
             /\ r.delta = task[t].delta /\ r.writes = task[t].writes
        BY <1>0 DEF Fields
      <3> HIDE DEF r
      <3>2. r = w
        BY <3>1, Alike
      <3> QED BY <3>2 DEF r
    <2> QED BY <2>1, <2>2, Sets
  <1>4. SetTo(t, w) \/ SetTo(t, Proceed(t))
    BY <1>2, <1>3, Sets
  <1>5. task[t].phase = "resolve" /\ MayRun(t)
        /\ UNCHANGED <<clock, syn, influence, open, sent, taught, gained, prunedAt, broken>>
    BY DEF Resolve, At
  <1> QED BY <1>1, <1>2, <1>4, <1>5

(* The read of the influence used. *)
LEMMA ReadInfluenceStep ==
    ASSUME Shape, NEW t \in Tasks, ReadInfluence(t)
    PROVE  /\ task[t].phase = "influence" /\ MayRun(t)
           /\ SetTo(t, Busy("read", task[t].todo, task[t].stamp,
                            InfluenceSince(PeerOf(t), Since(task[t].stamp, Window)),
                            task[t].rec, task[t].delta, task[t].writes))
           /\ UNCHANGED <<clock, syn, journal, influence, open, sent, taught, gained, prunedAt, broken>>
  <1> DEFINE us == InfluenceSince(PeerOf(t), Since(task[t].stamp, Window))
             w == Busy("read", task[t].todo, task[t].stamp, us, task[t].rec, task[t].delta, task[t].writes)
  <1>0. task[t] = [f \in Fields |-> task[t][f]] /\ task = [u \in Tasks |-> task[u]]
    BY DEF Shape, WorkOK
  <1>1. task' = [task EXCEPT ![t].phase = "read", ![t].used = us]
    BY DEF ReadInfluence
  <1> HIDE DEF us
  <1>2. task' = [task EXCEPT ![t] = [task[t] EXCEPT !.phase = "read", !.used = us]]
    BY <1>0, <1>1
  <1>3. [task[t] EXCEPT !.phase = "read", !.used = us] = w
    <2> DEFINE r == [task[t] EXCEPT !.phase = "read", !.used = us]
    <2>1. /\ r = [f \in Fields |-> r[f]]
           /\ r.phase = "read" /\ r.todo = task[t].todo /\ r.stamp = task[t].stamp
           /\ r.used = us /\ r.rec = task[t].rec
           /\ r.delta = task[t].delta /\ r.writes = task[t].writes
      BY <1>0 DEF Fields
    <2> HIDE DEF r
    <2>2. r = w
      BY <2>1, Alike
    <2> QED BY <2>2 DEF r
  <1>4. SetTo(t, w)
    BY <1>2, <1>3, Sets
  <1> QED BY <1>4 DEF ReadInfluence, At, us

(* What its decision is worth to a handler. *)
Worth(t) == ApplyReward(syn[PeerOf(t)].weight, Current(t).outcome, task[t].used)

(* The read of the synapse and the update of the copy. *)
LEMMA ReadSynapseStep ==
    ASSUME Shape, NEW t \in Tasks, ReadSynapse(t)
    PROVE  /\ task[t].phase = "read" /\ MayRun(t)
           /\ SetTo(t, Busy(IF Worth(t) = 0 THEN "put" ELSE "charge",
                            task[t].todo, task[t].stamp, task[t].used,
                            Learnt(syn[PeerOf(t)], Worth(t), task[t].stamp), Worth(t), task[t].writes))
           /\ UNCHANGED <<clock, syn, journal, influence, open, sent, taught, gained, prunedAt, broken>>
  <1> DEFINE dl == Worth(t)
             ph == IF dl = 0 THEN "put" ELSE "charge"
             rc == Learnt(syn[PeerOf(t)], dl, task[t].stamp)
             w == Busy(ph, task[t].todo, task[t].stamp, task[t].used, rc, dl, task[t].writes)
  <1>0. task[t] = [f \in Fields |-> task[t][f]] /\ task = [u \in Tasks |-> task[u]]
    BY DEF Shape, WorkOK
  <1>1. task' = [task EXCEPT ![t].phase = ph, ![t].delta = dl, ![t].rec = rc]
    BY Zenon DEF ReadSynapse, Learnt, Worth
  <1> HIDE DEF ph, rc
  <1>3. SetTo(t, w)
    <2> HIDE DEF dl
    <2>1. task' = [task EXCEPT ![t] = [task[t] EXCEPT !.phase = ph, !.delta = dl, !.rec = rc]]
      BY <1>0, <1>1
    <2>2. [task[t] EXCEPT !.phase = ph, !.delta = dl, !.rec = rc] = w
      <3> DEFINE r == [task[t] EXCEPT !.phase = ph, !.delta = dl, !.rec = rc]
      <3>1. /\ r = [f \in Fields |-> r[f]]
             /\ r.phase = ph /\ r.todo = task[t].todo /\ r.stamp = task[t].stamp
             /\ r.used = task[t].used /\ r.rec = rc
             /\ r.delta = dl /\ r.writes = task[t].writes
        BY <1>0 DEF Fields
      <3> HIDE DEF r
      <3>2. r = w
        BY <3>1, Alike
      <3> QED BY <3>2 DEF r
    <2> QED BY <2>1, <2>2, Sets
  <1>4. task[t].phase = "read" /\ MayRun(t)
        /\ UNCHANGED <<clock, syn, journal, influence, open, sent, taught, gained, prunedAt, broken>>
    BY DEF ReadSynapse, At
  <1> QED BY <1>3, <1>4 DEF rc, ph

(* The charge, before the write. *)
LEMMA ChargeStep ==
    ASSUME Shape, NEW t \in Tasks, ChargeInfluence(t)
    PROVE  /\ task[t].phase = "charge" /\ MayRun(t)
           /\ SetTo(t, Busy("put", task[t].todo, task[t].stamp, task[t].used, task[t].rec,
                            task[t].delta, task[t].writes))
           /\ influence' = [influence EXCEPT ![PeerOf(t)][task[t].stamp] =
                               @ + Magnitude(task[t].delta)]
           /\ UNCHANGED <<clock, syn, journal, open, sent, taught, gained, prunedAt, broken>>
  <1> DEFINE w == Busy("put", task[t].todo, task[t].stamp, task[t].used, task[t].rec,
                       task[t].delta, task[t].writes)
  <1>0. task[t] = [f \in Fields |-> task[t][f]] /\ task = [u \in Tasks |-> task[u]]
    BY DEF Shape, WorkOK
  <1>1. task' = [task EXCEPT ![t] = [task[t] EXCEPT !.phase = "put"]]
    BY <1>0 DEF ChargeInfluence
  <1>2. [task[t] EXCEPT !.phase = "put"] = w
    <2> DEFINE r == [task[t] EXCEPT !.phase = "put"]
    <2>1. /\ r = [f \in Fields |-> r[f]]
           /\ r.phase = "put" /\ r.todo = task[t].todo /\ r.stamp = task[t].stamp
           /\ r.used = task[t].used /\ r.rec = task[t].rec
           /\ r.delta = task[t].delta /\ r.writes = task[t].writes
      BY <1>0 DEF Fields
    <2> HIDE DEF r
    <2>2. r = w
      BY <2>1, Alike
    <2> QED BY <2>2 DEF r
  <1>3. SetTo(t, w)
    BY <1>1, <1>2, Sets
  <1> QED BY <1>3 DEF ChargeInfluence, At

(* The write of the lesson. *)
LEMMA PutStep ==
    ASSUME Shape, NEW t \in Tasks, PutSynapse(t)
    PROVE  /\ task[t].phase = "put" /\ MayRun(t)
           /\ SetTo(t, Busy("list", task[t].todo, task[t].stamp, task[t].used, NoSynapse,
                            task[t].delta, task[t].writes))
           /\ syn' = [syn EXCEPT ![PeerOf(t)] = task[t].rec]
           /\ taught' = [taught EXCEPT ![Current(t).id] = @ + 1]
           /\ gained' = [gained EXCEPT ![PeerOf(t)][task[t].stamp] = @ + Upper(task[t].delta, 0)]
           /\ UNCHANGED <<clock, journal, influence, open, sent, prunedAt, broken>>
  <1> DEFINE w == Busy("list", task[t].todo, task[t].stamp, task[t].used, NoSynapse,
                       task[t].delta, task[t].writes)
  <1>0. task[t] = [f \in Fields |-> task[t][f]] /\ task = [u \in Tasks |-> task[u]]
    BY DEF Shape, WorkOK
  <1>1. task' = [task EXCEPT ![t] = [task[t] EXCEPT !.phase = "list", !.rec = NoSynapse]]
    BY <1>0 DEF PutSynapse
  <1>2. [task[t] EXCEPT !.phase = "list", !.rec = NoSynapse] = w
    <2> DEFINE r == [task[t] EXCEPT !.phase = "list", !.rec = NoSynapse]
    <2>1. /\ r = [f \in Fields |-> r[f]]
           /\ r.phase = "list" /\ r.todo = task[t].todo /\ r.stamp = task[t].stamp
           /\ r.used = task[t].used /\ r.rec = NoSynapse
           /\ r.delta = task[t].delta /\ r.writes = task[t].writes
      BY <1>0 DEF Fields
    <2> HIDE DEF r
    <2>2. r = w
      BY <2>1, Alike
    <2> QED BY <2>2 DEF r
  <1>3. SetTo(t, w)
    BY <1>1, <1>2, Sets
  <1> QED BY <1>3 DEF PutSynapse, At

(* The read of all synapses. *)
LEMMA ListStep ==
    ASSUME Shape, NEW t \in Tasks, ListSynapses(t)
    PROVE  /\ task[t].phase = "list" /\ MayRun(t)
           /\ \/ Rescaled = NoWrites /\ SetTo(t, Proceed(t))
              \/ /\ Rescaled # NoWrites
                 /\ SetTo(t, Busy("rewrite", task[t].todo, task[t].stamp, task[t].used, task[t].rec,
                                  task[t].delta, Rescaled))
           /\ UNCHANGED <<clock, syn, journal, influence, open, sent, taught, gained, prunedAt, broken>>
  <1> DEFINE w == Busy("rewrite", task[t].todo, task[t].stamp, task[t].used, task[t].rec,
                       task[t].delta, Rescaled)
  <1>0. task[t] = [f \in Fields |-> task[t][f]] /\ task = [u \in Tasks |-> task[u]]
    BY DEF Shape, WorkOK
  <1>1. /\ task' = IF Rescaled = NoWrites
                   THEN [task EXCEPT ![t] = Proceed(t)]
                   ELSE [task EXCEPT ![t].phase = "rewrite", ![t].writes = Rescaled]
        /\ task[t].phase = "list" /\ MayRun(t)
        /\ UNCHANGED <<clock, syn, journal, influence, open, sent, taught, gained, prunedAt, broken>>
    BY Zenon DEF ListSynapses, At, NoWrites
  <1>2. CASE Rescaled = NoWrites
    BY <1>1, <1>2, Sets
  <1>3. CASE Rescaled # NoWrites
    <2>1. task' = [task EXCEPT ![t] = [task[t] EXCEPT !.phase = "rewrite", !.writes = Rescaled]]
      BY <1>0, <1>1, <1>3
    <2>2. [task[t] EXCEPT !.phase = "rewrite", !.writes = Rescaled] = w
      <3> DEFINE r == [task[t] EXCEPT !.phase = "rewrite", !.writes = Rescaled]
      <3>1. /\ r = [f \in Fields |-> r[f]]
             /\ r.phase = "rewrite" /\ r.todo = task[t].todo /\ r.stamp = task[t].stamp
             /\ r.used = task[t].used /\ r.rec = task[t].rec
             /\ r.delta = task[t].delta /\ r.writes = Rescaled
        BY <1>0 DEF Fields
      <3> HIDE DEF r
      <3>2. r = w
        BY <3>1, Alike
      <3> QED BY <3>2 DEF r
    <2>3. SetTo(t, w)
      BY <2>1, <2>2, Sets
    <2> QED BY <1>1, <1>3, <2>3
  <1> QED BY <1>2, <1>3

(* One write of the renormalisation. *)
LEMMA RewriteStep ==
    ASSUME Shape, NEW t \in Tasks, NEW p \in Peers, Rewrite(t, p)
    PROVE  /\ task[t].phase = "rewrite" /\ MayRun(t) /\ p \in DOMAIN task[t].writes
           /\ syn' = [syn EXCEPT ![p] = task[t].writes[p]]
           /\ \/ DOMAIN task[t].writes \ {p} = {} /\ SetTo(t, Proceed(t))
              \/ SetTo(t, Busy("rewrite", task[t].todo, task[t].stamp, task[t].used, task[t].rec,
                               task[t].delta,
                               [q \in DOMAIN task[t].writes \ {p} |-> task[t].writes[q]]))
           /\ UNCHANGED <<clock, journal, influence, open, sent, taught, gained, prunedAt, broken>>
  <1> DEFINE rest == [q \in DOMAIN task[t].writes \ {p} |-> task[t].writes[q]]
             w == Busy("rewrite", task[t].todo, task[t].stamp, task[t].used, task[t].rec,
                       task[t].delta, rest)
  <1>0. task[t] = [f \in Fields |-> task[t][f]] /\ task = [u \in Tasks |-> task[u]]
    BY DEF Shape, WorkOK
  <1>1. /\ task[t].phase = "rewrite" /\ MayRun(t) /\ p \in DOMAIN task[t].writes
        /\ syn' = [syn EXCEPT ![p] = task[t].writes[p]]
        /\ task' = IF DOMAIN task[t].writes \ {p} = {}
                   THEN [task EXCEPT ![t] = Proceed(t)]
                   ELSE [task EXCEPT ![t].writes = rest]
        /\ UNCHANGED <<clock, journal, influence, open, sent, taught, gained, prunedAt, broken>>
    BY Zenon DEF Rewrite, At
  <1> HIDE DEF rest
  <1>2. CASE DOMAIN task[t].writes \ {p} = {}
    <2>1. SetTo(t, Proceed(t))
      BY <1>1, <1>2, Sets
    <2> QED BY <1>1, <1>2, <2>1
  <1>3. CASE DOMAIN task[t].writes \ {p} # {}
    <2>1. task' = [task EXCEPT ![t] = [task[t] EXCEPT !.writes = rest]]
      BY <1>0, <1>1, <1>3
    <2>2. [task[t] EXCEPT !.writes = rest] = w
      <3> DEFINE r == [task[t] EXCEPT !.writes = rest]
      <3>1. /\ r = [f \in Fields |-> r[f]]
             /\ r.phase = "rewrite" /\ r.todo = task[t].todo /\ r.stamp = task[t].stamp
             /\ r.used = task[t].used /\ r.rec = task[t].rec
             /\ r.delta = task[t].delta /\ r.writes = rest
        BY <1>0, <1>1 DEF Fields
      <3> HIDE DEF r
      <3>2. r = w
        BY <3>1, Alike
      <3> QED BY <3>2 DEF r
    <2>3. SetTo(t, w)
      BY <2>1, <2>2, Sets
    <2> QED BY <1>1, <1>3, <2>3 DEF rest
  <1> QED BY <1>2, <1>3

-----------------------------------------------------------------------------
(* Sound is inductive.  Its part about the tasks: *)
TasksOK ==
    /\ task = [t \in Tasks |-> task[t]]
    /\ \A t \in Tasks : WorkOK(task[t], Len(journal)) /\ Holding(task[t])

(* The part of Sound about the store and the histories. *)
Tables ==
    /\ clock \in Clock
    /\ journal \in Seq(Entry) /\ Len(journal) <= MaxDecisions
    /\ taught \in [Decisions -> Nat]
    /\ broken \in BOOLEAN
    /\ syn \in [Peers -> Fine \cup {NoSynapse}]
    /\ \A d \in DOMAIN journal : syn[journal[d].peer] # NoSynapse
    /\ open \subseteq Present
    /\ sent \subseteq Decisions
    /\ influence \in [Peers -> [Clock -> Nat]]
    /\ gained \in [Peers -> [Clock -> Nat]]
    /\ prunedAt \in [Peers -> Clock]

(* Together they are Sound, ... *)
LEMMA SoundParts == Sound <=> TasksOK /\ Tables
  BY DEF Sound, Shape, TasksOK, Tables

(* ... also in the next state. *)
LEMMA SoundPartsNext == Sound' <=> TasksOK' /\ Tables'
  BY DEF Sound, Shape, TasksOK, Tables

(* A task is well formed when its fields are. *)
LEMMA BusyFits ==
    ASSUME NEW n, NEW ph \in Phases, NEW td \in Seq(Item), NEW st \in Clock, NEW us \in Nat,
           NEW rc, NEW dl \in Int, NEW wr,
           \A i \in 1..Len(td) : td[i].id \in 1..n,
           ph \in Learning => td # <<>>,
           ph \in {"form", "penalise", "charge", "put"} => rc \in Fine,
           wr \in [DOMAIN wr -> Fine], DOMAIN wr \subseteq Peers
    PROVE  WorkOK(Busy(ph, td, st, us, rc, dl, wr), n) /\ Holding(Busy(ph, td, st, us, rc, dl, wr))
  <1> DEFINE w == Busy(ph, td, st, us, rc, dl, wr)
  <1>1. /\ w = [f \in Fields |-> w[f]]
        /\ w.phase = ph /\ w.todo = td /\ w.stamp = st /\ w.used = us
        /\ w.rec = rc /\ w.delta = dl /\ w.writes = wr
    BY BusyFields
  <1> HIDE DEF w
  <1>2. WorkOK(w, n)
    BY <1>1 DEF WorkOK
  <1>3. Holding(w)
    BY <1>1 DEF Holding
  <1> QED BY <1>2, <1>3 DEF w

(* The values of the fields a task starts with. *)
LEMMA NoWritesFacts ==
    /\ NoWrites \in [DOMAIN NoWrites -> Fine] /\ DOMAIN NoWrites \subseteq Peers
    /\ 0 \in Nat /\ 0 \in Int
  BY DEF NoWrites

(* An idle task. *)
LEMMA FreeFits ==
    ASSUME NEW n \in Nat
    PROVE  WorkOK(Free, n) /\ Holding(Free)
  <1>1. 0 \in Clock
    BY LearningAssumption DEF Clock
  <1>2. "idle" \in Phases /\ "idle" \notin Learning /\ "idle" \notin {"form", "penalise", "charge", "put"}
    BY DEF Phases, Learning
  <1>3. <<>> \in Seq(Item) /\ \A i \in 1..Len(<<>>) : <<>>[i].id \in 1..n
    OBVIOUS
  <1>4. ASSUME NEW td \in Seq(Item), \A i \in 1..Len(td) : td[i].id \in 1..n
        PROVE  /\ WorkOK(Busy("idle", td, 0, 0, NoSynapse, 0, NoWrites), n)
               /\ Holding(Busy("idle", td, 0, 0, NoSynapse, 0, NoWrites))
    <2> DEFINE wr == NoWrites
    <2>1. wr \in [DOMAIN wr -> Fine] /\ DOMAIN wr \subseteq Peers /\ 0 \in Nat /\ 0 \in Int
      BY NoWritesFacts
    <2> HIDE DEF wr
    <2>2. /\ WorkOK(Busy("idle", td, 0, 0, NoSynapse, 0, wr), n)
          /\ Holding(Busy("idle", td, 0, 0, NoSynapse, 0, wr))
      BY <1>1, <1>2, <1>4, <2>1, BusyFits
    <2> QED BY <2>2 DEF wr
  <1> QED BY <1>3, <1>4, FreeIsBusy

(* A handler that starts. *)
LEMMA StartFits ==
    ASSUME NEW n \in Nat, NEW td \in Seq(Item), td # <<>>, NEW now \in Clock,
           \A i \in 1..Len(td) : td[i].id \in 1..n
    PROVE  /\ WorkOK(Busy("resolve", td, now, 0, NoSynapse, 0, NoWrites), n)
           /\ Holding(Busy("resolve", td, now, 0, NoSynapse, 0, NoWrites))
  <1>1. "resolve" \in Phases /\ "resolve" \notin {"form", "penalise", "charge", "put"}
    BY DEF Phases
  <1> DEFINE wr == NoWrites
  <1>2. wr \in [DOMAIN wr -> Fine] /\ DOMAIN wr \subseteq Peers /\ 0 \in Nat /\ 0 \in Int
    BY NoWritesFacts
  <1> HIDE DEF wr
  <1>3. /\ WorkOK(Busy("resolve", td, now, 0, NoSynapse, 0, wr), n)
        /\ Holding(Busy("resolve", td, now, 0, NoSynapse, 0, wr))
    BY <1>1, <1>2, BusyFits
  <1> QED BY <1>3 DEF wr

(* A session's handler between its read and its write. *)
LEMMA PauseFits ==
    ASSUME NEW n \in Nat, NEW ph \in {"form", "penalise"}, NEW r \in Fine, NEW now \in Clock
    PROVE  /\ WorkOK(Busy(ph, <<>>, now, 0, r, 0, NoWrites), n)
           /\ Holding(Busy(ph, <<>>, now, 0, r, 0, NoWrites))
  <1>1. ph \in Phases /\ ph \notin Learning
    BY DEF Phases, Learning
  <1> DEFINE wr == NoWrites
             td == <<>>
  <1>2. td \in Seq(Item) /\ \A i \in 1..Len(td) : td[i].id \in 1..n
    OBVIOUS
  <1>3. wr \in [DOMAIN wr -> Fine] /\ DOMAIN wr \subseteq Peers /\ 0 \in Nat /\ 0 \in Int
    BY NoWritesFacts
  <1> HIDE DEF wr, td
  <1>4. WorkOK(Busy(ph, td, now, 0, r, 0, wr), n) /\ Holding(Busy(ph, td, now, 0, r, 0, wr))
    BY <1>1, <1>2, <1>3, BusyFits
  <1> QED BY <1>4 DEF wr, td

(* The fields of a task. *)
LEMMA TaskFacts ==
    ASSUME Sound, NEW t \in Tasks
    PROVE  /\ task[t].phase \in Phases /\ task[t].stamp \in Clock /\ task[t].todo \in Seq(Item)
           /\ \A i \in 1..Len(task[t].todo) : task[t].todo[i].id \in 1..Len(journal)
           /\ task[t].phase \in Learning => task[t].todo # <<>>
           /\ task[t].used \in Nat /\ task[t].delta \in Int
           /\ task[t].phase \in {"form", "penalise", "charge", "put"} => task[t].rec \in Fine
           /\ task[t].writes \in [DOMAIN task[t].writes -> Fine]
           /\ DOMAIN task[t].writes \subseteq Peers
           /\ Len(journal) \in Nat
  BY DEF Sound, Shape, WorkOK, Holding

(* The decision a handler is at, and its synapse. *)
LEMMA CurrentFits ==
    ASSUME Sound, NEW t \in Tasks, task[t].phase \in Learning
    PROVE  /\ Current(t) = task[t].todo[1] /\ 1 \in 1..Len(task[t].todo)
           /\ Current(t).outcome \in Resolutions
           /\ Current(t).id \in DOMAIN journal /\ Current(t).id \in Decisions
           /\ Current(t).id \in 1..Len(journal)
           /\ PeerOf(t) \in Peers /\ syn[PeerOf(t)] \in Fine
           /\ PeerOf(t) = journal[Current(t).id].peer
  <1> DEFINE s == task[t].todo
  <1>1. s \in Seq(Item) /\ s # <<>> /\ \A i \in 1..Len(s) : s[i].id \in 1..Len(journal)
    BY TaskFacts
  <1>2. Len(journal) \in Nat /\ Len(journal) <= MaxDecisions /\ MaxDecisions \in Nat
        /\ journal \in Seq(Entry)
    BY LearningAssumption DEF Sound, Shape
  <1>3. Current(t) = Head(s)
    BY DEF Current
  <1> HIDE DEF s
  <1>4. Len(s) \in Nat /\ Len(s) # 0
    BY <1>1, EmptySeq
  <1>5. 1 \in 1..Len(s) /\ s[1] \in Item /\ Head(s) = s[1]
    BY <1>1, <1>4
  <1>6. s[1].id \in 1..Len(journal) /\ s[1].outcome \in Resolutions
    BY <1>1, <1>5 DEF Item
  <1>7. s[1].id \in Decisions /\ s[1].id \in DOMAIN journal
    BY <1>2, <1>6 DEF Decisions
  <1>8. journal[s[1].id] \in Entry
    BY <1>2, <1>6
  <1>9. journal[s[1].id].peer \in Peers
    BY <1>8 DEF Entry
  <1>10. syn[journal[s[1].id].peer] \in Fine
    BY <1>7, <1>9 DEF Sound
  <1>11. PeerOf(t) = journal[s[1].id].peer
    BY <1>3, <1>5 DEF PeerOf
  <1> QED BY <1>3, <1>5, <1>6, <1>7, <1>9, <1>10, <1>11 DEF s

(* A handler that goes on to its next decision, or ends. *)
LEMMA ProceedFits ==
    ASSUME Sound, NEW t \in Tasks, task[t].phase \in Learning
    PROVE  WorkOK(Proceed(t), Len(journal)) /\ Holding(Proceed(t))
  <1> DEFINE s == task[t].todo
  <1>1. /\ s \in Seq(Item) /\ s # <<>> /\ \A i \in 1..Len(s) : s[i].id \in 1..Len(journal)
        /\ task[t].stamp \in Clock /\ Len(journal) \in Nat
    BY TaskFacts
  <1>2. Proceed(t) = IF Len(s) > 1
                     THEN Busy("resolve", Tail(s), task[t].stamp, 0, NoSynapse, 0, NoWrites)
                     ELSE Free
    BY Proceeds
  <1> HIDE DEF s
  <1>3. CASE Len(s) > 1
    <2>1. Tail(s) \in Seq(Item) /\ Len(Tail(s)) = Len(s) - 1 /\ \A i \in 1..Len(Tail(s)) : Tail(s)[i] = s[i + 1]
      BY <1>1
    <2>2. Len(s) \in Nat /\ Tail(s) # <<>>
      <3>1. Len(s) \in Nat /\ Len(Tail(s)) # 0
        BY <1>1, <1>3, <2>1
      <3> QED BY <2>1, <3>1, EmptySeq
    <2>3. \A i \in 1..Len(Tail(s)) : Tail(s)[i].id \in 1..Len(journal)
      BY <1>1, <2>1, <2>2
    <2> QED BY <1>1, <1>2, <1>3, <2>1, <2>2, <2>3, StartFits
  <1>4. CASE ~(Len(s) > 1)
    BY <1>1, <1>2, <1>4, FreeFits
  <1> QED BY <1>3, <1>4

(* One task is set. *)
LEMMA SetFits ==
    ASSUME Sound, NEW t \in Tasks, NEW w, WorkOK(w, Len(journal)), Holding(w), SetTo(t, w),
           Len(journal') = Len(journal)
    PROVE  TasksOK'
  <1>1. /\ task' = [u \in Tasks |-> task'[u]]
        /\ \A u \in Tasks : task'[u] = IF u = t THEN w ELSE task[u]
    BY DEF SetTo
  <1>2. \A u \in Tasks : WorkOK(task[u], Len(journal)) /\ Holding(task[u])
    BY DEF Sound, Shape
  <1>3. \A u \in Tasks : WorkOK(task'[u], Len(journal')) /\ Holding(task'[u])
    BY <1>1, <1>2
  <1>4. \A u \in Tasks : WorkOK(task[u], Len(journal))' /\ Holding(task[u])'
    BY <1>3 DEF WorkOK, Holding
  <1> QED BY <1>1, <1>4 DEF TasksOK

(* No task changes. *)
LEMMA SameFits ==
    ASSUME Sound, UNCHANGED task, Len(journal') = Len(journal)
    PROVE  TasksOK'
  <1>1. \A u \in Tasks : WorkOK(task[u], Len(journal)) /\ Holding(task[u])
    BY DEF Sound, Shape
  <1>2. \A u \in Tasks : WorkOK(task[u], Len(journal))' /\ Holding(task[u])'
    BY <1>1 DEF WorkOK, Holding
  <1> QED BY <1>2 DEF TasksOK, Sound, Shape

(* The store does not change. *)
LEMMA TablesKept ==
    ASSUME Sound, clock' \in Clock, broken' \in BOOLEAN, open' \subseteq Present,
           UNCHANGED <<syn, journal, influence, sent, taught, gained, prunedAt>>
    PROVE  Tables'
  BY DEF Sound, Shape, Tables, Present

(* One synapse is written. *)
LEMMA Written ==
    ASSUME Sound, NEW p \in Peers, NEW r \in Fine, syn' = [syn EXCEPT ![p] = r]
    PROVE  /\ syn' \in [Peers -> Fine \cup {NoSynapse}]
           /\ syn'[p] = r /\ r # NoSynapse
           /\ \A q \in Peers : q # p => syn'[q] = syn[q]
           /\ Present' = Present \cup {p}
           /\ \A d \in DOMAIN journal : journal[d].peer \in Peers /\ syn'[journal[d].peer] # NoSynapse
  <1>1. syn \in [Peers -> Fine \cup {NoSynapse}] /\ journal \in Seq(Entry)
        /\ \A d \in DOMAIN journal : syn[journal[d].peer] # NoSynapse
    BY DEF Sound, Shape
  <1>2. r # NoSynapse
    BY RecordAssumption DEF Fine
  <1>3. /\ syn' \in [Peers -> Fine \cup {NoSynapse}] /\ syn'[p] = r
        /\ \A q \in Peers : q # p => syn'[q] = syn[q]
    BY <1>1
  <1>4. \A d \in DOMAIN journal : journal[d].peer \in Peers
    <2>1. \A d \in DOMAIN journal : journal[d] \in Entry
      BY <1>1
    <2> QED BY <2>1 DEF Entry
  <1>5. Present' = Present \cup {p}
    BY <1>2, <1>3 DEF Present
  <1> QED BY <1>1, <1>2, <1>3, <1>4, <1>5

(* A handler's outcome is journalled. *)
LEMMA OutcomeJournalled ==
    ASSUME Sound, NEW d \in 1..Len(journal), NEW o \in Resolutions, NEW now \in Clock,
           journal' = [journal EXCEPT ![d].outcome = o, ![d].resolved = now]
    PROVE  /\ journal' \in Seq(Entry) /\ Len(journal') = Len(journal) /\ DOMAIN journal' = DOMAIN journal
           /\ \A i \in DOMAIN journal : journal'[i].peer = journal[i].peer
  <1>0. journal \in Seq(Entry) /\ Len(journal) \in Nat
    BY DEF Sound, Shape
  <1>1. journal[d] \in Entry
    BY <1>0
  <1> DEFINE e == [journal[d] EXCEPT !.outcome = o, !.resolved = now]
  <1>2. e \in Entry /\ e.peer = journal[d].peer
    BY <1>1 DEF Entry
  <1>3. journal' = [journal EXCEPT ![d] = e]
    OBVIOUS
  <1> HIDE DEF e
  <1> QED BY <1>0, <1>2, <1>3, SMTT(30)

(* A new decision is journalled. *)
LEMMA Appended ==
    ASSUME Sound, NEW p \in Peers, Journalled(p)
    PROVE  /\ p \in Present /\ Len(journal) + 1 \in Decisions /\ Len(journal) \in Nat
           /\ journal' \in Seq(Entry) /\ Len(journal') = Len(journal) + 1
           /\ Len(journal') <= MaxDecisions
           /\ DOMAIN journal' = 1..(Len(journal) + 1) /\ DOMAIN journal = 1..Len(journal)
           /\ \A i \in 1..Len(journal) : journal'[i] = journal[i]
           /\ journal'[Len(journal) + 1].peer = p
           /\ \A i \in DOMAIN journal' : syn[journal'[i].peer] # NoSynapse
  <1> DEFINE e == [peer |-> p, outcome |-> "pending", at |-> clock, resolved |-> 0]
  <1>1. /\ journal \in Seq(Entry) /\ Len(journal) \in Nat /\ Len(journal) < MaxDecisions
        /\ journal' = Append(journal, e) /\ MaxDecisions \in Nat
        /\ \A i \in DOMAIN journal : syn[journal[i].peer] # NoSynapse
    BY LearningAssumption, SMTT(30) DEF Sound, Shape, Journalled
  <1>2. e \in Entry /\ e.peer = p
    BY LearningAssumption DEF Sound, Shape, Entry, Clock
  <1>3. p \in Present /\ syn[p] # NoSynapse
    BY DEF Journalled, Eligible, Present
  <1> HIDE DEF e
  <1>4. /\ journal' \in Seq(Entry) /\ Len(journal') = Len(journal) + 1
        /\ DOMAIN journal' = 1..(Len(journal) + 1) /\ DOMAIN journal = 1..Len(journal)
        /\ \A i \in 1..Len(journal) : journal'[i] = journal[i]
        /\ journal'[Len(journal) + 1] = e
    BY <1>1, <1>2
  <1>5. \A i \in DOMAIN journal' : syn[journal'[i].peer] # NoSynapse
    <2> SUFFICES ASSUME NEW i \in 1..(Len(journal) + 1)
                 PROVE  syn[journal'[i].peer] # NoSynapse
      BY <1>4
    <2>1. CASE i \in 1..Len(journal)
      BY <1>1, <1>4, <2>1
    <2>2. CASE i = Len(journal) + 1
      BY <1>2, <1>3, <1>4, <2>2
    <2> QED BY <1>1, <2>1, <2>2
  <1> QED BY <1>1, <1>2, <1>3, <1>4, <1>5 DEF Decisions

(* Sessions keep the state sound. *)
LEMMA SessionSound ==
    ASSUME Sound, NEW p \in Peers,
           \/ Handshake(p) \/ PutFormed(p) \/ Close(p)
           \/ SignatureFailure(p) \/ PutPenalised(p)
    PROVE  Sound'
  <1>0. /\ Shape /\ p \in Tasks /\ clock \in Clock /\ Len(journal) \in Nat
        /\ broken \in BOOLEAN /\ open \subseteq Present
    <2>1. Shape
      BY DEF Sound
    <2>2. clock \in Clock /\ journal \in Seq(Entry) /\ broken \in BOOLEAN
      BY <2>1 DEF Shape
    <2>3. open \subseteq Present /\ p \in Tasks
      BY DEF Sound, Tasks
    <2> QED BY <2>1, <2>2, <2>3
  <1>1. CASE Handshake(p)
    <2>1. /\ \/ syn[p] = Upserted(p) /\ open' = open \cup {p} /\ UNCHANGED task
             \/ /\ SetTo(p, Busy("form", <<>>, clock, 0, Upserted(p), 0, NoWrites))
                /\ UNCHANGED open
          /\ UNCHANGED <<clock, syn, journal, influence, sent, taught, gained, prunedAt, broken>>
      BY <1>0, <1>1, HandshakeStep
    <2>2. Upserted(p) \in Fine
      BY UpsertedFine
    <2>3. CASE syn[p] = Upserted(p) /\ open' = open \cup {p} /\ UNCHANGED task
      <3>1. p \in Present
        BY <2>2, <2>3, RecordAssumption DEF Present, Fine
      <3>2. Tables'
        BY <1>0, <2>1, <2>3, <3>1, TablesKept
      <3> QED BY <2>1, <2>3, <3>2, SameFits, SoundPartsNext
    <2>4. CASE SetTo(p, Busy("form", <<>>, clock, 0, Upserted(p), 0, NoWrites)) /\ UNCHANGED open
      <3>1. Tables'
        BY <1>0, <2>1, <2>4, TablesKept
      <3> DEFINE w == Busy("form", <<>>, clock, 0, Upserted(p), 0, NoWrites)
      <3>2. WorkOK(w, Len(journal)) /\ Holding(w) /\ SetTo(p, w)
        BY <1>0, <2>2, <2>4, PauseFits
      <3> HIDE DEF w
      <3>3. TasksOK'
        BY <1>0, <2>1, <3>2, SetFits
      <3> QED BY <3>1, <3>3, SoundPartsNext
    <2> QED BY <2>1, <2>3, <2>4
  <1>2. CASE PutFormed(p)
    <2>1. /\ task[p].phase = "form" /\ SetTo(p, Free)
          /\ syn' = [syn EXCEPT ![p] = task[p].rec] /\ open' = open \cup {p}
          /\ UNCHANGED <<clock, journal, influence, sent, taught, gained, prunedAt, broken>>
      BY <1>0, <1>2, PutFormedStep
    <2>2. task[p].rec \in Fine
      BY <1>0, <2>1, TaskFacts
    <2>3. /\ syn' \in [Peers -> Fine \cup {NoSynapse}] /\ Present' = Present \cup {p}
          /\ \A d \in DOMAIN journal : syn'[journal[d].peer] # NoSynapse
      BY <2>1, <2>2, Written
    <2>4. Tables'
      BY <1>0, <2>1, <2>3 DEF Sound, Shape, Tables
    <2>5. TasksOK'
      BY <1>0, <2>1, FreeFits, SetFits
    <2> QED BY <2>4, <2>5, SoundPartsNext
  <1>3. CASE Close(p)
    <2>1. Tables'
      BY <1>0, <1>3, TablesKept DEF Close
    <2> QED BY <1>3, <2>1, SameFits, SoundPartsNext DEF Close
  <1>4. CASE SignatureFailure(p)
    <2>1. /\ p \in open
          /\ SetTo(p, Busy("penalise", <<>>, clock, 0, Penalised(syn[p], clock), 0, NoWrites))
          /\ UNCHANGED <<clock, syn, journal, influence, open, sent, taught, gained, prunedAt, broken>>
      BY <1>0, <1>4, SignatureFailureStep
    <2>2. syn[p] \in Fine
      BY <1>0, <2>1 DEF Sound, Present
    <2>3. Penalised(syn[p], clock) \in Fine
      BY <1>0, <2>2, PenalisedFine
    <2> DEFINE w == Busy("penalise", <<>>, clock, 0, Penalised(syn[p], clock), 0, NoWrites)
    <2>4. WorkOK(w, Len(journal)) /\ Holding(w) /\ SetTo(p, w)
      BY <1>0, <2>1, <2>3, PauseFits
    <2> HIDE DEF w
    <2>5. TasksOK'
      BY <1>0, <2>1, <2>4, SetFits
    <2>6. Tables'
      BY <1>0, <2>1, TablesKept
    <2> QED BY <2>5, <2>6, SoundPartsNext
  <1>5. CASE PutPenalised(p)
    <2>1. /\ task[p].phase = "penalise" /\ SetTo(p, Free)
          /\ syn' = [syn EXCEPT ![p] = task[p].rec]
          /\ open' \subseteq open
          /\ UNCHANGED prunedAt \/ prunedAt' = [prunedAt EXCEPT ![p] = task[p].stamp]
          /\ UNCHANGED <<clock, journal, influence, sent, taught, gained, broken>>
      BY <1>0, <1>5, PutPenalisedStep
    <2>2. task[p].rec \in Fine /\ task[p].stamp \in Clock
      BY <1>0, <2>1, TaskFacts
    <2>3. prunedAt' \in [Peers -> Clock]
      BY <2>1, <2>2 DEF Sound
    <2>4. Tables'
      BY <1>0, <2>1, <2>2, <2>3, Written DEF Sound, Shape, Tables
    <2>5. TasksOK'
      BY <1>0, <2>1, FreeFits, SetFits
    <2> QED BY <2>4, <2>5, SoundPartsNext
  <1> QED BY <1>1, <1>2, <1>3, <1>4, <1>5

(* So do decisions, ... *)
LEMMA DecisionSound ==
    ASSUME Sound, NEW p \in Peers, Route(p) \/ \E t \in Tasks : Forward(t, p)
    PROVE  Sound'
  <1>0. Shape /\ clock \in Clock
    BY DEF Sound, Shape
  <1>1. Journalled(p)
    BY DEF Route, Forward
  <1>2. /\ sent' \subseteq sent \cup {Len(journal) + 1}
        /\ UNCHANGED <<clock, syn, influence, open, taught, gained, prunedAt, broken>>
    BY <1>0, ForwardStep DEF Route
  <1> DEFINE m == Len(journal) + 1
  <1>3. /\ m \in Decisions /\ Len(journal) \in Nat /\ m \in Nat
        /\ journal' \in Seq(Entry) /\ Len(journal') = m /\ Len(journal') <= MaxDecisions
        /\ \A i \in DOMAIN journal' : syn[journal'[i].peer] # NoSynapse
    BY <1>1, Appended
  <1>4. Tables'
    BY <1>2, <1>3 DEF Sound, Shape, Tables, Present
  <1>5. \A u \in Tasks : WorkOK(task[u], m) /\ Holding(task[u])
    BY <1>3, LongerOK DEF Sound, Shape
  <1> HIDE DEF m
  <1>6. ASSUME UNCHANGED task PROVE TasksOK'
    <2>1. \A u \in Tasks : WorkOK(task[u], Len(journal))' /\ Holding(task[u])'
      BY <1>3, <1>5, <1>6 DEF WorkOK, Holding
    <2> QED BY <1>6, <2>1 DEF TasksOK, Sound, Shape
  <1>7. ASSUME NEW t \in Tasks,
               SetTo(t, Busy("resolve", <<[id |-> m, outcome |-> "transport_failure"]>>,
                             clock, 0, NoSynapse, 0, NoWrites))
        PROVE  TasksOK'
    <2> DEFINE i == [id |-> m, outcome |-> "transport_failure"]
               td == <<i>>
               w == Busy("resolve", td, clock, 0, NoSynapse, 0, NoWrites)
    <2>1. i \in Item /\ i.id = m /\ m \in 1..m
      BY <1>3 DEF Item, Resolutions, Decisions
    <2> HIDE DEF i
    <2>2. td \in Seq(Item) /\ td # <<>> /\ \A k \in 1..Len(td) : td[k].id \in 1..m
      BY <2>1
    <2> HIDE DEF td
    <2>3. WorkOK(w, m) /\ Holding(w)
      BY <1>0, <1>3, <2>2, StartFits
    <2>4. SetTo(t, w)
      BY <1>7 DEF td, i
    <2> HIDE DEF w
    <2>5. /\ task' = [u \in Tasks |-> task'[u]]
          /\ \A u \in Tasks : task'[u] = IF u = t THEN w ELSE task[u]
      BY <2>4 DEF SetTo
    <2>6. \A u \in Tasks : WorkOK(task'[u], Len(journal')) /\ Holding(task'[u])
      BY <1>3, <1>5, <2>3, <2>5
    <2>7. \A u \in Tasks : WorkOK(task[u], Len(journal))' /\ Holding(task[u])'
      BY <2>6 DEF WorkOK, Holding
    <2> QED BY <2>5, <2>7 DEF TasksOK
  <1>8. UNCHANGED task \/ \E t \in Tasks :
           SetTo(t, Busy("resolve", <<[id |-> m, outcome |-> "transport_failure"]>>,
                         clock, 0, NoSynapse, 0, NoWrites))
    BY <1>0, ForwardStep DEF Route, m
  <1> QED BY <1>4, <1>6, <1>7, <1>8, SoundPartsNext

(* ... receipts and sweeps. *)
LEMMA StartSound ==
    ASSUME Sound,
           \/ Sweep
           \/ \E p \in Peers, d \in DOMAIN journal, o \in {"delivered", "rejected"} : Receipt(p, d, o)
    PROVE  Sound'
  <1>0. /\ Shape /\ clock \in Clock /\ Len(journal) \in Nat /\ broken \in BOOLEAN /\ open \subseteq Present
        /\ DOMAIN journal = 1..Len(journal)
    BY DEF Sound, Shape
  <1>1. ASSUME NEW t \in Tasks, NEW td \in Seq(Item), td # <<>>,
               \A i \in 1..Len(td) : td[i].id \in 1..Len(journal),
               SetTo(t, Busy("resolve", td, clock, 0, NoSynapse, 0, NoWrites)),
               UNCHANGED <<clock, syn, journal, influence, open, sent, taught, gained, prunedAt, broken>>
        PROVE  Sound'
    <2> DEFINE w == Busy("resolve", td, clock, 0, NoSynapse, 0, NoWrites)
    <2>1. WorkOK(w, Len(journal)) /\ Holding(w) /\ SetTo(t, w)
      BY <1>0, <1>1, StartFits
    <2> HIDE DEF w
    <2>2. TasksOK'
      BY <1>1, <2>1, SetFits
    <2>3. Tables'
      BY <1>0, <1>1, TablesKept
    <2> QED BY <2>2, <2>3, SoundPartsNext
  <1>2. CASE Sweep
    <2>1. Maintenance \in Tasks
          /\ UNCHANGED <<clock, syn, journal, influence, open, sent, taught, gained, prunedAt, broken>>
      BY <1>0, <1>2, SweepStep
    <2>2. PICK td \in Seq(Item) :
             /\ td # <<>>
             /\ \A i \in 1..Len(td) : td[i].id \in 1..Len(journal) /\ td[i].outcome = "timed_out"
             /\ SetTo(Maintenance, Busy("resolve", td, clock, 0, NoSynapse, 0, NoWrites))
      BY <1>0, <1>2, SweepStep
    <2> QED BY <1>1, <2>1, <2>2
  <1>3. ASSUME NEW p \in Peers, NEW d \in DOMAIN journal, NEW o \in {"delivered", "rejected"},
               Receipt(p, d, o)
        PROVE  Sound'
    <2> DEFINE i == [id |-> d, outcome |-> o]
               td == <<i>>
    <2>1. i \in Item /\ i.id = d /\ d \in 1..Len(journal) /\ p \in Tasks
      BY <1>0 DEF Item, Resolutions, Tasks
    <2>2. /\ SetTo(p, Busy("resolve", td, clock, 0, NoSynapse, 0, NoWrites))
          /\ UNCHANGED <<clock, syn, journal, influence, open, sent, taught, gained, prunedAt, broken>>
      BY <1>0, <1>3, ReceiptStep
    <2> HIDE DEF i
    <2>3. td \in Seq(Item) /\ td # <<>> /\ \A k \in 1..Len(td) : td[k].id \in 1..Len(journal)
      BY <2>1
    <2> HIDE DEF td
    <2> QED BY <1>1, <2>1, <2>2, <2>3
  <1> QED BY <1>2, <1>3

(* A handler that goes on with its decision. *)
LEMMA GoOnFits ==
    ASSUME Sound, NEW t \in Tasks, task[t].phase \in Learning,
           NEW ph \in Learning, NEW st \in Clock, NEW us \in Nat, NEW rc, NEW dl \in Int, NEW wr,
           ph \in {"charge", "put"} => rc \in Fine,
           wr \in [DOMAIN wr -> Fine], DOMAIN wr \subseteq Peers,
           SetTo(t, Busy(ph, task[t].todo, st, us, rc, dl, wr)),
           Len(journal') = Len(journal)
    PROVE  TasksOK'
  <1> DEFINE td == task[t].todo
             w == Busy(ph, td, st, us, rc, dl, wr)
  <1>1. /\ td \in Seq(Item) /\ td # <<>> /\ Len(journal) \in Nat
        /\ \A i \in 1..Len(td) : td[i].id \in 1..Len(journal)
    BY TaskFacts
  <1>2. ph \in Phases /\ (ph \in {"form", "penalise", "charge", "put"} => rc \in Fine)
    BY DEF Phases, Learning
  <1>3. SetTo(t, w)
    OBVIOUS
  <1> HIDE DEF td
  <1>4. WorkOK(w, Len(journal)) /\ Holding(w)
    BY <1>1, <1>2, BusyFits
  <1> HIDE DEF w
  <1> QED BY <1>3, <1>4, SetFits

(* A peer's history in which one instant is raised. *)
LEMMA Raised ==
    ASSUME NEW h \in [Peers -> [Clock -> Nat]], NEW p \in Peers, NEW c \in Clock, NEW n \in Nat,
           NEW g, g = [h EXCEPT ![p][c] = @ + n]
    PROVE  /\ g \in [Peers -> [Clock -> Nat]]
           /\ \A q \in Peers : q # p => g[q] = h[q]
           /\ \A e \in Clock : g[p][e] = IF e = c THEN h[p][c] + n ELSE h[p][e]
  <1>1. h[p] \in [Clock -> Nat] /\ h[p][c] + n \in Nat
    OBVIOUS
  <1> QED BY <1>1

(* influence_since() is a natural number, ... *)
LEMMA InfluenceNatural ==
    ASSUME Sound, NEW p \in Peers, NEW from \in Nat
    PROVE  InfluenceSince(p, from) \in Nat
  <1> DEFINE S == {c \in Clock : c >= from}
             f == influence[p]
  <1>1. IsFiniteSet(Clock)
    BY LearningAssumption, FS_Interval DEF Clock
  <1>2. IsFiniteSet(S)
    BY <1>1, FS_Subset
  <1>3. \A c \in S : f[c] \in Nat
    BY DEF Sound
  <1> HIDE DEF S, f
  <1>4. Total(f, S) \in Nat
    BY <1>2, <1>3, TotalRegular DEF Regular
  <1> QED BY <1>4 DEF InfluenceSince, S, f

(* ... and so is the start of a window. *)
LEMMA SinceNatural ==
    ASSUME NEW c \in Clock, NEW n \in Nat
    PROVE  Since(c, n) \in Nat /\ Since(c, n) <= c
  BY LearningAssumption DEF Since, Upper, Clock

(* The steps of a handler keep the state sound. *)
LEMMA LearnSound ==
    ASSUME Sound, NEW t \in Tasks, LearnStep(t)
    PROVE  Sound'
  <1>0. /\ Shape /\ clock \in Clock /\ broken \in BOOLEAN /\ open \subseteq Present
        /\ Len(journal) \in Nat /\ journal \in Seq(Entry)
    <2>1. Shape
      BY DEF Sound
    <2>2. clock \in Clock /\ journal \in Seq(Entry) /\ broken \in BOOLEAN
      BY <2>1 DEF Shape
    <2>3. open \subseteq Present
      BY DEF Sound
    <2> QED BY <2>1, <2>2, <2>3
  <1>f. /\ task[t].stamp \in Clock /\ task[t].used \in Nat /\ task[t].delta \in Int
        /\ task[t].phase \in {"charge", "put"} => task[t].rec \in Fine
        /\ task[t].writes \in [DOMAIN task[t].writes -> Fine]
        /\ DOMAIN task[t].writes \subseteq Peers
    BY TaskFacts
  <1>1. CASE Resolve(t)
    <2>1. /\ task[t].phase = "resolve" /\ task[t].phase \in Learning
          /\ UNCHANGED <<clock, syn, influence, open, sent, taught, gained, prunedAt, broken>>
      BY <1>0, <1>1, ResolveStep DEF Learning
    <2>2. PICK now \in {clock, task[t].stamp} :
                 /\ journal' = IF journal[Current(t).id].outcome = "pending"
                               THEN [journal EXCEPT ![Current(t).id].outcome = Current(t).outcome,
                                                    ![Current(t).id].resolved = now]
                               ELSE journal
                 /\ \/ SetTo(t, Busy("influence", task[t].todo, now, task[t].used, task[t].rec,
                                     task[t].delta, task[t].writes))
                    \/ SetTo(t, Proceed(t))
      BY <1>0, <1>1, ResolveStep
    <2>3. /\ Current(t).outcome \in Resolutions /\ Current(t).id \in 1..Len(journal)
          /\ now \in Clock
      BY <1>0, <1>f, <2>1, CurrentFits
    <2>4. /\ journal' \in Seq(Entry) /\ Len(journal') = Len(journal) /\ DOMAIN journal' = DOMAIN journal
          /\ \A i \in DOMAIN journal : journal'[i].peer = journal[i].peer
      <3>1. CASE journal[Current(t).id].outcome = "pending"
        BY <2>2, <2>3, <3>1, OutcomeJournalled
      <3>2. CASE journal[Current(t).id].outcome # "pending"
        BY <1>0, <2>2, <3>2
      <3> QED BY <3>1, <3>2
    <2>5. Tables'
      BY <2>1, <2>4 DEF Sound, Shape, Tables, Present
    <2>6. CASE SetTo(t, Proceed(t))
      BY <2>1, <2>4, <2>5, <2>6, ProceedFits, SetFits, SoundPartsNext
    <2>7. CASE SetTo(t, Busy("influence", task[t].todo, now, task[t].used, task[t].rec,
                             task[t].delta, task[t].writes))
      <3>1. "influence" \in Learning /\ "influence" \notin {"charge", "put"}
        BY DEF Learning
      <3>2. TasksOK'
        BY <1>f, <2>1, <2>3, <2>4, <2>7, <3>1, GoOnFits
      <3> QED BY <2>5, <3>2, SoundPartsNext
    <2> QED BY <2>2, <2>6, <2>7
  <1>2. CASE ReadInfluence(t)
    <2> DEFINE us == InfluenceSince(PeerOf(t), Since(task[t].stamp, Window))
    <2>1. /\ task[t].phase = "influence" /\ task[t].phase \in Learning
          /\ SetTo(t, Busy("read", task[t].todo, task[t].stamp, us,
                           task[t].rec, task[t].delta, task[t].writes))
          /\ UNCHANGED <<clock, syn, journal, influence, open, sent, taught, gained, prunedAt, broken>>
      BY <1>0, <1>2, ReadInfluenceStep DEF Learning
    <2>2. us \in Nat
      <3>1. PeerOf(t) \in Peers
        BY <2>1, CurrentFits
      <3>2. Since(task[t].stamp, Window) \in Nat
        BY <1>f, LearningAssumption, SinceNatural
      <3> QED BY <3>1, <3>2, InfluenceNatural
    <2> HIDE DEF us
    <2>3. "read" \in Learning /\ "read" \notin {"charge", "put"}
      BY DEF Learning
    <2>4. TasksOK'
      BY <1>f, <2>1, <2>2, <2>3, GoOnFits
    <2>5. Tables'
      BY <1>0, <2>1, TablesKept
    <2> QED BY <2>4, <2>5, SoundPartsNext
  <1>3. CASE ReadSynapse(t)
    <2>1. /\ task[t].phase = "read" /\ task[t].phase \in Learning
          /\ UNCHANGED <<clock, syn, journal, influence, open, sent, taught, gained, prunedAt, broken>>
      BY <1>0, <1>3, ReadSynapseStep DEF Learning
    <2> DEFINE dl == Worth(t)
               ph == IF dl = 0 THEN "put" ELSE "charge"
               rc == Learnt(syn[PeerOf(t)], dl, task[t].stamp)
    <2>2. SetTo(t, Busy(ph, task[t].todo, task[t].stamp, task[t].used, rc, dl, task[t].writes))
      BY <1>0, <1>3, ReadSynapseStep
    <2>3. /\ syn[PeerOf(t)] \in Fine /\ Current(t).outcome \in Resolutions
          /\ syn[PeerOf(t)].weight \in MinWeight..MaxWeight
      BY <2>1, CurrentFits DEF Fine
    <2>4. dl \in Int /\ syn[PeerOf(t)].weight + dl \in MinWeight..MaxWeight
      BY <1>f, <2>3, RewardFacts DEF Worth
    <2>5. rc \in Fine
      <3> HIDE DEF dl
      <3> QED BY <1>f, <2>3, <2>4, LearntFine
    <2>6. ph \in Learning
      BY DEF Learning
    <2> HIDE DEF dl, ph, rc
    <2>7. TasksOK'
      BY <1>f, <2>1, <2>2, <2>4, <2>5, <2>6, GoOnFits
    <2>8. Tables'
      BY <1>0, <2>1, TablesKept
    <2> QED BY <2>7, <2>8, SoundPartsNext
  <1>4. CASE ChargeInfluence(t)
    <2>1. /\ task[t].phase = "charge" /\ task[t].phase \in Learning
          /\ SetTo(t, Busy("put", task[t].todo, task[t].stamp, task[t].used, task[t].rec,
                           task[t].delta, task[t].writes))
          /\ influence' = [influence EXCEPT ![PeerOf(t)][task[t].stamp] =
                              @ + Magnitude(task[t].delta)]
          /\ UNCHANGED <<clock, syn, journal, open, sent, taught, gained, prunedAt, broken>>
      BY <1>0, <1>4, ChargeStep DEF Learning
    <2>2. "put" \in Learning /\ task[t].rec \in Fine
      BY <1>f, <2>1 DEF Learning
    <2>3. TasksOK'
      BY <1>f, <2>1, <2>2, GoOnFits
    <2>4. Magnitude(task[t].delta) \in Nat /\ PeerOf(t) \in Peers
          /\ influence \in [Peers -> [Clock -> Nat]]
      BY <1>f, <2>1, CurrentFits DEF Magnitude, Sound
    <2>5. influence' \in [Peers -> [Clock -> Nat]]
      BY <1>f, <2>1, <2>4, Raised
    <2>6. Tables'
      BY <2>1, <2>5 DEF Sound, Shape, Tables, Present
    <2> QED BY <2>3, <2>6, SoundPartsNext
  <1>5. CASE PutSynapse(t)
    <2>1. /\ task[t].phase = "put" /\ task[t].phase \in Learning
          /\ SetTo(t, Busy("list", task[t].todo, task[t].stamp, task[t].used, NoSynapse,
                           task[t].delta, task[t].writes))
          /\ syn' = [syn EXCEPT ![PeerOf(t)] = task[t].rec]
          /\ taught' = [taught EXCEPT ![Current(t).id] = @ + 1]
          /\ gained' = [gained EXCEPT ![PeerOf(t)][task[t].stamp] = @ + Upper(task[t].delta, 0)]
          /\ UNCHANGED <<clock, journal, influence, open, sent, prunedAt, broken>>
      BY <1>0, <1>5, PutStep DEF Learning
    <2>2. "list" \in Learning /\ "list" \notin {"charge", "put"} /\ task[t].rec \in Fine
      BY <1>f, <2>1 DEF Learning
    <2>3. TasksOK'
      BY <1>f, <2>1, <2>2, GoOnFits
    <2>4. Upper(task[t].delta, 0) \in Nat /\ PeerOf(t) \in Peers /\ Current(t).id \in Decisions
          /\ gained \in [Peers -> [Clock -> Nat]] /\ taught \in [Decisions -> Nat]
      BY <1>f, <2>1, CurrentFits DEF Upper, Sound, Shape
    <2>5. gained' \in [Peers -> [Clock -> Nat]]
      BY <1>f, <2>1, <2>4, Raised
    <2>6. taught' \in [Decisions -> Nat]
      BY <2>1, <2>4
    <2>7. /\ syn' \in [Peers -> Fine \cup {NoSynapse}] /\ Present' = Present \cup {PeerOf(t)}
          /\ \A d \in DOMAIN journal : syn'[journal[d].peer] # NoSynapse
      BY <2>1, <2>2, <2>4, Written
    <2>8. Tables'
      BY <1>0, <2>1, <2>5, <2>6, <2>7 DEF Sound, Shape, Tables
    <2> QED BY <2>3, <2>8, SoundPartsNext
  <1>6. CASE ListSynapses(t)
    <2>1. /\ task[t].phase = "list" /\ task[t].phase \in Learning
          /\ \/ SetTo(t, Proceed(t))
             \/ /\ Rescaled # NoWrites
                /\ SetTo(t, Busy("rewrite", task[t].todo, task[t].stamp, task[t].used, task[t].rec,
                                 task[t].delta, Rescaled))
          /\ UNCHANGED <<clock, syn, journal, influence, open, sent, taught, gained, prunedAt, broken>>
      BY <1>0, <1>6, ListStep DEF Learning
    <2>2. Tables'
      BY <1>0, <2>1, TablesKept
    <2>3. CASE SetTo(t, Proceed(t))
      BY <2>1, <2>2, <2>3, ProceedFits, SetFits, SoundPartsNext
    <2>4. CASE /\ Rescaled # NoWrites
               /\ SetTo(t, Busy("rewrite", task[t].todo, task[t].stamp, task[t].used, task[t].rec,
                                task[t].delta, Rescaled))
      <3> DEFINE wr == Rescaled
      <3>1. wr \in [DOMAIN wr -> Fine] /\ DOMAIN wr \subseteq Peers
        <4>1. Rescaled \in [Present -> Fine] /\ Present \subseteq Peers
          BY <2>4, RescaledFine DEF RescaleServed, Present
        <4> QED BY <4>1
      <3>2. SetTo(t, Busy("rewrite", task[t].todo, task[t].stamp, task[t].used, task[t].rec,
                          task[t].delta, wr))
        BY <2>4
      <3> HIDE DEF wr
      <3>3. "rewrite" \in Learning /\ "rewrite" \notin {"charge", "put"}
        BY DEF Learning
      <3>4. TasksOK'
        BY <1>f, <2>1, <3>1, <3>2, <3>3, GoOnFits
      <3> QED BY <2>2, <3>4, SoundPartsNext
    <2> QED BY <2>1, <2>3, <2>4
  <1>7. ASSUME NEW p \in Peers, Rewrite(t, p) PROVE Sound'
    <2> DEFINE wr == [q \in DOMAIN task[t].writes \ {p} |-> task[t].writes[q]]
    <2>1. /\ task[t].phase = "rewrite" /\ task[t].phase \in Learning /\ p \in DOMAIN task[t].writes
          /\ syn' = [syn EXCEPT ![p] = task[t].writes[p]]
          /\ \/ SetTo(t, Proceed(t))
             \/ SetTo(t, Busy("rewrite", task[t].todo, task[t].stamp, task[t].used, task[t].rec,
                              task[t].delta, wr))
          /\ UNCHANGED <<clock, journal, influence, open, sent, taught, gained, prunedAt, broken>>
      BY <1>0, <1>7, RewriteStep DEF Learning
    <2>2. wr \in [DOMAIN wr -> Fine] /\ DOMAIN wr \subseteq Peers /\ task[t].writes[p] \in Fine
      BY <1>f, <2>1
    <2> HIDE DEF wr
    <2>3. /\ syn' \in [Peers -> Fine \cup {NoSynapse}] /\ Present' = Present \cup {p}
          /\ \A d \in DOMAIN journal : syn'[journal[d].peer] # NoSynapse
      BY <2>1, <2>2, Written
    <2>4. Tables'
      BY <1>0, <2>1, <2>3 DEF Sound, Shape, Tables
    <2>5. CASE SetTo(t, Proceed(t))
      BY <2>1, <2>4, <2>5, ProceedFits, SetFits, SoundPartsNext
    <2>6. CASE SetTo(t, Busy("rewrite", task[t].todo, task[t].stamp, task[t].used, task[t].rec,
                             task[t].delta, wr))
      <3>1. "rewrite" \in Learning /\ "rewrite" \notin {"charge", "put"}
        BY DEF Learning
      <3>2. TasksOK'
        BY <1>f, <2>1, <2>2, <2>6, <3>1, GoOnFits
      <3> QED BY <2>4, <3>2, SoundPartsNext
    <2> QED BY <2>1, <2>5, <2>6
  <1> QED BY <1>1, <1>2, <1>3, <1>4, <1>5, <1>6, <1>7 DEF LearnStep

(* And so does every step. *)
LEMMA SoundStep ==
    ASSUME Sound, [Next]_vars
    PROVE  Sound'
  <1>0. /\ clock \in Clock /\ open \subseteq Present /\ Len(journal) \in Nat
        /\ task = [t \in Tasks |-> task[t]]
        /\ \A t \in Tasks : WorkOK(task[t], Len(journal)) /\ Holding(task[t])
    BY DEF Sound, Shape
  <1>1. ASSUME NEW t \in Tasks, StoreError(t) PROVE Sound'
    <2>1. SetTo(t, Free)
      BY <1>0, <1>1 DEF StoreError, SetTo
    <2>2. TasksOK'
      BY <1>0, <1>1, <2>1, FreeFits, SetFits DEF StoreError
    <2>3. Tables'
      BY <1>0, <1>1, TablesKept DEF StoreError
    <2> QED BY <2>2, <2>3, SoundPartsNext
  <1>2. CASE Tick
    <2>1. clock' \in Clock
      BY <1>0, <1>2, LearningAssumption DEF Tick, Clock
    <2>2. broken' \in BOOLEAN
      BY <1>2 DEF Tick, Sound, Shape
    <2>3. Tables'
      BY <1>0, <1>2, <2>1, <2>2, TablesKept DEF Tick
    <2> QED BY <1>2, <2>3, SameFits, SoundPartsNext DEF Tick
  <1>3. CASE Crash
    <2>1. Tables'
      BY <1>0, <1>3, TablesKept DEF Crash
    <2>2. task' = [t \in Tasks |-> Free] /\ journal' = journal
      BY <1>3 DEF Crash
    <2>3. \A t \in Tasks : WorkOK(task'[t], Len(journal')) /\ Holding(task'[t])
      BY <1>0, <2>2, FreeFits
    <2>4. \A t \in Tasks : WorkOK(task[t], Len(journal))' /\ Holding(task[t])'
      BY <2>3 DEF WorkOK, Holding
    <2>5. TasksOK'
      BY <2>2, <2>4 DEF TasksOK
    <2> QED BY <2>1, <2>5, SoundPartsNext
  <1>4. CASE UNCHANGED vars
    <2>1. broken' \in BOOLEAN
      BY <1>4 DEF vars, Sound, Shape
    <2>2. Tables'
      BY <1>0, <1>4, <2>1, TablesKept DEF vars
    <2> QED BY <1>4, <2>2, SameFits, SoundPartsNext DEF vars
  <1>5. ASSUME NEW p \in Peers,
               \/ Handshake(p) \/ PutFormed(p) \/ Close(p)
               \/ SignatureFailure(p) \/ PutPenalised(p)
        PROVE  Sound'
    BY <1>5, SessionSound
  <1>6. ASSUME NEW p \in Peers, Route(p) \/ \E t \in Tasks : Forward(t, p)
        PROVE  Sound'
    BY <1>6, DecisionSound
  <1>7. ASSUME Sweep \/ \E p \in Peers, d \in DOMAIN journal, o \in {"delivered", "rejected"} : Receipt(p, d, o)
        PROVE  Sound'
    BY <1>7, StartSound
  <1>8. ASSUME NEW t \in Tasks, LearnStep(t) PROVE Sound'
    BY <1>8, LearnSound
  <1> QED BY <1>1, <1>2, <1>3, <1>4, <1>5, <1>6, <1>7, <1>8 DEF Next

(* The empty node is sound. *)
LEMMA SoundInit ==
    ASSUME Init
    PROVE  Sound
  <1>1. 0 \in Clock /\ MaxDecisions \in Nat
    BY LearningAssumption DEF Clock
  <1>2. journal = <<>> /\ journal \in Seq(Entry) /\ Len(journal) = 0 /\ DOMAIN journal = {}
    BY DEF Init
  <1>3. Tables
    <2>1. clock \in Clock /\ open \subseteq Present /\ sent \subseteq Decisions /\ broken \in BOOLEAN
      BY <1>1 DEF Init
    <2>2. syn \in [Peers -> Fine \cup {NoSynapse}] /\ taught \in [Decisions -> Nat]
          /\ prunedAt \in [Peers -> Clock]
      BY <1>1 DEF Init
    <2>3. influence \in [Peers -> [Clock -> Nat]] /\ gained \in [Peers -> [Clock -> Nat]]
      BY DEF Init
    <2> QED BY <1>1, <1>2, <2>1, <2>2, <2>3 DEF Tables
  <1>4. \A t \in Tasks : WorkOK(task[t], Len(journal)) /\ Holding(task[t])
    BY <1>2, FreeFits DEF Init
  <1>5. TasksOK
    BY <1>4 DEF TasksOK, Init
  <1> QED BY <1>3, <1>5, SoundParts

(* Type correctness of the learning node: weights stay between the floor    *)
(* and the ceiling through every reward, penalty and renormalisation, in    *)
(* every interleaving (clamp in apply_reward, apply_signature_failure and   *)
(* normalize_outbound).                                                     *)
THEOREM TypeCorrect == Spec => []TypeOK
  <1>1. Init => Sound
    BY SoundInit
  <1>2. Sound /\ [Next]_vars => Sound'
    BY SoundStep
  <1>3. Sound => TypeOK
    <2> SUFFICES ASSUME Sound PROVE TypeOK
      OBVIOUS
    <2>1. syn \in [Peers -> Record \cup {NoSynapse}]
          /\ \A p \in Peers : syn[p] # NoSynapse => syn[p].weight \in MinWeight..MaxWeight
      BY DEF Sound, Fine
    <2>2. DOMAIN task = Tasks /\ \A t \in Tasks : task[t].phase \in Phases /\ task[t].stamp \in Clock
      BY DEF Sound, Shape, WorkOK
    <2>3. open \subseteq Peers
      BY DEF Sound, Present
    <2> QED BY <2>1, <2>2, <2>3 DEF Sound, Shape, TypeOK
  <1> QED BY <1>1, <1>2, <1>3, PTL DEF Spec

-----------------------------------------------------------------------------
(* Paid is inductive.  In the next state it reads: *)
LEMMA PaidNext ==
    Paid' <=> /\ \A t \in Tasks : Credit(t, task'[t], clock', journal')
              /\ \A p \in Peers : /\ Charged(gained'[p], influence'[p], clock')
                                  /\ Cover(task'[p], gained'[p], influence'[p])
                                  /\ Capped(gained'[p])
  BY DEF Paid, Credit, Charged, Cover, Capped, Earns

(* A window is a finite part of the clock. *)
LEMMA WindowFacts ==
    ASSUME NEW to \in Clock
    PROVE  /\ Since(to, Window) \in Nat /\ Since(to, Window) <= to
           /\ Since(to, Window)..to \subseteq Clock
           /\ IsFiniteSet(Since(to, Window)..to)
  <1>1. Window \in Nat /\ MaxClock \in Nat
    BY LearningAssumption
  <1>2. Since(to, Window) \in Nat /\ Since(to, Window) <= to
    BY <1>1, SinceNatural
  <1>3. Since(to, Window)..to \subseteq Clock
    BY <1>1, <1>2 DEF Clock
  <1>4. IsFiniteSet(Since(to, Window)..to)
    BY <1>2, FS_Interval DEF Clock
  <1> QED BY <1>2, <1>3, <1>4

(* A gain within what its own window left stays within the cap in every     *)
(* window, when nothing was gained after it.                                *)
LEMMA GainStays ==
    ASSUME NEW g \in [Clock -> Nat], NEW st \in Clock, NEW n \in Nat, NEW used \in Nat,
           NEW h, \A c \in Clock : h[c] = IF c = st THEN g[c] + n ELSE g[c],
           \A c \in Clock : c > st => g[c] = 0,
           Total(g, Since(st, Window)..st) <= used, n <= Cap - used,
           Capped(g)
    PROVE  Capped(h)
  <1> SUFFICES ASSUME NEW to \in Clock
               PROVE  Total(h, Since(to, Window)..to) <= Cap
    BY DEF Capped
  <1> DEFINE S == Since(to, Window)..to
             R == Since(st, Window)..st
  <1>0. /\ S \subseteq Clock /\ IsFiniteSet(S) /\ R \subseteq Clock /\ IsFiniteSet(R)
        /\ Cap \in Nat /\ Window \in Nat /\ MaxClock \in Nat
        /\ Since(to, Window) \in Nat /\ Since(st, Window) \in Nat
    BY WindowFacts, LearningAssumption
  <1>1. Total(g, S) \in Nat /\ Total(g, R) \in Nat
    <2> HIDE DEF S, R
    <2>1. \A A \in {S, R} : IsFiniteSet(A) /\ \A c \in A : g[c] \in Nat
      BY <1>0
    <2> QED BY <2>1, TotalRegular DEF Regular
  <1>2. Total(g, S) <= Cap
    BY DEF Capped
  <1>3. CASE st \in S
    <2>1. \A c \in S : g[c] # 0 => c \in R /\ g[c] <= g[c]
      <3> SUFFICES ASSUME NEW c \in S, g[c] # 0
                   PROVE  c \in R /\ g[c] <= g[c]
        OBVIOUS
      <3>1. c \in Clock /\ c \in Nat /\ st \in Nat /\ to \in Nat /\ g[c] \in Nat
        BY <1>0 DEF Clock
      <3>2. c <= st
        BY <3>1
      <3>3. Since(st, Window) <= Since(to, Window)
        BY <1>0, <1>3, <3>1 DEF Since, Upper
      <3> QED BY <1>0, <3>1, <3>2, <3>3
    <2>2. Total(g, S) <= Total(g, R)
      <3> HIDE DEF S, R
      <3> QED BY <1>0, <2>1, TotalCompare
    <2>3. Total(h, S) = Total(g, S) + n
      <3> HIDE DEF S, R
      <3>1. \A c \in S : g[c] \in Nat /\ h[c] = IF c = st THEN g[c] + n ELSE g[c]
        BY <1>0
      <3> QED BY <1>0, <1>3, <3>1, TotalRaised
    <2>4. Total(g, R) <= used
      OBVIOUS
    <2> HIDE DEF S, R
    <2>5. Total(h, S) <= Cap
      BY <1>0, <1>1, <2>2, <2>3, <2>4
    <2> QED BY <2>5 DEF S
  <1>4. CASE st \notin S
    <2> HIDE DEF S, R
    <2>1. \A c \in S : g[c] \in Nat /\ h[c] = g[c]
      BY <1>0, <1>4
    <2>2. Total(g, S) = Total(h, S)
      BY <1>0, <2>1, TotalSame
    <2> QED BY <1>2, <2>2 DEF S
  <1> QED BY <1>3, <1>4

(* What a task reads of its influence covers what the peer gained. *)
LEMMA ReadCovers ==
    ASSUME Sound, NEW p \in Peers, NEW st \in Clock, Charged(gained[p], influence[p], clock)
    PROVE  Total(gained[p], Since(st, Window)..st) <= InfluenceSince(p, Since(st, Window))
  <1> DEFINE A == Since(st, Window)..st
             B == {c \in Clock : c >= Since(st, Window)}
             g == gained[p]
             f == influence[p]
  <1>1. IsFiniteSet(A) /\ A \subseteq Clock /\ Since(st, Window) \in Nat
    BY WindowFacts
  <1>2. IsFiniteSet(B)
    <2>1. IsFiniteSet(Clock)
      BY LearningAssumption, FS_Interval DEF Clock
    <2> QED BY <2>1, FS_Subset
  <1>3. \A c \in Clock : g[c] \in Nat /\ f[c] \in Nat /\ g[c] <= f[c]
    BY DEF Sound, Charged
  <1>4. \A c \in A : c \in B
    BY <1>1 DEF Clock
  <1>5. \A c \in B : c \in Clock
    OBVIOUS
  <1> HIDE DEF A, B, g, f
  <1>6. Total(g, A) <= Total(f, B)
    BY <1>1, <1>2, <1>3, <1>4, <1>5, TotalCompare
  <1> QED BY <1>6 DEF A, B, g, f, InfluenceSince

(* A step that gains nothing: what one task is set to must be covered. *)
LEMMA MoveKeepsPaid ==
    ASSUME Sound, Paid, NEW t \in Tasks, NEW w, SetTo(t, w), UNCHANGED <<clock, gained>>,
           \A i \in 1..Len(journal) : journal'[i].peer = journal[i].peer,
           \A p \in Peers, c \in Clock : influence'[p][c] \in Nat /\ influence[p][c] <= influence'[p][c],
           Credit(t, w, clock, journal'),
           t \in Peers => Cover(w, gained[t], influence'[t])
    PROVE  Paid'
  <1>1. \A u \in Tasks : task'[u] = IF u = t THEN w ELSE task[u]
    BY DEF SetTo
  <1>2. \A u \in Tasks : Credit(u, task[u], clock, journal')
    <2> SUFFICES ASSUME NEW u \in Tasks PROVE Credit(u, task[u], clock, journal')
      OBVIOUS
    <2>1. \A i \in 1..Len(task[u].todo) : task[u].todo[i].id \in 1..Len(journal)
      BY TaskFacts
    <2>2. Credit(u, task[u], clock, journal)
      BY DEF Paid
    <2> QED BY <2>1, <2>2 DEF Credit
  <1>3. \A u \in Tasks : Credit(u, task'[u], clock', journal')
    BY <1>1, <1>2
  <1>4. ASSUME NEW p \in Peers
        PROVE  /\ Charged(gained'[p], influence'[p], clock')
               /\ Cover(task'[p], gained'[p], influence'[p])
               /\ Capped(gained'[p])
    <2>1. /\ Charged(gained[p], influence[p], clock) /\ Cover(task[p], gained[p], influence[p])
          /\ Capped(gained[p]) /\ p \in Tasks /\ task[p].stamp \in Clock /\ task[p].delta \in Int
          /\ \A c \in Clock : gained[p][c] \in Nat /\ influence[p][c] \in Nat
      BY TaskFacts DEF Paid, Sound, Tasks
    <2>2. Charged(gained[p], influence'[p], clock)
      BY <2>1 DEF Charged
    <2>3. Cover(task[p], gained[p], influence'[p])
      BY <2>1 DEF Cover
    <2> QED BY <1>1, <2>1, <2>2, <2>3
  <1> QED BY <1>3, <1>4, PaidNext

(* A task that earns nothing needs no cover. *)
LEMMA IdleCover ==
    ASSUME NEW t \in Tasks, NEW w, w.stamp <= clock,
           w.phase \notin {"charge", "put"} \/ w.delta <= 0,
           w.delta \in Int,
           \A i \in 1..Len(w.todo) : w.todo[i].outcome # "delivered",
           w.phase \in {"resolve", "influence", "read", "charge", "put"} => 1 \in 1..Len(w.todo)
    PROVE  /\ \A j : Credit(t, w, clock, j)
           /\ \A g, f : Cover(w, g, f)
  BY DEF Credit, Cover, Earns

(* An idle task, and one between the read and the write of a session. *)
LEMMA RestCover ==
    ASSUME Sound, NEW t \in Tasks, NEW ph \in {"form", "penalise"}, NEW rc
    PROVE  /\ \A j : Credit(t, Free, clock, j) /\ Credit(t, Busy(ph, <<>>, clock, 0, rc, 0, NoWrites), clock, j)
           /\ \A g, f : Cover(Free, g, f) /\ Cover(Busy(ph, <<>>, clock, 0, rc, 0, NoWrites), g, f)
  <1>0. clock \in Nat
    BY LearningAssumption DEF Sound, Shape, Clock
  <1>1. /\ Free.phase = "idle" /\ Free.todo = <<>> /\ Free.stamp = 0 /\ Free.delta = 0
    BY FreeIsBusy, BusyFields
  <1> DEFINE w == Busy(ph, <<>>, clock, 0, rc, 0, NoWrites)
  <1>2. w.phase = ph /\ w.todo = <<>> /\ w.stamp = clock /\ w.delta = 0
    BY BusyFields
  <1> HIDE DEF w
  <1>3. /\ \A j : Credit(t, Free, clock, j)
        /\ \A g, f : Cover(Free, g, f)
    BY <1>0, <1>1, IdleCover
  <1>4. /\ \A j : Credit(t, w, clock, j)
        /\ \A g, f : Cover(w, g, f)
    BY <1>0, <1>2, IdleCover
  <1> QED BY <1>3, <1>4 DEF w

(* No task changes. *)
LEMMA SameKeepsPaid ==
    ASSUME Sound, Paid, UNCHANGED <<task, gained, influence>>, clock' \in Clock, clock <= clock',
           \A i \in 1..Len(journal) : journal'[i].peer = journal[i].peer
    PROVE  Paid'
  <1>0. clock \in Clock /\ MaxClock \in Nat
    BY LearningAssumption DEF Sound, Shape
  <1>1. \A u \in Tasks : Credit(u, task'[u], clock', journal')
    <2> SUFFICES ASSUME NEW u \in Tasks PROVE Credit(u, task[u], clock', journal')
      OBVIOUS
    <2>1. /\ \A i \in 1..Len(task[u].todo) : task[u].todo[i].id \in 1..Len(journal)
          /\ task[u].stamp \in Clock
      BY TaskFacts
    <2>2. Credit(u, task[u], clock, journal)
      BY DEF Paid
    <2>3. task[u].stamp <= clock'
      BY <1>0, <2>1, <2>2 DEF Credit, Clock
    <2> QED BY <2>1, <2>2, <2>3 DEF Credit
  <1>2. ASSUME NEW p \in Peers
        PROVE  Charged(gained[p], influence[p], clock')
    <2>1. Charged(gained[p], influence[p], clock)
      BY DEF Paid
    <2>2. \A c \in Clock : c > clock' => c > clock
      BY <1>0 DEF Clock
    <2> QED BY <2>1, <2>2 DEF Charged
  <1> QED BY <1>1, <1>2, PaidNext DEF Paid

(* Sessions. *)
LEMMA SessionPaid ==
    ASSUME Sound, Paid, NEW p \in Peers,
           \/ Handshake(p) \/ PutFormed(p) \/ Close(p)
           \/ SignatureFailure(p) \/ PutPenalised(p)
    PROVE  Paid'
  <1>0. /\ Shape /\ p \in Tasks /\ clock \in Clock /\ clock <= clock
        /\ \A q \in Peers, c \in Clock : influence[q][c] \in Nat /\ influence[q][c] <= influence[q][c]
    <2>1. Shape
      BY DEF Sound
    <2>2. clock \in Clock /\ p \in Tasks
      BY <2>1 DEF Shape, Tasks
    <2>3. clock <= clock
      BY <2>2, LearningAssumption DEF Clock
    <2>4. \A q \in Peers, c \in Clock : influence[q][c] \in Nat /\ influence[q][c] <= influence[q][c]
      BY DEF Sound
    <2> QED BY <2>1, <2>2, <2>3, <2>4
  <1>1. ASSUME UNCHANGED <<clock, journal, gained, influence, task>> PROVE Paid'
    BY <1>0, <1>1, SameKeepsPaid
  <1>2. ASSUME NEW ph \in {"form", "penalise"}, NEW rc,
               UNCHANGED <<clock, journal, gained, influence>>,
               SetTo(p, Free) \/ SetTo(p, Busy(ph, <<>>, clock, 0, rc, 0, NoWrites))
        PROVE  Paid'
    <2> DEFINE v == Busy(ph, <<>>, clock, 0, rc, 0, NoWrites)
    <2>1. /\ Credit(p, Free, clock, journal') /\ Credit(p, v, clock, journal')
          /\ Cover(Free, gained[p], influence'[p]) /\ Cover(v, gained[p], influence'[p])
      BY <1>0, <1>2, RestCover
    <2>2. SetTo(p, Free) \/ SetTo(p, v)
      BY <1>2
    <2> HIDE DEF v
    <2> QED BY <1>0, <1>2, <2>1, <2>2, MoveKeepsPaid
  <1>3. CASE Handshake(p)
    <2>1. /\ UNCHANGED <<clock, journal, gained, influence>>
          /\ UNCHANGED task \/ SetTo(p, Busy("form", <<>>, clock, 0, Upserted(p), 0, NoWrites))
      BY <1>0, <1>3, HandshakeStep
    <2> QED BY <1>1, <1>2, <2>1
  <1>4. CASE PutFormed(p)
    <2>1. UNCHANGED <<clock, journal, gained, influence>> /\ SetTo(p, Free)
      BY <1>0, <1>4, PutFormedStep
    <2> QED BY <1>2, <2>1
  <1>5. CASE Close(p)
    BY <1>1, <1>5 DEF Close
  <1>6. CASE SignatureFailure(p)
    <2>1. /\ UNCHANGED <<clock, journal, gained, influence>>
          /\ SetTo(p, Busy("penalise", <<>>, clock, 0, Penalised(syn[p], clock), 0, NoWrites))
      BY <1>0, <1>6, SignatureFailureStep
    <2> QED BY <1>2, <2>1
  <1>7. CASE PutPenalised(p)
    <2>1. UNCHANGED <<clock, journal, gained, influence>> /\ SetTo(p, Free)
      BY <1>0, <1>7, PutPenalisedStep
    <2> QED BY <1>2, <2>1
  <1> QED BY <1>3, <1>4, <1>5, <1>6, <1>7

(* A handler starts: on the peer's own receipt, or on what is no gain. *)
LEMMA StartCover ==
    ASSUME Sound, Paid, NEW t \in Tasks, NEW td \in Seq(Item), td # <<>>, NEW j,
           \/ \A i \in 1..Len(td) : td[i].outcome # "delivered"
           \/ Len(td) = 1 /\ t \in Peers /\ j[td[1].id].peer = t
    PROVE  LET w == Busy("resolve", td, clock, 0, NoSynapse, 0, NoWrites)
           IN  /\ Credit(t, w, clock, j)
               /\ t \in Peers => \A f : Cover(w, gained[t], f)
  <1> DEFINE w == Busy("resolve", td, clock, 0, NoSynapse, 0, NoWrites)
  <1>1. w.phase = "resolve" /\ w.todo = td /\ w.stamp = clock /\ w.delta = 0
    BY BusyFields
  <1>2. clock \in Nat /\ Len(td) \in Nat /\ Len(td) # 0
    BY LearningAssumption, EmptySeq DEF Sound, Shape, Clock
  <1> HIDE DEF w
  <1>3. Credit(t, w, clock, j)
    <2>1. w.stamp <= clock /\ w.phase \notin {"charge", "put"}
      BY <1>1, <1>2
    <2>2. \A i \in 1..Len(td) : td[i].outcome = "delivered"
             => Len(td) = 1 /\ t \in Peers /\ j[td[i].id].peer = t
      <3>1. CASE \A i \in 1..Len(td) : td[i].outcome # "delivered"
        BY <3>1
      <3>2. CASE Len(td) = 1 /\ t \in Peers /\ j[td[1].id].peer = t
        <4>1. \A i \in 1..Len(td) : i = 1
          BY <3>2
        <4> QED BY <3>2, <4>1
      <3> QED BY <3>1, <3>2
    <2> QED BY <1>1, <2>1, <2>2 DEF Credit
  <1>4. ASSUME t \in Peers PROVE \A f : Cover(w, gained[t], f)
    <2>1. \A c \in Clock : c > clock => gained[t][c] = 0
      BY <1>4 DEF Paid, Charged
    <2> QED BY <1>1, <2>1 DEF Cover
  <1> QED BY <1>3, <1>4 DEF w

(* Receipts and sweeps. *)
LEMMA StartPaid ==
    ASSUME Sound, Paid,
           \/ Sweep
           \/ \E p \in Peers, d \in DOMAIN journal, o \in {"delivered", "rejected"} : Receipt(p, d, o)
    PROVE  Paid'
  <1>0. /\ Shape /\ clock \in Clock /\ Len(journal) \in Nat /\ DOMAIN journal = 1..Len(journal)
        /\ \A q \in Peers, c \in Clock : influence[q][c] \in Nat /\ influence[q][c] <= influence[q][c]
    BY DEF Sound, Shape
  <1>1. CASE Sweep
    <2>1. Maintenance \in Tasks /\ Maintenance \notin Peers
          /\ UNCHANGED <<clock, journal, gained, influence>>
      BY <1>0, <1>1, SweepStep, LearningAssumption
    <2>2. PICK td \in Seq(Item) :
             /\ td # <<>>
             /\ \A i \in 1..Len(td) : td[i].id \in 1..Len(journal) /\ td[i].outcome = "timed_out"
             /\ SetTo(Maintenance, Busy("resolve", td, clock, 0, NoSynapse, 0, NoWrites))
      BY <1>0, <1>1, SweepStep
    <2> DEFINE w == Busy("resolve", td, clock, 0, NoSynapse, 0, NoWrites)
    <2>3. Credit(Maintenance, w, clock, journal') /\ SetTo(Maintenance, w)
      BY <2>1, <2>2, StartCover
    <2> HIDE DEF w
    <2> QED BY <1>0, <2>1, <2>3, MoveKeepsPaid
  <1>2. ASSUME NEW p \in Peers, NEW d \in DOMAIN journal, NEW o \in {"delivered", "rejected"},
               Receipt(p, d, o)
        PROVE  Paid'
    <2> DEFINE i == [id |-> d, outcome |-> o]
               td == <<i>>
               w == Busy("resolve", td, clock, 0, NoSynapse, 0, NoWrites)
    <2>1. i \in Item /\ i.id = d /\ p \in Tasks
      BY <1>0 DEF Item, Resolutions, Tasks
    <2>2. /\ SetTo(p, w) /\ journal[d].peer = p
          /\ UNCHANGED <<clock, journal, gained, influence>>
      BY <1>0, <1>2, ReceiptStep
    <2> HIDE DEF i
    <2>3. td \in Seq(Item) /\ td # <<>> /\ Len(td) = 1 /\ td[1].id = d
      BY <2>1
    <2> HIDE DEF td
    <2>4. Credit(p, w, clock, journal') /\ Cover(w, gained[p], influence'[p])
      BY <2>1, <2>2, <2>3, StartCover
    <2> HIDE DEF w
    <2> QED BY <1>0, <2>1, <2>2, <2>4, MoveKeepsPaid
  <1> QED BY <1>1, <1>2

(* A decision. *)
LEMMA DecisionPaid ==
    ASSUME Sound, Paid, NEW p \in Peers, Route(p) \/ \E t \in Tasks : Forward(t, p)
    PROVE  Paid'
  <1>0. /\ Shape /\ clock \in Clock /\ clock <= clock
        /\ \A q \in Peers, c \in Clock : influence[q][c] \in Nat /\ influence[q][c] <= influence[q][c]
    <2>1. Shape
      BY DEF Sound
    <2>2. clock \in Clock
      BY <2>1 DEF Shape
    <2>3. clock <= clock
      BY <2>2, LearningAssumption DEF Clock
    <2>4. \A q \in Peers, c \in Clock : influence[q][c] \in Nat /\ influence[q][c] <= influence[q][c]
      BY DEF Sound
    <2> QED BY <2>1, <2>2, <2>3, <2>4
  <1>1. Journalled(p)
    BY DEF Route, Forward
  <1>2. UNCHANGED <<clock, gained, influence>>
    BY <1>0, ForwardStep DEF Route
  <1> DEFINE m == Len(journal) + 1
  <1>3. m \in Nat /\ \A i \in 1..Len(journal) : journal'[i].peer = journal[i].peer
    BY <1>1, Appended
  <1>4. UNCHANGED task \/ \E t \in Tasks :
           SetTo(t, Busy("resolve", <<[id |-> m, outcome |-> "transport_failure"]>>,
                         clock, 0, NoSynapse, 0, NoWrites))
    BY <1>0, ForwardStep DEF Route
  <1> HIDE DEF m
  <1>5. ASSUME NEW t \in Tasks,
               SetTo(t, Busy("resolve", <<[id |-> m, outcome |-> "transport_failure"]>>,
                             clock, 0, NoSynapse, 0, NoWrites))
        PROVE  Paid'
    <2> DEFINE i == [id |-> m, outcome |-> "transport_failure"]
               td == <<i>>
               w == Busy("resolve", td, clock, 0, NoSynapse, 0, NoWrites)
    <2>1. i \in Item /\ i.outcome # "delivered"
      BY <1>3 DEF Item, Resolutions
    <2>2. SetTo(t, w)
      BY <1>5
    <2> HIDE DEF i
    <2>3. td \in Seq(Item) /\ td # <<>> /\ \A k \in 1..Len(td) : td[k].outcome # "delivered"
      BY <2>1
    <2> HIDE DEF td
    <2>4. Credit(t, w, clock, journal') /\ (t \in Peers => Cover(w, gained[t], influence'[t]))
      BY <2>3, StartCover
    <2> HIDE DEF w
    <2> QED BY <1>0, <1>2, <1>3, <2>2, <2>4, MoveKeepsPaid
  <1>6. ASSUME UNCHANGED task PROVE Paid'
    BY <1>0, <1>2, <1>3, <1>6, SameKeepsPaid
  <1> QED BY <1>4, <1>5, <1>6

(* A handler that goes on with its decision, as to credit ... *)
LEMMA GoOnCredit ==
    ASSUME Sound, Paid, NEW t \in Tasks, NEW ph, NEW st \in Clock, st <= clock, NEW us, NEW rc, NEW dl, NEW wr,
           ph \in {"charge", "put"} /\ dl > 0
              => task[t].todo[1].outcome = "delivered" /\ dl <= Cap - us,
           NEW j, \A i \in 1..Len(journal) : j[i].peer = journal[i].peer
    PROVE  Credit(t, Busy(ph, task[t].todo, st, us, rc, dl, wr), clock, j)
  <1> DEFINE w == Busy(ph, task[t].todo, st, us, rc, dl, wr)
  <1>1. w.phase = ph /\ w.todo = task[t].todo /\ w.stamp = st /\ w.delta = dl /\ w.used = us
    BY BusyFields
  <1>2. \A i \in 1..Len(task[t].todo) : task[t].todo[i].id \in 1..Len(journal)
    BY TaskFacts
  <1>3. Credit(t, task[t], clock, journal)
    BY DEF Paid
  <1> HIDE DEF w
  <1>4. Credit(t, w, clock, j)
    <2>1. w.stamp <= clock
      BY <1>1
    <2>2. \A i \in 1..Len(w.todo) :
             w.todo[i].outcome = "delivered"
                => Len(w.todo) = 1 /\ t \in Peers /\ j[w.todo[i].id].peer = t
      BY <1>1, <1>2, <1>3 DEF Credit
    <2>3. w.phase \in {"charge", "put"} /\ w.delta > 0
             => Earns(w) /\ w.delta <= Cap - w.used
      BY <1>1 DEF Earns
    <2> QED BY <2>1, <2>2, <2>3 DEF Credit
  <1> QED BY <1>4 DEF w

(* ... and as to cover. *)
LEMMA GoOnCover ==
    ASSUME NEW t, NEW ph, NEW st, NEW us, NEW rc, NEW dl, NEW wr, NEW g, NEW f,
           ph \in {"resolve", "influence", "read", "charge", "put"} /\ task[t].todo[1].outcome = "delivered" =>
              /\ \A c \in Clock : c > st => g[c] = 0
              /\ ph \in {"read", "charge", "put"} => Total(g, Since(st, Window)..st) <= us
              /\ ph = "put" /\ dl > 0 => g[st] + dl <= f[st]
    PROVE  Cover(Busy(ph, task[t].todo, st, us, rc, dl, wr), g, f)
  <1> DEFINE w == Busy(ph, task[t].todo, st, us, rc, dl, wr)
  <1>1. w.phase = ph /\ w.todo = task[t].todo /\ w.stamp = st /\ w.delta = dl /\ w.used = us
    BY BusyFields
  <1> HIDE DEF w
  <1>2. Cover(w, g, f)
    BY <1>1 DEF Cover, Earns
  <1> QED BY <1>2 DEF w

(* The next decision of a handler is no gain: only receipts are, and they   *)
(* come one by one.                                                         *)
LEMMA ProceedCover ==
    ASSUME Sound, Paid, NEW t \in Tasks, task[t].phase \in Learning
    PROVE  /\ \A j : Credit(t, Proceed(t), clock, j)
           /\ \A g, f : Cover(Proceed(t), g, f)
  <1> DEFINE s == task[t].todo
             w == Busy("resolve", Tail(s), task[t].stamp, 0, NoSynapse, 0, NoWrites)
  <1>1. s \in Seq(Item) /\ s # <<>> /\ task[t].stamp \in Clock
    BY TaskFacts
  <1>2. Proceed(t) = IF Len(s) > 1 THEN w ELSE Free
    BY Proceeds
  <1>3. task[t].stamp <= clock /\ (Len(s) > 1 => \A i \in 1..Len(s) : s[i].outcome # "delivered")
    BY <1>1 DEF Paid, Credit
  <1>4. w.phase = "resolve" /\ w.todo = Tail(s) /\ w.stamp = task[t].stamp /\ w.delta = 0
    BY BusyFields
  <1> HIDE DEF s, w
  <1>5. CASE Len(s) > 1
    <2>1. Len(s) \in Nat /\ Len(Tail(s)) = Len(s) - 1 /\ \A i \in 1..Len(Tail(s)) : Tail(s)[i] = s[i + 1]
      BY <1>1
    <2>2. 1 \in 1..Len(Tail(s)) /\ \A i \in 1..Len(Tail(s)) : Tail(s)[i].outcome # "delivered"
      BY <1>3, <1>5, <2>1
    <2> QED BY <1>2, <1>3, <1>4, <1>5, <2>2, IdleCover
  <1>6. CASE ~(Len(s) > 1)
    <2>1. "form" \in {"form", "penalise"}
      OBVIOUS
    <2> QED BY <1>2, <1>6, <2>1, RestCover
  <1> QED BY <1>5, <1>6

(* The write of a lesson: the only gain there is. *)
LEMMA PutPaid ==
    ASSUME Sound, Paid, NEW t \in Tasks, PutSynapse(t)
    PROVE  Paid'
  <1> DEFINE p == PeerOf(t)
             st == task[t].stamp
             n == Upper(task[t].delta, 0)
  <1>0. Shape /\ clock \in Clock /\ MaxClock \in Nat /\ Cap \in Nat
    BY LearningAssumption DEF Sound, Shape
  <1>1. /\ task[t].phase = "put" /\ task[t].phase \in Learning
        /\ SetTo(t, Busy("list", task[t].todo, st, task[t].used, NoSynapse,
                         task[t].delta, task[t].writes))
        /\ gained' = [gained EXCEPT ![p][st] = @ + n]
        /\ UNCHANGED <<clock, journal, influence>>
    BY <1>0, PutStep DEF Learning
  <1>2. /\ st \in Clock /\ task[t].delta \in Int /\ task[t].used \in Nat /\ n \in Nat
        /\ p \in Peers /\ gained \in [Peers -> [Clock -> Nat]] /\ influence \in [Peers -> [Clock -> Nat]]
    BY <1>1, TaskFacts, CurrentFits DEF Upper, Sound
  <1>3. /\ Credit(t, task[t], clock, journal) /\ st <= clock
        /\ Current(t) = task[t].todo[1] /\ 1 \in 1..Len(task[t].todo)
        /\ p = journal[task[t].todo[1].id].peer
    BY <1>1, CurrentFits DEF Paid, Credit
  <1> DEFINE w == Busy("list", task[t].todo, st, task[t].used, NoSynapse, task[t].delta, task[t].writes)
  <1>4. Credit(t, w, clock, journal) /\ \A g, f : Cover(w, g, f)
    BY <1>2, <1>3, GoOnCredit, GoOnCover
  <1>5. SetTo(t, w)
    BY <1>1
  <1> HIDE DEF w
  <1>6. \A u \in Tasks : task'[u] = IF u = t THEN w ELSE task[u]
    BY <1>5 DEF SetTo
  <1>7. \A u \in Tasks : Credit(u, task'[u], clock', journal')
    BY <1>1, <1>4, <1>6 DEF Paid
  <1> HIDE DEF p, st, n
  <1>8. /\ \A q \in Peers : q # p => gained'[q] = gained[q]
        /\ \A c \in Clock : gained'[p][c] = IF c = st THEN gained[p][c] + n ELSE gained[p][c]
        /\ gained' \in [Peers -> [Clock -> Nat]]
    BY <1>1, <1>2, Raised
  <1>9. ASSUME NEW q \in Peers, q # p
        PROVE  /\ Charged(gained'[q], influence'[q], clock')
               /\ Cover(task'[q], gained'[q], influence'[q])
               /\ Capped(gained'[q])
    BY <1>1, <1>4, <1>6, <1>8, <1>9 DEF Paid, Tasks
  <1>10. CASE n = 0
    <2>1. gained'[p] = gained[p]
      BY <1>2, <1>8, <1>10
    <2>2. p \in Tasks /\ Charged(gained[p], influence[p], clock) /\ Capped(gained[p])
          /\ Cover(task[p], gained[p], influence[p])
      BY <1>2 DEF Paid, Tasks
    <2>3. Cover(task'[p], gained[p], influence[p])
      BY <1>4, <1>6, <2>2
    <2>4. /\ Charged(gained'[p], influence'[p], clock')
          /\ Cover(task'[p], gained'[p], influence'[p])
          /\ Capped(gained'[p])
      BY <1>1, <2>1, <2>2, <2>3
    <2> QED BY <1>7, <1>9, <2>4, PaidNext
  <1>11. CASE n # 0
    <2>1. task[t].delta > 0 /\ n = task[t].delta
      BY <1>2, <1>11 DEF n, Upper
    <2>2. Earns(task[t]) /\ n <= Cap - task[t].used
      BY <1>1, <1>3, <2>1 DEF Credit
    <2>3. t = p
      BY <1>3, <2>2 DEF Credit, Earns
    <2>4. /\ \A c \in Clock : c > st => gained[p][c] = 0
          /\ Total(gained[p], Since(st, Window)..st) <= task[t].used
          /\ gained[p][st] + n <= influence[p][st]
      BY <1>1, <1>2, <2>1, <2>2, <2>3 DEF Paid, Cover, st
    <2>5. /\ Charged(gained[p], influence[p], clock) /\ Capped(gained[p])
          /\ gained[p] \in [Clock -> Nat]
      BY <1>2 DEF Paid
    <2>6. Capped(gained'[p])
      BY <1>2, <1>8, <2>2, <2>4, <2>5, GainStays
    <2>7. Charged(gained'[p], influence'[p], clock')
      <3>1. \A c \in Clock : gained'[p][c] <= influence[p][c]
        BY <1>8, <2>4, <2>5 DEF Charged
      <3>2. \A c \in Clock : c > clock => gained'[p][c] = 0
        <4>1. \A c \in Clock : c > clock => c # st
          BY <1>0, <1>2, <1>3 DEF Clock
        <4> QED BY <1>8, <2>5, <4>1 DEF Charged
      <3> QED BY <1>1, <3>1, <3>2 DEF Charged
    <2>8. Cover(task'[p], gained'[p], influence'[p])
      BY <1>4, <1>6, <2>3
    <2> QED BY <1>7, <1>9, <2>6, <2>7, <2>8, PaidNext
  <1> QED BY <1>10, <1>11

(* The other steps of a handler. *)
LEMMA LearnPaid ==
    ASSUME Sound, Paid, NEW t \in Tasks, LearnStep(t)
    PROVE  Paid'
  <1> DEFINE st == task[t].stamp
             D == task[t].todo[1].outcome = "delivered"
             Same == \A i \in 1..Len(journal) : journal'[i].peer = journal[i].peer
             Grows == \A q \in Peers, c \in Clock :
                         influence'[q][c] \in Nat /\ influence[q][c] <= influence'[q][c]
  <1>0. /\ Shape /\ clock \in Clock /\ Len(journal) \in Nat
    <2>1. Shape
      BY DEF Sound
    <2> QED BY <2>1 DEF Shape
  <1>1. /\ st \in Clock /\ task[t].used \in Nat /\ task[t].delta \in Int /\ st <= clock
        /\ Credit(t, task[t], clock, journal)
        /\ t \in Peers => Charged(gained[t], influence[t], clock) /\ Cover(task[t], gained[t], influence[t])
    BY TaskFacts DEF Paid, Credit
  <1>2. ASSUME UNCHANGED influence PROVE Grows
    BY <1>2 DEF Sound
  <1>3. ASSUME UNCHANGED journal PROVE Same
    BY <1>3
  <1>4. ASSUME task[t].phase \in Learning, SetTo(t, Proceed(t)), UNCHANGED <<clock, gained, influence>>, Same
        PROVE  Paid'
    <2>1. Grows
      BY <1>2, <1>4
    <2> HIDE DEF Grows, Same
    <2>2. Credit(t, Proceed(t), clock, journal') /\ Cover(Proceed(t), gained[t], influence'[t])
      BY <1>4, ProceedCover
    <2> QED BY <1>4, <2>1, <2>2, MoveKeepsPaid DEF Grows, Same
  <1>5. ASSUME NEW ph, NEW now \in Clock, now <= clock, NEW us, NEW rc, NEW dl, NEW wr,
               SetTo(t, Busy(ph, task[t].todo, now, us, rc, dl, wr)),
               UNCHANGED <<clock, gained>>, Same, Grows,
               ph \in {"charge", "put"} /\ dl > 0 => D /\ dl <= Cap - us,
               t \in Peers /\ D /\ ph \in {"resolve", "influence", "read", "charge", "put"} =>
                  /\ \A c \in Clock : c > now => gained[t][c] = 0
                  /\ ph \in {"read", "charge", "put"} => Total(gained[t], Since(now, Window)..now) <= us
                  /\ ph = "put" /\ dl > 0 => gained[t][now] + dl <= influence'[t][now]
        PROVE  Paid'
    <2> DEFINE w == Busy(ph, task[t].todo, now, us, rc, dl, wr)
    <2>1. Credit(t, w, clock, journal')
      BY <1>5, GoOnCredit
    <2>2. t \in Peers => Cover(w, gained[t], influence'[t])
      BY <1>5, GoOnCover
    <2>3. SetTo(t, w)
      BY <1>5
    <2> HIDE DEF w
    <2> QED BY <1>5, <2>1, <2>2, <2>3, MoveKeepsPaid
  <1>6. task[t].phase \in Learning /\ D => t \in Peers /\ PeerOf(t) = t
    BY <1>1, CurrentFits DEF Credit
  <1>7. t \in Peers /\ D /\ task[t].phase \in {"resolve", "influence", "read", "charge", "put"} =>
           /\ \A c \in Clock : c > st => gained[t][c] = 0
           /\ task[t].phase \in {"read", "charge", "put"}
                 => Total(gained[t], Since(st, Window)..st) <= task[t].used
    BY <1>1 DEF Cover, Earns
  <1>8. CASE Resolve(t)
    <2>1. task[t].phase = "resolve" /\ task[t].phase \in Learning /\ UNCHANGED <<clock, influence, gained>>
      BY <1>0, <1>8, ResolveStep DEF Learning
    <2>2. PICK now \in {clock, task[t].stamp} :
                 /\ Current(t).outcome # "transport_failure" => now = task[t].stamp
                 /\ journal' = IF journal[Current(t).id].outcome = "pending"
                               THEN [journal EXCEPT ![Current(t).id].outcome = Current(t).outcome,
                                                    ![Current(t).id].resolved = now]
                               ELSE journal
                 /\ \/ SetTo(t, Busy("influence", task[t].todo, now, task[t].used, task[t].rec,
                                     task[t].delta, task[t].writes))
                    \/ SetTo(t, Proceed(t))
      BY <1>0, <1>8, ResolveStep
    <2>3. /\ Current(t).outcome \in Resolutions /\ Current(t).id \in 1..Len(journal)
          /\ now \in Clock /\ Current(t) = task[t].todo[1] /\ now <= clock
      <3>1. clock <= clock
        BY <1>0, LearningAssumption DEF Clock
      <3> QED BY <1>0, <1>1, <2>1, <3>1, CurrentFits
    <2>4. Same
      <3>1. CASE journal[Current(t).id].outcome = "pending"
        <4>1. \A i \in DOMAIN journal : journal'[i].peer = journal[i].peer
          BY <2>2, <2>3, <3>1, OutcomeJournalled
        <4> QED BY <4>1 DEF Sound, Shape
      <3>2. CASE journal[Current(t).id].outcome # "pending"
        BY <2>2, <3>2
      <3> QED BY <3>1, <3>2
    <2>5. D => now = st
      BY <2>2, <2>3
    <2>6. Grows
      BY <1>2, <2>1
    <2> HIDE DEF Same, Grows, D
    <2>7. CASE SetTo(t, Proceed(t))
      BY <1>4, <2>1, <2>4, <2>7
    <2>8. CASE SetTo(t, Busy("influence", task[t].todo, now, task[t].used, task[t].rec,
                             task[t].delta, task[t].writes))
      BY <1>5, <1>7, <2>1, <2>3, <2>4, <2>5, <2>6, <2>8
    <2> QED BY <2>2, <2>7, <2>8
  <1>9. CASE ReadInfluence(t)
    <2> DEFINE us == InfluenceSince(PeerOf(t), Since(st, Window))
    <2>1. /\ task[t].phase = "influence" /\ task[t].phase \in Learning
          /\ SetTo(t, Busy("read", task[t].todo, st, us, task[t].rec, task[t].delta, task[t].writes))
          /\ UNCHANGED <<clock, journal, influence, gained>>
      BY <1>0, <1>9, ReadInfluenceStep DEF Learning
    <2>2. D => Total(gained[t], Since(st, Window)..st) <= us
      BY <1>1, <1>6, <2>1, ReadCovers
    <2>3. Grows /\ Same
      BY <1>2, <1>3, <2>1
    <2> HIDE DEF us, Grows, Same, D
    <2> QED BY <1>1, <1>5, <1>7, <2>1, <2>2, <2>3
  <1>10. CASE ReadSynapse(t)
    <2> DEFINE dl == Worth(t)
               ph == IF dl = 0 THEN "put" ELSE "charge"
               rc == Learnt(syn[PeerOf(t)], dl, st)
    <2>1. /\ task[t].phase = "read" /\ task[t].phase \in Learning
          /\ SetTo(t, Busy(ph, task[t].todo, st, task[t].used, rc, dl, task[t].writes))
          /\ UNCHANGED <<clock, journal, influence, gained>>
      BY <1>0, <1>10, ReadSynapseStep DEF Learning
    <2>2. /\ syn[PeerOf(t)].weight \in MinWeight..MaxWeight /\ Current(t).outcome \in Resolutions
          /\ Current(t) = task[t].todo[1]
      BY <2>1, CurrentFits DEF Fine
    <2>3. dl \in Int /\ (dl > 0 => D /\ dl <= Cap - task[t].used)
      BY <1>1, <2>2, RewardFacts DEF Worth
    <2>4. ph \in {"charge", "put"} /\ (ph = "put" => dl = 0)
      OBVIOUS
    <2>5. Grows /\ Same
      BY <1>2, <1>3, <2>1
    <2> HIDE DEF dl, ph, rc, Grows, Same, D
    <2> QED BY <1>1, <1>5, <1>7, <2>1, <2>3, <2>4, <2>5
  <1>11. CASE ChargeInfluence(t)
    <2> DEFINE n == Magnitude(task[t].delta)
    <2>1. /\ task[t].phase = "charge" /\ task[t].phase \in Learning
          /\ SetTo(t, Busy("put", task[t].todo, st, task[t].used, task[t].rec,
                           task[t].delta, task[t].writes))
          /\ influence' = [influence EXCEPT ![PeerOf(t)][st] = @ + n]
          /\ UNCHANGED <<clock, journal, gained>>
      BY <1>0, <1>11, ChargeStep DEF Learning
    <2>2. n \in Nat /\ PeerOf(t) \in Peers /\ influence \in [Peers -> [Clock -> Nat]]
          /\ gained \in [Peers -> [Clock -> Nat]] /\ (task[t].delta > 0 => n = task[t].delta)
      BY <1>1, <2>1, CurrentFits DEF Magnitude, Sound
    <2> HIDE DEF n
    <2>3. /\ influence' \in [Peers -> [Clock -> Nat]]
          /\ \A q \in Peers : q # PeerOf(t) => influence'[q] = influence[q]
          /\ \A c \in Clock : influence'[PeerOf(t)][c]
                                = IF c = st THEN influence[PeerOf(t)][st] + n ELSE influence[PeerOf(t)][c]
      BY <1>1, <2>1, <2>2, Raised
    <2>4. Grows
      <3> SUFFICES ASSUME NEW q \in Peers, NEW c \in Clock
                   PROVE  influence'[q][c] \in Nat /\ influence[q][c] <= influence'[q][c]
        OBVIOUS
      <3>1. CASE q = PeerOf(t)
        BY <1>1, <2>2, <2>3, <3>1
      <3>2. CASE q # PeerOf(t)
        BY <2>2, <2>3, <3>2
      <3> QED BY <3>1, <3>2
    <2>5. task[t].delta > 0 => D /\ task[t].delta <= Cap - task[t].used
      BY <1>1, <2>1 DEF Credit, Earns
    <2>6. D /\ task[t].delta > 0 => gained[t][st] + task[t].delta <= influence'[t][st]
      BY <1>1, <1>6, <2>1, <2>2, <2>3 DEF Charged
    <2>7. Same
      BY <1>3, <2>1
    <2> HIDE DEF Grows, Same, D
    <2> QED BY <1>1, <1>5, <1>7, <2>1, <2>4, <2>5, <2>6, <2>7
  <1>12. CASE PutSynapse(t)
    BY <1>12, PutPaid
  <1>13. CASE ListSynapses(t)
    <2>1. /\ task[t].phase = "list" /\ task[t].phase \in Learning
          /\ \/ SetTo(t, Proceed(t))
             \/ SetTo(t, Busy("rewrite", task[t].todo, st, task[t].used, task[t].rec,
                              task[t].delta, Rescaled))
          /\ UNCHANGED <<clock, journal, influence, gained>>
      BY <1>0, <1>13, ListStep DEF Learning
    <2>2. Grows /\ Same
      BY <1>2, <1>3, <2>1
    <2> HIDE DEF Grows, Same, D
    <2> QED BY <1>1, <1>4, <1>5, <2>1, <2>2
  <1>14. ASSUME NEW p \in Peers, Rewrite(t, p) PROVE Paid'
    <2> DEFINE wr == [q \in DOMAIN task[t].writes \ {p} |-> task[t].writes[q]]
    <2>1. /\ task[t].phase = "rewrite" /\ task[t].phase \in Learning
          /\ \/ SetTo(t, Proceed(t))
             \/ SetTo(t, Busy("rewrite", task[t].todo, st, task[t].used, task[t].rec,
                              task[t].delta, wr))
          /\ UNCHANGED <<clock, journal, influence, gained>>
      BY <1>0, <1>14, RewriteStep DEF Learning
    <2>2. Grows /\ Same
      BY <1>2, <1>3, <2>1
    <2> HIDE DEF Grows, Same, D, wr
    <2> QED BY <1>1, <1>4, <1>5, <2>1, <2>2
  <1> QED BY <1>8, <1>9, <1>10, <1>11, <1>12, <1>13, <1>14 DEF LearnStep

(* Every step. *)
LEMMA PaidStep ==
    ASSUME Sound, Paid, [Next]_vars
    PROVE  Paid'
  <1>0. /\ clock \in Clock /\ MaxClock \in Nat /\ task = [t \in Tasks |-> task[t]]
        /\ "form" \in {"form", "penalise"}
    BY LearningAssumption DEF Sound, Shape
  <1>g. \A q \in Peers, c \in Clock : influence[q][c] \in Nat /\ influence[q][c] <= influence[q][c]
    BY DEF Sound
  <1>1. ASSUME NEW t \in Tasks, StoreError(t) PROVE Paid'
    <2>1. SetTo(t, Free) /\ UNCHANGED <<clock, journal, influence, gained>>
      BY <1>0, <1>1 DEF StoreError, SetTo
    <2>2. Credit(t, Free, clock, journal') /\ Cover(Free, gained[t], influence'[t])
      BY <1>0, RestCover
    <2> QED BY <1>g, <2>1, <2>2, MoveKeepsPaid
  <1>2. CASE Tick
    <2>1. clock' \in Clock /\ clock <= clock'
      BY <1>0, <1>2 DEF Tick, Clock
    <2> QED BY <1>2, <2>1, SameKeepsPaid DEF Tick
  <1>3. CASE Crash
    <2>1. task' = [t \in Tasks |-> Free] /\ UNCHANGED <<clock, journal, influence, gained>>
      BY <1>3 DEF Crash
    <2>2. \A t \in Tasks : Credit(t, Free, clock, journal') /\ \A g, f : Cover(Free, g, f)
      BY <1>0, RestCover
    <2> QED BY <2>1, <2>2, PaidNext DEF Paid, Tasks
  <1>4. CASE UNCHANGED vars
    <2>1. clock <= clock
      BY <1>0 DEF Clock
    <2> QED BY <1>0, <1>4, <2>1, SameKeepsPaid DEF vars
  <1>5. ASSUME NEW p \in Peers,
               \/ Handshake(p) \/ PutFormed(p) \/ Close(p)
               \/ SignatureFailure(p) \/ PutPenalised(p)
        PROVE  Paid'
    BY <1>5, SessionPaid
  <1>6. ASSUME NEW p \in Peers, Route(p) \/ \E t \in Tasks : Forward(t, p)
        PROVE  Paid'
    BY <1>6, DecisionPaid
  <1>7. ASSUME Sweep \/ \E p \in Peers, d \in DOMAIN journal, o \in {"delivered", "rejected"} : Receipt(p, d, o)
        PROVE  Paid'
    BY <1>7, StartPaid
  <1>8. ASSUME NEW t \in Tasks, LearnStep(t) PROVE Paid'
    BY <1>8, LearnPaid
  <1> QED BY <1>1, <1>2, <1>3, <1>4, <1>5, <1>6, <1>7, <1>8 DEF Next

(* Nothing has been gained at first. *)
LEMMA PaidInit ==
    ASSUME Init
    PROVE  Paid
  <1>0. Sound /\ "form" \in {"form", "penalise"}
    BY SoundInit
  <1>1. \A t \in Tasks : Credit(t, task[t], clock, journal) /\ \A g, f : Cover(task[t], g, f)
    BY <1>0, RestCover DEF Init
  <1>2. ASSUME NEW p \in Peers PROVE Charged(gained[p], influence[p], clock) /\ Capped(gained[p])
    <2>1. \A c \in Clock : gained[p][c] = 0 /\ influence[p][c] = 0
      BY DEF Init
    <2> DEFINE g == gained[p]
               f == [c \in Clock |-> 0]
    <2>2. ASSUME NEW to \in Clock PROVE Total(g, Since(to, Window)..to) <= Cap
      <3> DEFINE S == Since(to, Window)..to
      <3>1. IsFiniteSet(S) /\ \A c \in S : g[c] = 0
        BY <2>1, WindowFacts
      <3>2. IsFiniteSet({}) /\ Total(g, {}) = 0
        BY FS_EmptySet, TotalPick
      <3>3. \A c \in S : g[c] \in Nat
        BY <3>1
      <3> HIDE DEF S, g
      <3>4. Total(g, S) <= Total(g, {})
        BY <3>1, <3>2, <3>3, TotalCompare
      <3>5. Total(g, S) \in Nat
        BY <3>1, <3>3, TotalRegular DEF Regular
      <3>6. Total(g, S) <= Cap
        BY <3>2, <3>4, <3>5, LearningAssumption
      <3> QED BY <3>6 DEF S
    <2> QED BY <2>1, <2>2 DEF Charged, Capped
  <1> QED BY <1>1, <1>2 DEF Paid, Tasks

(* The influence cap holds: no peer gains more than influence_cap_per_peer  *)
(* within any window, in every interleaving of handlers, with store errors  *)
(* and restarts between any two store calls, because a gain is charged      *)
(* before it is written and only the peer's own task earns it               *)
(* (apply_outcome_to_synapse, apply_reward).                                *)
THEOREM CapHolds == Spec => []GainCapped
  <1>1. Init => Sound /\ Paid
    BY SoundInit, PaidInit
  <1>2. Sound /\ Paid /\ [Next]_vars => Sound' /\ Paid'
    BY SoundStep, PaidStep
  <1>3. Paid => GainCapped
    BY DEF Paid, Capped, GainCapped
  <1> QED BY <1>1, <1>2, <1>3, PTL DEF Spec

-----------------------------------------------------------------------------
(* Orderly is inductive when handlers do not interleave.  In the next state *)
(* it reads:                                                                *)
LEMMA OrderlyNext ==
    Orderly' <=> /\ \A t, u \in Tasks : t # u => task'[t] = Free \/ task'[u] = Free
                 /\ \A t \in Tasks : Respect(t, task'[t], clock', syn', open', journal')
                 /\ Dated(syn', open', prunedAt', clock')
  BY DEF Orderly, Respect, Dated, Within, Goal, Formed, Cut, Free

(* An idle task respects everything. *)
LEMMA FreeRespects == \A t, now, sy, op, j : Respect(t, Free, now, sy, op, j)
  <1>1. Free.phase = "idle"
    BY FreeIsBusy, BusyFields
  <1> QED BY <1>1 DEF Respect

(* A task moves while the others are idle. *)
LEMMA MoveKeepsOrder ==
    ASSUME ~Parallel, NEW t \in Tasks, MayRun(t), NEW w, SetTo(t, w),
           Respect(t, w, clock', syn', open', journal'),
           Dated(syn', open', prunedAt', clock')
    PROVE  Orderly'
  <1>1. \A u \in Tasks : task'[u] = IF u = t THEN w ELSE Free
    BY DEF SetTo, MayRun
  <1> QED BY <1>1, FreeRespects, OrderlyNext

(* No task moves. *)
LEMMA StayKeepsOrder ==
    ASSUME Sound, Orderly, UNCHANGED <<clock, task, syn, prunedAt>>,
           \A i \in 1..Len(journal) : journal'[i].peer = journal[i].peer,
           \/ open' = open
           \/ Dated(syn, open', prunedAt, clock) /\ \A t \in Tasks : task[t].phase # "penalise"
    PROVE  Orderly'
  <1>1. ASSUME NEW t \in Tasks PROVE Respect(t, task'[t], clock', syn', open', journal')
    <2>1. Respect(t, task[t], clock, syn, open, journal)
      BY DEF Orderly
    <2>2. task[t].phase \in {"charge", "put"} => task[t].todo[1].id \in 1..Len(journal)
      BY CurrentFits DEF Learning
    <2>3. task[t].phase \in {"charge", "put"} => journal'[task[t].todo[1].id].peer = journal[task[t].todo[1].id].peer
      BY <2>2
    <2>4. Respect(t, task[t], clock, syn, open', journal')
      BY <2>1, <2>3 DEF Respect
    <2> QED BY <2>4
  <1>2. Dated(syn', open', prunedAt', clock')
    BY DEF Orderly
  <1> QED BY <1>1, <1>2, OrderlyNext DEF Orderly

(* A session's handler between its read and its write. *)
LEMMA PauseRespects ==
    ASSUME NEW t, NEW ph \in {"form", "penalise"}, NEW now, NEW rc, NEW sy, NEW op, NEW j,
           ph = "form" => rc.state # "pruned" /\ (Cut(sy[t]) => now >= sy[t].last + Cooldown),
           ph = "penalise" => t \in op /\ (rc.state = "pruned" => rc.last = now)
    PROVE  Respect(t, Busy(ph, <<>>, now, 0, rc, 0, NoWrites), now, sy, op, j)
  <1> DEFINE w == Busy(ph, <<>>, now, 0, rc, 0, NoWrites)
  <1>1. w.phase = ph /\ w.stamp = now /\ w.rec = rc
    BY BusyFields
  <1> HIDE DEF w
  <1>2. Respect(t, w, now, sy, op, j)
    BY <1>1 DEF Respect
  <1> QED BY <1>2 DEF w

(* A handler at its decision. *)
LEMMA WorkRespects ==
    ASSUME NEW t, NEW ph \in Learning, NEW td, NEW now, NEW us, NEW rc, NEW dl, NEW wr, NEW sy, NEW op, NEW j,
           ph \in {"charge", "put"} => rc.last = now /\ (rc.state = "pruned" <=> Cut(sy[j[td[1].id].peer])),
           ph = "rewrite" => /\ \A p \in DOMAIN wr : /\ sy[p] # NoSynapse
                                                     /\ wr[p].state = sy[p].state
                                                     /\ wr[p].last = sy[p].last
                             /\ Within(wr, sy)
    PROVE  Respect(t, Busy(ph, td, now, us, rc, dl, wr), now, sy, op, j)
  <1> DEFINE w == Busy(ph, td, now, us, rc, dl, wr)
  <1>1. w.phase = ph /\ w.stamp = now /\ w.rec = rc /\ w.todo = td /\ w.writes = wr
    BY BusyFields
  <1>2. ph \notin {"form", "penalise"}
    BY DEF Learning
  <1> HIDE DEF w
  <1>3. Respect(t, w, now, sy, op, j)
    BY <1>1, <1>2 DEF Respect
  <1> QED BY <1>3 DEF w

(* A handler goes on to its next decision at the same instant. *)
LEMMA ProceedRespects ==
    ASSUME NEW t, task[t].stamp = clock, NEW sy, NEW op, NEW j
    PROVE  Respect(t, Proceed(t), clock, sy, op, j)
  <1>1. "resolve" \in Learning /\ "resolve" \notin {"charge", "put", "rewrite"}
    BY DEF Learning
  <1> DEFINE td == Tail(task[t].todo)
  <1>2. Respect(t, Busy("resolve", td, clock, 0, NoSynapse, 0, NoWrites), clock, sy, op, j)
    <2> HIDE DEF td
    <2> QED BY <1>1, WorkRespects
  <1> QED BY <1>2, FreeRespects, Proceeds

(* Sessions. *)
LEMMA SessionOrder ==
    ASSUME Sound, Orderly, ~Parallel, NEW p \in Peers,
           \/ Handshake(p) \/ PutFormed(p) \/ Close(p)
           \/ SignatureFailure(p) \/ PutPenalised(p)
    PROVE  Orderly'
  <1>0. /\ Shape /\ p \in Tasks /\ Dated(syn, open, prunedAt, clock)
        /\ Respect(p, task[p], clock, syn, open, journal)
    BY DEF Sound, Tasks, Orderly
  <1>c. clock \in Clock /\ clock \in Nat /\ prunedAt \in [Peers -> Clock] /\ Cooldown \in Nat
    BY LearningAssumption DEF Sound, Shape, Clock
  <1>b. Free.phase = "idle"
    BY FreeIsBusy, BusyFields
  <1>1. CASE Handshake(p)
    <2>1. /\ p \notin open /\ ~InCooldown(p) /\ task[p].phase = "idle" /\ MayRun(p)
          /\ \/ syn[p] = Upserted(p) /\ open' = open \cup {p} /\ UNCHANGED task
             \/ /\ SetTo(p, Busy("form", <<>>, clock, 0, Upserted(p), 0, NoWrites))
                /\ syn[p] # Upserted(p) /\ UNCHANGED open
          /\ UNCHANGED <<clock, syn, journal, prunedAt>>
      BY <1>0, <1>1, HandshakeStep
    <2>2. /\ Upserted(p) \in Fine /\ (Upserted(p).state # "pruned" \/ Upserted(p) = syn[p])
          /\ Cut(syn[p]) => Upserted(p).state # "pruned"
      BY UpsertedFine
    <2>3. CASE syn[p] = Upserted(p) /\ open' = open \cup {p} /\ UNCHANGED task
      <3>1. ~Cut(syn[p])
        BY <2>2, <2>3 DEF Cut
      <3>2. Dated(syn, open', prunedAt, clock)
        BY <1>0, <2>3, <3>1 DEF Dated
      <3>3. \A t \in Tasks : task[t].phase # "penalise"
        BY <1>b, <2>1 DEF MayRun
      <3> QED BY <2>1, <2>3, <3>2, <3>3, StayKeepsOrder
    <2>4. CASE /\ SetTo(p, Busy("form", <<>>, clock, 0, Upserted(p), 0, NoWrites))
               /\ syn[p] # Upserted(p) /\ UNCHANGED open
      <3>1. ASSUME Cut(syn[p]) PROVE clock >= syn[p].last + Cooldown
        <4>1. syn[p] \in Fine /\ ~(clock < syn[p].last + Cooldown)
          BY <2>1, <3>1 DEF InCooldown, Cut, Sound
        <4>2. syn[p].last \in Nat
          BY <4>1, LearningAssumption DEF Fine, Record, Clock
        <4> QED BY <1>c, <4>1, <4>2
      <3> DEFINE w == Busy("form", <<>>, clock, 0, Upserted(p), 0, NoWrites)
      <3>2. Respect(p, w, clock, syn, open, journal)
        BY <2>2, <2>4, <3>1, PauseRespects
      <3>3. SetTo(p, w)
        BY <2>4
      <3> HIDE DEF w
      <3>4. Respect(p, w, clock', syn', open', journal') /\ Dated(syn', open', prunedAt', clock')
        BY <1>0, <2>1, <2>4, <3>2
      <3> QED BY <1>0, <2>1, <3>3, <3>4, MoveKeepsOrder
    <2> QED BY <2>1, <2>3, <2>4
  <1>2. CASE PutFormed(p)
    <2>1. /\ task[p].phase = "form" /\ MayRun(p) /\ SetTo(p, Free)
          /\ syn' = [syn EXCEPT ![p] = task[p].rec] /\ open' = open \cup {p}
          /\ UNCHANGED <<clock, prunedAt>>
      BY <1>0, <1>2, PutFormedStep
    <2>2. task[p].rec \in Fine /\ task[p].rec.state # "pruned"
      BY <1>0, <2>1, TaskFacts DEF Respect
    <2>3. syn'[p] = task[p].rec /\ \A q \in Peers : q # p => syn'[q] = syn[q]
      BY <2>1, <2>2, Written
    <2>4. ~Cut(syn'[p])
      BY <2>2, <2>3 DEF Cut
    <2>5. open \subseteq Peers
      BY DEF Sound, Present
    <2>6. Dated(syn', open', prunedAt', clock')
      BY <1>0, <2>1, <2>3, <2>4, <2>5 DEF Dated
    <2> QED BY <1>0, <2>1, <2>6, FreeRespects, MoveKeepsOrder
  <1>3. CASE Close(p)
    <2>1. /\ open' \subseteq open /\ task[p].phase = "idle" /\ MayRun(p)
          /\ UNCHANGED <<clock, syn, journal, task, prunedAt>>
      BY <1>3 DEF Close, At
    <2>2. Dated(syn, open', prunedAt, clock)
      BY <1>0, <2>1 DEF Dated
    <2>3. \A t \in Tasks : task[t].phase # "penalise"
      BY <1>b, <2>1 DEF MayRun
    <2> QED BY <2>1, <2>2, <2>3, StayKeepsOrder
  <1>4. CASE SignatureFailure(p)
    <2>1. /\ p \in open /\ MayRun(p)
          /\ SetTo(p, Busy("penalise", <<>>, clock, 0, Penalised(syn[p], clock), 0, NoWrites))
          /\ UNCHANGED <<clock, syn, journal, open, prunedAt>>
      BY <1>0, <1>4, SignatureFailureStep
    <2>2. syn[p] \in Fine /\ syn[p].state # "pruned"
      BY <1>0, <2>1 DEF Sound, Present, Dated, Cut
    <2> DEFINE rc == Penalised(syn[p], clock)
               w == Busy("penalise", <<>>, clock, 0, rc, 0, NoWrites)
    <2>3. rc.state = "pruned" => rc.last = clock
      BY <1>c, <2>2, PenalisedFine
    <2>4. SetTo(p, w)
      BY <2>1
    <2> HIDE DEF rc
    <2>5. Respect(p, w, clock, syn, open, journal)
      BY <2>1, <2>3, PauseRespects
    <2> HIDE DEF w
    <2>6. Respect(p, w, clock', syn', open', journal') /\ Dated(syn', open', prunedAt', clock')
      BY <1>0, <2>1, <2>5
    <2> QED BY <1>0, <2>1, <2>4, <2>6, MoveKeepsOrder
  <1>5. CASE PutPenalised(p)
    <2>1. /\ task[p].phase = "penalise" /\ MayRun(p) /\ SetTo(p, Free)
          /\ syn' = [syn EXCEPT ![p] = task[p].rec]
          /\ \/ /\ task[p].rec.state = "pruned" /\ open' = open \ {p}
                /\ prunedAt' = [prunedAt EXCEPT ![p] = task[p].stamp]
             \/ task[p].rec.state # "pruned" /\ UNCHANGED <<open, prunedAt>>
          /\ UNCHANGED clock
      BY <1>0, <1>5, PutPenalisedStep
    <2>2. /\ task[p].rec \in Fine /\ task[p].stamp = clock
          /\ task[p].rec.state = "pruned" => task[p].rec.last = clock
      BY <1>0, <1>b, <2>1, TaskFacts DEF Respect
    <2>3. syn'[p] = task[p].rec /\ \A q \in Peers : q # p => syn'[q] = syn[q]
      BY <2>1, <2>2, Written
    <2>4. open \subseteq Peers
      BY DEF Sound, Present
    <2>5. CASE /\ task[p].rec.state = "pruned" /\ open' = open \ {p}
               /\ prunedAt' = [prunedAt EXCEPT ![p] = task[p].stamp]
      <3>1. prunedAt'[p] = clock /\ \A q \in Peers : q # p => prunedAt'[q] = prunedAt[q]
        BY <1>c, <2>2, <2>5
      <3>2. syn'[p].last = clock /\ clock <= clock
        BY <1>c, <2>2, <2>3, <2>5
      <3>3. Dated(syn', open', prunedAt', clock')
        BY <1>0, <2>1, <2>3, <2>4, <2>5, <3>1, <3>2 DEF Dated
      <3> QED BY <1>0, <2>1, <3>3, FreeRespects, MoveKeepsOrder
    <2>6. CASE task[p].rec.state # "pruned" /\ UNCHANGED <<open, prunedAt>>
      <3>1. ~Cut(syn'[p])
        BY <2>3, <2>6 DEF Cut
      <3>2. Dated(syn', open', prunedAt', clock')
        BY <1>0, <2>1, <2>3, <2>4, <2>6, <3>1 DEF Dated
      <3> QED BY <1>0, <2>1, <3>2, FreeRespects, MoveKeepsOrder
    <2> QED BY <2>1, <2>5, <2>6
  <1> QED BY <1>1, <1>2, <1>3, <1>4, <1>5

(* A handler starts, or a decision is made. *)
LEMMA StartOrder ==
    ASSUME Sound, Orderly, ~Parallel,
           \/ Sweep
           \/ \E p \in Peers : Route(p) \/ \E t \in Tasks : Forward(t, p)
           \/ \E p \in Peers, d \in DOMAIN journal, o \in {"delivered", "rejected"} : Receipt(p, d, o)
    PROVE  Orderly'
  <1>0. Shape /\ Dated(syn, open, prunedAt, clock)
    BY DEF Sound, Orderly
  <1>1. ASSUME NEW t \in Tasks, MayRun(t), NEW td,
               SetTo(t, Busy("resolve", td, clock, 0, NoSynapse, 0, NoWrites)),
               UNCHANGED <<clock, syn, open, prunedAt>>
        PROVE  Orderly'
    <2> DEFINE w == Busy("resolve", td, clock, 0, NoSynapse, 0, NoWrites)
    <2>1. "resolve" \in Learning /\ "resolve" \notin {"charge", "put", "rewrite"}
      BY DEF Learning
    <2>2. SetTo(t, w)
      BY <1>1
    <2>3. Respect(t, w, clock, syn, open, journal')
      BY <2>1, WorkRespects
    <2> HIDE DEF w
    <2>4. Respect(t, w, clock', syn', open', journal') /\ Dated(syn', open', prunedAt', clock')
      BY <1>0, <1>1, <2>3
    <2> QED BY <1>1, <2>2, <2>4, MoveKeepsOrder
  <1>2. CASE Sweep
    <2>1. /\ Maintenance \in Tasks /\ MayRun(Maintenance) /\ UNCHANGED <<clock, syn, open, prunedAt>>
          /\ \E td : SetTo(Maintenance, Busy("resolve", td, clock, 0, NoSynapse, 0, NoWrites))
      BY <1>0, <1>2, SweepStep
    <2> QED BY <1>1, <2>1
  <1>3. ASSUME NEW p \in Peers, NEW d \in DOMAIN journal, NEW o \in {"delivered", "rejected"},
               Receipt(p, d, o)
        PROVE  Orderly'
    <2> DEFINE td == <<[id |-> d, outcome |-> o]>>
    <2>1. /\ p \in Tasks /\ MayRun(p) /\ UNCHANGED <<clock, syn, open, prunedAt>>
          /\ SetTo(p, Busy("resolve", td, clock, 0, NoSynapse, 0, NoWrites))
      BY <1>0, <1>3, ReceiptStep DEF Tasks
    <2> HIDE DEF td
    <2> QED BY <1>1, <2>1
  <1>4. ASSUME NEW p \in Peers, Journalled(p), UNCHANGED <<clock, task, syn, open, prunedAt>>
        PROVE  Orderly'
    <2>1. \A i \in 1..Len(journal) : journal'[i].peer = journal[i].peer
      BY <1>4, Appended
    <2>2. open' = open
      BY <1>4
    <2> QED BY <1>4, <2>1, <2>2, StayKeepsOrder
  <1>5. ASSUME NEW p \in Peers, NEW t \in Tasks, Forward(t, p)
        PROVE  Orderly'
    <2> DEFINE td == <<[id |-> Len(journal) + 1, outcome |-> "transport_failure"]>>
    <2>1. /\ MayRun(t) /\ Journalled(p) /\ UNCHANGED <<clock, syn, open, prunedAt>>
          /\ UNCHANGED task \/ SetTo(t, Busy("resolve", td, clock, 0, NoSynapse, 0, NoWrites))
      BY <1>0, <1>5, ForwardStep
    <2> HIDE DEF td
    <2> QED BY <1>1, <1>4, <2>1
  <1>6. ASSUME NEW p \in Peers, Route(p) PROVE Orderly'
    BY <1>4, <1>6 DEF Route
  <1> QED BY <1>2, <1>3, <1>5, <1>6

(* One write of a renormalisation leaves the goal where it is. *)
LEMMA GoalStays ==
    ASSUME Sound, NEW t \in Tasks, NEW p \in Peers, p \in DOMAIN task[t].writes, syn[p] # NoSynapse,
           task[t].writes[p] \in Fine, syn' = [syn EXCEPT ![p] = task[t].writes[p]]
    PROVE  LET rest == [q \in DOMAIN task[t].writes \ {p} |-> task[t].writes[q]]
           IN  Formed(syn') = Formed(syn) /\ Goal(rest, syn') = Goal(task[t].writes, syn)
  <1> DEFINE old == task[t].writes
             rest == [q \in DOMAIN old \ {p} |-> old[q]]
  <1>1. /\ syn'[p] = old[p] /\ old[p] # NoSynapse
        /\ \A q \in Peers : q # p => syn'[q] = syn[q]
    BY Written
  <1>2. Formed(syn') = Formed(syn) /\ Formed(syn) \subseteq Peers
    BY <1>1 DEF Formed
  <1>3. DOMAIN rest = DOMAIN old \ {p} /\ \A q \in DOMAIN old \ {p} : rest[q] = old[q]
    OBVIOUS
  <1> HIDE DEF rest
  <1>4. ASSUME NEW q \in Formed(syn)
        PROVE  (IF q \in DOMAIN rest THEN rest[q].weight ELSE syn'[q].weight)
                  = IF q \in DOMAIN old THEN old[q].weight ELSE syn[q].weight
    BY <1>1, <1>2, <1>3
  <1>5. Goal(rest, syn') = Goal(old, syn)
    BY <1>2, <1>4 DEF Goal
  <1> QED BY <1>2, <1>5 DEF rest

(* The steps of a handler. *)
LEMMA LearnOrder ==
    ASSUME Sound, Orderly, ~Parallel, NEW t \in Tasks, LearnStep(t)
    PROVE  Orderly'
  <1>0. /\ Shape /\ Dated(syn, open, prunedAt, clock)
        /\ Respect(t, task[t], clock, syn, open, journal)
    BY DEF Sound, Orderly
  <1>c. clock \in Clock /\ clock \in Nat /\ prunedAt \in [Peers -> Clock]
    BY LearningAssumption DEF Sound, Shape, Clock
  <1>s. task[t].phase \in Learning => task[t].stamp = clock
    <2>1. Free.phase = "idle" /\ "idle" \notin Learning
      BY FreeIsBusy, BusyFields DEF Learning
    <2> QED BY <1>0, <2>1 DEF Respect
  <1>1. ASSUME MayRun(t), task[t].phase \in Learning, SetTo(t, Proceed(t)), UNCHANGED clock,
               Dated(syn', open', prunedAt', clock)
        PROVE  Orderly'
    <2>1. Respect(t, Proceed(t), clock', syn', open', journal')
      BY <1>s, <1>1, ProceedRespects
    <2> QED BY <1>1, <2>1, MoveKeepsOrder
  <1>2. ASSUME MayRun(t), NEW ph \in Learning, NEW td, NEW us, NEW rc, NEW dl, NEW wr,
               SetTo(t, Busy(ph, td, clock, us, rc, dl, wr)),
               UNCHANGED clock, Dated(syn', open', prunedAt', clock),
               ph \in {"charge", "put"} => rc.last = clock
                                           /\ (rc.state = "pruned" <=> Cut(syn'[journal'[td[1].id].peer])),
               ph = "rewrite" => /\ \A p \in DOMAIN wr : /\ syn'[p] # NoSynapse
                                                         /\ wr[p].state = syn'[p].state
                                                         /\ wr[p].last = syn'[p].last
                                 /\ Within(wr, syn')
        PROVE  Orderly'
    <2> DEFINE w == Busy(ph, td, clock, us, rc, dl, wr)
    <2>1. Respect(t, w, clock, syn', open', journal')
      BY <1>2, WorkRespects
    <2>2. SetTo(t, w)
      BY <1>2
    <2> HIDE DEF w
    <2> QED BY <1>2, <2>1, <2>2, MoveKeepsOrder
  <1>3. CASE Resolve(t)
    <2>1. /\ task[t].phase = "resolve" /\ task[t].phase \in Learning /\ MayRun(t)
          /\ UNCHANGED <<clock, syn, open, prunedAt>>
      BY <1>0, <1>3, ResolveStep DEF Learning
    <2>2. PICK now \in {clock, task[t].stamp} :
                 \/ SetTo(t, Busy("influence", task[t].todo, now, task[t].used, task[t].rec,
                                  task[t].delta, task[t].writes))
                 \/ SetTo(t, Proceed(t))
      BY <1>0, <1>3, ResolveStep
    <2>3. now = clock
      BY <1>s, <2>1
    <2>4. Dated(syn', open', prunedAt', clock)
      BY <1>0, <2>1
    <2>5. "influence" \in Learning /\ "influence" \notin {"charge", "put", "rewrite"}
      BY DEF Learning
    <2> QED BY <1>1, <1>2, <2>1, <2>2, <2>3, <2>4, <2>5
  <1>4. CASE ReadInfluence(t)
    <2> DEFINE us == InfluenceSince(PeerOf(t), Since(task[t].stamp, Window))
    <2>1. /\ task[t].phase = "influence" /\ task[t].phase \in Learning /\ MayRun(t)
          /\ SetTo(t, Busy("read", task[t].todo, task[t].stamp, us, task[t].rec, task[t].delta, task[t].writes))
          /\ UNCHANGED <<clock, syn, open, prunedAt>>
      BY <1>0, <1>4, ReadInfluenceStep DEF Learning
    <2> HIDE DEF us
    <2>2. Dated(syn', open', prunedAt', clock)
      BY <1>0, <2>1
    <2>3. "read" \in Learning /\ "read" \notin {"charge", "put", "rewrite"}
      BY DEF Learning
    <2> QED BY <1>2, <1>s, <2>1, <2>2, <2>3
  <1>5. CASE ReadSynapse(t)
    <2> DEFINE dl == Worth(t)
               ph == IF dl = 0 THEN "put" ELSE "charge"
               rc == Learnt(syn[PeerOf(t)], dl, task[t].stamp)
    <2>1. /\ task[t].phase = "read" /\ task[t].phase \in Learning /\ MayRun(t)
          /\ SetTo(t, Busy(ph, task[t].todo, task[t].stamp, task[t].used, rc, dl, task[t].writes))
          /\ UNCHANGED <<clock, syn, journal, open, prunedAt>>
      BY <1>0, <1>5, ReadSynapseStep DEF Learning
    <2>2. /\ syn[PeerOf(t)] \in Fine /\ Current(t).outcome \in Resolutions
          /\ syn[PeerOf(t)].weight \in MinWeight..MaxWeight
          /\ PeerOf(t) = journal[task[t].todo[1].id].peer
          /\ task[t].stamp \in Clock /\ task[t].used \in Nat
      BY <2>1, CurrentFits, TaskFacts DEF Fine
    <2>3. dl \in Int /\ syn[PeerOf(t)].weight + dl \in MinWeight..MaxWeight
      BY <2>2, RewardFacts DEF Worth
    <2>4. rc.last = task[t].stamp /\ (rc.state = "pruned" <=> syn[PeerOf(t)].state = "pruned")
      <3> HIDE DEF dl
      <3> QED BY <2>2, <2>3, LearntFine
    <2>5. rc.state = "pruned" <=> Cut(syn[PeerOf(t)])
      BY <2>2, <2>4, RecordAssumption DEF Cut, Fine
    <2>6. ph \in Learning /\ ph # "rewrite"
      BY DEF Learning
    <2> HIDE DEF dl, ph, rc
    <2>7. Dated(syn', open', prunedAt', clock)
      BY <1>0, <2>1
    <2>8. rc.last = clock /\ (rc.state = "pruned" <=> Cut(syn'[journal'[task[t].todo[1].id].peer]))
      BY <1>s, <2>1, <2>2, <2>4, <2>5
    <2>9. SetTo(t, Busy(ph, task[t].todo, clock, task[t].used, rc, dl, task[t].writes))
      BY <1>s, <2>1
    <2> QED BY <1>2, <2>1, <2>6, <2>7, <2>8, <2>9
  <1>6. CASE ChargeInfluence(t)
    <2>1. /\ task[t].phase = "charge" /\ task[t].phase \in Learning /\ MayRun(t)
          /\ SetTo(t, Busy("put", task[t].todo, task[t].stamp, task[t].used, task[t].rec,
                           task[t].delta, task[t].writes))
          /\ UNCHANGED <<clock, syn, journal, open, prunedAt>>
      BY <1>0, <1>6, ChargeStep DEF Learning
    <2>2. Dated(syn', open', prunedAt', clock)
      BY <1>0, <2>1
    <2>3. /\ task[t].rec.last = clock
          /\ task[t].rec.state = "pruned" <=> Cut(syn'[journal'[task[t].todo[1].id].peer])
      BY <1>0, <1>s, <2>1 DEF Respect
    <2>4. "put" \in Learning /\ "put" # "rewrite"
      BY DEF Learning
    <2>5. SetTo(t, Busy("put", task[t].todo, clock, task[t].used, task[t].rec, task[t].delta, task[t].writes))
      BY <1>s, <2>1
    <2> QED BY <1>2, <2>1, <2>2, <2>3, <2>4, <2>5
  <1>7. CASE PutSynapse(t)
    <2>1. /\ task[t].phase = "put" /\ task[t].phase \in Learning /\ MayRun(t)
          /\ SetTo(t, Busy("list", task[t].todo, task[t].stamp, task[t].used, NoSynapse,
                           task[t].delta, task[t].writes))
          /\ syn' = [syn EXCEPT ![PeerOf(t)] = task[t].rec]
          /\ UNCHANGED <<clock, journal, open, prunedAt>>
      BY <1>0, <1>7, PutStep DEF Learning
    <2> DEFINE p == PeerOf(t)
    <2>2. /\ task[t].rec \in Fine /\ p \in Peers /\ p = journal[task[t].todo[1].id].peer
      BY <2>1, CurrentFits, TaskFacts
    <2>3. /\ task[t].rec.last = clock
          /\ task[t].rec.state = "pruned" <=> Cut(syn[p])
      BY <1>0, <1>s, <2>1, <2>2 DEF Respect
    <2>4. syn'[p] = task[t].rec /\ task[t].rec # NoSynapse /\ \A q \in Peers : q # p => syn'[q] = syn[q]
      BY <2>1, <2>2, Written
    <2> HIDE DEF p
    <2>5. Cut(syn'[p]) <=> Cut(syn[p])
      BY <2>3, <2>4 DEF Cut
    <2>6. open \subseteq Peers
      BY DEF Sound, Present
    <2>7. Dated(syn', open', prunedAt', clock)
      BY <1>0, <2>1, <2>2, <2>3, <2>4, <2>5, <2>6 DEF Dated
    <2>8. "list" \in Learning /\ "list" \notin {"charge", "put", "rewrite"}
      BY DEF Learning
    <2> QED BY <1>2, <1>s, <2>1, <2>7, <2>8
  <1>8. CASE ListSynapses(t)
    <2>1. /\ task[t].phase = "list" /\ task[t].phase \in Learning /\ MayRun(t)
          /\ \/ SetTo(t, Proceed(t))
             \/ /\ Rescaled # NoWrites
                /\ SetTo(t, Busy("rewrite", task[t].todo, task[t].stamp, task[t].used, task[t].rec,
                                 task[t].delta, Rescaled))
          /\ UNCHANGED <<clock, syn, open, prunedAt>>
      BY <1>0, <1>8, ListStep DEF Learning
    <2>2. Dated(syn', open', prunedAt', clock)
      BY <1>0, <2>1
    <2>3. CASE SetTo(t, Proceed(t))
      BY <1>1, <2>1, <2>2, <2>3
    <2>4. CASE /\ Rescaled # NoWrites
               /\ SetTo(t, Busy("rewrite", task[t].todo, task[t].stamp, task[t].used, task[t].rec,
                                task[t].delta, Rescaled))
      <3> DEFINE wr == Rescaled
      <3>1. /\ wr \in [Present -> Fine]
            /\ \A p \in Present : wr[p].state = syn[p].state /\ wr[p].last = syn[p].last
            /\ Total(WeightsOf(wr), Present) <= Budget + MinWeight * Cardinality(Present)
        BY <2>4, RescaledFine DEF RescaleServed
      <3>2. SetTo(t, Busy("rewrite", task[t].todo, clock, task[t].used, task[t].rec, task[t].delta, wr))
        BY <1>s, <2>1, <2>4
      <3> HIDE DEF wr
      <3>3. Formed(syn) = Present /\ DOMAIN wr = Present
        BY <3>1 DEF Formed, Present
      <3>4. Goal(wr, syn) = WeightsOf(wr)
        BY <3>3 DEF Goal, WeightsOf
      <3>5. Within(wr, syn)
        BY <3>1, <3>3, <3>4 DEF Within
      <3>6. \A p \in DOMAIN wr : syn[p] # NoSynapse /\ wr[p].state = syn[p].state /\ wr[p].last = syn[p].last
        BY <3>1, <3>3 DEF Present
      <3>7. "rewrite" \in Learning /\ "rewrite" \notin {"charge", "put"}
        BY DEF Learning
      <3> QED BY <1>2, <2>1, <2>2, <3>2, <3>5, <3>6, <3>7
    <2> QED BY <2>1, <2>3, <2>4
  <1>9. ASSUME NEW p \in Peers, Rewrite(t, p) PROVE Orderly'
    <2> DEFINE old == task[t].writes
               wr == [q \in DOMAIN old \ {p} |-> old[q]]
    <2>1. /\ task[t].phase = "rewrite" /\ task[t].phase \in Learning /\ MayRun(t) /\ p \in DOMAIN old
          /\ syn' = [syn EXCEPT ![p] = old[p]]
          /\ \/ SetTo(t, Proceed(t))
             \/ SetTo(t, Busy("rewrite", task[t].todo, task[t].stamp, task[t].used, task[t].rec,
                              task[t].delta, wr))
          /\ UNCHANGED <<clock, open, prunedAt>>
      BY <1>0, <1>9, RewriteStep DEF Learning
    <2>2. /\ old[p] \in Fine /\ DOMAIN old \subseteq Peers
          /\ \A q \in DOMAIN old : syn[q] # NoSynapse /\ old[q].state = syn[q].state /\ old[q].last = syn[q].last
          /\ Within(old, syn)
      BY <1>0, <2>1, TaskFacts DEF Respect
    <2>3. syn'[p] = old[p] /\ old[p] # NoSynapse /\ \A q \in Peers : q # p => syn'[q] = syn[q]
      BY <2>1, <2>2, Written
    <2>4. Formed(syn') = Formed(syn) /\ Goal(wr, syn') = Goal(old, syn)
      BY <2>1, <2>2, GoalStays
    <2>5. DOMAIN wr = DOMAIN old \ {p} /\ \A q \in DOMAIN wr : wr[q] = old[q]
      OBVIOUS
    <2> HIDE DEF wr, old
    <2>6. Within(wr, syn')
      BY <2>2, <2>4 DEF Within
    <2>7. \A q \in DOMAIN wr : syn'[q] # NoSynapse /\ wr[q].state = syn'[q].state /\ wr[q].last = syn'[q].last
      BY <2>2, <2>3, <2>5
    <2>8. /\ Cut(syn'[p]) <=> Cut(syn[p])
          /\ syn'[p].last = syn[p].last
      BY <2>1, <2>2, <2>3 DEF Cut
    <2>9. open \subseteq Peers
      BY DEF Sound, Present
    <2>10. Dated(syn', open', prunedAt', clock)
      BY <1>0, <2>1, <2>3, <2>8, <2>9 DEF Dated
    <2>11. CASE SetTo(t, Proceed(t))
      BY <1>1, <2>1, <2>10, <2>11
    <2>12. CASE SetTo(t, Busy("rewrite", task[t].todo, task[t].stamp, task[t].used, task[t].rec,
                              task[t].delta, wr))
      <3>1. SetTo(t, Busy("rewrite", task[t].todo, clock, task[t].used, task[t].rec, task[t].delta, wr))
        BY <1>s, <2>1, <2>12
      <3>2. "rewrite" \in Learning /\ "rewrite" \notin {"charge", "put"}
        BY DEF Learning
      <3> QED BY <1>2, <2>1, <2>6, <2>7, <2>10, <3>1, <3>2
    <2> QED BY <2>1, <2>11, <2>12
  <1> QED BY <1>3, <1>4, <1>5, <1>6, <1>7, <1>8, <1>9 DEF LearnStep

(* Every step. *)
LEMMA OrderlyStep ==
    ASSUME Sound, Orderly, ~Parallel, [Next]_vars
    PROVE  Orderly'
  <1>0. /\ clock \in Clock /\ clock \in Nat /\ task = [t \in Tasks |-> task[t]]
        /\ prunedAt \in [Peers -> Clock] /\ \A c \in Clock : c \in Nat
    BY LearningAssumption DEF Sound, Shape, Clock
  <1>d. Dated(syn, open, prunedAt, clock)
    BY DEF Orderly
  <1>1. ASSUME NEW t \in Tasks, StoreError(t) PROVE Orderly'
    <2>1. SetTo(t, Free) /\ MayRun(t) /\ UNCHANGED <<clock, syn, open, prunedAt>>
      BY <1>0, <1>1 DEF StoreError, SetTo
    <2>2. Respect(t, Free, clock', syn', open', journal') /\ Dated(syn', open', prunedAt', clock')
      BY <1>d, <2>1, FreeRespects
    <2> QED BY <2>1, <2>2, MoveKeepsOrder
  <1>2. CASE Tick
    <2>1. clock' = clock + 1 /\ Quiet /\ UNCHANGED <<task, syn, open, prunedAt, journal>>
      BY <1>2 DEF Tick
    <2>2. Dated(syn', open', prunedAt', clock')
      BY <1>0, <1>d, <2>1 DEF Dated
    <2>3. \A t \in Tasks : task'[t] = Free
      BY <2>1 DEF Quiet
    <2> QED BY <2>2, <2>3, FreeRespects, OrderlyNext
  <1>3. CASE Crash
    <2>1. task' = [t \in Tasks |-> Free] /\ open' = {} /\ UNCHANGED <<clock, syn, prunedAt>>
      BY <1>3 DEF Crash
    <2>2. Dated(syn', open', prunedAt', clock')
      BY <1>d, <2>1 DEF Dated
    <2>3. \A t \in Tasks : task'[t] = Free
      BY <2>1
    <2> QED BY <2>2, <2>3, FreeRespects, OrderlyNext
  <1>4. CASE UNCHANGED vars
    BY <1>4, OrderlyNext DEF vars, Orderly
  <1>5. ASSUME NEW p \in Peers,
               \/ Handshake(p) \/ PutFormed(p) \/ Close(p)
               \/ SignatureFailure(p) \/ PutPenalised(p)
        PROVE  Orderly'
    BY <1>5, SessionOrder
  <1>6. ASSUME \/ Sweep
               \/ \E p \in Peers : Route(p) \/ \E t \in Tasks : Forward(t, p)
               \/ \E p \in Peers, d \in DOMAIN journal, o \in {"delivered", "rejected"} : Receipt(p, d, o)
        PROVE  Orderly'
    BY <1>6, StartOrder
  <1>7. ASSUME NEW t \in Tasks, LearnStep(t) PROVE Orderly'
    BY <1>7, LearnOrder
  <1> QED BY <1>1, <1>2, <1>3, <1>4, <1>5, <1>6, <1>7 DEF Next

(* The empty node is in order. *)
LEMMA OrderlyInit ==
    ASSUME Init
    PROVE  Orderly
  <1>1. /\ \A t \in Tasks : task[t] = Free
        /\ syn = [p \in Peers |-> NoSynapse] /\ open = {} /\ prunedAt = [p \in Peers |-> 0] /\ clock = 0
    BY DEF Init
  <1>2. Dated(syn, open, prunedAt, clock)
    BY <1>1 DEF Dated, Cut
  <1> QED BY <1>1, <1>2, FreeRespects DEF Orderly

-----------------------------------------------------------------------------
(* What the order gives: prunes hold and budgets are restored. *)

(* A pruned synapse is only ever replaced by a handshake past the cooldown. *)
LEMMA PruneStep ==
    ASSUME Sound, Orderly, ~Parallel, Next, NEW p \in Peers,
           syn[p] # NoSynapse, syn[p].state = "pruned", syn'[p].state # "pruned"
    PROVE  task[p].phase = "form" /\ task[p].stamp >= prunedAt[p] + Cooldown
  <1>0. /\ Shape /\ Dated(syn, open, prunedAt, clock) /\ Cut(syn[p])
        /\ \A t \in Tasks : Respect(t, task[t], clock, syn, open, journal)
    BY DEF Sound, Orderly, Cut
  <1>1. ASSUME UNCHANGED syn PROVE FALSE
    BY <1>1
  <1>2. ASSUME NEW q \in Peers, NEW r \in Fine, syn' = [syn EXCEPT ![q] = r],
               Cut(syn[q]) => r.state = "pruned"
        PROVE  FALSE
    <2>1. syn'[q] = r /\ (p # q => syn'[p] = syn[p])
      BY <1>2, Written
    <2> QED BY <1>0, <1>2, <2>1
  <1>3. ASSUME NEW q \in Peers, PutFormed(q)
        PROVE  task[p].phase = "form" /\ task[p].stamp >= prunedAt[p] + Cooldown
    <2>1. q \in Tasks /\ task[q].phase = "form" /\ syn' = [syn EXCEPT ![q] = task[q].rec]
      BY <1>0, <1>3, PutFormedStep DEF Tasks
    <2>2. task[q].rec \in Fine /\ task[q].stamp \in Clock
      BY <2>1, TaskFacts
    <2>3. q = p
      BY <2>1, <2>2, Written
    <2>4. task[p].stamp >= syn[p].last + Cooldown /\ syn[p].last >= prunedAt[p]
      BY <1>0, <2>1, <2>3 DEF Respect, Dated
    <2>5. syn[p] \in Fine /\ prunedAt[p] \in Clock
      BY DEF Sound
    <2>6. syn[p].last \in Clock
      BY <2>5 DEF Fine, Record
    <2>7. task[p].stamp \in Nat /\ syn[p].last \in Nat /\ prunedAt[p] \in Nat /\ Cooldown \in Nat
      BY <2>2, <2>3, <2>5, <2>6, LearningAssumption DEF Clock
    <2> QED BY <2>1, <2>3, <2>4, <2>7
  <1>4. ASSUME NEW q \in Peers, PutPenalised(q) PROVE FALSE
    <2>1. q \in Tasks /\ task[q].phase = "penalise" /\ syn' = [syn EXCEPT ![q] = task[q].rec]
      BY <1>0, <1>4, PutPenalisedStep DEF Tasks
    <2>2. task[q].rec \in Fine
      BY <2>1, TaskFacts
    <2>3. ~Cut(syn[q])
      BY <1>0, <2>1 DEF Respect, Dated
    <2> QED BY <1>2, <2>1, <2>2, <2>3
  <1>5. ASSUME NEW t \in Tasks, PutSynapse(t) PROVE FALSE
    <2>1. task[t].phase = "put" /\ syn' = [syn EXCEPT ![PeerOf(t)] = task[t].rec]
      BY <1>0, <1>5, PutStep
    <2>2. /\ task[t].rec \in Fine /\ PeerOf(t) \in Peers
          /\ PeerOf(t) = journal[task[t].todo[1].id].peer
      BY <2>1, TaskFacts, CurrentFits DEF Learning
    <2>3. task[t].rec.state = "pruned" <=> Cut(syn[PeerOf(t)])
      BY <1>0, <2>1, <2>2 DEF Respect
    <2> QED BY <1>2, <2>1, <2>2, <2>3
  <1>6. ASSUME NEW t \in Tasks, NEW q \in Peers, Rewrite(t, q) PROVE FALSE
    <2>1. /\ task[t].phase = "rewrite" /\ q \in DOMAIN task[t].writes
          /\ syn' = [syn EXCEPT ![q] = task[t].writes[q]]
      BY <1>0, <1>6, RewriteStep
    <2>2. task[t].writes[q] \in Fine
      BY <2>1, TaskFacts
    <2>3. task[t].writes[q].state = syn[q].state
      BY <1>0, <2>1 DEF Respect
    <2> QED BY <1>2, <2>1, <2>2, <2>3 DEF Cut
  <1>7. \/ UNCHANGED syn
        \/ \E q \in Peers : PutFormed(q) \/ PutPenalised(q)
        \/ \E t \in Tasks : PutSynapse(t) \/ \E q \in Peers : Rewrite(t, q)
    BY DEF Next, Handshake, Close, SignatureFailure, Route, Forward, Receipt, Sweep, LearnStep,
           Resolve, ReadInfluence, ReadSynapse, ChargeInfluence, ListSynapses, StoreError, Tick, Crash
  <1> QED BY <1>1, <1>3, <1>4, <1>5, <1>6, <1>7

(* A pruned synapse carries nothing until it is re-formed, and it is        *)
(* re-formed only after its cooldown, as long as handlers do not interleave *)
(* (apply_signature_failure, upsert_synapse; with interleaving TLC refutes  *)
(* it).                                                                     *)
THEOREM PrunesHold ==
    ASSUME ~Parallel
    PROVE  Spec => PruneHolds
  <1>1. Init => Sound /\ Orderly
    BY SoundInit, OrderlyInit
  <1>2. Sound /\ Orderly /\ [Next]_vars => Sound' /\ Orderly'
    BY SoundStep, OrderlyStep
  <1>3. Sound /\ Orderly /\ [Next]_vars =>
          [\A p \in Peers :
              syn[p] # NoSynapse /\ syn[p].state = "pruned" /\ syn'[p].state # "pruned"
                 => task[p].phase = "form" /\ task[p].stamp >= prunedAt[p] + Cooldown]_vars
    BY PruneStep
  <1> QED BY <1>1, <1>2, <1>3, PTL DEF Spec, PruneHolds

(* There are finitely many synapses, with natural weights. *)
LEMMA PresentFacts ==
    ASSUME Sound
    PROVE  /\ MinWeight \in Nat /\ Budget \in Nat
           /\ Cardinality(Present) \in Nat /\ TotalOf(Present) \in Nat
  <1> DEFINE ws == [p \in Present |-> syn[p].weight]
  <1>1. Present \in SUBSET Peers /\ IsFiniteSet(Peers) /\ MinWeight \in Nat /\ Budget \in Nat
    BY LearningAssumption DEF Present
  <1>2. IsFiniteSet(Present) /\ Cardinality(Present) \in Nat
    BY <1>1, FS_Subset, FS_CardinalityType
  <1>3. \A p \in Present : ws[p] \in Nat
    BY LearningAssumption DEF Present, Sound, Fine
  <1> HIDE DEF ws
  <1>4. Total(ws, Present) \in Nat
    BY <1>2, <1>3, TotalRegular DEF Regular
  <1> QED BY <1>1, <1>2, <1>4 DEF TotalOf, ws

(* A handler that ends a renormalisation leaves the total within budget and *)
(* floor.                                                                   *)
LEMMA BudgetStep ==
    ASSUME Sound, Orderly, ~Parallel, Next, NEW t \in Tasks,
           task[t].phase \in {"list", "rewrite"}, task'[t].phase \in {"idle", "resolve"}, ~broken'
    PROVE  TotalOf(Present)' <= Budget + MinWeight * Cardinality(Present)
  <1>0. /\ Shape /\ task = [u \in Tasks |-> task[u]]
        /\ Respect(t, task[t], clock, syn, open, journal)
        /\ task[t].phase # "idle" /\ task'[t] # task[t]
    BY DEF Sound, Shape, Orderly
  <1>f. Free.phase = "idle"
    BY FreeIsBusy, BusyFields
  <1>1. ASSUME NEW u \in Tasks, MayRun(u) PROVE u = t
    BY <1>0, <1>f, <1>1 DEF MayRun
  <1>2. ASSUME NEW p \in Peers,
               \/ Handshake(p) \/ PutFormed(p) \/ Close(p)
               \/ SignatureFailure(p) \/ PutPenalised(p) \/ Route(p)
               \/ \E u \in Tasks : Forward(u, p)
               \/ \E d \in DOMAIN journal, o \in {"delivered", "rejected"} : Receipt(p, d, o)
        PROVE  FALSE
    <2>1. p \in Tasks
      BY DEF Tasks
    <2>2. ~Route(p)
      BY <1>0 DEF Route
    <2>3. ~\E u \in Tasks : Forward(u, p)
      BY <1>0, <1>1 DEF Forward, At
    <2> QED BY <1>1, <1>2, <2>1, <2>2, <2>3
            DEF Handshake, PutFormed, Close, SignatureFailure, PutPenalised, Receipt, At
  <1>3. ~Sweep
    <2>1. Maintenance \in Tasks
      BY DEF Tasks
    <2> QED BY <1>1, <2>1 DEF Sweep, At
  <1>4. ~Tick /\ ~Crash /\ ~\E u \in Tasks : StoreError(u)
    BY <1>0 DEF Tick, Crash, StoreError
  <1>5. LearnStep(t)
    <2>1. PICK u \in Tasks : LearnStep(u)
      BY <1>2, <1>3, <1>4 DEF Next
    <2>2. MayRun(u)
      BY <2>1 DEF LearnStep, Resolve, ReadInfluence, ReadSynapse, ChargeInfluence, PutSynapse,
                  ListSynapses, Rewrite, At
    <2> QED BY <1>1, <2>1, <2>2
  <1>6. CASE ListSynapses(t)
    <2>1. /\ \/ Rescaled = NoWrites
             \/ SetTo(t, Busy("rewrite", task[t].todo, task[t].stamp, task[t].used, task[t].rec,
                              task[t].delta, Rescaled))
          /\ UNCHANGED syn
      BY <1>0, <1>6, ListStep
    <2>2. Rescaled = NoWrites
      <3> DEFINE w == Busy("rewrite", task[t].todo, task[t].stamp, task[t].used, task[t].rec,
                           task[t].delta, Rescaled)
      <3>1. w.phase = "rewrite"
        BY BusyFields
      <3>2. Rescaled = NoWrites \/ SetTo(t, w)
        BY <2>1
      <3> HIDE DEF w
      <3> QED BY <3>1, <3>2 DEF SetTo
    <2>3. TotalOf(Present) <= Budget
      BY <2>2, RescaledFine DEF RescaleServed
    <2>4. TotalOf(Present)' = TotalOf(Present)
      BY <2>1 DEF TotalOf, Present
    <2>5. MinWeight \in Nat /\ Budget \in Nat /\ Cardinality(Present) \in Nat /\ TotalOf(Present) \in Nat
      BY PresentFacts
    <2>6. MinWeight * Cardinality(Present) \in Nat
      BY <2>5
    <2> QED BY <2>3, <2>4, <2>5, <2>6
  <1>7. ASSUME NEW p \in Peers, Rewrite(t, p)
        PROVE  TotalOf(Present)' <= Budget + MinWeight * Cardinality(Present)
    <2> DEFINE old == task[t].writes
               rest == [q \in DOMAIN old \ {p} |-> old[q]]
    <2>1. /\ task[t].phase = "rewrite" /\ p \in DOMAIN old
          /\ syn' = [syn EXCEPT ![p] = old[p]]
          /\ \/ DOMAIN old \ {p} = {}
             \/ SetTo(t, Busy("rewrite", task[t].todo, task[t].stamp, task[t].used, task[t].rec,
                              task[t].delta, rest))
      BY <1>0, <1>7, RewriteStep
    <2>2. DOMAIN old \ {p} = {}
      <3> DEFINE w == Busy("rewrite", task[t].todo, task[t].stamp, task[t].used, task[t].rec,
                           task[t].delta, rest)
      <3>1. w.phase = "rewrite"
        BY BusyFields
      <3>2. DOMAIN old \ {p} = {} \/ SetTo(t, w)
        BY <2>1
      <3> HIDE DEF w
      <3> QED BY <3>1, <3>2 DEF SetTo
    <2>3. old[p] \in Fine /\ syn[p] # NoSynapse /\ Within(old, syn)
      BY <1>0, <2>1, TaskFacts DEF Respect
    <2>4. Formed(syn') = Formed(syn) /\ Goal(rest, syn') = Goal(old, syn)
      BY <2>1, <2>3, GoalStays
    <2>5. Present' = Formed(syn') /\ Present = Formed(syn)
      BY DEF Present, Formed
    <2>6. Goal(rest, syn') = [q \in Formed(syn') |-> syn'[q].weight]
      BY <2>2 DEF Goal
    <2> HIDE DEF rest, old
    <2>7. TotalOf(Present)' = Total([q \in Formed(syn') |-> syn'[q].weight], Formed(syn'))
      BY <2>5 DEF TotalOf
    <2> QED BY <2>3, <2>4, <2>5, <2>6, <2>7 DEF Within
  <1> QED BY <1>5, <1>6, <1>7 DEF LearnStep, Resolve, ReadInfluence, ReadSynapse, ChargeInfluence, PutSynapse, At

(* Learning ends within budget: when a handler has renormalised, the total  *)
(* outbound weight exceeds the budget by no more than the floor gives back  *)
(* (normalize_outbound, apply_outcome_to_synapse), as long as handlers do   *)
(* not interleave.                                                          *)
THEOREM BudgetHolds ==
    ASSUME ~Parallel
    PROVE  Spec => BudgetRestored
  <1>1. Init => Sound /\ Orderly
    BY SoundInit, OrderlyInit
  <1>2. Sound /\ Orderly /\ [Next]_vars => Sound' /\ Orderly'
    BY SoundStep, OrderlyStep
  <1>3. Sound /\ Orderly /\ [Next]_vars =>
          [\A t \in Tasks :
              task[t].phase \in {"list", "rewrite"} /\ task'[t].phase \in {"idle", "resolve"}
                 /\ ~broken'
                 => TotalOf(Present)' <= Budget + MinWeight * Cardinality(Present)]_vars
    BY BudgetStep
  <1> QED BY <1>1, <1>2, <1>3, PTL DEF Spec, BudgetRestored

=============================================================================
