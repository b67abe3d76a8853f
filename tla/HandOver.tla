------------------------------ MODULE HandOver ------------------------------
(***************************************************************************)
(* What a node promises about the signals peers send it: it takes          *)
(* responsibility for an identifier once, and then either hands the signal *)
(* to the application or refuses it, telling the sender in the same breath *)
(* when the signal asks to be acknowledged.  A receipt is final: what was  *)
(* refused is never handed over later, and what was lost with a process or *)
(* a failed journal write was never acknowledged.                          *)
(***************************************************************************)
EXTENDS Sequences

CONSTANTS
    Signals,
    Acked,     \* the signals that ask to be acknowledged
    MayLose    \* a held signal may be lost (crash, failed journal write)

VARIABLES
    stage,     \* how far the node is with each signal
    answers    \* the receipts it has produced for it

vars == <<stage, answers>>

Stages == {"new", "held", "handled", "gone"}

Init ==
    /\ stage = [s \in Signals |-> "new"]
    /\ answers = [s \in Signals |-> <<>>]

Tell(s, verdict) ==
    answers' = IF s \in Acked THEN [answers EXCEPT ![s] = Append(@, verdict)] ELSE answers

Claim(s) ==
    /\ stage[s] = "new"
    /\ stage' = [stage EXCEPT ![s] = "held"]
    /\ UNCHANGED answers

(* Handing over is the answer "delivered", or "rejected" when the signal    *)
(* should have travelled on and could not.                                  *)
Handle(s) ==
    /\ stage[s] = "held"
    /\ stage' = [stage EXCEPT ![s] = "handled"]
    /\ Tell(s, "delivered") \/ Tell(s, "rejected")

Refuse(s) ==
    /\ stage[s] = "held"
    /\ stage' = [stage EXCEPT ![s] = "gone"]
    /\ Tell(s, "rejected")

(* Signals held, or claimed by the very call that fails, are lost: nobody   *)
(* is told anything.                                                        *)
Lose ==
    /\ MayLose
    /\ stage' \in [Signals -> Stages]
    /\ \A s \in Signals : stage'[s] # stage[s]
                            => stage[s] \in {"new", "held"} /\ stage'[s] = "gone"
    /\ UNCHANGED answers

Next == (\E s \in Signals : Claim(s) \/ Handle(s) \/ Refuse(s)) \/ Lose

Spec == Init /\ [][Next]_vars

=============================================================================
