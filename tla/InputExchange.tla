----------------------------- MODULE InputExchange -----------------------------
(***************************************************************************)
(* What the input adapter promises those who ask the user for input: each  *)
(* question is put to the user once, questions are answered in the order   *)
(* in which they were asked, an answer is collected at most once, and a    *)
(* question that was withdrawn is never answered.                          *)
(***************************************************************************)
EXTENDS Integers

CONSTANT MaxRequests   \* bound of the model: the number of questions asked

Request == 1 .. MaxRequests

VARIABLE phase   \* per question: "unborn", "pending", "ready" or "gone"

Init == phase = [i \in Request |-> "unborn"]

Oldest(i, p) == \A j \in Request : j < i => phase[j] # p

Ask(i) == /\ phase[i] = "unborn" /\ Oldest(i, "unborn")
          /\ phase' = [phase EXCEPT ![i] = "pending"]

Answer(i) == /\ phase[i] = "pending" /\ Oldest(i, "pending")
             /\ phase' = [phase EXCEPT ![i] = "ready"]

Collect(i) == /\ phase[i] = "ready"
              /\ phase' = [phase EXCEPT ![i] = "gone"]

Withdraw(i) == /\ phase[i] \in {"pending", "ready"}
               /\ phase' = [phase EXCEPT ![i] = "gone"]

Next == \E i \in Request : Ask(i) \/ Answer(i) \/ Collect(i) \/ Withdraw(i)

Spec == Init /\ [][Next]_phase

=============================================================================
