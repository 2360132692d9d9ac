----------------------------- MODULE OrderedLog -----------------------------
(***************************************************************************)
(* What the relay promises the members of a group, and nothing about how:  *)
(* one order of envelopes per group that only grows at its end, and within *)
(* it one Commit per epoch, the epochs being decided in turn 1, 2, 3, ...  *)
(* (R1, "first writer wins": once decided, an epoch keeps its Commit).     *)
(***************************************************************************)
EXTENDS Naturals, Sequences

CONSTANTS Groups, Ciphertexts

VARIABLES
    order,    \* group -> the envelopes in their order, as [kind, ct]
    decided   \* group -> the Commit of epoch 1, of epoch 2, ...

Messages == {"Welcome", "Proposal", "Application"}

Init ==
    /\ order = [g \in Groups |-> <<>>]
    /\ decided = [g \in Groups |-> <<>>]

(* A message takes the next place in the order. *)
Post(g, k, c) ==
    /\ order' = [order EXCEPT ![g] = Append(@, [kind |-> k, ct |-> c])]
    /\ UNCHANGED decided

(* A Commit takes the next place and is the choice for the next epoch. *)
Decide(g, c) ==
    /\ order' = [order EXCEPT ![g] = Append(@, [kind |-> "Commit", ct |-> c])]
    /\ decided' = [decided EXCEPT ![g] = Append(@, c)]

Next ==
    \E g \in Groups, c \in Ciphertexts :
        Decide(g, c) \/ \E k \in Messages : Post(g, k, c)

Spec == Init /\ [][Next]_<<order, decided>>
=============================================================================
