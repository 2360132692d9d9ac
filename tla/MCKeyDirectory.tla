--------------------------- MODULE MCKeyDirectory ---------------------------
(* KeyDirectory for TLC.  One run explores the directory with restarts and  *)
(* failed puts, and the claims inbox with nonces that age.                  *)
EXTENDS KeyDirectory, TLC

CONSTANTS a, b, n1, n2, n3, n4, n5, t1, k1, k2, k3

Symmetry == Permutations(Wallets) \cup Permutations(Nonces) \cup Permutations(Claims)

NoClaims == \A t \in Tokens : first[t] = <<>>

Directory == now = 0 /\ NoClaims

Inbox == failures = 0 /\ Cardinality(DOMAIN issued) <= 2

Regions == Directory \/ Inbox
=============================================================================
