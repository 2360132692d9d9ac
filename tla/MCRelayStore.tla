---------------------------- MODULE MCRelayStore ----------------------------
(* RelayStore for TLC; the owner is told apart from the other wallets.  One *)
(* run explores crashes over three envelopes of one epoch, and crashes with *)
(* a failed put over two envelopes of two epochs.                           *)
EXTENDS RelayStore, TLC

CONSTANTS o, a, b, c1, c2

Symmetry == Permutations(Others) \cup Permutations(Ciphertexts)

Regions == Len(mem.log) <= 2 \/ (failures = 0 /\ mem.current_epoch <= 1)
=============================================================================
