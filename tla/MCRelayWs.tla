----------------------------- MODULE MCRelayWs -----------------------------
(* RelayWs for TLC: who can sign for which wallet on which connection.     *)
EXTENDS RelayWs, TLC

CONSTANTS c1, c2, c3, a, b, none

(* a has two connections, b one: a reconnects, or uses two devices.        *)
Reconnecting == c1 :> {a} @@ c2 :> {a} @@ c3 :> {b}
(* One connection each, none ever replaced. *)
OneEach == c1 :> {a} @@ c2 :> {b}
(* The peer of c1 can sign for both wallets. *)
TwoWallets == c1 :> {a, b} @@ c2 :> {b}

Interchangeable == Permutations({c1, c2})
=============================================================================
