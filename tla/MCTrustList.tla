----------------------------- MODULE MCTrustList -----------------------------
(* An instance of TrustList for TLC. *)
EXTENDS TrustList, TLC

CONSTANTS p1, p2, home

TwoPeers == {p1, p2}
OneAddress == {home}
=============================================================================
