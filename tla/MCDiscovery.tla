----------------------------- MODULE MCDiscovery -----------------------------
(* Instances of Discovery for TLC. *)
EXTENDS Discovery

TwoDevices == {"a", "b"}
(* What b broadcasts gets to nobody: a phone that shares its connection. *)
OneWay == {<<"a", "b">>}
(* The clock of a is ahead by more than the tolerance: a beacon of a is taken *)
(* only when it comes late, so it can be shown for longest after it was made. *)
AheadByOne == [d \in TwoDevices |-> IF d = "a" THEN 1 ELSE 0]
=============================================================================
