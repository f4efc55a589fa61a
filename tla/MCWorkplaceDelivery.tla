------------------------- MODULE MCWorkplaceDelivery -------------------------
(* Instances of WorkplaceDelivery for TLC. *)
EXTENDS WorkplaceDelivery

TwoDevices == {"a", "b"}
AUnseen == {<<"b", "a">>}
=============================================================================
