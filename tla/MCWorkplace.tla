----------------------------- MODULE MCWorkplace -----------------------------
(* Instances of Workplace for TLC. *)
EXTENDS Workplace, TLC

CONSTANTS o, a, b, g, h

TwoDevices == {o, a}
ThreeDevices == {o, a, b}
OneGroup == {g}
TwoGroups == {g, h}
TwoRoles == {"Admin", "Member"}
AllKinds == {"role", "groups", "rename", "invite", "delete", "text"}
GroupsAndTexts == {"groups", "text"}
Others == Permutations({a, b})
=============================================================================
