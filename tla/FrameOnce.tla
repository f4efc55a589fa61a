------------------------------ MODULE FrameOnce ------------------------------
(* What one direction of a session promises its reader: a frame is opened   *)
(* the first time it arrives, unless a frame Window or more positions later *)
(* has been opened before it, and never again.                              *)
EXTENDS Integers

CONSTANT Window

VARIABLES
    sealed,     \* number of frames the peer has sealed
    opened,     \* counters of the frames opened so far
    outcome     \* counter of the last frame that arrived, and was it opened

vars == <<sealed, opened, outcome>>

Stale(c) == \E o \in opened : o - c >= Window

Init == sealed = 0 /\ opened = {} /\ outcome = {}

Seal ==
    /\ sealed' \in Nat /\ sealed' >= sealed
    /\ UNCHANGED <<opened, outcome>>

Arrive ==
    \E c \in 0 .. sealed - 1 :
        LET ok == c \notin opened /\ ~Stale(c)
        IN  /\ opened' = IF ok THEN opened \cup {c} ELSE opened
            /\ outcome' = {<<c, ok>>}
            /\ UNCHANGED sealed

Next == Seal \/ Arrive

Spec == Init /\ [][Next]_vars
=============================================================================
