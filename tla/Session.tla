------------------------------- MODULE Session -------------------------------
(* One direction of an encrypted session: the counter of the sealing side   *)
(* and the sliding replay window of the opening side (crypto/session.rs).   *)
(*                                                                          *)
(* A frame is its counter; a frame that was sealed may arrive any number of *)
(* times, in any order, or never.  The window is kept as the code keeps it, *)
(* as sixteen words of 64 bits, a word being the set of its bits.           *)
EXTENDS Integers

CONSTANTS
    Bursts,     \* how many frames are sealed in a row
    Probes,     \* the counters of the frames that may arrive
    MaxSealed   \* bound on the number of frames sealed

MAX_REPLAY_WINDOW == 1024
Words == 0 .. 15
Bits == 0 .. 63

ASSUME BurstsAssumption == Bursts \subseteq Nat
ASSUME ProbesAssumption == Probes \subseteq Nat
ASSUME MaxSealedAssumption == MaxSealed \in Nat

VARIABLES
    send_counter,   \* Session.send_counter of the sealing side
    highest,        \* ReplayWindow of the opening side
    bitmap,
    started,
    opened,         \* history: the counters whose plaintext was handed out
    outcome         \* history: the last frame to arrive and its result

vars == <<send_counter, highest, bitmap, started, opened, outcome>>

NoBits == [w \in Words |-> {}]

Init ==
    /\ send_counter = 0
    /\ highest = 0 /\ bitmap = NoBits /\ started = FALSE
    /\ opened = {} /\ outcome = {}

(* seal: so many frames, each under the next counter *)
Seal ==
    /\ \E n \in Bursts :
         /\ send_counter + n <= MaxSealed
         /\ send_counter' = send_counter + n
    /\ UNCHANGED <<highest, bitmap, started, opened, outcome>>

BitSet(map, offset) ==
    LET word == offset \div 64 IN word \in Words /\ offset % 64 \in map[word]

SetBit(map, offset) ==
    [w \in Words |-> IF w = offset \div 64 THEN map[w] \cup {offset % 64} ELSE map[w]]

(* Move every remembered frame delta positions further into the past: a bit *)
(* of word i goes to word i + word_shift, or one further if it overflows.   *)
ShiftWithoutCarry(map, delta) ==
    IF delta >= MAX_REPLAY_WINDOW THEN NoBits
    ELSE LET word_shift == delta \div 64
             bit_shift == delta % 64
         IN  [w \in Words |->
                {b \in Bits : /\ w - word_shift \in Words
                              /\ b - bit_shift \in map[w - word_shift]}]
ShiftUp(map, delta) ==
    IF delta >= MAX_REPLAY_WINDOW THEN NoBits
    ELSE LET word_shift == delta \div 64
             bit_shift == delta % 64
         IN  [w \in Words |->
                {b \in Bits :
                   \/ /\ w - word_shift \in Words
                      /\ b - bit_shift \in map[w - word_shift]
                   \/ /\ bit_shift > 0 /\ w - word_shift - 1 \in Words
                      /\ b - bit_shift + 64 \in map[w - word_shift - 1]}]

TooOldByOne(offset) == offset > MAX_REPLAY_WINDOW
TooOld(offset) == offset >= MAX_REPLAY_WINDOW

(* ReplayWindow::accept, one action for each of its results *)

Record(c, ok) ==
    /\ opened' = IF ok THEN opened \cup {c} ELSE opened
    /\ outcome' = {<<c, ok>>}

First(c) ==
    /\ ~started
    /\ started' = TRUE
    /\ highest' = c
    /\ bitmap' = SetBit(NoBits, 0)
    /\ Record(c, TRUE)

Ahead(c) ==
    /\ started /\ c > highest
    /\ bitmap' = SetBit(ShiftUp(bitmap, c - highest), 0)
    /\ highest' = c
    /\ UNCHANGED started
    /\ Record(c, TRUE)

Refused(c) == TooOld(highest - c) \/ BitSet(bitmap, highest - c)

Behind(c) ==
    /\ started /\ c <= highest
    /\ bitmap' = IF Refused(c) THEN bitmap ELSE SetBit(bitmap, highest - c)
    /\ UNCHANGED <<highest, started>>
    /\ Record(c, ~Refused(c))

(* open: a frame that was sealed passes authentication; any other is        *)
(* refused before the window is touched and changes nothing                 *)
Open ==
    /\ \E c \in Probes : c < send_counter /\ (First(c) \/ Ahead(c) \/ Behind(c))
    /\ UNCHANGED send_counter

Next == Seal \/ Open

Spec == Init /\ [][Next]_vars

-----------------------------------------------------------------------------
(* The counters and the words of the window have their ranges. *)
TypeOK ==
    /\ send_counter \in Nat
    /\ highest \in Nat
    /\ bitmap \in [Words -> SUBSET Bits]
    /\ started \in BOOLEAN
    /\ opened \subseteq Nat

Offsets(map) == {k \in 0 .. MAX_REPLAY_WINDOW - 1 : BitSet(map, k)}

(* The window remembers the frames opened, no more and no fewer, at their   *)
(* distance from the highest: across every shift, whatever word it crosses. *)
WindowExact ==
    /\ started => highest \in opened /\ \A o \in opened : o <= highest
    /\ ~started => opened = {}
    /\ LET known == Offsets(bitmap)
       IN  \A k \in 0 .. MAX_REPLAY_WINDOW - 1 : k \in known <=> highest - k \in opened

Abstract == INSTANCE FrameOnce WITH Window <- MAX_REPLAY_WINDOW, sealed <- send_counter

(* Every frame is opened when it first arrives, however late within the     *)
(* window, and at most once, however often it arrives.                      *)
OpenedOnce == Abstract!Spec
=============================================================================
