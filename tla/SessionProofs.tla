---------------------------- MODULE SessionProofs ----------------------------
(* The bitmap of the replay window is exact and a session opens every frame *)
(* at most once, whatever arrives in whatever order.                        *)
EXTENDS Session, TLAPS

USE DEF MAX_REPLAY_WINDOW

(* Where an offset has its bit. *)
LEMMA Position ==
    ASSUME NEW k \in 0 .. 1023
    PROVE  /\ k \div 64 \in Words
           /\ k % 64 \in Bits
           /\ k % 64 = k - 64 * (k \div 64)
<1>1. k \in Nat /\ k < 1024 OBVIOUS
<1>2. k \div 64 \in 0 .. 15 /\ k % 64 \in 0 .. 63
  BY <1>1
<1>3. k % 64 = k - 64 * (k \div 64)
  BY <1>1
<1> QED BY <1>1, <1>2, <1>3 DEF Words, Bits

LEMMA PositionUnique ==
    ASSUME NEW k \in Nat, NEW w \in Int, NEW b \in Bits, k = 64 * w + b
    PROVE  k \div 64 = w /\ k % 64 = b
BY DEF Bits

LEMMA OffsetsExact ==
    ASSUME NEW map
    PROVE  /\ \A j \in 0 .. 1023 : j \in Offsets(map) <=> BitSet(map, j)
           /\ \A j \in Offsets(map) : j \in 0 .. 1023
BY DEF Offsets

(* Setting a bit sets that bit and no other. *)
LEMMA SetBitType ==
    ASSUME NEW map \in [Words -> SUBSET Bits], NEW k \in 0 .. 1023
    PROVE  SetBit(map, k) \in [Words -> SUBSET Bits]
BY Position DEF SetBit

LEMMA SetBitExact ==
    ASSUME NEW map \in [Words -> SUBSET Bits], NEW k \in 0 .. 1023
    PROVE  Offsets(SetBit(map, k)) = Offsets(map) \cup {k}
<1>1. ASSUME NEW j \in 0 .. 1023
      PROVE  BitSet(SetBit(map, k), j) <=> j = k \/ BitSet(map, j)
  <2>1. j \div 64 \in Words /\ k \div 64 \in Words BY Position
  <2>2. j = k <=> j \div 64 = k \div 64 /\ j % 64 = k % 64
    BY Position
  <2> QED BY <2>1, <2>2 DEF SetBit, BitSet
<1> DEFINE S == Offsets(SetBit(map, k))
           R == Offsets(map)
<1>2. \A j \in 0 .. 1023 : j \in S <=> BitSet(SetBit(map, k), j)
  BY OffsetsExact
<1>3. \A j \in 0 .. 1023 : j \in R <=> BitSet(map, j)
  BY OffsetsExact
<1>4. \A j \in S : j \in 0 .. 1023
  BY OffsetsExact, Zenon
<1>5. \A j \in R : j \in 0 .. 1023
  BY OffsetsExact, Zenon
<1> HIDE DEF S, R
<1>6. \A j \in 0 .. 1023 : j \in S <=> j = k \/ j \in R
  BY <1>1, <1>2, <1>3
<1>7. ASSUME NEW j PROVE j \in S <=> j = k \/ j \in R
  <2>1. CASE j \in 0 .. 1023 BY <2>1, <1>6
  <2>2. CASE j \notin 0 .. 1023 BY <2>2, <1>4, <1>5
  <2> QED BY <2>1, <2>2
<1>8. S = R \cup {k}
  BY <1>7
<1> QED BY <1>8 DEF S, R

(* Shifting moves a bit delta positions up, carries it into the next word,  *)
(* and drops what leaves the window.                                        *)
LEMMA ShiftType ==
    ASSUME NEW map \in [Words -> SUBSET Bits], NEW delta \in Nat \ {0}
    PROVE  ShiftUp(map, delta) \in [Words -> SUBSET Bits]
<1>1. CASE delta >= 1024
  BY <1>1 DEF ShiftUp, NoBits
<1>2. CASE ~(delta >= 1024)
  BY <1>2 DEF ShiftUp
<1> QED BY <1>1, <1>2

LEMMA ShiftExact ==
    ASSUME NEW map \in [Words -> SUBSET Bits], NEW delta \in Nat \ {0},
           NEW j \in 0 .. 1023
    PROVE  j \in Offsets(ShiftUp(map, delta)) <=> j - delta \in Offsets(map)
<1> DEFINE ws == delta \div 64
           bs == delta % 64
           w == j \div 64
           b == j % 64
           v == (j - delta) \div 64
           c == (j - delta) % 64
<1>0. /\ j \in Offsets(ShiftUp(map, delta)) <=> BitSet(ShiftUp(map, delta), j)
      /\ j < delta => j - delta \notin Offsets(map)
      /\ j >= delta => (j - delta \in Offsets(map) <=> BitSet(map, j - delta))
  <2>1. j \in Offsets(ShiftUp(map, delta)) <=> BitSet(ShiftUp(map, delta), j)
    BY OffsetsExact
  <2>2. j < delta => j - delta \notin 0 .. 1023
    OBVIOUS
  <2>3. j >= delta => j - delta \in 0 .. 1023
    OBVIOUS
  <2>4. j < delta => j - delta \notin Offsets(map)
    <3>1. \A i \in Offsets(map) : i \in 0 .. 1023
      BY OffsetsExact
    <3> QED BY <2>2, <3>1
  <2>5. j >= delta => (j - delta \in Offsets(map) <=> BitSet(map, j - delta))
    BY <2>3, OffsetsExact
  <2> QED BY <2>1, <2>4, <2>5
<1>1. CASE delta >= 1024
  <2>1. ShiftUp(map, delta) = NoBits BY <1>1 DEF ShiftUp
  <2>2. ~BitSet(NoBits, j)
    BY DEF NoBits, BitSet
  <2>3. j < delta BY <1>1
  <2> QED BY <1>0, <2>1, <2>2, <2>3
<1>2. CASE delta < 1024
  <2>1. ws \in Words /\ bs \in Bits /\ delta = 64 * ws + bs
    BY <1>2 DEF Words, Bits
  <2>2. w \in Words /\ b \in Bits /\ j = 64 * w + b
    BY Position
  <2>3. BitSet(ShiftUp(map, delta), j) <=>
          \/ w - ws \in Words /\ b - bs \in map[w - ws]
          \/ bs > 0 /\ w - ws - 1 \in Words /\ b - bs + 64 \in map[w - ws - 1]
    <3>1. ShiftUp(map, delta) =
            [x \in Words |->
               {y \in Bits :
                  \/ x - ws \in Words /\ y - bs \in map[x - ws]
                  \/ bs > 0 /\ x - ws - 1 \in Words /\ y - bs + 64 \in map[x - ws - 1]}]
      BY <1>2 DEF ShiftUp
    <3> HIDE DEF ws, bs
    <3> QED BY <2>2, <3>1 DEF BitSet
  <2>4. BitSet(map, j - delta) <=> v \in Words /\ c \in map[v]
    BY DEF BitSet
  <2> HIDE DEF ws, bs, w, b, v, c
  <2>5. CASE b >= bs
    <3>1. j >= delta <=> w - ws \in Words
      BY <2>1, <2>2, <2>5 DEF Words, Bits
    <3>2. j >= delta => v = w - ws /\ c = b - bs
      <4> SUFFICES ASSUME j >= delta PROVE v = w - ws /\ c = b - bs
        OBVIOUS
      <4>1. j - delta = 64 * (w - ws) + (b - bs) /\ j - delta \in Nat
        BY <2>1, <2>2 DEF Words, Bits
      <4>2. w - ws \in Int /\ b - bs \in Bits
        BY <2>1, <2>2, <2>5 DEF Words, Bits
      <4> QED BY <4>1, <4>2, PositionUnique DEF v, c
    <3>3. w - ws - 1 \in Words => b - bs + 64 \notin map[w - ws - 1]
      BY <2>1, <2>2, <2>5 DEF Words, Bits
    <3>4. BitSet(ShiftUp(map, delta), j) <=> j >= delta /\ BitSet(map, j - delta)
      BY <2>3, <2>4, <3>1, <3>2, <3>3
    <3> QED BY <1>0, <2>1, <3>4 DEF Words, Bits
  <2>6. CASE b < bs
    <3>1. j >= delta <=> w - ws - 1 \in Words
      BY <2>1, <2>2, <2>6 DEF Words, Bits
    <3>2. j >= delta => v = w - ws - 1 /\ c = b - bs + 64
      <4> SUFFICES ASSUME j >= delta PROVE v = w - ws - 1 /\ c = b - bs + 64
        OBVIOUS
      <4>1. j - delta = 64 * (w - ws - 1) + (b - bs + 64) /\ j - delta \in Nat
        BY <2>1, <2>2 DEF Words, Bits
      <4>2. w - ws - 1 \in Int /\ b - bs + 64 \in Bits
        BY <2>1, <2>2, <2>6 DEF Words, Bits
      <4> QED BY <4>1, <4>2, PositionUnique DEF v, c
    <3>3. w - ws \in Words => b - bs \notin map[w - ws]
      BY <2>1, <2>2, <2>6 DEF Words, Bits
    <3>4. bs > 0 BY <2>1, <2>2, <2>6 DEF Words, Bits
    <3>5. BitSet(ShiftUp(map, delta), j) <=> j >= delta /\ BitSet(map, j - delta)
      BY <2>3, <2>4, <3>1, <3>2, <3>3, <3>4
    <3> QED BY <1>0, <2>1, <3>5 DEF Words, Bits
  <2> QED BY <2>1, <2>2, <2>5, <2>6 DEF Bits
<1> QED BY <1>1, <1>2

-----------------------------------------------------------------------------

Inv == TypeOK /\ WindowExact

LEMMA NoBitsType == NoBits \in [Words -> SUBSET Bits]
BY DEF NoBits

LEMMA NoBitsEmpty == \A j \in 0 .. 1023 : j \notin Offsets(NoBits)
<1>1. ASSUME NEW j \in 0 .. 1023 PROVE j \notin Offsets(NoBits)
  <2>1. ~BitSet(NoBits, j) BY DEF NoBits, BitSet
  <2> QED BY <2>1, OffsetsExact
<1> QED BY <1>1

LEMMA Exact ==
    ASSUME WindowExact, NEW k \in 0 .. 1023
    PROVE  k \in Offsets(bitmap) <=> highest - k \in opened
BY DEF WindowExact

LEMMA InvInit == Init => Inv
<1> SUFFICES ASSUME Init PROVE Inv OBVIOUS
<1>1. opened = {} /\ bitmap = NoBits /\ started = FALSE BY DEF Init
<1>2. TypeOK BY NoBitsType DEF Init, TypeOK
<1>3. WindowExact BY <1>1, NoBitsEmpty DEF WindowExact
<1> QED BY <1>2, <1>3 DEF Inv

(* The verdict on a frame that is not ahead of the window. *)
LEMMA RefusedExact ==
    ASSUME Inv, started, NEW c \in Nat, c <= highest
    PROVE  Refused(c) <=> c \in opened \/ highest - c >= 1024
<1> DEFINE k == highest - c
<1>1. k \in Nat /\ highest - k = c BY DEF Inv, TypeOK
<1>2. CASE k \in 0 .. 1023
  <2>1. WindowExact BY DEF Inv
  <2> HIDE DEF k
  <2>2. k \in Offsets(bitmap) <=> highest - k \in opened
    BY <1>2, <2>1, Exact
  <2>3. BitSet(bitmap, k) <=> c \in opened
    BY <1>1, <1>2, <2>2, OffsetsExact
  <2>4. Refused(c) <=> k >= 1024 \/ BitSet(bitmap, k)
    BY DEF Refused, TooOld, k
  <2> QED BY <1>2, <2>3, <2>4 DEF k
<1>3. CASE k >= 1024
  BY <1>3 DEF Refused, TooOld
<1> QED BY <1>1, <1>2, <1>3

LEMMA InvOpen ==
    ASSUME Inv, NEW c \in Nat, First(c) \/ Ahead(c) \/ Behind(c),
           UNCHANGED send_counter
    PROVE  Inv'
<1>0. 0 \in 0 .. 1023 OBVIOUS
<1>1. WindowExact BY DEF Inv
<1>2. /\ TypeOK
      /\ bitmap \in [Words -> SUBSET Bits] /\ highest \in Nat /\ opened \subseteq Nat
  BY DEF Inv, TypeOK
<1>3. CASE First(c)
  <2>1. opened = {} BY <1>1, <1>3 DEF WindowExact, First
  <2>2. /\ opened' = {c} /\ highest' = c /\ started' = TRUE
        /\ bitmap' = SetBit(NoBits, 0)
    BY <1>3, <2>1 DEF First, Record
  <2>3. SetBit(NoBits, 0) \in [Words -> SUBSET Bits]
    BY <1>0, NoBitsType, SetBitType, Zenon
  <2>7. TypeOK' BY <1>2, <2>2, <2>3 DEF TypeOK
  <2>4. ASSUME NEW j \in 0 .. 1023
        PROVE  j \in Offsets(bitmap') <=> highest' - j \in opened'
    <3>1. Offsets(SetBit(NoBits, 0)) = Offsets(NoBits) \cup {0}
      BY <1>0, NoBitsType, SetBitExact
    <3>2. j \notin Offsets(NoBits) BY NoBitsEmpty
    <3>3. j = 0 <=> c - j \in {c} OBVIOUS
    <3> QED BY <2>2, <3>1, <3>2, <3>3
  <2>5. /\ started' => highest' \in opened' /\ \A o \in opened' : o <= highest'
        /\ ~started' => opened' = {}
    BY <2>2
  <2>6. WindowExact' BY <2>4, <2>5 DEF WindowExact
  <2> QED BY <2>7, <2>6 DEF Inv
<1>4. CASE Ahead(c)
  <2> DEFINE d == c - highest
             m == ShiftUp(bitmap, d)
  <2>1. /\ opened' = opened \cup {c} /\ highest' = c /\ started' = started /\ started
        /\ c > highest /\ bitmap' = SetBit(m, 0)
    BY <1>4 DEF Ahead, Record
  <2>2. d \in Nat \ {0} /\ highest = c - d BY <1>2, <2>1
  <2>3. m \in [Words -> SUBSET Bits] BY <1>2, <2>2, ShiftType
  <2>9. SetBit(m, 0) \in [Words -> SUBSET Bits]
    BY <1>0, <2>3, SetBitType, Zenon
  <2>4. TypeOK' BY <1>2, <2>1, <2>9 DEF TypeOK
  <2>5. \A o \in opened : o <= highest
    BY <1>1, <2>1 DEF WindowExact
  <2>6. ASSUME NEW j \in 0 .. 1023
        PROVE  j \in Offsets(bitmap') <=> highest' - j \in opened'
    <3>1. j \in Offsets(m) <=> j - d \in Offsets(bitmap)
      BY <1>2, <2>2, ShiftExact
    <3> HIDE DEF m
    <3>2. Offsets(SetBit(m, 0)) = Offsets(m) \cup {0}
      BY <1>0, <2>3, SetBitExact
    <3>3. c - j = c <=> j = 0 OBVIOUS
    <3>4. j - d \in Offsets(bitmap) <=> c - j \in opened
      <4>1. CASE j >= d
        <5>1. j - d \in 0 .. 1023 /\ highest - (j - d) = c - j
          BY <1>2, <2>2, <4>1
        <5>2. j - d \in Offsets(bitmap) <=> highest - (j - d) \in opened
          BY <1>1, <5>1, Exact
        <5> QED BY <5>1, <5>2
      <4>2. CASE j < d
        <5>1. c - j \notin opened
          BY <1>2, <2>2, <2>5, <4>2
        <5>2. j - d \notin 0 .. 1023
          BY <2>2, <4>2
        <5> QED BY <5>1, <5>2, OffsetsExact
      <4> QED BY <1>2, <2>2, <4>1, <4>2
    <3> QED BY <2>1, <3>1, <3>2, <3>3, <3>4
  <2>7. /\ started' => highest' \in opened' /\ \A o \in opened' : o <= highest'
        /\ ~started' => opened' = {}
    BY <1>2, <2>1, <2>5
  <2>8. WindowExact' BY <2>6, <2>7 DEF WindowExact
  <2> QED BY <2>4, <2>8 DEF Inv
<1>5. CASE Behind(c)
  <2>1. started /\ c <= highest /\ UNCHANGED <<highest, started>>
    BY <1>5 DEF Behind
  <2>2. CASE Refused(c)
    <3>1. UNCHANGED <<opened, bitmap>> BY <1>5, <2>2 DEF Behind, Record
    <3> QED BY <1>1, <1>2, <2>1, <3>1 DEF Inv, TypeOK, WindowExact
  <2>3. CASE ~Refused(c)
    <3> DEFINE k == highest - c
    <3>1. k \in 0 .. 1023 /\ highest - k = c
      BY <1>2, <2>1, <2>3, RefusedExact
    <3>2. opened' = opened \cup {c} /\ bitmap' = SetBit(bitmap, k)
      BY <1>5, <2>3 DEF Behind, Record
    <3>7. bitmap \in [Words -> SUBSET Bits] BY <1>2
    <3>8. k \in 0 .. 1023 BY <3>1
    <3> HIDE DEF k
    <3>9. bitmap' \in [Words -> SUBSET Bits] BY <3>2, <3>7, <3>8, SetBitType
    <3>10. send_counter' \in Nat /\ highest' \in Nat /\ started' \in BOOLEAN
      BY <1>2, <2>1 DEF TypeOK
    <3>11. opened' \subseteq Nat BY <1>2, <3>2
    <3>3. TypeOK' BY <3>9, <3>10, <3>11 DEF TypeOK
    <3>4. ASSUME NEW j \in 0 .. 1023
          PROVE  j \in Offsets(bitmap') <=> highest' - j \in opened'
      <4>1. Offsets(SetBit(bitmap, k)) = Offsets(bitmap) \cup {k}
        BY <3>7, <3>8, SetBitExact
      <4>2. j \in Offsets(bitmap) <=> highest - j \in opened
        BY <1>1, Exact
      <4>3. j = k <=> highest - j = c
        BY <1>2 DEF k
      <4> QED BY <2>1, <3>2, <4>1, <4>2, <4>3
    <3>5. /\ started' => highest' \in opened' /\ \A o \in opened' : o <= highest'
          /\ ~started' => opened' = {}
      BY <1>1, <2>1, <3>2 DEF WindowExact
    <3>6. WindowExact' BY <3>4, <3>5 DEF WindowExact
    <3> QED BY <3>3, <3>6 DEF Inv
  <2> QED BY <2>2, <2>3
<1> QED BY <1>3, <1>4, <1>5

LEMMA InvNext == Inv /\ [Next]_vars => Inv'
<1> SUFFICES ASSUME Inv, [Next]_vars PROVE Inv' OBVIOUS
<1>1. CASE Seal
  BY <1>1, BurstsAssumption DEF Seal, Inv, TypeOK, WindowExact
<1>2. CASE Open
  <2>1. PICK c \in Probes : First(c) \/ Ahead(c) \/ Behind(c)
    BY <1>2 DEF Open
  <2> QED BY <1>2, <2>1, ProbesAssumption, InvOpen DEF Open
<1>3. CASE UNCHANGED vars
  BY <1>3 DEF vars, Inv, TypeOK, WindowExact
<1> QED BY <1>1, <1>2, <1>3 DEF Next

LEMMA InvHolds == Spec => []Inv
BY InvInit, InvNext, PTL DEF Spec

(* The window always knows exactly which of the last 1024 counters were     *)
(* opened.                                                                  *)
THEOREM WindowCorrect == Spec => []WindowExact
BY InvHolds, PTL DEF Inv

-----------------------------------------------------------------------------

LEMMA OpenImplements ==
    ASSUME Inv, Open
    PROVE  Abstract!Arrive
<1>1. PICK c \in Probes : c < send_counter /\ (First(c) \/ Ahead(c) \/ Behind(c))
  BY DEF Open
<1>2. c \in Nat /\ c \in 0 .. send_counter - 1
  BY <1>1, ProbesAssumption DEF Inv, TypeOK
<1> DEFINE ok == c \notin opened /\ ~Abstract!Stale(c)
<1>3. opened \subseteq Nat /\ highest \in Nat BY DEF Inv, TypeOK
<1>4. Record(c, ok)
  <2>1. CASE First(c)
    <3>1. opened = {} BY <2>1 DEF Inv, WindowExact, First
    <3>2. ok = TRUE BY <3>1 DEF Abstract!Stale
    <3> QED BY <2>1, <3>2 DEF First
  <2>2. CASE Ahead(c)
    <3>1. \A o \in opened : o <= highest /\ o < c
      BY <1>2, <1>3, <2>2 DEF Inv, WindowExact, Ahead
    <3>2. ok = TRUE BY <1>2, <1>3, <3>1 DEF Abstract!Stale
    <3> QED BY <2>2, <3>2 DEF Ahead
  <2>3. CASE Behind(c)
    <3>1. highest \in opened /\ \A o \in opened : o <= highest
      BY <2>3 DEF Inv, WindowExact, Behind
    <3>2. Abstract!Stale(c) <=> highest - c >= 1024
      BY <1>2, <1>3, <3>1 DEF Abstract!Stale
    <3>3. ok = ~Refused(c)
      BY <1>2, <2>3, <3>2, RefusedExact DEF Behind
    <3> QED BY <2>3, <3>3 DEF Behind
  <2> QED BY <1>1, <2>1, <2>2, <2>3
<1> QED BY <1>2, <1>4 DEF Record, Open, Abstract!Arrive

(* A session opens each frame at most once, and at its first arrival unless *)
(* the window has moved past it.                                            *)
THEOREM SessionOpensOnce == Spec => OpenedOnce
<1>1. Init => Abstract!Init
  BY DEF Init, Abstract!Init
<1>2. Inv /\ [Next]_vars => [Abstract!Next]_(Abstract!vars)
  <2> SUFFICES ASSUME Inv, [Next]_vars PROVE [Abstract!Next]_(Abstract!vars) OBVIOUS
  <2>1. CASE Seal
    BY <2>1, BurstsAssumption DEF Seal, Inv, TypeOK, Abstract!Next, Abstract!Seal
  <2>2. CASE Open
    BY <2>2, OpenImplements DEF Abstract!Next
  <2>3. CASE UNCHANGED vars
    BY <2>3 DEF vars, Abstract!vars
  <2> QED BY <2>1, <2>2, <2>3 DEF Next
<1> QED BY <1>1, <1>2, InvHolds, PTL DEF Spec, OpenedOnce, Abstract!Spec
=============================================================================
