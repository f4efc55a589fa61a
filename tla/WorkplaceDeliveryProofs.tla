------------------------ MODULE WorkplaceDeliveryProofs ------------------------
(* The deliveries of a workplace, for any members, any number of messages    *)
(* and stops, and any size of the journal.                                   *)
EXTENDS WorkplaceDelivery, TLAPS, SequenceTheorems

-----------------------------------------------------------------------------
(* TypeOK needs to know more of the frames, the calls and the copies.  An    *)
(* entry of a queue, an id shown and an id in a journal are of messages that *)
(* were sent; a frame with a message comes from its author.                  *)
Workspaces == [stamp : Nat, texts : Seq(Id), notices : Seq(Id),
               pending : Seq(Pending), journal : Seq(Id)]
Frames == [kind : {"text", "broadcast", "receipt"}, id : Id]
          \cup [kind : {"sync"}, stamp : Nat, texts : Seq(Id), notices : Seq(Id)]
Loading == [pc : {"load"}, from : Devices, frame : Frames]
Saving == [pc : {"save"}, from : Devices, frame : Frames, base : Workspaces,
           copy : Workspaces, then : {"reply", "idle"}]
Replying == [pc : {"reply"}, from : Devices, id : Id]
Flushing == [pc : {"flush"}, base : Workspaces, copy : Workspaces, due : SUBSET Nat,
             changed : BOOLEAN]
Listeners == {Down, Idle, Hung} \cup Loading \cup Saving \cup Replying \cup Flushing
Calls == [by : Devices, id : Id, pc : {"send", "sync"}, to : SUBSET Devices,
          base : Workspaces, copy : Workspaces]

Typed ==
    /\ file \in [Devices -> Workspaces]
    /\ calls \subseteq Calls
    /\ listener \in [Devices -> Listeners]
    /\ sent \in Seq([kind : {"text", "broadcast"}, by : Devices]) /\ Len(sent) <= MaxSent
    /\ clock \in Nat
    /\ got \cup lost \cup cut \subseteq Id \X Devices

(* What a device has of its workspace: its file, and what its calls and its *)
(* listener have loaded or hold.  The copy a listener takes over from another*)
(* device counts only with foreign.                                          *)
Loaded(l, foreign) ==
    IF l.pc \in {"save", "flush"}
    THEN IF foreign \/ l.pc = "flush" \/ l.frame.kind # "sync"
         THEN {l.base, l.copy} ELSE {l.base}
    ELSE {}
States(d, foreign) ==
    {file[d]} \cup (UNION {{c.base, c.copy} : c \in {x \in calls : x.by = d}})
              \cup Loaded(listener[d], foreign)

Ids(s) == ToSet(s) \subseteq DOMAIN sent
Names(q) == \A i, j \in DOMAIN q.pending : Same(q.pending[i], q.pending[j]) => i = j
Sound(d, r) ==
    /\ r.stamp <= clock
    /\ Ids(r.texts) /\ Ids(r.notices) /\ Ids(r.journal)
    /\ \A i \in DOMAIN r.pending :
         /\ r.pending[i].id \in DOMAIN sent
         /\ sent[r.pending[i].id].by = d /\ r.pending[i].to # d
    /\ Names(r)
    /\ Len(r.journal) <= JournalSize

FrameSound(d, f) ==
    /\ f.kind \in {"text", "broadcast"} => f.id \in DOMAIN sent /\ sent[f.id].by # d
    /\ f.kind = "sync" => f.stamp <= clock /\ Ids(f.texts) /\ Ids(f.notices)

CallSound(c) ==
    /\ Up(c.by) /\ c.to \subseteq Others(c.by)
    /\ c.id \in DOMAIN sent /\ sent[c.id].by = c.by

ListenerSound(d) ==
    LET l == listener[d] IN
    /\ l.pc \in {"load", "save"} => FrameSound(d, l.frame)
    /\ l.pc = "save" /\ l.then = "reply" => l.frame.kind = "text"
    /\ l.pc = "flush" => l.due \subseteq DOMAIN l.base.pending

SoundInv ==
    /\ Typed
    /\ \A d \in Devices : ListenerSound(d) /\ \A r \in States(d, TRUE) : Sound(d, r)
    /\ \A c \in calls : CallSound(c)

-----------------------------------------------------------------------------
(* What the operations on a workspace return *)

SameTexts(q, r) ==
    r.texts = q.texts /\ r.notices = q.notices /\ r.journal = q.journal
(* queue_delivery adds an entry at most, and none twice. *)
LEMMA QueueFacts ==
    ASSUME NEW q \in Workspaces, NEW p \in Pending, Names(q)
    PROVE  LET r == Queue(q, p) IN
           /\ r \in Workspaces /\ SameTexts(q, r) /\ r.stamp = q.stamp /\ Names(r)
           /\ \A i \in DOMAIN r.pending :
                r.pending[i] = p \/ \E j \in DOMAIN q.pending : r.pending[i] = q.pending[j]
           /\ \A x \in Pending : Queued(r, x) <=> Queued(q, x) \/ Same(x, p)
<1>1. CASE Queued(q, p)
  BY <1>1 DEF Queue, SameTexts, Queued, Same, Pending, Workspaces
<1>2. CASE ~Queued(q, p)
  <2> DEFINE r == Queue(q, p)
  <2>1. r = [q EXCEPT !.pending = Append(q.pending, p)]
    BY <1>2 DEF Queue
  <2>a. Append(q.pending, p) \in Seq(Pending)
    BY DEF Workspaces
  <2>2. r \in Workspaces /\ SameTexts(q, r) /\ r.stamp = q.stamp
    <3> DEFINE s == Append(q.pending, p)
    <3>1. r = [q EXCEPT !.pending = s] /\ s \in Seq(Pending)
      BY <2>1, <2>a
    <3> HIDE DEF r, s
    <3> QED
      BY <3>1 DEF Workspaces, SameTexts
  <2>3. /\ r.pending = Append(q.pending, p) /\ q.pending \in Seq(Pending)
        /\ DOMAIN q.pending = 1 .. Len(q.pending) /\ Len(q.pending) \in Nat
        /\ DOMAIN r.pending = 1 .. Len(q.pending) + 1
        /\ \A i \in DOMAIN q.pending : r.pending[i] = q.pending[i]
        /\ r.pending[Len(q.pending) + 1] = p
    BY <2>1 DEF Workspaces
  <2> HIDE DEF r
  <2>4. \A i \in DOMAIN r.pending :
          r.pending[i] = p \/ \E j \in DOMAIN q.pending : r.pending[i] = q.pending[j]
    BY <2>3
  <2>5. Names(r)
    BY <1>2, <2>3 DEF Names, Queued, Same
  <2>6. \A x \in Pending : Queued(r, x) <=> Queued(q, x) \/ Same(x, p)
    BY <2>3 DEF Queued, Same
  <2> QED
    BY <2>2, <2>4, <2>5, <2>6 DEF r
<1> QED
  BY <1>1, <1>2

(* remove_pending_delivery leaves every other entry. *)
LEMMA RemoveFacts ==
    ASSUME NEW q \in Workspaces, NEW p \in Pending, Names(q)
    PROVE  LET r == RemovePending(q, p) IN
           /\ r \in Workspaces /\ SameTexts(q, r) /\ r.stamp = q.stamp /\ Names(r)
           /\ \A i \in DOMAIN r.pending : \E j \in DOMAIN q.pending : r.pending[i] = q.pending[j]
           /\ \A x \in Pending : Queued(r, x) <=> Queued(q, x) /\ ~Same(x, p)
<1>1. CASE ~Queued(q, p)
  BY <1>1 DEF RemovePending, SameTexts, Queued, Same, Pending, Workspaces
<1>2. CASE Queued(q, p)
  <2> DEFINE r == RemovePending(q, p)
             k == CHOOSE i \in DOMAIN q.pending : Same(q.pending[i], p)
             n == Len(q.pending)
  <2>1. r = [q EXCEPT !.pending = RemoveAt(q.pending, k)]
    BY <1>2 DEF RemovePending
  <2>2. k \in DOMAIN q.pending /\ Same(q.pending[k], p)
    BY <1>2 DEF Queued
  <2>3. q.pending \in Seq(Pending) /\ DOMAIN q.pending = 1 .. n /\ n \in Nat
    BY DEF Workspaces
  <2> HIDE DEF k
  <2>4. /\ SubSeq(q.pending, 1, k - 1) \in Seq(Pending)
        /\ Len(SubSeq(q.pending, 1, k - 1)) = k - 1
        /\ \A i \in 1 .. k - 1 : SubSeq(q.pending, 1, k - 1)[i] = q.pending[i]
    BY <2>2, <2>3
  <2>5. /\ SubSeq(q.pending, k + 1, n) \in Seq(Pending)
        /\ Len(SubSeq(q.pending, k + 1, n)) = n - k
        /\ \A i \in 1 .. n - k : SubSeq(q.pending, k + 1, n)[i] = q.pending[k + i]
    BY <2>2, <2>3
  <2> DEFINE s == RemoveAt(q.pending, k)
  <2>6. /\ s \in Seq(Pending) /\ DOMAIN s = 1 .. n - 1
        /\ \A i \in 1 .. n - 1 : s[i] = IF i < k THEN q.pending[i] ELSE q.pending[i + 1]
    <3> DEFINE u == SubSeq(q.pending, 1, k - 1)
               v == SubSeq(q.pending, k + 1, n)
    <3>1. s = u \o v
      BY DEF RemoveAt
    <3>2. /\ u \in Seq(Pending) /\ Len(u) = k - 1
          /\ v \in Seq(Pending) /\ Len(v) = n - k
      BY <2>4, <2>5
    <3>3. \A i \in 1 .. k - 1 : u[i] = q.pending[i]
      BY <2>4
    <3>4. \A i \in 1 .. n - k : v[i] = q.pending[k + i]
      BY <2>5
    <3> HIDE DEF u, v, s
    <3>5. s \in Seq(Pending) /\ Len(s) = (k - 1) + (n - k)
      <4>1. u \o v \in Seq(Pending) /\ Len(u \o v) = Len(u) + Len(v)
        BY <3>2, ConcatProperties
      <4> QED
        BY <3>1, <3>2, <4>1
    <3>6. \A i \in 1 .. n - 1 : s[i] = IF i <= k - 1 THEN u[i] ELSE v[i - (k - 1)]
      <4>1. \A i \in 1 .. Len(u) + Len(v) :
              (u \o v)[i] = IF i <= Len(u) THEN u[i] ELSE v[i - Len(u)]
        BY <3>2, ConcatProperties
      <4>2. k \in 1 .. n /\ n \in Nat /\ Len(u) + Len(v) = n - 1
        BY <2>2, <2>3, <3>2
      <4> QED
        BY <3>1, <3>2, <4>1, <4>2
    <3>7. ASSUME NEW i \in 1 .. n - 1
          PROVE  s[i] = IF i < k THEN q.pending[i] ELSE q.pending[i + 1]
      <4>1. CASE i < k
        BY <2>2, <2>3, <3>3, <3>6, <4>1
      <4>2. CASE i >= k
        <5>1. i - (k - 1) \in 1 .. n - k /\ k + (i - (k - 1)) = i + 1
          BY <2>2, <2>3, <4>2
        <5>2. s[i] = v[i - (k - 1)]
          BY <2>2, <2>3, <3>6, <4>2
        <5> QED
          BY <2>2, <2>3, <3>4, <4>2, <5>1, <5>2
      <4> QED
        BY <2>2, <2>3, <4>1, <4>2
    <3>8. DOMAIN s = 1 .. n - 1
      BY <2>2, <2>3, <3>5
    <3> QED
      BY <3>5, <3>7, <3>8
  <2>7. r \in Workspaces /\ SameTexts(q, r) /\ r.stamp = q.stamp /\ r.pending = s
    BY <2>1, <2>6 DEF Workspaces, SameTexts
  <2> HIDE DEF r, s
  <2>8. \A i \in DOMAIN r.pending : \E j \in DOMAIN q.pending : r.pending[i] = q.pending[j]
    <3> SUFFICES ASSUME NEW i \in 1 .. n - 1
                 PROVE  \E j \in 1 .. n : s[i] = q.pending[j]
      BY <2>3, <2>6, <2>7
    <3>1. i \in 1 .. n /\ i + 1 \in 1 .. n
      BY <2>3
    <3>2. s[i] = q.pending[i] \/ s[i] = q.pending[i + 1]
      BY <2>6
    <3> QED
      BY <3>1, <3>2
  <2>9. Names(r)
    <3> DEFINE at(i) == IF i < k THEN i ELSE i + 1
    <3>1. \A i \in 1 .. n - 1 : at(i) \in 1 .. n /\ s[i] = q.pending[at(i)]
      BY <2>2, <2>3, <2>6
    <3>2. \A i, j \in 1 .. n - 1 : at(i) = at(j) => i = j
      BY <2>2, <2>3
    <3> HIDE DEF at
    <3> QED
      BY <2>3, <2>6, <2>7, <3>1, <3>2 DEF Names
  <2>10. ASSUME NEW x \in Pending
         PROVE  Queued(r, x) <=> Queued(q, x) /\ ~Same(x, p)
    <3>1. ASSUME Queued(r, x) PROVE Queued(q, x) /\ ~Same(x, p)
      <4>1. PICK i \in 1 .. n - 1 : Same(s[i], x)
        BY <2>6, <2>7, <3>1 DEF Queued
      <4>2. PICK j \in 1 .. n : j # k /\ s[i] = q.pending[j]
        BY <2>2, <2>3, <2>6
      <4>3. ~Same(q.pending[j], q.pending[k])
        BY <2>2, <2>3, <4>2 DEF Names
      <4> QED
        BY <2>2, <2>3, <4>1, <4>2, <4>3 DEF Queued, Same
    <3>2. ASSUME Queued(q, x), ~Same(x, p) PROVE Queued(r, x)
      <4>1. PICK j \in 1 .. n : Same(q.pending[j], x)
        BY <2>3, <3>2 DEF Queued
      <4>2. j # k
        BY <2>2, <3>2, <4>1 DEF Same
      <4>3. PICK i \in 1 .. n - 1 : s[i] = q.pending[j]
        <5>1. CASE j < k
          BY <2>2, <2>3, <2>6, <5>1
        <5>2. CASE j > k
          <6>1. j - 1 \in 1 .. n - 1 /\ s[j - 1] = q.pending[j]
            BY <2>2, <2>3, <2>6, <5>2
          <6> QED
            BY <6>1
        <5> QED
          BY <2>2, <2>3, <4>2, <5>1, <5>2
      <4> QED
        BY <2>6, <2>7, <4>1, <4>3 DEF Queued
    <3> QED
      BY <3>1, <3>2
  <2> QED
    BY <2>7, <2>8, <2>9, <2>10 DEF r
<1> QED
  BY <1>1, <1>2

(* reschedule_delivery keeps every entry. *)
LEMMA RescheduleFacts ==
    ASSUME NEW q \in Workspaces, NEW p \in Pending, Names(q)
    PROVE  LET r == Reschedule(q, p) IN
           /\ r \in Workspaces /\ SameTexts(q, r) /\ r.stamp = q.stamp /\ Names(r)
           /\ DOMAIN r.pending = DOMAIN q.pending
           /\ \A i \in DOMAIN r.pending : Same(r.pending[i], q.pending[i])
           /\ \A x \in Pending : Queued(r, x) <=> Queued(q, x)
<1> DEFINE s == [i \in DOMAIN q.pending |->
                    IF Same(q.pending[i], p) THEN [q.pending[i] EXCEPT !.late = TRUE]
                    ELSE q.pending[i]]
           r == Reschedule(q, p)
<1>1. q.pending \in Seq(Pending) /\ DOMAIN q.pending = 1 .. Len(q.pending)
      /\ Len(q.pending) \in Nat
  BY DEF Workspaces
<1>2. \A i \in DOMAIN q.pending : s[i] \in Pending /\ Same(s[i], q.pending[i])
  <2> SUFFICES ASSUME NEW i \in DOMAIN q.pending
               PROVE  s[i] \in Pending /\ Same(s[i], q.pending[i])
    OBVIOUS
  <2>1. q.pending[i] \in Pending
    BY <1>1
  <2>2. CASE Same(q.pending[i], p)
    <3>1. s[i] = [q.pending[i] EXCEPT !.late = TRUE]
      BY <2>2
    <3> QED
      BY <2>1, <3>1 DEF Pending, Same
  <2>3. CASE ~Same(q.pending[i], p)
    BY <2>1, <2>3 DEF Pending, Same
  <2> QED
    BY <2>2, <2>3
<1>3. s \in Seq(Pending) /\ DOMAIN s = DOMAIN q.pending
  <2>1. DOMAIN s = 1 .. Len(q.pending) /\ s = [i \in 1 .. Len(q.pending) |-> s[i]]
    BY <1>1
  <2> HIDE DEF s
  <2>2. \A i \in 1 .. Len(q.pending) : s[i] \in Pending
    BY <1>1, <1>2
  <2>3. s \in [1 .. Len(q.pending) -> Pending]
    BY <2>1, <2>2
  <2> QED
    BY <1>1, <2>1, <2>3
<1>4. r = [q EXCEPT !.pending = s]
  BY DEF Reschedule
<1> HIDE DEF s, r
<1>5. r \in Workspaces /\ SameTexts(q, r) /\ r.stamp = q.stamp /\ r.pending = s
  BY <1>3, <1>4 DEF Workspaces, SameTexts
<1>6. Names(r)
  BY <1>2, <1>3, <1>5 DEF Names, Same
<1>7. \A x \in Pending : Queued(r, x) <=> Queued(q, x)
  BY <1>2, <1>3, <1>5 DEF Queued, Same
<1> QED
  BY <1>2, <1>3, <1>5, <1>6, <1>7 DEF r

(* mark_received_message shifts the journal by one place when it is full. *)
Journaled(old, new, m) ==
    \E k \in {0, 1} :
        /\ Len(new) = Len(old) + 1 - k
        /\ k = 1 => Len(old) >= JournalSize
        /\ \A i \in 1 .. Len(new) :
             new[i] = IF i + k = Len(old) + 1 THEN m ELSE old[i + k]

LEMMA MarkReceivedFacts ==
    ASSUME NEW q \in Workspaces, NEW m \in Id, Len(q.journal) <= JournalSize
    PROVE  LET r == MarkReceived(q, m) IN
           /\ r \in Workspaces /\ Len(r.journal) <= JournalSize
           /\ r.texts = q.texts /\ r.notices = q.notices /\ r.pending = q.pending
           /\ r.stamp = q.stamp
           /\ Journaled(q.journal, r.journal, m)
<1> DEFINE ids == Append(q.journal, m)
           n == Len(q.journal)
           first == IF n + 1 <= JournalSize THEN 1 ELSE n + 1 - JournalSize + 1
           s == SubSeq(ids, first, n + 1)
           k == IF n + 1 <= JournalSize THEN 0 ELSE 1
           r == MarkReceived(q, m)
<1>1. /\ q.journal \in Seq(Id) /\ n \in Nat /\ DOMAIN q.journal = 1 .. n
      /\ JournalSize \in Nat \ {0}
  BY JournalAssumption DEF Workspaces
<1>2. /\ ids \in Seq(Id) /\ Len(ids) = n + 1 /\ ids[n + 1] = m
      /\ \A i \in 1 .. n : ids[i] = q.journal[i]
  BY <1>1
<1>3. first = k + 1 /\ first \in 1 .. n + 1
  BY <1>1
<1>4. r = [q EXCEPT !.journal = s]
  <2>1. first = IF Len(ids) <= JournalSize THEN 1 ELSE Len(ids) - JournalSize + 1
    BY <1>1, <1>2
  <2>2. s = SubSeq(ids, IF Len(ids) <= JournalSize THEN 1 ELSE Len(ids) - JournalSize + 1, Len(ids))
    BY <1>2, <2>1
  <2> HIDE DEF s, first
  <2> QED
    BY <2>2 DEF MarkReceived
<1> HIDE DEF ids
<1>5. /\ s \in Seq(Id) /\ Len(s) = n + 1 - k
      /\ \A i \in 1 .. n + 1 - k : s[i] = ids[i + k]
  <2>1. k \in {0, 1} /\ k <= n + 1
    OBVIOUS
  <2> HIDE DEF k
  <2>2. s = SubSeq(ids, k + 1, n + 1)
    BY <1>3
  <2>3. k + 1 \in Int /\ n + 1 \in Int /\ \A i \in k + 1 .. n + 1 : ids[i] \in Id
    BY <1>1, <1>2, <2>1
  <2> HIDE DEF s
  <2>4. /\ s \in Seq(Id)
        /\ Len(s) = IF k + 1 <= n + 1 THEN (n + 1) - (k + 1) + 1 ELSE 0
        /\ \A i \in 1 .. (n + 1) - (k + 1) + 1 : s[i] = ids[(k + 1) + i - 1]
    BY <2>2, <2>3, SubSeqProperties
  <2> QED
    BY <1>1, <2>1, <2>4
<1> HIDE DEF s, r
<1>6. /\ r \in Workspaces /\ r.journal = s
      /\ r.texts = q.texts /\ r.notices = q.notices /\ r.pending = q.pending
      /\ r.stamp = q.stamp
  BY <1>4, <1>5 DEF Workspaces
<1>7. Len(s) <= JournalSize /\ (k = 1 => n >= JournalSize)
  BY <1>1, <1>5
<1>8. \A i \in 1 .. Len(s) : s[i] = IF i + k = n + 1 THEN m ELSE q.journal[i + k]
  BY <1>1, <1>2, <1>3, <1>5
<1>9. k \in {0, 1}
  OBVIOUS
<1> HIDE DEF k
<1>10. Journaled(q.journal, s, m)
  BY <1>5, <1>7, <1>8, <1>9 DEF Journaled
<1> QED
  BY <1>6, <1>7, <1>10 DEF r

LEMMA JournaledIds ==
    ASSUME NEW S, NEW old \in Seq(S), NEW new \in Seq(S), NEW m, Journaled(old, new, m)
    PROVE  ToSet(new) \subseteq ToSet(old) \cup {m}
<1>1. PICK k \in {0, 1} :
        /\ Len(new) = Len(old) + 1 - k
        /\ \A i \in 1 .. Len(new) : new[i] = IF i + k = Len(old) + 1 THEN m ELSE old[i + k]
  BY DEF Journaled
<1>2. ASSUME NEW i \in DOMAIN new PROVE new[i] = m \/ \E j \in DOMAIN old : new[i] = old[j]
  <2>1. Len(old) \in Nat /\ DOMAIN old = 1 .. Len(old) /\ DOMAIN new = 1 .. Len(new)
    OBVIOUS
  <2>2. CASE i + k # Len(old) + 1
    <3>1. i + k \in DOMAIN old /\ new[i] = old[i + k]
      BY <1>1, <2>1, <2>2
    <3> QED
      BY <3>1
  <2> QED
    BY <1>1, <2>1, <2>2
<1> QED
  BY <1>2 DEF ToSet

LEMMA AppendIds ==
    ASSUME NEW S, NEW s \in Seq(S), NEW m
    PROVE  ToSet(Append(s, m)) = ToSet(s) \cup {m}
<1>1. /\ DOMAIN Append(s, m) = 1 .. Len(s) + 1 /\ Append(s, m)[Len(s) + 1] = m
      /\ DOMAIN s = 1 .. Len(s) /\ Len(s) \in Nat
      /\ \A i \in 1 .. Len(s) : Append(s, m)[i] = s[i]
  OBVIOUS
<1>2. ToSet(Append(s, m)) \subseteq ToSet(s) \cup {m}
  BY <1>1 DEF ToSet
<1>3. \A i \in 1 .. Len(s) + 1 : Append(s, m)[i] \in ToSet(Append(s, m))
  BY <1>1 DEF ToSet
<1>4. ToSet(s) \subseteq ToSet(Append(s, m)) /\ m \in ToSet(Append(s, m))
  BY <1>1, <1>3 DEF ToSet
<1> QED
  BY <1>2, <1>4

LEMMA ListenerIs ==
    ASSUME NEW l \in Listeners
    PROVE  /\ l.pc \in {"down", "hung", "idle", "load", "save", "reply", "flush"}
           /\ l.pc = "down" <=> l = Down
           /\ l.pc = "hung" <=> l = Hung
           /\ l.pc = "idle" <=> l = Idle
           /\ l.pc = "load" <=> l \in Loading
           /\ l.pc = "save" <=> l \in Saving
           /\ l.pc = "reply" <=> l \in Replying
           /\ l.pc = "flush" <=> l \in Flushing
<1>1. CASE l = Down
  BY <1>1 DEF Down, Idle, Hung, Loading, Saving, Replying, Flushing
<1>2. CASE l = Idle
  BY <1>2 DEF Down, Idle, Hung, Loading, Saving, Replying, Flushing
<1>3. CASE l \in Loading
  BY <1>3 DEF Down, Idle, Hung, Loading, Saving, Replying, Flushing
<1>4. CASE l \in Saving
  BY <1>4 DEF Down, Idle, Hung, Loading, Saving, Replying, Flushing
<1>5. CASE l \in Replying
  BY <1>5 DEF Down, Idle, Hung, Loading, Saving, Replying, Flushing
<1>6. CASE l \in Flushing
  BY <1>6 DEF Down, Idle, Hung, Loading, Saving, Replying, Flushing
<1>7. CASE l = Hung
  BY <1>7 DEF Down, Idle, Hung, Loading, Saving, Replying, Flushing
<1> QED
  BY <1>1, <1>2, <1>3, <1>4, <1>5, <1>6, <1>7 DEF Listeners

-----------------------------------------------------------------------------
(* How the states a device has of its workspace come out of each other: r is *)
(* q, with a text or a broadcast more at most, other entries of the queue and*)
(* another stamp; or r takes over what a frame brings.                       *)
TextsFrom(d, q, r) ==
    \/ r.texts = q.texts /\ r.journal = q.journal
    \/ /\ r.texts = Append(q.texts, Len(sent) + 1) /\ r.journal = q.journal
       /\ Len(sent') = Len(sent) + 1 /\ sent'[Len(sent) + 1].by = d
    \/ \E m \in DOMAIN sent :
         /\ sent[m].by # d /\ m \notin ToSet(q.journal)
         /\ r.texts = Append(q.texts, m) /\ Journaled(q.journal, r.journal, m)
NoticesFrom(q, r) ==
    \/ r.notices = q.notices
    \/ \E m \in 1 .. Len(sent') :
         m \notin ToSet(q.notices) /\ r.notices = Append(q.notices, m)
EntryOf(d, p) == p.id \in DOMAIN sent /\ sent[p.id].by = d /\ p.to # d
QueueFrom(d, q, r) ==
    /\ Names(r)
    /\ \A i \in DOMAIN r.pending :
         \/ \E j \in DOMAIN q.pending : Same(r.pending[i], q.pending[j])
         \/ EntryOf(d, r.pending[i])
From(d, q, r) ==
    /\ TextsFrom(d, q, r) /\ NoticesFrom(q, r) /\ QueueFrom(d, q, r)
    /\ r.stamp = q.stamp \/ r.stamp <= clock'
    /\ Len(r.journal) <= JournalSize
TakesOver(d, q, r) ==
    LET f == listener[d].frame IN
    /\ listener[d].pc = "load" /\ f.kind = "sync"
    /\ r.texts = f.texts /\ r.notices = f.notices /\ r.stamp = f.stamp
    /\ r.journal = q.journal /\ r.pending = q.pending

Derives(d, foreign, r) ==
    \E q \in States(d, foreign) : From(d, q, r) \/ (foreign /\ TakesOver(d, q, r))
Grows ==
    /\ clock <= clock' /\ Len(sent) <= Len(sent')
    /\ \A m \in DOMAIN sent : sent'[m] = sent[m]
Evolves ==
    \A d \in Devices : \A foreign \in BOOLEAN :
        foreign \/ d \notin mixed' => \A r \in States(d, foreign)' : Derives(d, foreign, r)

StepSound ==
    /\ Typed' /\ Grows /\ Evolves
    /\ \A d \in Devices : ListenerSound(d)'
    /\ \A c \in calls' : CallSound(c)'

LEMMA StatesTyped ==
    ASSUME Typed, NEW d \in Devices, NEW foreign \in BOOLEAN
    PROVE  /\ States(d, foreign) \subseteq Workspaces
           /\ States(d, foreign) \subseteq States(d, TRUE)
<1>1. listener[d] \in Listeners
  BY DEF Typed
<1>2. Loaded(listener[d], foreign) \subseteq Workspaces
  BY <1>1, ListenerIs DEF Loaded, Saving, Flushing
<1>3. Loaded(listener[d], foreign) \subseteq Loaded(listener[d], TRUE)
  BY DEF Loaded
<1>4. ASSUME NEW r \in States(d, foreign)
      PROVE  r \in Workspaces /\ r \in States(d, TRUE)
  <2>1. CASE r = file[d]
    BY <2>1 DEF Typed, States
  <2>2. CASE \E c \in calls : c.by = d /\ r \in {c.base, c.copy}
    BY <2>2 DEF Typed, States, Calls
  <2>3. CASE r \in Loaded(listener[d], foreign)
    BY <1>2, <1>3, <2>3 DEF States
  <2> QED
    BY <1>4, <2>1, <2>2, <2>3 DEF States
<1> QED
  BY <1>4

AllWorkspaces == \A d \in Devices : States(d, TRUE) \subseteq Workspaces
LEMMA StatesAreWorkspaces == Typed => AllWorkspaces
  BY StatesTyped DEF AllWorkspaces

LEMMA StaysFrom ==
    ASSUME SoundInv, NEW d \in Devices, NEW foreign \in BOOLEAN, NEW r \in States(d, foreign)
    PROVE  Derives(d, foreign, r)
<1>1. r \in States(d, TRUE) /\ Sound(d, r)
  BY StatesTyped DEF SoundInv
<1>2. From(d, r, r)
  BY <1>1 DEF From, TextsFrom, NoticesFrom, QueueFrom, Sound, Same
<1> QED
  BY <1>2 DEF Derives

LEMMA StatesStep ==
    ASSUME NEW d \in Devices, NEW foreign \in BOOLEAN,
           Derives(d, foreign, file'[d]),
           \A c \in calls' :
               c.by = d => Derives(d, foreign, c.base) /\ Derives(d, foreign, c.copy),
           \A r \in Loaded(listener'[d], foreign) : Derives(d, foreign, r)
    PROVE  \A r \in States(d, foreign)' : Derives(d, foreign, r)
  BY DEF States

(* SoundInv is inductive when every step is sound in this sense. *)
LEMMA SoundKept ==
    ASSUME SoundInv, StepSound
    PROVE  SoundInv'
<1> SUFFICES ASSUME NEW d \in Devices, NEW r, r \in States(d, TRUE)'
             PROVE  Sound(d, r)'
  BY DEF SoundInv, StepSound
<1>1. PICK q \in States(d, TRUE) : From(d, q, r) \/ TakesOver(d, q, r)
  BY DEF StepSound, Evolves, Derives
<1>2. Sound(d, q) /\ q \in Workspaces /\ r \in Workspaces
  <2>1. States(d, TRUE)' \subseteq Workspaces
    <3>1. (Typed => AllWorkspaces)'
      BY StatesAreWorkspaces, PTL
    <3> QED
      BY <3>1 DEF StepSound, AllWorkspaces
  <2> QED
    BY <2>1, StatesTyped DEF SoundInv
<1>3. Grows /\ Len(sent) \in Nat /\ Len(sent') \in Nat
      /\ DOMAIN sent = 1 .. Len(sent) /\ DOMAIN sent' = 1 .. Len(sent')
      /\ clock \in Nat /\ clock' \in Nat
  BY DEF StepSound, SoundInv, Typed
<1>4. r.stamp <= clock'
  <2>1. q.stamp <= clock /\ q.stamp \in Nat
    BY <1>2 DEF Sound, Workspaces
  <2>2. CASE From(d, q, r)
    BY <1>3, <2>1, <2>2 DEF From, Grows
  <2>3. CASE TakesOver(d, q, r)
    <3>1. listener[d] \in Loading /\ listener[d].frame.stamp <= clock
      BY <2>3, ListenerIs DEF TakesOver, SoundInv, Typed, ListenerSound, FrameSound
    <3>2. listener[d].frame.stamp \in Nat
      BY <2>3, <3>1 DEF Loading, Frames, TakesOver
    <3> QED
      BY <1>3, <2>3, <3>1, <3>2 DEF TakesOver, Grows
  <2> QED
    BY <1>1, <2>2, <2>3
<1>5. ToSet(q.texts) \subseteq DOMAIN sent /\ ToSet(q.notices) \subseteq DOMAIN sent
      /\ ToSet(q.journal) \subseteq DOMAIN sent
  BY <1>2 DEF Sound, Ids
<1>6. ToSet(r.texts) \subseteq DOMAIN sent' /\ ToSet(r.notices) \subseteq DOMAIN sent'
      /\ ToSet(r.journal) \subseteq DOMAIN sent'
  <2>1. CASE TakesOver(d, q, r)
    <3>1. ToSet(r.texts) \subseteq DOMAIN sent /\ ToSet(r.notices) \subseteq DOMAIN sent
      BY <2>1 DEF TakesOver, SoundInv, ListenerSound, FrameSound, Ids
    <3> QED
      BY <1>3, <1>5, <2>1, <3>1 DEF TakesOver, Grows
  <2>2. CASE From(d, q, r)
    <3>1. ToSet(r.texts) \subseteq DOMAIN sent'
      <4>1. CASE r.texts = q.texts
        BY <1>3, <1>5, <4>1 DEF Grows
      <4>2. ASSUME NEW m \in DOMAIN sent', r.texts = Append(q.texts, m)
            PROVE  ToSet(r.texts) \subseteq DOMAIN sent'
        BY <1>2, <1>3, <1>5, <4>2, AppendIds DEF Workspaces, Grows
      <4>3. CASE r.texts = Append(q.texts, Len(sent) + 1) /\ Len(sent') = Len(sent) + 1
        <5>1. Len(sent) + 1 \in DOMAIN sent'
          BY <1>3, <4>3
        <5> QED
          BY <4>2, <4>3, <5>1
      <4>4. ASSUME NEW m \in DOMAIN sent, r.texts = Append(q.texts, m)
            PROVE  ToSet(r.texts) \subseteq DOMAIN sent'
        BY <1>3, <4>2, <4>4 DEF Grows
      <4> QED
        BY <2>2, <4>1, <4>3, <4>4 DEF From, TextsFrom
    <3>2. ToSet(r.notices) \subseteq DOMAIN sent'
      <4>1. CASE r.notices = q.notices
        BY <1>3, <1>5, <4>1 DEF Grows
      <4>2. ASSUME NEW m \in DOMAIN sent', r.notices = Append(q.notices, m)
            PROVE  ToSet(r.notices) \subseteq DOMAIN sent'
        BY <1>2, <1>3, <1>5, <4>2, AppendIds DEF Workspaces, Grows
      <4> QED
        BY <1>3, <2>2, <4>1, <4>2 DEF From, NoticesFrom
    <3>3. ToSet(r.journal) \subseteq DOMAIN sent'
      <4>1. CASE r.journal = q.journal
        BY <1>3, <1>5, <4>1 DEF Grows
      <4>2. ASSUME NEW m \in DOMAIN sent, Journaled(q.journal, r.journal, m)
            PROVE  ToSet(r.journal) \subseteq DOMAIN sent'
        BY <1>2, <1>3, <1>5, <4>2, JournaledIds DEF Workspaces, Grows
      <4> QED
        BY <1>3, <2>2, <4>1, <4>2 DEF From, TextsFrom
    <3> QED
      BY <3>1, <3>2, <3>3
  <2> QED
    BY <1>1, <2>1, <2>2
<1>7. \A i \in DOMAIN r.pending :
         /\ r.pending[i].id \in DOMAIN sent'
         /\ sent'[r.pending[i].id].by = d /\ r.pending[i].to # d
  <2> SUFFICES ASSUME NEW i \in DOMAIN r.pending PROVE EntryOf(d, r.pending[i])
    BY <1>3 DEF EntryOf, Grows
  <2>1. \A j \in DOMAIN q.pending : EntryOf(d, q.pending[j])
    BY <1>2 DEF Sound, EntryOf
  <2>2. CASE From(d, q, r)
    BY <2>1, <2>2 DEF From, QueueFrom, Same, EntryOf
  <2>3. CASE TakesOver(d, q, r)
    BY <2>1, <2>3 DEF TakesOver
  <2> QED
    BY <1>1, <2>2, <2>3
<1>8. Names(r) /\ Len(r.journal) <= JournalSize
  BY <1>1, <1>2 DEF From, QueueFrom, TakesOver, Sound, Names
<1> QED
  BY <1>4, <1>6, <1>7, <1>8 DEF Sound, Ids, Names


-----------------------------------------------------------------------------
(* What is to be shown of one step: where a file, a call or a listener       *)
(* changes, its new states come out of those the device had.                 *)
Comes(d, r) ==
    \A foreign \in BOOLEAN : foreign \/ d \notin mixed' => Derives(d, foreign, r)
FileStep(d) == file'[d] = file[d] \/ Comes(d, file'[d])
CallStep(c) ==
    \/ c \in calls /\ listener'[c.by] # Down
    \/ CallSound(c)' /\ Comes(c.by, c.base) /\ Comes(c.by, c.copy)
ListenerStep(d) ==
    \/ listener'[d] \in {listener[d], Idle, Down, Hung}
    \/ /\ ListenerSound(d)'
       /\ \A foreign \in BOOLEAN :
            foreign \/ d \notin mixed' =>
                \A r \in Loaded(listener'[d], foreign) : Derives(d, foreign, r)

LEMMA ComesFrom ==
    ASSUME NEW d \in Devices, NEW q \in States(d, FALSE), NEW r, From(d, q, r)
    PROVE  Comes(d, r)
<1>1. \A foreign \in BOOLEAN : q \in States(d, foreign)
  BY DEF States, Loaded
<1> QED
  BY <1>1 DEF Comes, Derives

LEMMA ComesUnchanged ==
    ASSUME SoundInv, NEW d \in Devices, NEW r \in States(d, FALSE)
    PROVE  Comes(d, r)
<1>1. \A foreign \in BOOLEAN : r \in States(d, foreign)
  BY DEF States, Loaded
<1> QED
  BY <1>1, StaysFrom DEF Comes

LEMMA FrameStays ==
    ASSUME Typed, Typed', Grows, NEW d \in Devices, NEW f \in Frames, FrameSound(d, f)
    PROVE  FrameSound(d, f)'
<1>1. /\ DOMAIN sent = 1 .. Len(sent) /\ DOMAIN sent' = 1 .. Len(sent')
      /\ Len(sent) \in Nat /\ Len(sent') \in Nat /\ clock \in Nat /\ clock' \in Nat
  BY DEF Typed
<1>2. f.kind = "sync" => f.stamp \in Nat
  BY DEF Frames
<1> QED
  BY <1>1, <1>2 DEF FrameSound, Grows, Ids

LEMMA SoundStep ==
    ASSUME SoundInv, Typed', Grows,
           \A d \in Devices : FileStep(d) /\ ListenerStep(d),
           \A c \in calls' : CallStep(c)
    PROVE  StepSound
<1>1. Evolves
  <2> SUFFICES ASSUME NEW d \in Devices, NEW foreign \in BOOLEAN, foreign \/ d \notin mixed'
               PROVE  \A r \in States(d, foreign)' : Derives(d, foreign, r)
    BY DEF Evolves
  <2>1. Derives(d, foreign, file'[d])
    <3>1. file[d] \in States(d, foreign)
      BY DEF States
    <3> QED
      BY <3>1, StaysFrom DEF FileStep, Comes
  <2>2. ASSUME NEW c \in calls', c.by = d
        PROVE  Derives(d, foreign, c.base) /\ Derives(d, foreign, c.copy)
    <3>1. CASE c \in calls
      <4>1. c.base \in States(d, foreign) /\ c.copy \in States(d, foreign)
        BY <2>2, <3>1 DEF States
      <4> QED
        BY <4>1, StaysFrom
    <3> QED
      BY <2>2, <3>1 DEF CallStep, Comes
  <2>3. \A r \in Loaded(listener'[d], foreign) : Derives(d, foreign, r)
    <3>1. CASE listener'[d] = listener[d]
      <4>1. Loaded(listener[d], foreign) \subseteq States(d, foreign)
        BY DEF States
      <4> QED
        BY <3>1, <4>1, StaysFrom
    <3>2. CASE listener'[d] \in {Idle, Down, Hung}
      BY <3>2 DEF Loaded, Idle, Down, Hung
    <3> QED
      BY <3>1, <3>2 DEF ListenerStep
  <2> QED
    BY <2>1, <2>2, <2>3, StatesStep
<1>2. ASSUME NEW d \in Devices PROVE ListenerSound(d)'
  <2>1. CASE listener'[d] = listener[d]
    <3>1. listener[d].pc \in {"load", "save"} => listener[d].frame \in Frames
      <4>1. listener[d] \in Listeners
        BY DEF SoundInv, Typed
      <4> QED
        BY <4>1, ListenerIs DEF Loading, Saving
    <3>2. ASSUME NEW f, f = listener[d].frame, listener[d].pc \in {"load", "save"}
          PROVE  FrameSound(d, f)'
      BY <3>1, <3>2, FrameStays DEF SoundInv, ListenerSound
    <3>3. PICK f : f = listener[d].frame
      OBVIOUS
    <3>4. listener'[d].pc \in {"load", "save"} => FrameSound(d, f)'
      BY <2>1, <3>2, <3>3
    <3> QED
      BY <2>1, <3>3, <3>4 DEF SoundInv, ListenerSound, FrameSound, Ids
  <2>2. CASE listener'[d] \in {Idle, Down, Hung}
    BY <2>2 DEF ListenerSound, Idle, Down, Hung
  <2> QED
    BY <2>1, <2>2 DEF ListenerStep
<1>3. ASSUME NEW c \in calls' PROVE CallSound(c)'
  <2>1. CASE c \in calls /\ listener'[c.by] # Down
    BY <2>1 DEF SoundInv, Typed, Grows, CallSound, Up
  <2> QED
    BY <2>1 DEF CallStep
<1> QED
  BY <1>1, <1>2, <1>3 DEF StepSound

LEMMA HandedStep ==
    ASSUME NEW d \in Devices, NEW e \in Devices, NEW f \in Frames, FrameSound(e, f)'
    PROVE  /\ Handed(d, e, f) \in Listeners /\ Handed(d, e, f) # Down
           /\ Handed(d, e, f).pc \in {"load", "idle"}
           /\ listener'[e] = Handed(d, e, f) => ListenerStep(e)
<1> DEFINE l == [pc |-> "load", from |-> d, frame |-> f]
<1>1. l \in Listeners /\ l.pc = "load" /\ l # Down
  BY DEF Listeners, Loading, Down
<1>2. listener'[e] = l => ListenerStep(e)
  BY DEF ListenerStep, ListenerSound, Loaded
<1>3. Idle \in Listeners /\ Idle # Down /\ (listener'[e] = Idle => ListenerStep(e))
  BY DEF Listeners, Idle, Down, ListenerStep
<1> QED
  BY <1>1, <1>2, <1>3 DEF Handed, Idle

-----------------------------------------------------------------------------
(* Every step is sound: one lemma per action. *)
LEMMA SentFacts ==
    ASSUME Typed
    PROVE  /\ DOMAIN sent = 1 .. Len(sent) /\ Len(sent) \in Nat /\ DOMAIN sent \subseteq Id
           /\ clock \in Nat /\ MaxSent \in Nat
           /\ \A m \in DOMAIN sent : sent[m].by \in Devices /\ sent[m].kind \in {"text", "broadcast"}
<1>1. sent \in Seq([kind : {"text", "broadcast"}, by : Devices]) /\ Len(sent) <= MaxSent
      /\ clock \in Nat /\ MaxSent \in Nat
  BY MaxSentAssumption DEF Typed
<1>2. DOMAIN sent = 1 .. Len(sent) /\ Len(sent) \in Nat
  BY <1>1
<1>3. \A m \in DOMAIN sent : sent[m] \in [kind : {"text", "broadcast"}, by : Devices]
  <2> DEFINE S == [kind : {"text", "broadcast"}, by : Devices]
  <2>1. sent \in Seq(S)
    BY <1>1
  <2> HIDE DEF S
  <2>2. \A m \in DOMAIN sent : sent[m] \in S
    BY <2>1
  <2> QED
    BY <2>2 DEF S
<1>4. DOMAIN sent \subseteq Id
  BY <1>1, <1>2 DEF Id
<1> QED
  BY <1>1, <1>2, <1>3, <1>4

LEMMA SentUnchanged ==
    ASSUME Typed, sent' = sent, clock' \in {clock, clock + 1}
    PROVE  Grows
  BY SentFacts DEF Grows

LEMMA BeginSound ==
    ASSUME SoundInv, NEW d \in Devices, NEW kind \in {"text", "broadcast"},
           NEW copy \in Workspaces, Begin(d, kind, copy), From(d, file[d], copy)
    PROVE  StepSound
<1>0. PICK c : c = [by |-> d, id |-> Len(sent'), pc |-> "send", to |-> Others(d),
                    base |-> file[d], copy |-> copy]
  OBVIOUS
<1>1. /\ Typed /\ sent' = Append(sent, [kind |-> kind, by |-> d]) /\ Len(sent) < MaxSent
      /\ clock' = clock + 1 /\ calls' = calls \cup {c} /\ Up(d)
      /\ file' = file /\ listener' = listener
      /\ got' = got /\ lost' = lost /\ cut' = cut
  BY <1>0 DEF Begin, SoundInv
<1>2. /\ sent' \in Seq([kind : {"text", "broadcast"}, by : Devices])
      /\ Len(sent') = Len(sent) + 1 /\ Len(sent') <= MaxSent /\ Len(sent') \in Id
      /\ DOMAIN sent' = 1 .. Len(sent) + 1
      /\ sent'[Len(sent) + 1].by = d
      /\ \A m \in DOMAIN sent : sent'[m] = sent[m]
  BY <1>1, SentFacts DEF Typed, Id
<1>3. Grows
  BY <1>1, <1>2, SentFacts DEF Grows
<1>4. file[d] \in Workspaces /\ Others(d) \subseteq Devices
  BY <1>1 DEF Typed, Others
<1>5. c \in Calls
  BY <1>0, <1>2, <1>4 DEF Calls
<1>6. Typed'
  BY <1>1, <1>2, <1>5, SentFacts DEF Typed
<1>7. \A e \in Devices : FileStep(e) /\ ListenerStep(e)
  BY <1>1 DEF FileStep, ListenerStep
<1>8. CallStep(c)
  <2>1. file[d] \in States(d, FALSE)
    BY DEF States
  <2>2. Comes(d, file[d]) /\ Comes(d, copy)
    BY <2>1, ComesFrom, ComesUnchanged
  <2>3. CallSound(c)'
    <3>1. c.id \in DOMAIN sent' /\ sent'[c.id].by = c.by
      BY <1>0, <1>1, <1>2, SentFacts
    <3>2. listener'[c.by] # Down /\ c.to = Others(c.by)
      BY <1>0, <1>1 DEF Up
    <3> QED
      BY <3>1, <3>2 DEF CallSound, Up, Others
  <2> QED
    BY <1>0, <2>2, <2>3 DEF CallStep
<1>9. \A b \in calls : CallStep(b)
  BY <1>1 DEF CallStep, SoundInv, CallSound, Up
<1> QED
  BY <1>1, <1>3, <1>6, <1>7, <1>8, <1>9, SoundStep

LEMMA SendMessageSound ==
    ASSUME SoundInv, NEW d \in Devices, SendMessage(d)
    PROVE  StepSound
<1> DEFINE q == file[d]
           copy == [q EXCEPT !.texts = Append(@, Len(sent) + 1), !.stamp = clock + 1]
<1>1. Begin(d, "text", copy)
  BY DEF SendMessage
<1>2. /\ sent' = Append(sent, [kind |-> "text", by |-> d]) /\ Len(sent) < MaxSent
      /\ clock' = clock + 1
  BY <1>1 DEF Begin
<1>3. /\ q \in Workspaces /\ Sound(d, q) /\ Len(sent) + 1 \in Id
      /\ clock' \in Nat
      /\ Len(sent') = Len(sent) + 1 /\ sent'[Len(sent) + 1].by = d
  <2>1. Typed /\ q \in Workspaces /\ q \in States(d, TRUE)
    BY DEF SoundInv, Typed, States
  <2>2. Sound(d, q)
    BY <2>1 DEF SoundInv
  <2>3. Len(sent) + 1 \in Id /\ clock' \in Nat
    BY <1>2, <2>1, SentFacts DEF Id
  <2>4. Len(sent') = Len(sent) + 1 /\ sent'[Len(sent) + 1].by = d
    BY <1>2, <2>1, SentFacts DEF Typed
  <2> QED
    BY <2>1, <2>2, <2>3, <2>4
<1> HIDE DEF q
<1>4. /\ copy \in Workspaces /\ copy.texts = Append(q.texts, Len(sent) + 1)
      /\ copy.notices = q.notices /\ copy.journal = q.journal /\ copy.pending = q.pending
      /\ copy.stamp <= clock'
  <2> DEFINE s == Append(q.texts, Len(sent) + 1)
  <2>1. s \in Seq(Id) /\ clock + 1 \in Nat /\ clock + 1 <= clock'
    BY <1>2, <1>3, SentFacts DEF Workspaces, SoundInv
  <2>2. copy = [q EXCEPT !.texts = s, !.stamp = clock + 1]
    BY <1>3 DEF Workspaces
  <2> HIDE DEF s, copy
  <2>3. /\ copy \in Workspaces /\ copy.texts = s
        /\ copy.notices = q.notices /\ copy.journal = q.journal /\ copy.pending = q.pending
        /\ copy.stamp = clock + 1
    BY <1>3, <2>1, <2>2 DEF Workspaces
  <2> QED
    BY <2>1, <2>3 DEF s
<1> HIDE DEF copy
<1>5. From(d, q, copy)
  BY <1>3, <1>4 DEF From, TextsFrom, NoticesFrom, QueueFrom, Sound, Names, Same
<1> QED
  BY <1>1, <1>4, <1>5, BeginSound DEF q

LEMMA CreateBroadcastSound ==
    ASSUME SoundInv, NEW d \in Devices, CreateBroadcast(d)
    PROVE  StepSound
<1> DEFINE q == file[d]
           copy == [q EXCEPT !.notices = Append(@, Len(sent) + 1)]
<1>1. Begin(d, "broadcast", copy)
  BY DEF CreateBroadcast
<1>2. /\ sent' = Append(sent, [kind |-> "broadcast", by |-> d]) /\ Len(sent) < MaxSent
  BY <1>1 DEF Begin
<1>3. /\ q \in Workspaces /\ Sound(d, q) /\ Len(sent) + 1 \in Id /\ Len(sent) + 1 \notin DOMAIN sent
      /\ Len(sent') = Len(sent) + 1 /\ Len(sent) + 1 \in 1 .. Len(sent')
  <2>1. Typed /\ q \in Workspaces /\ q \in States(d, TRUE)
    BY DEF SoundInv, Typed, States
  <2>2. Sound(d, q)
    BY <2>1 DEF SoundInv
  <2>3. Len(sent) + 1 \in Id /\ Len(sent) + 1 \notin DOMAIN sent
    BY <1>2, <2>1, SentFacts DEF Id
  <2>4. Len(sent') = Len(sent) + 1 /\ Len(sent) + 1 \in 1 .. Len(sent')
    BY <1>2, <2>1, SentFacts DEF Typed
  <2> QED
    BY <2>1, <2>2, <2>3, <2>4
<1> HIDE DEF q
<1>4. /\ copy \in Workspaces /\ copy.notices = Append(q.notices, Len(sent) + 1)
      /\ copy.texts = q.texts /\ copy.journal = q.journal /\ copy.pending = q.pending
      /\ copy.stamp = q.stamp
  <2> DEFINE s == Append(q.notices, Len(sent) + 1)
  <2>1. s \in Seq(Id)
    BY <1>3 DEF Workspaces
  <2>2. copy = [q EXCEPT !.notices = s]
    OBVIOUS
  <2> HIDE DEF s, copy
  <2>3. /\ copy \in Workspaces /\ copy.notices = s
        /\ copy.texts = q.texts /\ copy.journal = q.journal /\ copy.pending = q.pending
        /\ copy.stamp = q.stamp
    BY <1>3, <2>1, <2>2 DEF Workspaces
  <2> QED
    BY <2>3 DEF s
<1> HIDE DEF copy
<1>5. From(d, q, copy)
  <2>1. Len(sent) + 1 \notin ToSet(q.notices)
    BY <1>3 DEF Sound, Ids
  <2> QED
    BY <1>3, <1>4, <2>1 DEF From, TextsFrom, NoticesFrom, QueueFrom, Sound, Names, Same
<1> QED
  BY <1>1, <1>4, <1>5, BeginSound DEF q

LEMMA CallStates ==
    ASSUME NEW c \in calls, NEW d, c.by = d, NEW foreign
    PROVE  c.base \in States(d, foreign) /\ c.copy \in States(d, foreign)
  BY DEF States

(* A call that goes on: it is replaced by the next one. *)
LEMMA ContinueStep ==
    ASSUME SoundInv, NEW c \in calls, NEW next \in Calls, Continue(c, next),
           next.by = c.by, next.id = c.id, next.base = c.base, next.to \subseteq c.to \cup Others(c.by),
           Grows, Typed', listener'[c.by] # Down, Comes(c.by, next.copy),
           \A b \in calls : listener'[b.by] # Down
    PROVE  \A b \in calls' : CallStep(b)
<1>1. c \in Calls /\ CallSound(c) /\ c.by \in Devices
  BY DEF SoundInv, Typed, Calls
<1>2. c.base \in States(c.by, FALSE)
  BY CallStates
<1>3. Comes(c.by, next.base)
  BY <1>1, <1>2, ComesUnchanged
<1>4. CallSound(next)'
  BY <1>1, SentFacts DEF CallSound, Grows, Up, Others, SoundInv, Typed
<1>5. CallStep(next)
  BY <1>3, <1>4 DEF CallStep
<1> QED
  BY <1>5 DEF CallStep, Continue

LEMMA MessageFrame ==
    ASSUME Typed, NEW m \in DOMAIN sent
    PROVE  Message(m) \in Frames
  BY SentFacts DEF Message, Frames

LEMMA CallDeliversSound ==
    ASSUME SoundInv, NEW c \in calls, CallDelivers(c)
    PROVE  StepSound
<1>1. PICK e \in c.to :
        /\ listener' = [listener EXCEPT ![e] = Handed(c.by, e, Message(c.id))]
        /\ Drops(c.by, e, c.id)
        /\ Continue(c, [c EXCEPT !.to = @ \ {e}])
  BY DEF CallDelivers
<1>2. /\ Typed /\ c \in Calls /\ CallSound(c) /\ c.by \in Devices /\ e \in Devices /\ e # c.by
      /\ c.id \in DOMAIN sent
  BY DEF SoundInv, Typed, Calls, CallSound, Others
<1>3. /\ sent' = sent /\ clock' = clock /\ file' = file /\ got' = got /\ cut' = cut
      /\ mixed' = mixed
  BY DEF CallDelivers, worldVars
<1> DEFINE next == [c EXCEPT !.to = @ \ {e}]
<1>4. /\ next \in Calls /\ next.by = c.by /\ next.id = c.id /\ next.base = c.base
      /\ next.copy = c.copy /\ next.to \subseteq c.to /\ next.pc = c.pc
  BY <1>2 DEF Calls
<1> HIDE DEF next
<1>5. Grows
  BY <1>2, <1>3, SentUnchanged
<1>6. PICK f : f = Message(c.id)
  OBVIOUS
<1>7. f \in Frames /\ FrameSound(e, f)'
  <2>1. f \in Frames /\ f.kind \in {"text", "broadcast"} /\ f.id = c.id
    BY <1>2, <1>6, MessageFrame, SentFacts DEF Message
  <2> QED
    BY <1>2, <1>3, <2>1 DEF FrameSound, CallSound
<1>8. /\ Handed(c.by, e, f) \in Listeners /\ Handed(c.by, e, f) # Down
      /\ (listener'[e] = Handed(c.by, e, f) => ListenerStep(e))
  BY <1>2, <1>7, HandedStep
<1>9. listener' = [listener EXCEPT ![e] = Handed(c.by, e, f)]
  BY <1>1, <1>6
<1> HIDE DEF Handed
<1>10. Typed'
  <2>1. listener' \in [Devices -> Listeners]
    BY <1>2, <1>8, <1>9 DEF Typed
  <2>2. calls' \subseteq Calls
    BY <1>1, <1>2, <1>4 DEF Typed, Continue, next
  <2>3. lost' \subseteq Id \X Devices
    BY <1>1, <1>2, SentFacts DEF Typed, Drops
  <2> QED
    BY <1>2, <1>3, <2>1, <2>2, <2>3 DEF Typed
<1>11. \A b \in calls : listener'[b.by] # Down
  BY <1>2, <1>8, <1>9 DEF SoundInv, CallSound, Up, Typed
<1>12. \A b \in calls' : CallStep(b)
  <2>1. Comes(c.by, c.copy)
    BY <1>2, CallStates, ComesUnchanged
  <2> QED
    BY <1>1, <1>2, <1>4, <1>5, <1>10, <1>11, <2>1, ContinueStep DEF next
<1>13. \A d \in Devices : FileStep(d) /\ ListenerStep(d)
  BY <1>2, <1>3, <1>8, <1>9 DEF Typed, FileStep, ListenerStep
<1> QED
  BY <1>5, <1>10, <1>12, <1>13, SoundStep

LEMMA EntryTyped ==
    ASSUME Typed, NEW m \in DOMAIN sent, NEW e \in Devices
    PROVE  /\ Entry(m, e) \in Pending /\ Entry(m, e).id = m /\ Entry(m, e).to = e
           /\ \A d : sent[m].by = d /\ e # d => EntryOf(d, Entry(m, e))
  BY SentFacts DEF Entry, Pending, EntryOf

(* A step that only continues a call, and may lose a message *)
LEMMA CallGoesOn ==
    ASSUME SoundInv, NEW c \in calls, NEW next \in Calls, Continue(c, next),
           next.by = c.by, next.id = c.id, next.base = c.base, next.to \subseteq c.to,
           UNCHANGED <<file, listener, sent, clock, got, cut, mixed>>,
           lost' \subseteq Id \X Devices, Comes(c.by, next.copy)
    PROVE  StepSound
<1>1. Typed' /\ Grows
  BY SentUnchanged DEF SoundInv, Typed, Continue
<1>2. \A b \in calls' : CallStep(b)
  <2>1. \A b \in calls : listener'[b.by] # Down
    BY DEF SoundInv, CallSound, Up
  <2>2. listener'[c.by] # Down
    BY <2>1
  <2> QED
    BY <1>1, <2>1, <2>2, ContinueStep
<1>3. \A d \in Devices : FileStep(d) /\ ListenerStep(d)
  BY DEF FileStep, ListenerStep
<1> QED
  BY <1>1, <1>2, <1>3, SoundStep

LEMMA CallQueuesSound ==
    ASSUME SoundInv, NEW c \in calls, CallQueues(c)
    PROVE  StepSound
<1>1. PICK e \in c.to :
        Continue(c, [c EXCEPT !.to = @ \ {e}, !.copy = Queue(@, Entry(c.id, e))])
  BY DEF CallQueues
<1>2. /\ UNCHANGED <<file, listener, sent, clock, got, cut, mixed>> /\ lost' = lost
  BY DEF CallQueues, worldVars
<1>3. /\ Typed /\ c \in Calls /\ CallSound(c) /\ c.by \in Devices /\ e \in Devices /\ e # c.by
      /\ c.id \in DOMAIN sent /\ c.copy \in Workspaces /\ sent[c.id].by = c.by
  BY DEF SoundInv, Typed, Calls, CallSound, Others
<1>4. c.copy \in States(c.by, FALSE) /\ Sound(c.by, c.copy)
  BY <1>3, CallStates DEF SoundInv
<1> DEFINE p == Entry(c.id, e)
           r == Queue(c.copy, p)
           next == [c EXCEPT !.to = c.to \ {e}, !.copy = r]
<1>5. p \in Pending /\ EntryOf(c.by, p)
  BY <1>3, EntryTyped
<1>6. /\ r \in Workspaces /\ SameTexts(c.copy, r) /\ r.stamp = c.copy.stamp /\ Names(r)
      /\ \A i \in DOMAIN r.pending :
           r.pending[i] = p \/ \E j \in DOMAIN c.copy.pending : r.pending[i] = c.copy.pending[j]
  BY <1>3, <1>4, <1>5, QueueFacts DEF Sound
<1>7. Continue(c, next)
  BY <1>1
<1> HIDE DEF p, r
<1>8. From(c.by, c.copy, r)
  BY <1>4, <1>5, <1>6 DEF From, TextsFrom, NoticesFrom, QueueFrom, SameTexts, Same, Sound
<1>9. Comes(c.by, r)
  BY <1>3, <1>4, <1>8, ComesFrom
<1>10. /\ next \in Calls /\ next.by = c.by /\ next.id = c.id /\ next.base = c.base
       /\ next.copy = r /\ next.to \subseteq c.to
  BY <1>3, <1>6 DEF Calls
<1>11. lost' \subseteq Id \X Devices
  BY <1>2, <1>3 DEF Typed
<1> HIDE DEF next
<1> QED
  BY <1>2, <1>7, <1>9, <1>10, <1>11, CallGoesOn

LEMMA CallPassesSound ==
    ASSUME SoundInv, NEW c \in calls, CallPasses(c)
    PROVE  StepSound
<1>1. PICK e \in c.to :
        Continue(c, [c EXCEPT !.to = @ \ {e}]) /\ lost' = lost \cup {<<c.id, e>>}
  BY DEF CallPasses
<1>2. UNCHANGED <<file, listener, sent, clock, got, cut, mixed>>
  BY DEF CallPasses, worldVars
<1>3. /\ Typed /\ c \in Calls /\ CallSound(c) /\ c.by \in Devices /\ e \in Devices
      /\ c.id \in Id
  BY DEF SoundInv, Typed, Calls, CallSound, Others
<1> DEFINE next == [c EXCEPT !.to = c.to \ {e}]
<1>4. /\ next \in Calls /\ next.by = c.by /\ next.id = c.id /\ next.base = c.base
      /\ next.copy = c.copy /\ next.to \subseteq c.to
  BY <1>3 DEF Calls
<1>5. Comes(c.by, c.copy)
  BY <1>3, CallStates, ComesUnchanged
<1>6. lost' \subseteq Id \X Devices
  BY <1>1, <1>3 DEF Typed
<1>7. Continue(c, next)
  BY <1>1
<1> HIDE DEF next
<1> QED
  BY <1>2, <1>4, <1>5, <1>6, <1>7, CallGoesOn

(* A step that writes r to the file of d *)
LEMMA WriteStep ==
    ASSUME Typed, NEW d \in Devices, NEW base, NEW r \in Workspaces, Write(d, base, r), Comes(d, r)
    PROVE  /\ file' \in [Devices -> Workspaces]
           /\ \A e \in Devices : FileStep(e)
  BY DEF Typed, Write, FileStep

LEMMA StampFrom ==
    ASSUME SoundInv, Typed', NEW d \in Devices, NEW q \in States(d, FALSE),
           clock' = clock + 1, NEW r, r = [q EXCEPT !.stamp = clock + 1]
    PROVE  r \in Workspaces /\ Comes(d, r)
<1>1. q \in Workspaces /\ Sound(d, q) /\ clock + 1 \in Nat /\ clock' \in Nat
  BY StatesTyped DEF SoundInv, Typed
<1>2. /\ r \in Workspaces /\ r.texts = q.texts /\ r.notices = q.notices
      /\ r.pending = q.pending /\ r.journal = q.journal /\ r.stamp = clock + 1
  BY <1>1 DEF Workspaces
<1>3. From(d, q, r)
  BY <1>1, <1>2 DEF From, TextsFrom, NoticesFrom, QueueFrom, Sound, Names, Same
<1> QED
  BY <1>2, <1>3, ComesFrom

LEMMA CallSavesSound ==
    ASSUME SoundInv, NEW c \in calls, CallSaves(c)
    PROVE  StepSound
<1>1. /\ Typed /\ c \in Calls /\ CallSound(c) /\ c.by \in Devices
      /\ c.copy \in Workspaces /\ clock \in Nat
      /\ c.copy \in States(c.by, FALSE) /\ Comes(c.by, c.copy)
  BY CallStates, ComesUnchanged DEF SoundInv, Typed, Calls
<1>2. UNCHANGED <<listener, sent, got, lost, mixed, cut>>
  BY DEF CallSaves, worldVars
<1>3. \A b \in calls : listener'[b.by] # Down
  BY <1>2 DEF SoundInv, CallSound, Up
<1>4. \A d \in Devices : ListenerStep(d)
  BY <1>2 DEF ListenerStep
<1>5. CASE sent[c.id].kind = "text"
  <2>1. Write(c.by, c.base, c.copy) /\ calls' = calls \ {c} /\ clock' = clock
    BY <1>5 DEF CallSaves
  <2>2. /\ file' \in [Devices -> Workspaces]
        /\ \A d \in Devices : FileStep(d)
    BY <1>1, <2>1, WriteStep
  <2>3. Typed' /\ Grows
    BY <1>1, <1>2, <2>1, <2>2, SentUnchanged DEF Typed
  <2>4. \A b \in calls' : CallStep(b)
    BY <1>3, <2>1 DEF CallStep
  <2> QED
    BY <1>4, <2>2, <2>3, <2>4, SoundStep
<1>6. CASE sent[c.id].kind # "text"
  <2>1. PICK r : r = [c.copy EXCEPT !.stamp = clock + 1]
    OBVIOUS
  <2>2. PICK next : next = [c EXCEPT !.pc = "sync", !.to = Others(c.by), !.copy = r]
    OBVIOUS
  <2>3. Write(c.by, c.base, r) /\ Continue(c, next) /\ clock' = clock + 1
    BY <1>6, <2>1, <2>2 DEF CallSaves
  <2>4. r \in Workspaces
    <3>1. clock + 1 \in Nat
      BY <1>1
    <3> QED
      BY <1>1, <2>1, <3>1 DEF Workspaces
  <2>5. /\ next \in Calls /\ next.by = c.by /\ next.id = c.id /\ next.base = c.base
        /\ next.copy = r /\ next.to = Others(c.by)
    BY <1>1, <2>2, <2>4 DEF Calls, Others
  <2>6. Typed' /\ Grows
    <3>1. file' \in [Devices -> Workspaces]
      BY <1>1, <2>3, <2>4 DEF Typed, Write
    <3>2. calls' \subseteq Calls
      BY <1>1, <2>3, <2>5 DEF Typed, Continue
    <3> QED
      BY <1>1, <1>2, <2>3, <3>1, <3>2, SentUnchanged DEF Typed
  <2>7. Comes(c.by, r)
    BY <1>1, <2>1, <2>3, <2>6, StampFrom
  <2>8. \A d \in Devices : FileStep(d)
    BY <1>1, <2>3, <2>4, <2>7, WriteStep
  <2>9. \A b \in calls' : CallStep(b)
    BY <1>3, <2>3, <2>5, <2>6, <2>7, ContinueStep
  <2> QED
    BY <1>4, <2>6, <2>8, <2>9, SoundStep
<1> QED
  BY <1>5, <1>6

LEMMA CallSyncsSound ==
    ASSUME SoundInv, NEW c \in calls, CallSyncs(c)
    PROVE  StepSound
<1>1. /\ Typed /\ c \in Calls /\ CallSound(c) /\ c.by \in Devices
      /\ c.copy \in Workspaces /\ Sound(c.by, c.copy) /\ Comes(c.by, c.copy)
  <2>1. c.copy \in States(c.by, FALSE) /\ c.copy \in States(c.by, TRUE)
    BY CallStates
  <2> QED
    BY <2>1, ComesUnchanged DEF SoundInv, Typed, Calls
<1>2. UNCHANGED <<file, sent, clock, got, lost, mixed, cut>>
  BY DEF CallSyncs, worldVars
<1>3. Grows
  BY <1>1, <1>2, SentUnchanged
<1>4. ASSUME NEW e \in c.to, Continue(c, [c EXCEPT !.to = @ \ {e}]),
             listener' \in [Devices -> Listeners],
             \A d \in Devices : ListenerStep(d),
             \A b \in calls : listener'[b.by] # Down
      PROVE  StepSound
  <2>1. PICK next : next = [c EXCEPT !.to = c.to \ {e}]
    OBVIOUS
  <2>2. /\ next \in Calls /\ next.by = c.by /\ next.id = c.id /\ next.base = c.base
        /\ next.copy = c.copy /\ next.to \subseteq c.to
    BY <1>1, <2>1 DEF Calls
  <2>3. Continue(c, next)
    BY <1>4, <2>1
  <2>4. Typed'
    BY <1>1, <1>2, <1>4, <2>2, <2>3 DEF Typed, Continue
  <2>5. \A b \in calls' : CallStep(b)
    BY <1>1, <1>3, <1>4, <2>2, <2>3, <2>4, ContinueStep
  <2>6. \A d \in Devices : FileStep(d)
    BY <1>2 DEF FileStep
  <2> QED
    BY <1>3, <1>4, <2>4, <2>5, <2>6, SoundStep
<1>5. \A b \in calls : listener[b.by] # Down
  BY DEF SoundInv, CallSound, Up
<1>6. CASE \E e \in c.to :
             /\ listener' = [listener EXCEPT ![e] =
                    Handed(c.by, e, [kind |-> "sync", stamp |-> c.copy.stamp,
                                     texts |-> c.copy.texts, notices |-> c.copy.notices])]
             /\ Continue(c, [c EXCEPT !.to = @ \ {e}])
  <2>1. PICK f : f = [kind |-> "sync", stamp |-> c.copy.stamp,
                      texts |-> c.copy.texts, notices |-> c.copy.notices]
    OBVIOUS
  <2>2. PICK e \in c.to :
             /\ listener' = [listener EXCEPT ![e] = Handed(c.by, e, f)]
             /\ Continue(c, [c EXCEPT !.to = @ \ {e}])
    BY <1>6, <2>1
  <2>3. e \in Devices
    BY <1>1 DEF Calls
  <2>4. f \in Frames /\ FrameSound(e, f)'
    <3>1. f \in Frames
      BY <1>1, <2>1 DEF Frames, Workspaces
    <3>2. f.kind = "sync" /\ f.stamp <= clock /\ Ids(f.texts) /\ Ids(f.notices)
      BY <1>1, <2>1 DEF Sound
    <3> QED
      BY <1>2, <3>1, <3>2 DEF FrameSound, Ids
  <2>5. /\ Handed(c.by, e, f) \in Listeners /\ Handed(c.by, e, f) # Down
        /\ (listener'[e] = Handed(c.by, e, f) => ListenerStep(e))
    BY <1>1, <2>3, <2>4, HandedStep
  <2>6. listener' \in [Devices -> Listeners]
    BY <1>1, <2>2, <2>5 DEF Typed
  <2>7. \A d \in Devices : ListenerStep(d)
    BY <1>1, <2>2, <2>3, <2>5 DEF Typed, ListenerStep
  <2>8. \A b \in calls : listener'[b.by] # Down
    BY <1>1, <1>5, <2>2, <2>3, <2>5 DEF Typed, Calls
  <2> QED
    BY <1>4, <2>2, <2>6, <2>7, <2>8
<1>7. CASE \E e \in c.to : Continue(c, [c EXCEPT !.to = @ \ {e}]) /\ listener' = listener
  BY <1>1, <1>4, <1>5, <1>7 DEF ListenerStep, Typed
<1>8. CASE calls' = calls \ {c} /\ listener' = listener
  <2>1. Typed'
    BY <1>1, <1>2, <1>8 DEF Typed
  <2>2. \A b \in calls' : CallStep(b)
    BY <1>5, <1>8 DEF CallStep
  <2>3. \A d \in Devices : FileStep(d) /\ ListenerStep(d)
    BY <1>2, <1>8 DEF FileStep, ListenerStep
  <2> QED
    BY <1>3, <2>1, <2>2, <2>3, SoundStep
<1> QED
  BY <1>6, <1>7, <1>8 DEF CallSyncs

(* A step of the listeners alone *)
LEMMA ListenersOnly ==
    ASSUME SoundInv, UNCHANGED <<file, calls, sent, got, cut>>, clock' \in {clock, clock + 1},
           lost' \subseteq Id \X Devices,
           listener' \in [Devices -> Listeners],
           \A d \in Devices : ListenerStep(d),
           \A c \in calls : listener'[c.by] # Down
    PROVE  StepSound
<1>1. Typed' /\ Grows
  BY SentUnchanged DEF SoundInv, Typed
<1>2. \A c \in calls' : CallStep(c)
  BY DEF CallStep
<1>3. \A d \in Devices : FileStep(d)
  BY DEF FileStep
<1> QED
  BY <1>1, <1>2, <1>3, SoundStep

LEMMA BusyStep ==
    ASSUME SoundInv, NEW d \in Devices, NEW next \in Listeners, next # Down, Busy(d, next),
           listener'[d] = next => ListenerStep(d)
    PROVE  /\ listener' \in [Devices -> Listeners]
           /\ \A e \in Devices : ListenerStep(e)
           /\ \A c \in calls : listener'[c.by] # Down
<1>1. /\ listener \in [Devices -> Listeners]
      /\ \A c \in calls : listener[c.by] # Down /\ c.by \in Devices
  BY DEF SoundInv, Typed, CallSound, Up, Calls
<1> QED
  BY <1>1 DEF Busy, ListenerStep

LEMMA IdleStep ==
    ASSUME SoundInv, NEW d \in Devices, Busy(d, Idle)
    PROVE  /\ listener' \in [Devices -> Listeners]
           /\ \A e \in Devices : ListenerStep(e)
           /\ \A c \in calls : listener'[c.by] # Down
<1>1. Idle \in Listeners /\ Idle # Down
  BY DEF Listeners, Idle, Down
<1>2. listener'[d] = Idle => ListenerStep(d)
  BY DEF ListenerStep
<1> QED
  BY <1>1, <1>2, BusyStep

LEMMA HoldStep ==
    ASSUME SoundInv, UNCHANGED <<file, calls, sent, got, lost, cut>>, clock' \in {clock, clock + 1},
           NEW d \in Devices, listener[d].pc = "load",
           NEW copy \in Workspaces, NEW then \in {"reply", "idle"},
           then = "reply" => listener[d].frame.kind = "text",
           Hold(d, copy, then),
           IF listener[d].frame.kind = "sync" THEN Derives(d, TRUE, copy) ELSE Comes(d, copy)
    PROVE  StepSound
<1> DEFINE f == listener[d].frame
<1>1. PICK l : l = [pc |-> "save", from |-> listener[d].from, frame |-> f,
                    base |-> file[d], copy |-> copy, then |-> then]
  OBVIOUS
<1>2. /\ Typed /\ listener[d] \in Loading /\ FrameSound(d, f) /\ f \in Frames
  BY ListenerIs DEF SoundInv, Typed, ListenerSound, Loading
<1>3. l \in Listeners /\ l # Down /\ l.pc = "save" /\ l.frame = f /\ l.then = then
      /\ l.base = file[d] /\ l.copy = copy
  BY <1>1, <1>2 DEF Loading, Saving, Listeners, Typed, Down
<1>4. listener' = [listener EXCEPT ![d] = l]
  BY <1>1 DEF Hold, Busy
<1>5. Typed' /\ Grows
  BY <1>2, <1>3, <1>4, SentUnchanged DEF Typed
<1>6. PICK g : g = f
  OBVIOUS
<1>7. FrameSound(d, g)'
  BY <1>2, <1>5, <1>6, FrameStays
<1>8. listener'[d] = l => ListenerStep(d)
  <2> SUFFICES ASSUME listener'[d] = l PROVE ListenerStep(d)
    OBVIOUS
  <2>1. ListenerSound(d)'
    BY <1>3, <1>6, <1>7 DEF ListenerSound, FrameSound, Ids
  <2>2. Comes(d, file[d])
    BY ComesUnchanged DEF States
  <2>3. ASSUME NEW foreign \in BOOLEAN, foreign \/ d \notin mixed', NEW r \in Loaded(l, foreign)
        PROVE  Derives(d, foreign, r)
    <3>1. CASE r = file[d]
      BY <2>2, <2>3, <3>1 DEF Comes
    <3>2. CASE r # file[d]
      <4>1. r = copy /\ (foreign \/ f.kind # "sync")
        BY <1>3, <2>3, <3>2 DEF Loaded
      <4>2. CASE f.kind # "sync"
        BY <2>3, <4>1, <4>2 DEF Comes
      <4>3. CASE f.kind = "sync"
        <5>1. foreign = TRUE
          BY <4>1, <4>3
        <5> QED
          BY <4>1, <4>3, <5>1
      <4> QED
        BY <4>2, <4>3
    <3> QED
      BY <3>1, <3>2
  <2> QED
    BY <2>1, <2>3 DEF ListenerStep
<1>9. /\ listener' \in [Devices -> Listeners]
      /\ \A e \in Devices : ListenerStep(e)
      /\ \A c \in calls : listener'[c.by] # Down
  BY <1>3, <1>4, <1>8, BusyStep DEF Busy
<1> QED
  BY <1>2, <1>9, ListenersOnly DEF Typed

LEMMA ReceiveFrom ==
    ASSUME SoundInv, NEW d \in Devices, NEW q \in States(d, FALSE), NEW m \in DOMAIN sent,
           sent[m].by # d, m \notin ToSet(q.journal), clock' = clock + 1, NEW r,
           r = MarkReceived([q EXCEPT !.texts = Append(q.texts, m), !.stamp = clock + 1], m)
    PROVE  r \in Workspaces /\ From(d, q, r)
<1>1. Typed /\ q \in Workspaces /\ Sound(d, q) /\ m \in Id /\ clock \in Nat /\ clock' \in Nat
  <2>1. Typed /\ clock \in Nat /\ clock' \in Nat
    BY DEF SoundInv, Typed
  <2>2. q \in Workspaces /\ Sound(d, q)
    BY <2>1, StatesTyped DEF SoundInv
  <2> QED
    BY <2>1, <2>2, SentFacts
<1>2. PICK s : s = Append(q.texts, m)
  OBVIOUS
<1>3. PICK t : t = [q EXCEPT !.texts = s, !.stamp = clock + 1]
  OBVIOUS
<1>4. s \in Seq(Id) /\ clock + 1 \in Nat
  BY <1>1, <1>2 DEF Workspaces
<1>5. /\ t \in Workspaces /\ t.texts = s /\ t.notices = q.notices /\ t.pending = q.pending
      /\ t.journal = q.journal /\ t.stamp = clock + 1
  BY <1>1, <1>3, <1>4 DEF Workspaces
<1>6. r = MarkReceived(t, m)
  BY <1>2, <1>3
<1>7. /\ r \in Workspaces /\ Len(r.journal) <= JournalSize
      /\ r.texts = t.texts /\ r.notices = t.notices /\ r.pending = t.pending
      /\ r.stamp = t.stamp /\ Journaled(t.journal, r.journal, m)
  BY <1>1, <1>5, <1>6, MarkReceivedFacts DEF Sound
<1>8. TextsFrom(d, q, r)
  BY <1>2, <1>5, <1>7 DEF TextsFrom
<1>9. QueueFrom(d, q, r)
  BY <1>1, <1>5, <1>7 DEF QueueFrom, Sound, Names, Same
<1>10. r.notices = q.notices /\ r.stamp <= clock'
  BY <1>1, <1>5, <1>7
<1> QED
  BY <1>7, <1>8, <1>9, <1>10 DEF From, NoticesFrom

LEMMA BroadcastFrom ==
    ASSUME SoundInv, NEW d \in Devices, NEW q \in States(d, FALSE), NEW m \in DOMAIN sent,
           sent' = sent, NEW r, r = ReceiveBroadcast(q, m)
    PROVE  r \in Workspaces /\ From(d, q, r)
<1>1. /\ Typed /\ q \in Workspaces /\ Sound(d, q) /\ m \in Id /\ m \in 1 .. Len(sent')
  BY StatesTyped, SentFacts DEF SoundInv
<1>2. CASE m \in ToSet(q.notices)
  BY <1>1, <1>2 DEF ReceiveBroadcast, From, TextsFrom, NoticesFrom, QueueFrom, Sound, Same
<1>3. CASE m \notin ToSet(q.notices)
  <2>1. PICK s : s = Append(q.notices, m)
    OBVIOUS
  <2>2. s \in Seq(Id) /\ r = [q EXCEPT !.notices = s]
    BY <1>1, <1>3, <2>1 DEF Workspaces, ReceiveBroadcast
  <2>3. /\ r \in Workspaces /\ r.texts = q.texts /\ r.notices = s /\ r.pending = q.pending
        /\ r.journal = q.journal /\ r.stamp = q.stamp
    BY <1>1, <2>2 DEF Workspaces
  <2> QED
    BY <1>1, <1>3, <2>1, <2>3 DEF From, TextsFrom, NoticesFrom, QueueFrom, Sound, Names, Same
<1> QED
  BY <1>2, <1>3

LEMMA RemoveFrom ==
    ASSUME SoundInv, NEW d \in Devices, NEW q \in States(d, FALSE), NEW p \in Pending, NEW r,
           r = RemovePending(q, p)
    PROVE  r \in Workspaces /\ From(d, q, r)
<1>1. q \in Workspaces /\ Sound(d, q)
  BY StatesTyped DEF SoundInv
<1>2. /\ r \in Workspaces /\ SameTexts(q, r) /\ r.stamp = q.stamp /\ Names(r)
      /\ \A i \in DOMAIN r.pending : \E j \in DOMAIN q.pending : r.pending[i] = q.pending[j]
  BY <1>1, RemoveFacts DEF Sound
<1> QED
  BY <1>1, <1>2 DEF From, TextsFrom, NoticesFrom, QueueFrom, SameTexts, Sound, Same

LEMMA HandleFrameSound ==
    ASSUME SoundInv, NEW d \in Devices, HandleFrame(d)
    PROVE  StepSound
<1> DEFINE f == listener[d].frame
           q == file[d]
<1>1. /\ listener[d].pc = "load" /\ UNCHANGED <<file, calls, sent, got, lost, cut>>
      /\ mixed' = mixed
  BY DEF HandleFrame, worldVars
<1>2. /\ Typed /\ listener[d] \in Loading /\ FrameSound(d, f) /\ f \in Frames
      /\ listener[d].from \in Devices /\ lost \subseteq Id \X Devices
      /\ q \in Workspaces /\ q \in States(d, FALSE) /\ Comes(d, q)
  <2>1. q \in States(d, FALSE)
    BY DEF States
  <2> QED
    BY <1>1, <2>1, ListenerIs, ComesUnchanged DEF SoundInv, Typed, ListenerSound, Loading
<1>3. ASSUME Busy(d, Idle), clock' = clock
      PROVE  StepSound
  BY <1>1, <1>2, <1>3, IdleStep, ListenersOnly
<1>4. CASE f.kind = "text" /\ HandleText(d, f.id)
  <2>1. CASE Received(q, f.id)
    BY <1>3, <1>4, <2>1 DEF HandleText
  <2>2. CASE ~Received(q, f.id)
    <3>1. PICK r : r = MarkReceived([q EXCEPT !.texts = Append(q.texts, f.id),
                                              !.stamp = clock + 1], f.id)
      OBVIOUS
    <3>2. Hold(d, r, "reply") /\ clock' = clock + 1
      BY <1>4, <2>2, <3>1 DEF HandleText
    <3>3. f.id \in DOMAIN sent /\ sent[f.id].by # d /\ f.id \notin ToSet(q.journal)
      BY <1>2, <1>4, <2>2 DEF FrameSound, Received
    <3>4. r \in Workspaces /\ From(d, q, r)
      BY <1>2, <3>1, <3>2, <3>3, ReceiveFrom
    <3>5. Comes(d, r)
      BY <1>2, <3>4, ComesFrom
    <3> QED
      BY <1>1, <1>4, <3>2, <3>4, <3>5, HoldStep
  <2> QED
    BY <2>1, <2>2
<1>5. CASE f.kind = "broadcast" /\ HandleBroadcast(d, f.id)
  <2>1. PICK r : r = ReceiveBroadcast(q, f.id)
    OBVIOUS
  <2>2. Hold(d, r, "idle") /\ clock' = clock
    BY <1>5, <2>1 DEF HandleBroadcast
  <2>3. f.id \in DOMAIN sent
    BY <1>2, <1>5 DEF FrameSound
  <2>4. r \in Workspaces /\ From(d, q, r)
    BY <1>1, <1>2, <2>1, <2>3, BroadcastFrom
  <2>5. Comes(d, r)
    BY <1>2, <2>4, ComesFrom
  <2> QED
    BY <1>1, <1>5, <2>2, <2>4, <2>5, HoldStep
<1>6. CASE f.kind = "receipt" /\ HandleReceipt(d, f.id)
  <2>1. PICK p : p = Entry(f.id, listener[d].from)
    OBVIOUS
  <2>2. p \in Pending
    BY <1>2, <1>6, <2>1 DEF Entry, Pending, Frames
  <2>3. CASE Queued(q, p)
    <3>1. PICK t : t = RemovePending(q, p)
      OBVIOUS
    <3>2. PICK r : r = [t EXCEPT !.stamp = clock + 1]
      OBVIOUS
    <3>3. Hold(d, r, "idle") /\ clock' = clock + 1
      BY <1>6, <2>1, <2>3, <3>1, <3>2 DEF HandleReceipt
    <3>4. t \in Workspaces /\ From(d, q, t)
      BY <1>2, <2>2, <3>1, RemoveFrom
    <3>5. r \in Workspaces /\ From(d, q, r)
      <4>1. clock + 1 \in Nat /\ clock' = clock + 1 /\ clock + 1 <= clock'
        BY <1>2, <3>3 DEF Typed
      <4>2. /\ r \in Workspaces /\ r.texts = t.texts /\ r.notices = t.notices
            /\ r.pending = t.pending /\ r.journal = t.journal /\ r.stamp = clock + 1
        BY <3>2, <3>4, <4>1 DEF Workspaces
      <4> QED
        BY <3>4, <4>1, <4>2 DEF From, TextsFrom, NoticesFrom, QueueFrom, Names
    <3>6. Comes(d, r)
      BY <1>2, <3>5, ComesFrom
    <3> QED
      BY <1>1, <1>6, <3>3, <3>5, <3>6, HoldStep
  <2>4. CASE ~Queued(q, p)
    BY <1>3, <1>6, <2>1, <2>4 DEF HandleReceipt
  <2> QED
    BY <2>3, <2>4
<1>7. CASE f.kind = "sync" /\ HandleSync(d, f)
  <2>1. clock' = clock
    BY <1>7 DEF HandleSync
  <2>2. CASE Hold(d, q, "idle")
    <3>1. Derives(d, TRUE, q)
      BY <1>2 DEF Comes
    <3> QED
      BY <1>1, <1>2, <1>7, <2>1, <2>2, <3>1, HoldStep
  <2>3. CASE Busy(d, Idle)
    BY <1>3, <2>1, <2>3
  <2>4. CASE Hold(d, [q EXCEPT !.stamp = f.stamp, !.texts = f.texts, !.notices = f.notices], "idle")
    <3>1. PICK r : r = [q EXCEPT !.stamp = f.stamp, !.texts = f.texts, !.notices = f.notices]
      OBVIOUS
    <3>2. f.stamp \in Nat /\ f.texts \in Seq(Id) /\ f.notices \in Seq(Id)
      BY <1>2, <1>7 DEF Frames
    <3>3. /\ r \in Workspaces /\ r.stamp = f.stamp /\ r.texts = f.texts /\ r.notices = f.notices
          /\ r.journal = q.journal /\ r.pending = q.pending
      BY <1>2, <3>1, <3>2 DEF Workspaces
    <3>4. Derives(d, TRUE, r)
      <4>1. TakesOver(d, q, r) /\ q \in States(d, TRUE)
        BY <1>1, <1>7, <3>3 DEF TakesOver, States
      <4> QED
        BY <4>1 DEF Derives
    <3> QED
      BY <1>1, <1>7, <2>1, <2>4, <3>1, <3>3, <3>4, HoldStep
  <2> QED
    BY <1>7, <2>2, <2>3, <2>4 DEF HandleSync
<1> QED
  BY <1>4, <1>5, <1>6, <1>7 DEF HandleFrame

LEMMA FrameIds ==
    ASSUME Typed, NEW d \in Devices, ListenerSound(d), listener[d].pc \in {"load", "save"},
           listener[d].frame.kind \in {"text", "broadcast"}
    PROVE  listener[d].frame.id \in Id /\ listener[d].frame.id \in DOMAIN sent
  BY SentFacts DEF ListenerSound, FrameSound

LEMMA DiscardSound ==
    ASSUME SoundInv, NEW d \in Devices, Discard(d)
    PROVE  StepSound
<1>1. /\ listener[d].pc = "load" /\ Busy(d, Idle)
      /\ UNCHANGED <<file, calls, sent, clock, got, cut>>
      /\ lost' = (IF listener[d].frame.kind \in {"text", "broadcast"}
                  THEN lost \cup {<<listener[d].frame.id, d>>} ELSE lost)
  BY DEF Discard, worldVars
<1>2. Typed /\ ListenerSound(d)
  BY DEF SoundInv
<1>3. lost' \subseteq Id \X Devices
  BY <1>1, <1>2, FrameIds DEF Typed
<1> QED
  BY <1>1, <1>3, IdleStep, ListenersOnly

LEMMA HandleSound ==
    ASSUME SoundInv, NEW d \in Devices, Handle(d)
    PROVE  StepSound
  BY HandleFrameSound, DiscardSound DEF Handle

LEMMA StoreSound ==
    ASSUME SoundInv, NEW d \in Devices, Store(d)
    PROVE  StepSound
<1> DEFINE l == listener[d]
<1>1. /\ l.pc = "save" /\ Write(d, l.base, l.copy)
      /\ got' = (IF l.frame.kind \in {"text", "broadcast"} THEN got \cup {<<l.frame.id, d>>} ELSE got)
      /\ mixed' = (IF l.frame.kind = "sync" /\ l.copy # l.base THEN mixed \cup {d} ELSE mixed)
      /\ UNCHANGED <<calls, sent, clock, lost, cut>>
  BY DEF Store, worldVars
<1>2. /\ Typed /\ l \in Saving /\ l.copy \in Workspaces /\ l.base \in Workspaces
      /\ ListenerSound(d)
  BY <1>1, ListenerIs DEF SoundInv, Typed, Saving
<1>3. PICK next : next = IF l.then = "reply"
                         THEN [pc |-> "reply", from |-> l.from, id |-> l.frame.id] ELSE Idle
  OBVIOUS
<1>4. Busy(d, next)
  BY <1>3 DEF Store
<1>5. next \in Listeners /\ next # Down /\ (next.pc = "reply" \/ next = Idle)
  <2>1. CASE l.then = "reply"
    <3>1. l.frame.id \in Id
      BY <1>1, <1>2, <2>1, FrameIds DEF ListenerSound
    <3> QED
      BY <1>2, <1>3, <2>1, <3>1 DEF Saving, Replying, Listeners, Down
  <2>2. CASE l.then # "reply"
    BY <1>3, <2>2 DEF Listeners, Idle, Down
  <2> QED
    BY <2>1, <2>2
<1>6. listener'[d] = next => ListenerStep(d)
  BY <1>5 DEF ListenerStep, ListenerSound, Loaded
<1>7. /\ listener' \in [Devices -> Listeners]
      /\ \A e \in Devices : ListenerStep(e)
      /\ \A c \in calls : listener'[c.by] # Down
  BY <1>4, <1>5, <1>6, BusyStep
<1>8. Comes(d, l.copy)
  <2>1. CASE l.frame.kind = "sync" /\ l.copy # l.base
    <3>1. l.copy \in States(d, TRUE) /\ d \in mixed'
      BY <1>1, <2>1 DEF States, Loaded
    <3> QED
      BY <3>1, StaysFrom DEF Comes
  <2>2. CASE ~(l.frame.kind = "sync" /\ l.copy # l.base)
    <3>1. l.copy \in States(d, FALSE)
      BY <1>1, <2>2 DEF States, Loaded
    <3> QED
      BY <3>1, ComesUnchanged
  <2> QED
    BY <2>1, <2>2
<1>9. /\ file' \in [Devices -> Workspaces]
      /\ \A e \in Devices : FileStep(e)
  BY <1>1, <1>2, <1>8, WriteStep
<1>10. got' \subseteq Id \X Devices
  BY <1>1, <1>2, FrameIds DEF Typed
<1>11. Typed' /\ Grows
  BY <1>1, <1>2, <1>7, <1>9, <1>10, SentUnchanged DEF Typed
<1>12. \A c \in calls' : CallStep(c)
  BY <1>1, <1>7 DEF CallStep
<1> QED
  BY <1>7, <1>9, <1>11, <1>12, SoundStep

LEMMA ReplySound ==
    ASSUME SoundInv, NEW d \in Devices, Reply(d)
    PROVE  StepSound
<1> DEFINE l == listener[d]
<1>1. /\ l.pc = "reply" /\ UNCHANGED <<file, calls, sent, clock, got, lost, cut>>
  BY DEF Reply, worldVars
<1>2. /\ Typed /\ l \in Replying /\ l.from \in Devices /\ l.id \in Id /\ l # Idle
      /\ lost' \subseteq Id \X Devices
  BY <1>1, ListenerIs DEF SoundInv, Typed, Replying
<1>3. CASE Busy(d, Idle)
  BY <1>1, <1>2, <1>3, IdleStep, ListenersOnly
<1>4. CASE /\ Accepts(l.from)
           /\ listener' = [listener EXCEPT ![d] = Idle,
                  ![l.from] = Handed(d, l.from, [kind |-> "receipt", id |-> l.id])]
  <2>1. PICK f : f = [kind |-> "receipt", id |-> l.id]
    OBVIOUS
  <2>2. PICK e : e = l.from
    OBVIOUS
  <2>3. e \in Devices /\ e # d /\ f \in Frames /\ FrameSound(e, f)'
    BY <1>2, <1>4, <2>1, <2>2 DEF Frames, FrameSound, Accepts
  <2>4. /\ Handed(d, e, f) \in Listeners /\ Handed(d, e, f) # Down
        /\ (listener'[e] = Handed(d, e, f) => ListenerStep(e))
    BY <2>3, HandedStep
  <2>5. listener' = [listener EXCEPT ![d] = Idle, ![e] = Handed(d, e, f)]
    BY <1>4, <2>1, <2>2
  <2>6. Idle \in Listeners /\ Idle # Down
    BY DEF Listeners, Idle, Down
  <2>7. listener' \in [Devices -> Listeners]
    BY <1>2, <2>3, <2>4, <2>5, <2>6 DEF Typed
  <2>8. listener'[d] = Idle /\ listener'[e] = Handed(d, e, f)
        /\ \A b \in Devices \ {d, e} : listener'[b] = listener[b]
    BY <1>2, <2>3, <2>5 DEF Typed
  <2>9. \A b \in Devices : ListenerStep(b)
    BY <2>4, <2>8 DEF ListenerStep
  <2>10. \A c \in calls : listener'[c.by] # Down
    BY <1>2, <2>4, <2>6, <2>8 DEF SoundInv, CallSound, Up, Typed, Calls
  <2> QED
    BY <1>1, <1>2, <2>7, <2>9, <2>10, ListenersOnly
<1> QED
  BY <1>3, <1>4 DEF Reply

LEMMA FlushSound ==
    ASSUME SoundInv, NEW d \in Devices, NEW due \in SUBSET DOMAIN file[d].pending, Flush(d, due)
    PROVE  StepSound
<1>1. PICK l : l = [pc |-> "flush", base |-> file[d], copy |-> file[d], due |-> due,
                 changed |-> FALSE]
  OBVIOUS
<1>2. /\ UNCHANGED <<file, calls, sent, clock, got, lost, cut>> /\ Busy(d, l)
  BY <1>1 DEF Flush, worldVars
<1>3. Typed /\ file[d] \in Workspaces /\ file[d] \in States(d, FALSE)
  BY DEF SoundInv, Typed, States
<1>4. due \in SUBSET Nat
  BY <1>3 DEF Workspaces
<1>5. l \in Listeners /\ l # Down
  BY <1>1, <1>3, <1>4 DEF Listeners, Flushing, Down
<1>6. Comes(d, file[d])
  BY <1>3, ComesUnchanged
<1>7. listener'[d] = l => ListenerStep(d)
  BY <1>1, <1>2, <1>6 DEF ListenerStep, ListenerSound, Loaded, Comes
<1>8. /\ listener' \in [Devices -> Listeners]
      /\ \A e \in Devices : ListenerStep(e)
      /\ \A c \in calls : listener'[c.by] # Down
  BY <1>2, <1>5, <1>7, BusyStep
<1> QED
  BY <1>2, <1>3, <1>8, ListenersOnly DEF Typed

LEMMA FlushBeginsSound ==
    ASSUME SoundInv, NEW d \in Devices, NEW waited \in BOOLEAN, FlushBegins(d, waited)
    PROVE  StepSound
  BY FlushSound DEF FlushBegins

(* What a listener that flushes has before it *)
LEMMA FlushFacts ==
    ASSUME SoundInv, NEW d \in Devices, listener[d].pc = "flush", NEW i \in listener[d].due
    PROVE  LET l == listener[d]
               p == l.base.pending[i] IN
           /\ l \in Flushing /\ l # Idle /\ l # Down /\ i \in DOMAIN l.base.pending
           /\ l.base \in States(d, FALSE) /\ l.copy \in States(d, FALSE)
           /\ l.base \in Workspaces /\ l.copy \in Workspaces
           /\ Sound(d, l.base) /\ Sound(d, l.copy)
           /\ p \in Pending /\ p.id \in DOMAIN sent /\ p.to \in Devices
           /\ sent[p.id].by = d /\ p.to # d
<1> DEFINE l == listener[d]
<1>1. l \in Flushing /\ l # Idle /\ l # Down /\ l.base \in Workspaces /\ l.copy \in Workspaces
  BY ListenerIs DEF SoundInv, Typed, Flushing
<1>2. /\ l.base \in States(d, FALSE) /\ l.copy \in States(d, FALSE)
      /\ l.base \in States(d, TRUE) /\ l.copy \in States(d, TRUE)
  BY DEF States, Loaded
<1>3. Sound(d, l.base) /\ Sound(d, l.copy) /\ i \in DOMAIN l.base.pending
  BY <1>2 DEF SoundInv, ListenerSound
<1>4. l.base.pending[i] \in Pending
  BY <1>1, <1>3 DEF Workspaces
<1> QED
  BY <1>1, <1>2, <1>3, <1>4 DEF Sound, Pending

(* What the record of a listener that flushes becomes past the entry i.      *)
GoneOn(l, i, copy, changed) ==
    [l EXCEPT !.due = @ \ {i}, !.copy = copy, !.changed = changed]

(* Every way past an entry is one of these, the entry that is kept too: its  *)
(* copy is the one there was.                                                *)
LEMMA FlushOneGoes ==
    ASSUME SoundInv, NEW d \in Devices, FlushOne(d)
    PROVE  LET l == listener[d] IN
           \E i \in l.due :
             LET p == l.base.pending[i] IN
             \/ /\ Busy(d, GoneOn(l, i, RemovePending(l.copy, p), TRUE))
                /\ lost' = lost \cup {<<p.id, p.to>>}
             \/ Busy(d, GoneOn(l, i, l.copy, l.changed)) /\ lost' = lost
             \/ /\ Accepts(p.to)
                /\ listener' =
                     [listener EXCEPT ![d] = GoneOn(l, i, RemovePending(l.copy, p), TRUE),
                                      ![p.to] = Handed(d, p.to, Message(p.id))]
                /\ Drops(d, p.to, p.id)
             \/ Busy(d, GoneOn(l, i, Reschedule(l.copy, p), TRUE)) /\ lost' = lost
<1> DEFINE l == listener[d]
<1>1. l \in Flushing
  BY ListenerIs DEF SoundInv, Typed, FlushOne
<1>2. \A i : [l EXCEPT !.due = @ \ {i}] = GoneOn(l, i, l.copy, l.changed)
  BY <1>1 DEF Flushing, GoneOn
<1> QED
  BY <1>2 DEF FlushOne, GoneOn

(* The listener of d goes on to the next entry with another copy; the        *)
(* listener of e may change meanwhile.                                       *)
LEMMA GoesStep ==
    ASSUME SoundInv, UNCHANGED <<sent, clock>>, NEW d \in Devices, listener[d].pc = "flush",
           NEW i \in listener[d].due, NEW copy \in Workspaces, Comes(d, copy),
           NEW b \in BOOLEAN, NEW next, next = GoneOn(listener[d], i, copy, b)
    PROVE  /\ next \in Listeners /\ next # Down
           /\ listener'[d] = next => ListenerStep(d)
<1> DEFINE l == listener[d]
<1>1. l \in Flushing /\ l.base \in States(d, FALSE)
  BY FlushFacts
<1>2. /\ next \in Flushing /\ next.pc = "flush" /\ next.base = l.base /\ next.copy = copy
      /\ next.due \subseteq l.due
  BY <1>1 DEF Flushing, GoneOn
<1>3. next \in Listeners /\ next # Down
  BY <1>2 DEF Listeners, Down
<1>4. Comes(d, l.base)
  BY <1>1, ComesUnchanged
<1>5. next.due \subseteq DOMAIN next.base.pending
  BY <1>2 DEF SoundInv, ListenerSound
<1>6. listener'[d] = next => ListenerStep(d)
  BY <1>2, <1>4, <1>5 DEF ListenerStep, ListenerSound, Loaded, Comes
<1> QED
  BY <1>3, <1>6

LEMMA FlushOneSound ==
    ASSUME SoundInv, NEW d \in Devices, FlushOne(d)
    PROVE  StepSound
<1> DEFINE l == listener[d]
<1>1. /\ l.pc = "flush" /\ UNCHANGED <<file, calls, sent, clock, got, cut>>
      /\ mixed' = mixed
  BY DEF FlushOne, worldVars
<1>2. PICK i \in l.due :
        LET p == l.base.pending[i] IN
        \/ /\ Busy(d, GoneOn(l, i, RemovePending(l.copy, p), TRUE))
           /\ lost' = lost \cup {<<p.id, p.to>>}
        \/ Busy(d, GoneOn(l, i, l.copy, l.changed)) /\ lost' = lost
        \/ /\ Accepts(p.to)
           /\ listener' =
                [listener EXCEPT ![d] = GoneOn(l, i, RemovePending(l.copy, p), TRUE),
                                 ![p.to] = Handed(d, p.to, Message(p.id))]
           /\ Drops(d, p.to, p.id)
        \/ Busy(d, GoneOn(l, i, Reschedule(l.copy, p), TRUE)) /\ lost' = lost
  BY FlushOneGoes
<1>3. PICK p : p = l.base.pending[i]
  OBVIOUS
<1>4. /\ l # Idle /\ l.copy \in States(d, FALSE) /\ l.copy \in Workspaces /\ Sound(d, l.copy)
      /\ l.changed \in BOOLEAN
      /\ p \in Pending /\ p.id \in DOMAIN sent /\ p.id \in Id /\ p.to \in Devices
      /\ sent[p.id].by = d /\ p.to # d
  BY <1>1, <1>3, FlushFacts DEF Pending, Flushing
<1>5. PICK removed : removed = RemovePending(l.copy, p)
  OBVIOUS
<1>6. removed \in Workspaces /\ Comes(d, removed)
  <2>1. removed \in Workspaces /\ From(d, l.copy, removed)
    BY <1>4, <1>5, RemoveFrom
  <2> QED
    BY <1>4, <2>1, ComesFrom
<1>7. PICK later : later = Reschedule(l.copy, p)
  OBVIOUS
<1>8. later \in Workspaces /\ Comes(d, later)
  <2>1. /\ later \in Workspaces /\ SameTexts(l.copy, later) /\ later.stamp = l.copy.stamp
        /\ Names(later) /\ DOMAIN later.pending = DOMAIN l.copy.pending
        /\ \A j \in DOMAIN later.pending : Same(later.pending[j], l.copy.pending[j])
    BY <1>4, <1>7, RescheduleFacts DEF Sound
  <2>2. From(d, l.copy, later)
    BY <1>4, <2>1 DEF From, TextsFrom, NoticesFrom, QueueFrom, SameTexts, Sound
  <2> QED
    BY <1>4, <2>1, <2>2, ComesFrom
<1>9. l.copy \in Workspaces /\ Comes(d, l.copy)
  BY <1>4, ComesUnchanged
<1>10. lost' \subseteq Id \X Devices
  <2>1. \/ lost' = lost \cup {<<p.id, p.to>>} \/ lost' = lost \/ Drops(d, p.to, p.id)
    BY <1>2, <1>3
  <2> QED
    BY <1>4, <2>1 DEF SoundInv, Typed, Drops
<1>11. ASSUME NEW copy \in Workspaces, Comes(d, copy), NEW b \in BOOLEAN,
              Busy(d, GoneOn(l, i, copy, b))
       PROVE  StepSound
  <2>1. PICK next : next = GoneOn(l, i, copy, b)
    OBVIOUS
  <2>2. next \in Listeners /\ next # Down /\ (listener'[d] = next => ListenerStep(d))
    BY <1>1, <1>11, <2>1, GoesStep
  <2>3. Busy(d, next)
    BY <1>11, <2>1
  <2>4. /\ listener' \in [Devices -> Listeners]
        /\ \A e \in Devices : ListenerStep(e)
        /\ \A c \in calls : listener'[c.by] # Down
    BY <2>2, <2>3, BusyStep
  <2> QED
    BY <1>1, <1>10, <2>4, ListenersOnly
<1>12. CASE \/ Busy(d, GoneOn(l, i, RemovePending(l.copy, p), TRUE))
            \/ Busy(d, GoneOn(l, i, l.copy, l.changed))
            \/ Busy(d, GoneOn(l, i, Reschedule(l.copy, p), TRUE))
  BY <1>4, <1>5, <1>6, <1>7, <1>8, <1>9, <1>11, <1>12
<1>13. CASE /\ Accepts(p.to)
            /\ listener' =
                 [listener EXCEPT ![d] = GoneOn(l, i, RemovePending(l.copy, p), TRUE),
                                  ![p.to] = Handed(d, p.to, Message(p.id))]
  <2>1. PICK e : e = p.to
    OBVIOUS
  <2>2. PICK f : f = Message(p.id)
    OBVIOUS
  <2>3. PICK next : next = GoneOn(l, i, removed, TRUE)
    OBVIOUS
  <2>4. next \in Listeners /\ next # Down /\ (listener'[d] = next => ListenerStep(d))
    BY <1>1, <1>6, <2>3, GoesStep
  <2>5. e \in Devices /\ e # d /\ f \in Frames /\ f.kind \in {"text", "broadcast"} /\ f.id = p.id
    BY <1>4, <2>1, <2>2, MessageFrame, SentFacts DEF SoundInv, Message
  <2>6. FrameSound(e, f)'
    BY <1>1, <1>4, <2>5 DEF FrameSound
  <2>7. /\ Handed(d, e, f) \in Listeners /\ Handed(d, e, f) # Down
        /\ (listener'[e] = Handed(d, e, f) => ListenerStep(e))
    BY <2>5, <2>6, HandedStep
  <2>8. /\ listener' = [listener EXCEPT ![d] = next, ![e] = Handed(d, e, f)]
        /\ listener \in [Devices -> Listeners]
    BY <1>5, <1>13, <2>1, <2>2, <2>3 DEF SoundInv, Typed
  <2>9. /\ listener' \in [Devices -> Listeners]
        /\ listener'[d] = next /\ listener'[e] = Handed(d, e, f)
        /\ \A b \in Devices \ {d, e} : listener'[b] = listener[b]
    BY <2>4, <2>5, <2>7, <2>8
  <2>10. \A b \in Devices : ListenerStep(b)
    BY <2>4, <2>7, <2>9 DEF ListenerStep
  <2>11. \A c \in calls : listener'[c.by] # Down
    BY <2>4, <2>7, <2>9 DEF SoundInv, CallSound, Up, Typed, Calls
  <2> QED
    BY <1>1, <1>10, <2>9, <2>10, <2>11, ListenersOnly
<1> QED
  BY <1>2, <1>3, <1>12, <1>13

LEMMA FlushEndsSound ==
    ASSUME SoundInv, NEW d \in Devices, FlushEnds(d)
    PROVE  StepSound
<1> DEFINE l == listener[d]
<1>1. /\ l.pc = "flush" /\ Busy(d, Idle)
      /\ UNCHANGED <<calls, sent, clock, got, lost, cut>>
      /\ Write(d, l.base, l.copy) \/ file' = file
  BY DEF FlushEnds, worldVars
<1>2. Typed /\ l.copy \in Workspaces /\ l.copy \in States(d, FALSE)
  BY <1>1, ListenerIs DEF SoundInv, Typed, Flushing, States, Loaded
<1>3. file' \in [Devices -> Workspaces] /\ \A e \in Devices : FileStep(e)
  BY <1>1, <1>2, ComesUnchanged, WriteStep DEF FileStep, Typed
<1>4. /\ listener' \in [Devices -> Listeners]
      /\ \A e \in Devices : ListenerStep(e)
      /\ \A c \in calls : listener'[c.by] # Down
  BY <1>1, IdleStep
<1>5. Typed' /\ Grows
  BY <1>1, <1>2, <1>3, <1>4, SentUnchanged DEF Typed
<1>6. \A c \in calls' : CallStep(c)
  BY <1>1, <1>4 DEF CallStep
<1> QED
  BY <1>3, <1>4, <1>5, <1>6, SoundStep

LEMMA StopSound ==
    ASSUME SoundInv, NEW d \in Devices, Stop(d)
    PROVE  StepSound
<1>1. /\ calls' = {c \in calls : c.by # d} /\ Busy(d, Down)
      /\ lost' = (IF listener[d].pc \in {"load", "save"}
                     /\ listener[d].frame.kind \in {"text", "broadcast"}
                  THEN lost \cup {<<listener[d].frame.id, d>>} ELSE lost)
      /\ cut' \subseteq cut \cup (Id \X Devices)
      /\ UNCHANGED <<file, sent, clock, got>>
  BY DEF Stop
<1>2. Typed /\ ListenerSound(d)
  BY DEF SoundInv
<1>3. Down \in Listeners
  BY DEF Listeners
<1>4. lost' \subseteq Id \X Devices
  BY <1>1, <1>2, FrameIds DEF Typed
<1>5. Typed' /\ Grows
  BY <1>1, <1>2, <1>3, <1>4, SentUnchanged DEF Typed, Busy
<1>6. \A e \in Devices : FileStep(e) /\ ListenerStep(e)
  BY <1>1, <1>2 DEF FileStep, ListenerStep, Busy, Typed
<1>7. \A c \in calls' : CallStep(c)
  BY <1>1, <1>2 DEF CallStep, SoundInv, CallSound, Up, Busy, Typed, Calls
<1> QED
  BY <1>5, <1>6, <1>7, SoundStep

LEMMA OtherSound ==
    ASSUME SoundInv, NEW d \in Devices, NEW e \in Devices,
           Start(d) \/ Hang(d) \/ Discover(d, e) \/ Distrust(d, e) \/ UNCHANGED vars
    PROVE  StepSound
<1>1. CASE Start(d)
  BY <1>1, IdleStep, ListenersOnly DEF Start, worldVars, SoundInv, Typed
<1>2. CASE Discover(d, e) \/ Distrust(d, e) \/ UNCHANGED vars
  <2>1. UNCHANGED <<file, calls, listener, sent, clock, got, lost, cut>>
    BY <1>2 DEF Discover, Distrust, vars
  <2>2. \A b \in Devices : ListenerStep(b)
    BY <2>1 DEF ListenerStep
  <2>3. \A c \in calls : listener'[c.by] # Down
    BY <2>1 DEF SoundInv, CallSound, Up
  <2> QED
    BY <2>1, <2>2, <2>3, ListenersOnly DEF SoundInv, Typed
<1>3. CASE Hang(d)
  <2>1. Hung \in Listeners /\ Hung # Down
    BY DEF Listeners, Hung, Down
  <2>2. listener'[d] = Hung => ListenerStep(d)
    BY DEF ListenerStep
  <2> QED
    BY <1>3, <2>1, <2>2, BusyStep, ListenersOnly DEF Hang, worldVars, SoundInv, Typed
<1> QED
  BY <1>1, <1>2, <1>3

LEMMA StepsAreSound ==
    ASSUME SoundInv, [Next]_vars
    PROVE  StepSound
<1>1. CASE UNCHANGED vars
  <2>1. CASE Devices = {}
    <3>1. Typed' /\ Grows
      BY <1>1, SentUnchanged DEF SoundInv, Typed, vars
    <3>2. \A c \in calls' : CallStep(c)
      BY <1>1, <2>1 DEF SoundInv, Typed, Calls, vars
    <3> QED
      BY <2>1, <3>1, <3>2, SoundStep
  <2>2. CASE Devices # {}
    BY <1>1, <2>2, OtherSound
  <2> QED
    BY <2>1, <2>2
<1>2. ASSUME NEW d \in Devices, Call(d) PROVE StepSound
  BY <1>2, CallDeliversSound, CallQueuesSound, CallPassesSound, CallSavesSound, CallSyncsSound
     DEF Call
<1>3. ASSUME NEW d \in Devices, Listen(d) PROVE StepSound
  BY <1>3, HandleSound, StoreSound, ReplySound, FlushBeginsSound, FlushOneSound, FlushEndsSound
     DEF Listen
<1> QED
  BY <1>1, <1>2, <1>3, SendMessageSound, CreateBroadcastSound, StopSound, OtherSound DEF Next

LEMMA SoundInit == Init => SoundInv
<1> SUFFICES ASSUME Init PROVE SoundInv
  OBVIOUS
<1> DEFINE r == [stamp |-> 0, texts |-> <<>>, notices |-> <<>>, pending |-> <<>>, journal |-> <<>>]
<1>1. r \in Workspaces /\ Idle \in Listeners
  BY DEF Workspaces, Listeners
<1>2. Typed
  BY <1>1, MaxSentAssumption DEF Init, Typed
<1>3. \A d \in Devices : ListenerSound(d)
  BY DEF Init, ListenerSound, Idle
<1>4. \A d \in Devices : States(d, TRUE) = {r}
  BY DEF Init, States, Loaded, Idle
<1>5. \A d \in Devices : Sound(d, r)
  BY JournalAssumption DEF Init, Sound, Ids, ToSet, Names
<1> QED
  BY <1>2, <1>3, <1>4, <1>5 DEF Init, SoundInv

LEMMA SoundNext == SoundInv /\ [Next]_vars => SoundInv'
  BY StepsAreSound, SoundKept

LEMMA SoundHolds == Spec => []SoundInv
  BY SoundInit, SoundNext, PTL DEF Spec

(* However calls, listeners and stops interleave, a queue names a message of *)
(* the device itself and another device, once, a journal stays bounded, and  *)
(* so do the copies a call or a listener is about to save.                   *)
THEOREM DeliveryTypeCorrect == Spec => []TypeOK
<1>1. SoundInv => TypeOK
  <2> SUFFICES ASSUME SoundInv PROVE TypeOK
    OBVIOUS
  <2>1. ASSUME NEW r \in Workspaces, NEW d \in Devices, Sound(d, r)
        PROVE  Workspace(r) /\ \A p \in ToSet(r.pending) : sent[p.id].by = d /\ p.to # d
    <3>1. /\ r.stamp \in 0 .. clock /\ r.pending \in Seq(Pending)
          /\ {r.texts, r.notices, r.journal} \subseteq Seq(Id)
      BY <2>1 DEF Workspaces, Sound, SoundInv, Typed
    <3>2. Workspace(r)
      BY <2>1, <3>1 DEF Workspace, Sound, Names
    <3> QED
      BY <2>1, <3>2 DEF Sound, ToSet
  <2>2. ASSUME NEW d \in Devices, NEW r \in States(d, TRUE) PROVE r \in Workspaces /\ Sound(d, r)
    BY <2>2, StatesTyped DEF SoundInv
  <2>3. \A d \in Devices :
          /\ file[d] \in States(d, TRUE)
          /\ listener[d].pc \in {"save", "flush"} => listener[d].copy \in States(d, TRUE)
    BY DEF States, Loaded
  <2>4. \A c \in calls : CallSound(c) /\ c.by \in Devices /\ c.copy \in States(c.by, TRUE)
    BY CallStates DEF SoundInv, Typed, Calls
  <2> QED
    BY <2>1, <2>2, <2>3, <2>4 DEF TypeOK, CallSound, SoundInv, Typed
<1> QED
  BY <1>1, SoundHolds, PTL

-----------------------------------------------------------------------------
(* BroadcastOnce: no state of a workspace shows a broadcast twice, nor does  *)
(* a state on its way to another device.                                     *)
OnceInv ==
    \A d \in Devices :
        /\ \A r \in States(d, TRUE) : IsInjective(r.notices)
        /\ listener[d].pc = "load" /\ listener[d].frame.kind = "sync" =>
             IsInjective(listener[d].frame.notices)

LEMMA AppendOnce ==
    ASSUME NEW S, NEW s \in Seq(S), IsInjective(s), NEW m, m \notin ToSet(s)
    PROVE  IsInjective(Append(s, m))
<1>1. /\ DOMAIN Append(s, m) = 1 .. Len(s) + 1 /\ Append(s, m)[Len(s) + 1] = m
      /\ DOMAIN s = 1 .. Len(s) /\ Len(s) \in Nat
      /\ \A i \in 1 .. Len(s) : Append(s, m)[i] = s[i] /\ s[i] # m
  BY DEF ToSet
<1> QED
  BY <1>1 DEF IsInjective

(* A state that arrives comes from a state of its sender. *)
FrameFrom(e) ==
    listener'[e].pc = "load" /\ listener'[e].frame.kind = "sync" =>
        \/ listener'[e] = listener[e]
        \/ \E d \in Devices : \E r \in States(d, TRUE) :
             listener'[e].frame.texts = r.texts /\ listener'[e].frame.notices = r.notices

LEMMA HandedMessage ==
    ASSUME NEW d, NEW e, NEW f, f.kind # "sync", listener'[e] = Handed(d, e, f)
    PROVE  FrameFrom(e)
  BY DEF FrameFrom, Handed, Idle

LEMMA BusyFrame ==
    ASSUME Typed, NEW d \in Devices, NEW next, next.pc # "load", Busy(d, next),
           NEW e \in Devices
    PROVE  FrameFrom(e)
  BY DEF FrameFrom, Busy, Typed

LEMMA MessageKind ==
    ASSUME Typed, NEW m \in DOMAIN sent
    PROVE  Message(m).kind # "sync"
  BY SentFacts DEF Message

LEMMA FramesFrom ==
    ASSUME SoundInv, [Next]_vars, NEW e \in Devices
    PROVE  FrameFrom(e)
<1>1. Typed
  BY DEF SoundInv
<1>2. CASE listener' = listener
  BY <1>2 DEF FrameFrom
<1>3. ASSUME NEW d \in Devices, NEW c \in calls, c.by = d, CallDelivers(c) PROVE FrameFrom(e)
  <2>1. PICK b \in c.to : listener' = [listener EXCEPT ![b] = Handed(d, b, Message(c.id))]
    BY <1>3 DEF CallDelivers
  <2>2. c.id \in DOMAIN sent
    BY DEF SoundInv, CallSound
  <2> QED
    <3>1. PICK f : f = Message(c.id)
      OBVIOUS
    <3>2. f.kind # "sync"
      BY <1>1, <2>2, <3>1, MessageKind
    <3>3. listener'[e] = Handed(d, e, f) \/ listener'[e] = listener[e]
      BY <1>1, <2>1, <3>1 DEF Typed
    <3> QED
      BY <3>2, <3>3, HandedMessage DEF FrameFrom
<1>4. ASSUME NEW d \in Devices, NEW c \in calls, c.by = d, CallSyncs(c) PROVE FrameFrom(e)
  <2>1. PICK f : f = [kind |-> "sync", stamp |-> c.copy.stamp,
                      texts |-> c.copy.texts, notices |-> c.copy.notices]
    OBVIOUS
  <2>2. CASE \E b \in c.to : listener' = [listener EXCEPT ![b] = Handed(d, b, f)]
    <3>1. PICK b \in c.to : listener' = [listener EXCEPT ![b] = Handed(d, b, f)]
      BY <2>2
    <3>2. c.copy \in States(d, TRUE)
      BY <1>4, CallStates
    <3>3. CASE b = e
      <4>1. listener'[e] = Idle \/ listener'[e].frame = f
        BY <1>1, <3>1, <3>3 DEF Handed, Typed
      <4> QED
        <5>1. CASE listener'[e] = Idle
          BY <5>1 DEF FrameFrom, Idle
        <5>2. CASE listener'[e].frame = f
          <6>1. f.texts = c.copy.texts /\ f.notices = c.copy.notices
            BY <2>1
          <6> QED
            BY <3>2, <5>2, <6>1 DEF FrameFrom
        <5> QED
          BY <4>1, <5>1, <5>2
    <3>4. CASE b # e
      BY <1>1, <3>1, <3>4 DEF FrameFrom, Typed
    <3> QED
      BY <3>3, <3>4
  <2> QED
    BY <1>2, <1>4, <2>1, <2>2 DEF CallSyncs
<1>5. ASSUME NEW d \in Devices, Reply(d) PROVE FrameFrom(e)
  <2>1. CASE Busy(d, Idle)
    BY <1>1, <2>1, BusyFrame DEF Idle
  <2>2. CASE listener' = [listener EXCEPT ![d] = Idle, ![listener[d].from] =
                  Handed(d, listener[d].from, [kind |-> "receipt", id |-> listener[d].id])]
    <3>1. PICK f : f = [kind |-> "receipt", id |-> listener[d].id]
      OBVIOUS
    <3>2. PICK b : b = listener[d].from
      OBVIOUS
    <3>3. listener'[e] = Handed(d, e, f) \/ listener'[e] = Idle \/ listener'[e] = listener[e]
      BY <1>1, <2>2, <3>1, <3>2 DEF Typed
    <3> QED
      <4>1. CASE listener'[e] = Handed(d, e, f)
        <5>1. f.kind # "sync"
          BY <3>1
        <5> QED
          BY <4>1, <5>1, HandedMessage
      <4>2. CASE listener'[e] = Idle
        BY <4>2 DEF FrameFrom, Idle
      <4>3. CASE listener'[e] = listener[e]
        BY <4>3 DEF FrameFrom
      <4> QED
        BY <3>3, <4>1, <4>2, <4>3
  <2> QED
    BY <1>5, <2>1, <2>2 DEF Reply
<1>6. ASSUME NEW d \in Devices, FlushOne(d) PROVE FrameFrom(e)
  <2> DEFINE l == listener[d]
  <2>1. PICK i \in l.due : \E copy, b :
          \/ Busy(d, GoneOn(l, i, copy, b))
          \/ listener' = [listener EXCEPT ![d] = GoneOn(l, i, copy, b),
                 ![l.base.pending[i].to] =
                     Handed(d, l.base.pending[i].to, Message(l.base.pending[i].id))]
    BY <1>6, FlushOneGoes
  <2>2. l \in Flushing /\ l.base.pending[i].id \in DOMAIN sent
    BY <1>6, FlushFacts DEF FlushOne
  <2>3. PICK next : /\ \E copy, b : next = GoneOn(l, i, copy, b)
                    /\ \/ Busy(d, next)
                       \/ listener' = [listener EXCEPT ![d] = next,
                              ![l.base.pending[i].to] =
                                  Handed(d, l.base.pending[i].to, Message(l.base.pending[i].id))]
    BY <2>1
  <2>4. next.pc = "flush"
    BY <2>2, <2>3 DEF Flushing, GoneOn
  <2>5. CASE Busy(d, next)
    BY <1>1, <2>4, <2>5, BusyFrame
  <2>6. CASE listener' = [listener EXCEPT ![d] = next, ![l.base.pending[i].to] =
                     Handed(d, l.base.pending[i].to, Message(l.base.pending[i].id))]
    <3>1. PICK f : f = Message(l.base.pending[i].id)
      OBVIOUS
    <3>2. f.kind # "sync"
      BY <1>1, <2>2, <3>1, MessageKind
    <3>3. listener'[e] = Handed(d, e, f) \/ listener'[e] = next \/ listener'[e] = listener[e]
      BY <1>1, <2>6, <3>1 DEF Typed
    <3> QED
      BY <2>4, <3>2, <3>3, HandedMessage DEF FrameFrom
  <2> QED
    BY <2>3, <2>5, <2>6
<1>7. ASSUME NEW d \in Devices, Handle(d) PROVE FrameFrom(e)
  <2>1. PICK next : Busy(d, next) /\ next.pc # "load"
    BY <1>7 DEF Handle, HandleFrame, Discard, HandleText, HandleBroadcast, HandleReceipt,
                HandleSync, Hold, Idle
  <2> QED
    BY <1>1, <2>1, BusyFrame
<1>8. ASSUME NEW d \in Devices,
             Store(d) \/ (\E waited \in BOOLEAN : FlushBegins(d, waited)) \/ FlushEnds(d)
             \/ Stop(d) \/ Start(d) \/ Hang(d)
      PROVE  FrameFrom(e)
  <2>1. PICK next : Busy(d, next) /\ next.pc # "load"
    <3>1. CASE Store(d)
      BY <3>1 DEF Store, Idle
    <3>2. CASE \E waited \in BOOLEAN : FlushBegins(d, waited)
      BY <3>2 DEF FlushBegins, Flush
    <3>3. CASE FlushEnds(d) \/ Stop(d) \/ Start(d) \/ Hang(d)
      <4>1. Busy(d, Idle) \/ Busy(d, Down) \/ Busy(d, Hung)
        BY <3>3 DEF FlushEnds, Stop, Start, Hang
      <4> QED
        BY <4>1 DEF Idle, Down, Hung
    <3> QED
      BY <1>8, <3>1, <3>2, <3>3
  <2> QED
    BY <1>1, <2>1, BusyFrame
<1>9. ASSUME NEW d \in Devices, NEW b \in Devices,
             SendMessage(d) \/ CreateBroadcast(d) \/ Discover(d, b) \/ Distrust(d, b)
             \/ (\E c \in calls : CallQueues(c) \/ CallPasses(c) \/ CallSaves(c))
             \/ UNCHANGED vars
      PROVE  FrameFrom(e)
  BY <1>2, <1>9 DEF SendMessage, CreateBroadcast, Begin, Discover, Distrust, CallQueues,
                    CallPasses, CallSaves, vars
<1> QED
  BY <1>2, <1>3, <1>4, <1>5, <1>6, <1>7, <1>8, <1>9 DEF Next, Call, Listen, vars

LEMMA OnceInit == Init => OnceInv
  BY DEF Init, OnceInv, States, Loaded, Idle, IsInjective

LEMMA OnceNext ==
    ASSUME SoundInv, OnceInv, [Next]_vars
    PROVE  OnceInv'
<1>1. StepSound
  BY StepsAreSound
<1>2. ASSUME NEW d \in Devices, NEW r, r \in States(d, TRUE)' PROVE IsInjective(r.notices)
  <2>1. PICK q \in States(d, TRUE) : From(d, q, r) \/ TakesOver(d, q, r)
    BY <1>1, <1>2 DEF StepSound, Evolves, Derives
  <2>2. q \in Workspaces /\ IsInjective(q.notices)
    BY StatesTyped DEF SoundInv, OnceInv
  <2>3. CASE From(d, q, r)
    <3>1. q.notices \in Seq(Id)
      BY <2>2 DEF Workspaces
    <3> QED
      BY <2>2, <2>3, <3>1, AppendOnce DEF From, NoticesFrom
  <2>4. CASE TakesOver(d, q, r)
    BY <2>4 DEF TakesOver, OnceInv
  <2> QED
    BY <2>1, <2>3, <2>4
<1>3. ASSUME NEW e \in Devices, listener'[e].pc = "load", listener'[e].frame.kind = "sync"
      PROVE  IsInjective(listener'[e].frame.notices)
  BY <1>3, FramesFrom DEF FrameFrom, OnceInv
<1> QED
  BY <1>2, <1>3 DEF OnceInv

(* A broadcast arrives by envelope, by retry and with the state of its author*)
(* or of anyone who passes on a state: no device ever shows it twice.        *)
THEOREM BroadcastsShownOnce == Spec => []BroadcastOnce
<1>1. OnceInv => BroadcastOnce
  BY DEF OnceInv, BroadcastOnce, States
<1>2. OnceInv /\ SoundInv /\ [Next]_vars => OnceInv'
  BY OnceNext
<1> QED
  BY <1>1, <1>2, OnceInit, SoundHolds, PTL DEF Spec

-----------------------------------------------------------------------------
(* TextOnce needs to know how far back the journal reaches.  It holds ids of *)
(* others, each once, in the order in which the texts are shown: a text of   *)
(* another is still in it, or JournalSize texts are shown after it; and after*)
(* the text of its k-th id, as many at least as it has ids after k.          *)
Own(d) == {m \in DOMAIN sent : sent[m].by = d}
Apart(own, r) ==
    /\ \A k \in DOMAIN r.journal : r.journal[k] \notin own
    /\ \A i \in DOMAIN r.texts :
         r.texts[i] \notin own =>
             r.texts[i] \in ToSet(r.journal) \/ Len(r.texts) - i >= JournalSize
    /\ \A i \in DOMAIN r.texts : \A k \in DOMAIN r.journal :
         r.texts[i] = r.journal[k] => Len(r.texts) - i >= Len(r.journal) - k
    /\ \A i, j \in DOMAIN r.texts :
         i < j /\ r.texts[i] = r.texts[j] => j - i > JournalSize
ApartInv == \A d \in Devices \ mixed : \A r \in States(d, FALSE) : Apart(Own(d), r)

LEMMA ApartReceives ==
    ASSUME NEW q \in Workspaces, NEW r \in Workspaces, NEW own, Apart(own, q),
           NEW m \in Id, m \notin own, m \notin ToSet(q.journal),
           r.texts = Append(q.texts, m), Journaled(q.journal, r.journal, m)
    PROVE  Apart(own, r)
<1> DEFINE n == Len(q.texts)
           J == Len(q.journal)
<1>1. /\ n \in Nat /\ J \in Nat /\ JournalSize \in Nat
      /\ DOMAIN q.texts = 1 .. n /\ DOMAIN q.journal = 1 .. J
      /\ DOMAIN r.texts = 1 .. n + 1 /\ Len(r.texts) = n + 1
      /\ r.texts[n + 1] = m /\ \A i \in 1 .. n : r.texts[i] = q.texts[i]
  BY JournalAssumption DEF Workspaces
<1>2. PICK s \in {0, 1} :
        /\ Len(r.journal) = J + 1 - s
        /\ s = 1 => J >= JournalSize
        /\ \A k \in 1 .. Len(r.journal) :
             r.journal[k] = IF k + s = J + 1 THEN m ELSE q.journal[k + s]
  BY DEF Journaled
<1>3. DOMAIN r.journal = 1 .. J + 1 - s /\ J + 1 - s \in Nat
  BY <1>1, <1>2 DEF Workspaces
<1>4. \A k \in 1 .. J + 1 - s : k + s = J + 1 \/ k + s \in 1 .. J
  BY <1>1
<1>5. \A k \in 1 .. J : q.journal[k] # m
  BY <1>1 DEF ToSet
<1>6. J + 1 - s \in 1 .. J + 1 - s => r.journal[J + 1 - s] = m
  <2>1. (J + 1 - s) + s = J + 1
    BY <1>1
  <2> QED
    BY <1>2, <2>1
<1>7. \A k \in DOMAIN r.journal : r.journal[k] \notin own
  <2> SUFFICES ASSUME NEW k \in 1 .. J + 1 - s PROVE r.journal[k] \notin own
    BY <1>3
  <2>1. r.journal[k] = m \/ (k + s \in 1 .. J /\ r.journal[k] = q.journal[k + s])
    BY <1>1, <1>2, <1>3, <1>4
  <2> QED
    BY <1>1, <2>1 DEF Apart
<1>8. ASSUME NEW i \in 1 .. n + 1, NEW k \in DOMAIN r.journal, r.texts[i] = r.journal[k]
      PROVE  Len(r.texts) - i >= Len(r.journal) - k
  <2>1. CASE k + s = J + 1
    <3>1. Len(r.journal) - k = 0 /\ Len(r.texts) - i >= 0
      BY <1>1, <1>2, <1>3, <2>1
    <3> QED
      BY <3>1
  <2>2. CASE k + s \in 1 .. J
    <3>1. r.journal[k] = q.journal[k + s] /\ q.journal[k + s] # m
      BY <1>1, <1>2, <1>3, <1>5, <2>2
    <3>2. i \in 1 .. n /\ q.texts[i] = q.journal[k + s]
      BY <1>1, <1>8, <3>1
    <3>3. n - i >= J - (k + s)
      BY <1>1, <2>2, <3>2 DEF Apart
    <3> QED
      BY <1>1, <1>2, <1>3, <3>2, <3>3
  <2> QED
    BY <1>3, <1>4, <2>1, <2>2
<1>9. ASSUME NEW i \in 1 .. n + 1, r.texts[i] \notin own
      PROVE  r.texts[i] \in ToSet(r.journal) \/ Len(r.texts) - i >= JournalSize
  <2>1. CASE r.texts[i] = m
    <3>1. CASE J + 1 - s \in 1 .. J + 1 - s
      BY <1>3, <1>6, <2>1, <3>1 DEF ToSet
    <3>2. CASE J + 1 - s = 0
      <4>1. FALSE
        BY <1>1, <1>2, <3>2, JournalAssumption
      <4> QED
        BY <4>1
    <3> QED
      BY <1>3, <3>1, <3>2
  <2>2. CASE r.texts[i] # m
    <3>1. i \in 1 .. n /\ r.texts[i] = q.texts[i]
      BY <1>1, <2>2
    <3>2. CASE n - i >= JournalSize
      BY <1>1, <3>1, <3>2
    <3>3. ASSUME NEW k \in 1 .. J, q.texts[i] = q.journal[k]
          PROVE  r.texts[i] \in ToSet(r.journal) \/ Len(r.texts) - i >= JournalSize
      <4>1. CASE k - s \in 1 .. J + 1 - s
        <5>1. r.journal[k - s] = q.journal[k]
          BY <1>1, <1>2, <4>1
        <5> QED
          BY <1>3, <3>1, <3>3, <4>1, <5>1 DEF ToSet
      <4>2. CASE k - s \notin 1 .. J + 1 - s
        <5>1. k = 1 /\ s = 1
          BY <1>1, <4>2
        <5>2. n - i >= J - 1
          BY <1>1, <3>1, <3>3, <5>1 DEF Apart
        <5> QED
          BY <1>1, <1>2, <3>1, <5>1, <5>2
      <4> QED
        BY <4>1, <4>2
    <3>4. q.texts[i] \in ToSet(q.journal) \/ n - i >= JournalSize
      BY <1>1, <1>9, <3>1 DEF Apart
    <3> QED
      BY <1>1, <3>2, <3>3, <3>4 DEF ToSet
  <2> QED
    BY <2>1, <2>2
<1>10. ASSUME NEW i \in 1 .. n + 1, NEW j \in 1 .. n + 1, i < j, r.texts[i] = r.texts[j]
       PROVE  j - i > JournalSize
  <2>1. i \in 1 .. n /\ r.texts[i] = q.texts[i]
    BY <1>1, <1>10
  <2>2. CASE j = n + 1
    <3>1. q.texts[i] = m
      BY <1>1, <1>10, <2>1, <2>2
    <3>2. n - i >= JournalSize
      BY <1>1, <2>1, <3>1 DEF Apart
    <3> QED
      BY <1>1, <2>1, <2>2, <3>2
  <2>3. CASE j # n + 1
    <3>1. j \in 1 .. n /\ q.texts[i] = q.texts[j]
      <4>1. j \in 1 .. n
        BY <1>1, <2>3
      <4> QED
        BY <1>1, <1>10, <2>1, <4>1
    <3> QED
      BY <1>1, <1>10, <2>1, <3>1 DEF Apart
  <2> QED
    BY <2>2, <2>3
<1> QED
  BY <1>1, <1>7, <1>8, <1>9, <1>10 DEF Apart

LEMMA ApartSends ==
    ASSUME NEW q \in Workspaces, NEW r \in Workspaces, NEW own, Apart(own, q),
           NEW m \in Id, m \in own, m \notin ToSet(q.texts),
           r.texts = Append(q.texts, m), r.journal = q.journal
    PROVE  Apart(own, r)
<1> DEFINE n == Len(q.texts)
           J == Len(q.journal)
<1>1. /\ n \in Nat /\ J \in Nat /\ JournalSize \in Nat
      /\ DOMAIN q.texts = 1 .. n /\ DOMAIN q.journal = 1 .. J
      /\ DOMAIN r.texts = 1 .. n + 1 /\ Len(r.texts) = n + 1
      /\ r.texts[n + 1] = m /\ \A i \in 1 .. n : r.texts[i] = q.texts[i] /\ q.texts[i] # m
  BY JournalAssumption DEF Workspaces, ToSet
<1>2. \A k \in DOMAIN q.journal : q.journal[k] # m
  BY DEF Apart
<1>3. \A i \in 1 .. n + 1 : i = n + 1 \/ i \in 1 .. n
  BY <1>1
<1>4. ASSUME NEW i \in 1 .. n + 1, r.texts[i] \notin own
      PROVE  r.texts[i] \in ToSet(q.journal) \/ n + 1 - i >= JournalSize
  <2>1. i \in 1 .. n /\ r.texts[i] = q.texts[i]
    BY <1>1, <1>3, <1>4
  <2>2. q.texts[i] \in ToSet(q.journal) \/ n - i >= JournalSize
    BY <1>1, <1>4, <2>1 DEF Apart
  <2> QED
    BY <1>1, <2>1, <2>2
<1>5. ASSUME NEW i \in 1 .. n + 1, NEW k \in 1 .. J, r.texts[i] = q.journal[k]
      PROVE  n + 1 - i >= J - k
  <2>1. i \in 1 .. n /\ q.texts[i] = q.journal[k]
    BY <1>1, <1>2, <1>3, <1>5
  <2>2. n - i >= J - k
    BY <1>1, <2>1 DEF Apart
  <2> QED
    BY <1>1, <2>1, <2>2
<1>6. ASSUME NEW i \in 1 .. n + 1, NEW j \in 1 .. n + 1, i < j, r.texts[i] = r.texts[j]
      PROVE  j - i > JournalSize
  <2>1. i \in 1 .. n /\ j \in 1 .. n
    BY <1>1, <1>3, <1>6
  <2> QED
    BY <1>1, <1>6, <2>1 DEF Apart
<1>7. \A k \in 1 .. J : r.journal[k] \notin own
  BY <1>1 DEF Apart
<1>8. /\ DOMAIN r.journal = 1 .. J /\ Len(r.journal) = J /\ ToSet(r.journal) = ToSet(q.journal)
  BY <1>1
<1>9. \A i \in DOMAIN r.texts : \A k \in DOMAIN r.journal :
         r.texts[i] = r.journal[k] => Len(r.texts) - i >= Len(r.journal) - k
  <2> SUFFICES ASSUME NEW i \in 1 .. n + 1, NEW k \in 1 .. J, r.texts[i] = r.journal[k]
               PROVE  Len(r.texts) - i >= Len(r.journal) - k
    BY <1>1, <1>8
  <2>1. n + 1 - i >= J - k
    BY <1>5
  <2> HIDE DEF n, J
  <2> QED
    BY <1>1, <1>8, <2>1
<1>10. \A i \in DOMAIN r.texts :
         r.texts[i] \notin own =>
             r.texts[i] \in ToSet(r.journal) \/ Len(r.texts) - i >= JournalSize
  BY <1>1, <1>4, <1>8
<1> HIDE DEF n, J
<1>11. \A k \in DOMAIN r.journal : r.journal[k] \notin own
  BY <1>7, <1>8
<1>12. \A i, j \in DOMAIN r.texts : i < j /\ r.texts[i] = r.texts[j] => j - i > JournalSize
  BY <1>1, <1>6
<1> QED
  BY <1>9, <1>10, <1>11, <1>12 DEF Apart

LEMMA MixedGrows ==
    ASSUME [Next]_vars
    PROVE  mixed \subseteq mixed'
<1>1. ASSUME NEW d \in Devices,
             Listen(d) \/ Call(d) \/ SendMessage(d) \/ CreateBroadcast(d)
             \/ Stop(d) \/ Start(d) \/ Hang(d)
      PROVE  mixed \subseteq mixed'
  BY <1>1 DEF Listen, Handle, HandleFrame, Discard, Store, Reply, FlushBegins, Flush, FlushOne,
              FlushEnds, Call, CallDelivers, CallQueues, CallPasses, CallSaves, CallSyncs,
              SendMessage, CreateBroadcast, Begin, Stop, Start, Hang
<1>2. ASSUME NEW d \in Devices, NEW e \in Devices, Discover(d, e) \/ Distrust(d, e)
      PROVE  mixed \subseteq mixed'
  BY <1>2 DEF Discover, Distrust
<1> QED
  BY <1>1, <1>2 DEF Next, vars

LEMMA ApartInit == Init => ApartInv
  BY DEF Init, ApartInv, States, Loaded, Idle, Apart, ToSet

(* Apart says the same when only ids that a state does not show are added.   *)
LEMMA ApartStays ==
    ASSUME NEW q, NEW own, NEW more, Apart(own, q), own \subseteq more,
           (ToSet(q.texts) \cup ToSet(q.journal)) \cap more \subseteq own
    PROVE  Apart(more, q)
  BY DEF Apart, ToSet

LEMMA ApartNext ==
    ASSUME SoundInv, ApartInv, [Next]_vars
    PROVE  ApartInv'
<1>1. StepSound /\ mixed \subseteq mixed'
  BY StepsAreSound, MixedGrows
<1> SUFFICES ASSUME NEW d \in Devices, d \notin mixed', NEW r, r \in States(d, FALSE)'
             PROVE  Apart(Own(d)', r)
  BY DEF ApartInv
<1>2. PICK q \in States(d, FALSE) : From(d, q, r)
  BY <1>1 DEF StepSound, Evolves, Derives
<1>3. Sound(d, q) /\ q \in Workspaces /\ r \in Workspaces
  <2>1. States(d, FALSE)' \subseteq Workspaces
    <3>1. (Typed => AllWorkspaces)'
      BY StatesAreWorkspaces, PTL
    <3> QED
      BY <1>1, <3>1 DEF StepSound, AllWorkspaces, States, Loaded
  <2> QED
    BY <2>1, StatesTyped DEF SoundInv
<1>4. PICK own, more : own = Own(d) /\ more = Own(d)'
  OBVIOUS
<1>5. /\ own \subseteq more /\ more \cap DOMAIN sent = own /\ Typed /\ Typed'
      /\ DOMAIN sent \subseteq Id /\ DOMAIN sent' \subseteq Id
  <2>1. Typed /\ Typed' /\ Grows
    BY <1>1 DEF StepSound, SoundInv
  <2>2. DOMAIN sent \subseteq DOMAIN sent' /\ DOMAIN sent' \subseteq Id
    BY <2>1, MaxSentAssumption DEF Typed, Grows, Id
  <2> QED
    BY <1>4, <2>1, <2>2 DEF Own, Grows
<1>6. ToSet(q.texts) \cup ToSet(q.journal) \subseteq DOMAIN sent
  BY <1>3 DEF Sound, Ids
<1>7. Apart(more, q)
  <2>1. Apart(own, q)
    BY <1>1, <1>2, <1>4 DEF ApartInv
  <2> QED
    BY <1>5, <1>6, <2>1, ApartStays
<1>8. CASE r.texts = q.texts /\ r.journal = q.journal
  BY <1>4, <1>7, <1>8 DEF Apart
<1>9. CASE /\ r.texts = Append(q.texts, Len(sent) + 1) /\ r.journal = q.journal
           /\ Len(sent') = Len(sent) + 1 /\ sent'[Len(sent) + 1].by = d
  <2>1. /\ Len(sent) + 1 \in more /\ Len(sent) + 1 \notin ToSet(q.texts) /\ Len(sent) + 1 \in Id
    <3>1. /\ DOMAIN sent = 1 .. Len(sent) /\ DOMAIN sent' = 1 .. Len(sent) + 1
          /\ Len(sent) \in Nat
      BY <1>5, <1>9 DEF Typed
    <3> QED
      BY <1>4, <1>5, <1>6, <1>9, <3>1 DEF Own
  <2> QED
    BY <1>3, <1>4, <1>7, <1>9, <2>1, ApartSends
<1>10. ASSUME NEW m \in DOMAIN sent, sent[m].by # d, m \notin ToSet(q.journal),
              r.texts = Append(q.texts, m), Journaled(q.journal, r.journal, m)
       PROVE  Apart(more, r)
  <2>1. m \notin more /\ m \in Id
    BY <1>4, <1>5, <1>10 DEF Own
  <2> QED
    BY <1>3, <1>7, <1>10, <2>1, ApartReceives
<1> QED
  BY <1>2, <1>4, <1>8, <1>9, <1>10 DEF From, TextsFrom

(* Whatever is retried, and whoever stops: a device that takes over no states*)
(* shows a text again only after JournalSize others.                         *)
THEOREM TextsShownOnce == Spec => []TextOnce
<1>1. ApartInv => TextOnce
  BY DEF ApartInv, TextOnce, States, Apart
<1>2. ApartInv /\ SoundInv /\ [Next]_vars => ApartInv'
  BY ApartNext
<1> QED
  BY <1>1, <1>2, ApartInit, SoundHolds, PTL DEF Spec

-----------------------------------------------------------------------------
(* NothingForgotten.  A message that arrives at e stays arrived: it is with  *)
(* the listener of e until e has stored or lost it, or e has it already.     *)
Arriving(m, e) ==
    \/ <<m, e>> \in got \cup lost
    \/ listener[e].pc \in {"load", "save"} /\ listener[e].frame = Message(m)
JournalGot(d, r) == \A m \in ToSet(r.journal) : <<m, d>> \in got

LEMMA HistoriesGrow ==
    ASSUME [Next]_vars
    PROVE  got \subseteq got' /\ lost \subseteq lost' /\ cut \subseteq cut'
           /\ overlapped \subseteq overlapped'
<1>1. ASSUME NEW d \in Devices,
             Listen(d) \/ Call(d) \/ SendMessage(d) \/ CreateBroadcast(d)
             \/ Stop(d) \/ Start(d) \/ Hang(d)
      PROVE  got \subseteq got' /\ lost \subseteq lost' /\ cut \subseteq cut'
             /\ overlapped \subseteq overlapped'
  BY <1>1 DEF Listen, Handle, HandleFrame, Discard, Store, Write, Reply, FlushBegins, Flush,
              FlushOne, FlushEnds, Call, CallDelivers, CallQueues, CallPasses, CallSaves,
              CallSyncs, Drops, SendMessage, CreateBroadcast, Begin, Stop, Start, Hang, worldVars
<1>2. ASSUME NEW d \in Devices, NEW e \in Devices, Discover(d, e) \/ Distrust(d, e)
      PROVE  got \subseteq got' /\ lost \subseteq lost' /\ cut \subseteq cut'
             /\ overlapped \subseteq overlapped'
  BY <1>2 DEF Discover, Distrust
<1> QED
  BY <1>1, <1>2 DEF Next, vars

(* A listener that has a frame leaves it only by its own steps or a stop. *)
LEMMA ListenerMoves ==
    ASSUME SoundInv, [Next]_vars, NEW e \in Devices, listener[e].pc \in {"load", "save"}
    PROVE  listener'[e] = listener[e] \/ Handle(e) \/ Store(e) \/ Stop(e)
<1>1. listener \in [Devices -> Listeners] /\ listener[e] # Idle /\ listener[e] # Down
  BY DEF SoundInv, Typed, Idle, Down
<1>2. ASSUME NEW d \in Devices, NEW next, Busy(d, next), d # e
      PROVE  listener'[e] = listener[e]
  BY <1>1, <1>2 DEF Busy
<1>3. ASSUME NEW d \in Devices, NEW c \in calls, CallDelivers(c) \/ CallSyncs(c)
      PROVE  listener'[e] = listener[e]
  BY <1>1, <1>3 DEF CallDelivers, CallSyncs, Accepts
<1>4. ASSUME NEW d \in Devices, Reply(d)
      PROVE  listener'[e] = listener[e]
  <2>1. d # e
    BY <1>4 DEF Reply
  <2> QED
    BY <1>1, <1>2, <1>4, <2>1 DEF Reply, Accepts
<1>5. ASSUME NEW d \in Devices, FlushOne(d)
      PROVE  listener'[e] = listener[e]
  <2>1. d # e
    BY <1>5 DEF FlushOne
  <2> QED
    BY <1>1, <1>2, <1>5, <2>1 DEF FlushOne, Accepts
<1>6. ASSUME NEW d \in Devices,
             (\E waited \in BOOLEAN : FlushBegins(d, waited)) \/ FlushEnds(d) \/ Start(d) \/ Hang(d)
      PROVE  listener'[e] = listener[e]
  <2>1. d # e /\ \E next : Busy(d, next)
    BY <1>1, <1>6 DEF FlushBegins, Flush, FlushEnds, Start, Hang, Accepts, Up
  <2> QED
    BY <1>2, <2>1
<1>7. ASSUME NEW d \in Devices, Handle(d) \/ Store(d) \/ Stop(d), d # e
      PROVE  listener'[e] = listener[e]
  <2>1. \E next : Busy(d, next)
    BY <1>7 DEF Handle, HandleFrame, Discard, HandleText, HandleBroadcast, HandleReceipt,
                HandleSync, Hold, Store, Stop
  <2> QED
    BY <1>2, <1>7, <2>1
<1>8. ASSUME NEW d \in Devices, NEW b \in Devices,
             SendMessage(d) \/ CreateBroadcast(d) \/ Discover(d, b) \/ Distrust(d, b)
             \/ (\E c \in calls : CallQueues(c) \/ CallPasses(c) \/ CallSaves(c))
      PROVE  listener'[e] = listener[e]
  BY <1>8 DEF SendMessage, CreateBroadcast, Begin, Discover, Distrust, CallQueues,
              CallPasses, CallSaves
<1> QED
  BY <1>3, <1>4, <1>5, <1>6, <1>7, <1>8 DEF Next, Call, Listen, vars

LEMMA ArrivingStays ==
    ASSUME SoundInv, [Next]_vars, NEW m \in DOMAIN sent, NEW e \in Devices,
           JournalGot(e, file[e]), Arriving(m, e)
    PROVE  Arriving(m, e)'
<1>1. got \subseteq got' /\ lost \subseteq lost'
  BY HistoriesGrow
<1>2. Typed /\ Grows /\ DOMAIN sent = 1 .. Len(sent) /\ Len(sent) \in Nat
  BY StepsAreSound, SentFacts DEF StepSound, SoundInv
<1>3. PICK f : f = Message(m)
  OBVIOUS
<1>4. f = Message(m)' /\ f.id = m /\ f.kind \in {"text", "broadcast"}
  BY <1>2, <1>3, SentFacts DEF Message, Grows
<1>5. CASE <<m, e>> \in got \cup lost
  BY <1>1, <1>5 DEF Arriving
<1>6. CASE listener[e].pc \in {"load", "save"} /\ listener[e].frame = f
  <2>1. CASE listener'[e] = listener[e]
    BY <1>4, <1>6, <2>1 DEF Arriving
  <2>2. CASE HandleFrame(e)
    <3>1. \/ <<m, e>> \in got
          \/ \E copy, then : Hold(e, copy, then)
      BY <1>4, <1>6, <2>2 DEF HandleFrame, HandleText, HandleBroadcast, Received, JournalGot
    <3>2. CASE \E copy, then : Hold(e, copy, then)
      <4>1. listener'[e].pc = "save" /\ listener'[e].frame = f
        BY <1>2, <1>6, <3>2 DEF Hold, Busy, Typed
      <4> QED
        BY <1>4, <4>1 DEF Arriving
    <3> QED
      BY <1>1, <3>1, <3>2 DEF Arriving
  <2>3. CASE Store(e)
    BY <1>4, <1>6, <2>3 DEF Store, Arriving
  <2>4. CASE Stop(e)
    BY <1>4, <1>6, <2>4 DEF Stop, Arriving
  <2>5. CASE Discard(e)
    BY <1>4, <1>6, <2>5 DEF Discard, Arriving
  <2> QED
    BY <1>6, <2>1, <2>2, <2>3, <2>4, <2>5, ListenerMoves DEF Handle
<1> QED
  BY <1>3, <1>5, <1>6 DEF Arriving

-----------------------------------------------------------------------------
(* What a write may forget.  A copy that is saved has every entry of the     *)
(* state it was computed from, but for messages that have arrived.  A call   *)
(* that sends holds every recipient its message has not reached.  A receipt, *)
(* and an id in a journal, say that the message was stored.  And what the    *)
(* author may not have decided on, a message of a call that sends or was cut,*)
(* is in no state of the author but that call's own copy.                    *)
Covers(base, copy) ==
    \A i \in DOMAIN base.pending :
        LET p == base.pending[i] IN Queued(copy, p) \/ Arriving(p.id, p.to)
Undecided(d) ==
    {m \in DOMAIN sent : /\ sent[m].by = d
                         /\ \/ \E c \in calls : c.id = m /\ c.pc = "send"
                            \/ \E e \in Devices : <<m, e>> \in cut}
Hidden(d, r) == Shown(r) \cap Undecided(d) = {}

FileKept(d) ==
    /\ JournalGot(d, file[d])
    /\ d \notin mixed => Hidden(d, file[d])
CallKept(c) ==
    /\ JournalGot(c.by, c.copy)
    /\ Covers(c.base, c.copy)
    /\ c.pc = "send" => \A e \in Others(c.by) : Holds(c, e) \/ Arriving(c.id, e)
    /\ c.by \notin mixed => Shown(c.copy) \cap Undecided(c.by) \subseteq {c.id}
    /\ \A e \in Devices : <<c.id, e>> \notin cut
ListenerKept(d) ==
    LET l == listener[d] IN
    /\ l.pc = "load" /\ l.frame.kind = "receipt" => <<l.frame.id, l.from>> \in got
    /\ l.pc = "reply" => <<l.id, d>> \in got
    /\ l.pc \in {"save", "flush"} =>
         /\ Covers(l.base, l.copy)
         /\ \A m \in ToSet(l.copy.journal) :
              <<m, d>> \in got \/ (l.pc = "save" /\ l.frame.kind = "text" /\ l.frame.id = m)
         /\ d \notin mixed => \A r \in Loaded(l, FALSE) : Hidden(d, r)
KeptInv ==
    /\ \A d \in Devices : FileKept(d) /\ ListenerKept(d)
    /\ \A c \in calls : CallKept(c)
    /\ \A b, c \in calls : b.id = c.id => b = c
    /\ \A x \in cut : x[1] \in DOMAIN sent

(* What keeps these facts in a step *)
ArriveStep ==
    \A m \in DOMAIN sent, e \in Devices : Arriving(m, e) => Arriving(m, e)'
DecideStep ==
    \A d \in Devices : Undecided(d)' \cap DOMAIN sent \subseteq Undecided(d)
KeepStep ==
    /\ Typed /\ Typed' /\ Grows /\ ArriveStep /\ DecideStep
    /\ got \subseteq got' /\ mixed \subseteq mixed'

LEMMA CoversStays ==
    ASSUME KeepStep, NEW d \in Devices, NEW base \in Workspaces, Sound(d, base), NEW copy,
           Covers(base, copy)
    PROVE  Covers(base, copy)'
<1>1. \A i \in DOMAIN base.pending :
         base.pending[i].id \in DOMAIN sent /\ base.pending[i].to \in Devices
  <2>1. \A i \in DOMAIN base.pending : base.pending[i] \in Pending
    BY DEF Workspaces
  <2> QED
    BY <2>1 DEF Sound, Pending
<1> QED
  BY <1>1 DEF Covers, KeepStep, ArriveStep

LEMMA HiddenStays ==
    ASSUME KeepStep, NEW d \in Devices, NEW r, Sound(d, r), Hidden(d, r)
    PROVE  Hidden(d, r)'
<1>1. Shown(r) \subseteq DOMAIN sent
  BY DEF Sound, Ids, Shown
<1> QED
  BY <1>1 DEF Hidden, KeepStep, DecideStep

FilePlace(d) == file'[d] = file[d] \/ FileKept(d)'
CallPlace(c) ==
    \/ c \in calls /\ \A e \in Devices : <<c.id, e>> \in cut' => <<c.id, e>> \in cut
    \/ CallKept(c)'
ListenerPlace(d) ==
    listener'[d] \in {listener[d], Idle, Down, Hung} \/ ListenerKept(d)'

Places ==
    /\ \A d \in Devices : FilePlace(d) /\ ListenerPlace(d)
    /\ \A c \in calls' : CallPlace(c)
    /\ \A b, c \in calls' : b.id = c.id => b = c

LEMMA KeptStep ==
    ASSUME SoundInv, KeptInv, KeepStep, Places, \A x \in cut' : x[1] \in DOMAIN sent'
    PROVE  KeptInv'
<1>1. ASSUME NEW d \in Devices PROVE FileKept(d)'
  <2>1. CASE file'[d] = file[d]
    <3>1. PICK r : r = file[d]
      OBVIOUS
    <3>2. Sound(d, r)
      BY <3>1 DEF SoundInv, States
    <3>3. d \notin mixed' => Hidden(d, r)'
      BY <3>1, <3>2, HiddenStays DEF KeepStep, KeptInv, FileKept
    <3> QED
      BY <2>1, <3>1, <3>3 DEF FileKept, KeptInv, KeepStep, JournalGot, Hidden, Shown
  <2> QED
    BY <2>1 DEF FilePlace, Places
<1>2. ASSUME NEW c \in calls' PROVE CallKept(c)'
  <2>1. CASE c \in calls /\ \A e \in Devices : <<c.id, e>> \in cut' => <<c.id, e>> \in cut
    <3>1. /\ CallKept(c) /\ CallSound(c) /\ c \in Calls /\ c.by \in Devices /\ c.base \in Workspaces
          /\ Sound(c.by, c.base) /\ Sound(c.by, c.copy)
      BY <2>1, CallStates DEF KeptInv, SoundInv, Typed, Calls
    <3>2. JournalGot(c.by, c.copy)' /\ Covers(c.base, c.copy)'
      BY <3>1, CoversStays DEF CallKept, JournalGot, KeepStep
    <3>3. c.pc = "send" => \A e \in Others(c.by) : Holds(c, e) \/ Arriving(c.id, e)'
      BY <3>1 DEF CallKept, KeepStep, ArriveStep, CallSound, Others
    <3>4. c.by \notin mixed' => Shown(c.copy) \cap Undecided(c.by)' \subseteq {c.id}
      <4>1. Shown(c.copy) \subseteq DOMAIN sent
        BY <3>1 DEF Sound, Ids, Shown
      <4> QED
        BY <3>1, <4>1 DEF CallKept, KeepStep, DecideStep
    <3>5. \A e \in Devices : <<c.id, e>> \notin cut'
      BY <2>1, <3>1 DEF CallKept
    <3> QED
      BY <3>2, <3>3, <3>4, <3>5 DEF CallKept, Holds, Queued, Shown
  <2> QED
    BY <2>1 DEF CallPlace, Places
<1>3. ASSUME NEW d \in Devices PROVE ListenerKept(d)'
  <2>1. CASE listener'[d] = listener[d]
    <3>1. PICK l : l = listener[d]
      OBVIOUS
    <3>2. listener'[d] = l /\ l \in Listeners /\ ListenerKept(d)
      BY <2>1, <3>1 DEF KeptInv, SoundInv, Typed
    <3>3. l.pc = "load" /\ l.frame.kind = "receipt" => <<l.frame.id, l.from>> \in got'
      BY <3>1, <3>2 DEF ListenerKept, KeepStep
    <3>4. l.pc = "reply" => <<l.id, d>> \in got'
      BY <3>1, <3>2 DEF ListenerKept, KeepStep
    <3>5. ASSUME l.pc \in {"save", "flush"}
          PROVE  /\ Covers(l.base, l.copy)'
                 /\ \A m \in ToSet(l.copy.journal) :
                      <<m, d>> \in got' \/ (l.pc = "save" /\ l.frame.kind = "text" /\ l.frame.id = m)
                 /\ d \notin mixed' => \A r \in Loaded(l, FALSE) : Hidden(d, r)'
      <4>1. l.base \in Workspaces /\ Sound(d, l.base) /\ Sound(d, l.copy)
        <5>1. l.base \in States(d, TRUE) /\ l.copy \in States(d, TRUE)
          BY <3>1, <3>5 DEF States, Loaded
        <5> QED
          BY <5>1, StatesTyped DEF SoundInv
      <4>2. Covers(l.base, l.copy)'
        BY <3>1, <3>2, <3>5, <4>1, CoversStays DEF ListenerKept
      <4>4. \A r \in Loaded(l, FALSE) : Sound(d, r)
        BY <4>1 DEF Loaded
      <4>5. d \notin mixed' => \A r \in Loaded(l, FALSE) : Hidden(d, r)'
        BY <3>1, <3>2, <3>5, <4>4, HiddenStays DEF ListenerKept, KeepStep
      <4> QED
        BY <3>1, <3>2, <3>5, <4>2, <4>5 DEF ListenerKept, KeepStep
    <3> QED
      BY <3>2, <3>3, <3>4, <3>5 DEF ListenerKept, Covers, Hidden
  <2>2. CASE listener'[d] \in {Idle, Down, Hung}
    <3>1. listener'[d].pc \in {"idle", "down", "hung"}
      BY <2>2 DEF Idle, Down, Hung
    <3> QED
      BY <3>1 DEF ListenerKept
  <2> QED
    BY <2>1, <2>2 DEF ListenerPlace, Places
<1> QED
  BY <1>1, <1>2, <1>3 DEF KeptInv, Places

(* Where the calls and the messages that were cut come from *)
CallsFrom ==
    \A c \in calls' : c.pc = "send" =>
        c \in calls \/ c.id \notin DOMAIN sent \/ \E b \in calls : b.id = c.id /\ b.pc = "send"
CutFrom ==
    \A x \in cut' : x \in cut \/ \E c \in calls : c.id = x[1] /\ c.pc = "send" /\ x[2] \in Devices

LEMMA CallsComeFrom ==
    ASSUME SoundInv, [Next]_vars
    PROVE  CallsFrom /\ CutFrom
<1>1. CASE calls' \subseteq calls /\ cut' = cut
  BY <1>1 DEF CallsFrom, CutFrom
<1>2. ASSUME NEW d \in Devices, SendMessage(d) \/ CreateBroadcast(d) PROVE CallsFrom /\ CutFrom
  <2>1. PICK kind, copy : Begin(d, kind, copy)
    BY <1>2 DEF SendMessage, CreateBroadcast
  <2>2. PICK n : n = Len(sent')
    OBVIOUS
  <2>3. n \notin DOMAIN sent
    BY <2>1, <2>2, SentFacts DEF Begin, SoundInv, Typed
  <2>4. PICK c : calls' = calls \cup {c} /\ c.id = n
    <3>1. PICK c : c = [by |-> d, id |-> n, pc |-> "send", to |-> Others(d),
                        base |-> file[d], copy |-> copy]
      OBVIOUS
    <3> QED
      BY <2>1, <2>2, <3>1 DEF Begin
  <2>5. cut' = cut
    BY <2>1 DEF Begin
  <2> QED
    BY <2>3, <2>4, <2>5 DEF CallsFrom, CutFrom
<1>3. ASSUME NEW c \in calls,
             CallDelivers(c) \/ CallQueues(c) \/ CallPasses(c) \/ CallSaves(c) \/ CallSyncs(c)
      PROVE  CallsFrom /\ CutFrom
  <2>1. c \in Calls
    BY DEF SoundInv, Typed
  <2>2. CASE \E next : Continue(c, next) /\ (next.pc = "sync" \/ (next.id = c.id /\ c.pc = "send"))
             /\ cut' = cut
    BY <2>2 DEF Continue, CallsFrom, CutFrom
  <2>3. CASE CallDelivers(c)
    BY <2>1, <2>2, <2>3 DEF CallDelivers, Calls, worldVars
  <2>4. CASE CallQueues(c)
    BY <2>1, <2>2, <2>4 DEF CallQueues, Calls, worldVars
  <2>5. CASE CallPasses(c)
    BY <2>1, <2>2, <2>5 DEF CallPasses, Calls, worldVars
  <2>6. CASE CallSaves(c)
    BY <1>1, <2>1, <2>2, <2>6 DEF CallSaves, Calls, worldVars
  <2>7. CASE CallSyncs(c)
    BY <1>1, <2>1, <2>2, <2>7 DEF CallSyncs, Calls, worldVars
  <2> QED
    BY <1>3, <2>3, <2>4, <2>5, <2>6, <2>7
<1>4. ASSUME NEW d \in Devices, Stop(d) PROVE CallsFrom /\ CutFrom
  BY <1>4 DEF Stop, Holds, CallsFrom, CutFrom
<1>5. ASSUME NEW d \in Devices, NEW e \in Devices,
             Listen(d) \/ Start(d) \/ Hang(d) \/ Discover(d, e) \/ Distrust(d, e)
      PROVE  CallsFrom /\ CutFrom
  BY <1>1, <1>5 DEF Listen, Handle, HandleFrame, Discard, Store, Reply, FlushBegins, Flush,
                    FlushOne, FlushEnds, Start, Hang, Discover, Distrust, worldVars
<1>6. CASE UNCHANGED vars
  BY <1>1, <1>6 DEF vars
<1> QED
  BY <1>2, <1>3, <1>4, <1>5, <1>6 DEF Next, Call

LEMMA StepsKeep ==
    ASSUME SoundInv, KeptInv, [Next]_vars
    PROVE  KeepStep /\ \A x \in cut' : x[1] \in DOMAIN sent'
<1>1. Typed /\ Typed' /\ Grows
  BY StepsAreSound DEF StepSound, SoundInv
<1>2. ArriveStep
  BY ArrivingStays DEF ArriveStep, KeptInv, FileKept
<1>3. CallsFrom /\ CutFrom
  BY CallsComeFrom
<1>4. \A c \in calls : c.id \in DOMAIN sent
  BY DEF SoundInv, CallSound
<1>5. DecideStep
  <2> SUFFICES ASSUME NEW d \in Devices, NEW m \in DOMAIN sent, m \in Undecided(d)'
               PROVE  m \in Undecided(d)
    BY DEF DecideStep
  <2>1. sent[m].by = d
    BY <1>1 DEF Undecided, Grows
  <2>2. CASE \E c \in calls' : c.id = m /\ c.pc = "send"
    BY <1>3, <2>1, <2>2 DEF CallsFrom, Undecided
  <2>3. CASE \E e \in Devices : <<m, e>> \in cut'
    <3>1. PICK e \in Devices : <<m, e>> \in cut'
      BY <2>3
    <3>2. <<m, e>> \in cut \/ \E c \in calls : c.id = m /\ c.pc = "send"
      BY <1>3, <3>1 DEF CutFrom
    <3> QED
      BY <2>1, <3>2 DEF Undecided
  <2> QED
    BY <2>2, <2>3 DEF Undecided
<1>6. \A x \in cut' : x[1] \in DOMAIN sent'
  <2>1. DOMAIN sent \subseteq DOMAIN sent'
    BY <1>1, SentFacts DEF Typed, Grows
  <2> QED
    BY <1>3, <1>4, <2>1 DEF CutFrom, KeptInv
<1> QED
  BY <1>1, <1>2, <1>5, <1>6, HistoriesGrow, MixedGrows DEF KeepStep


(* What was decided, or is held by a call, stays so: an entry that leaves the*)
(* queue has arrived, or a write was undone; what a call holds goes into the *)
(* file, to the recipient, or is cut.                                        *)
Covered ==
    /\ \A d \in Devices \ overlapped', x \in Pending :
         Queued(file[d], x) => Queued(file'[d], x) \/ Arriving(x.id, x.to)'
    /\ \A c \in calls : \A e \in Others(c.by) : Holds(c, e) =>
         \/ \E b \in calls' : b.id = c.id /\ Holds(b, e)
         \/ Arriving(c.id, e)' \/ <<c.id, e>> \in cut'
         \/ Queued(file'[c.by], Entry(c.id, e)) \/ c.by \in overlapped'
Fine == Places /\ Covered

(* The listeners alone *)
LEMMA ListenersFine ==
    ASSUME KeptInv, UNCHANGED <<file, calls, cut>>, \A d \in Devices : ListenerPlace(d)
    PROVE  Fine
<1>1. Covered
  BY DEF Covered, Holds, Queued
<1>2. \A d \in Devices : FilePlace(d)
  BY DEF FilePlace
<1>3. \A c \in calls' : CallPlace(c)
  BY DEF CallPlace
<1>4. \A b, c \in calls' : b.id = c.id => b = c
  BY DEF KeptInv
<1> QED
  BY <1>1, <1>2, <1>3, <1>4 DEF Fine, Places

LEMMA BusyPlace ==
    ASSUME SoundInv, NEW d \in Devices, NEW next, Busy(d, next),
           listener'[d] = next => ListenerPlace(d)
    PROVE  \A e \in Devices : ListenerPlace(e)
  BY DEF SoundInv, Typed, Busy, ListenerPlace

LEMMA HandedPlace ==
    ASSUME NEW d \in Devices, NEW e \in Devices, NEW f, listener'[e] = Handed(d, e, f),
           f.kind = "receipt" => <<f.id, d>> \in got'
    PROVE  ListenerPlace(e)
<1>1. CASE listener'[e] = [pc |-> "load", from |-> d, frame |-> f]
  BY <1>1 DEF ListenerPlace, ListenerKept
<1>2. CASE listener'[e] = Idle
  BY <1>2 DEF ListenerPlace
<1> QED
  BY <1>1, <1>2 DEF Handed

(* What holds of the file of d holds of another state with the same texts,   *)
(* and of one that shows one more of another device.                         *)
LEMMA ShownHidden ==
    ASSUME KeepStep, NEW d \in Devices, NEW q, NEW r, Sound(d, q), Hidden(d, q),
           \A m \in Shown(r) : m \in Shown(q) \/ sent'[m].by # d
    PROVE  Hidden(d, r)'
<1>1. Hidden(d, q)'
  BY HiddenStays
<1> QED
  BY <1>1 DEF Hidden, Undecided, Shown

LEMMA SameCovers ==
    ASSUME NEW q, NEW r, r.pending = q.pending
    PROVE  Covers(q, r)'
  BY DEF Covers, Queued, Same

(* The listener holds a copy of its file. *)
LEMMA HoldFine ==
    ASSUME SoundInv, KeptInv, UNCHANGED <<file, calls, cut>>, NEW d \in Devices,
           listener[d].pc = "load", NEW copy, NEW then, Hold(d, copy, then),
           Covers(file[d], copy)',
           \A m \in ToSet(copy.journal) :
               <<m, d>> \in got' \/ (listener[d].frame.kind = "text" /\ listener[d].frame.id = m),
           d \notin mixed' =>
               /\ Hidden(d, file[d])'
               /\ listener[d].frame.kind # "sync" => Hidden(d, copy)'
    PROVE  Fine
<1>1. PICK l : l = [pc |-> "save", from |-> listener[d].from, frame |-> listener[d].frame,
                    base |-> file[d], copy |-> copy, then |-> then]
  OBVIOUS
<1>2. Busy(d, l)
  BY <1>1 DEF Hold
<1>3. PICK q : q = file[d]
  OBVIOUS
<1>4. /\ l.pc = "save" /\ l.frame = listener[d].frame /\ l.base = q /\ l.copy = copy
      /\ Covers(q, copy)' /\ (d \notin mixed' => Hidden(d, q)')
  BY <1>1, <1>3 DEF Covers, Hidden
<1>5. ASSUME listener'[d] = l PROVE ListenerPlace(d)
  <2>1. d \notin mixed' => \A r \in Loaded(l, FALSE) : Hidden(d, r)'
    BY <1>4 DEF Loaded
  <2>2. ListenerKept(d)'
    BY <1>4, <1>5, <2>1 DEF ListenerKept, Covers, Hidden
  <2> QED
    BY <2>2 DEF ListenerPlace
<1> QED
  BY <1>2, <1>5, BusyPlace, ListenersFine

LEMMA HandleFrameFine ==
    ASSUME SoundInv, KeptInv, KeepStep, NEW d \in Devices, HandleFrame(d)
    PROVE  Fine
<1>1. /\ listener[d].pc = "load" /\ UNCHANGED <<file, calls, sent, got, lost, cut, mixed>>
  BY DEF HandleFrame, worldVars
<1>2. PICK l : l = listener[d]
  OBVIOUS
<1>3. PICK f : f = l.frame
  OBVIOUS
<1>4. PICK q : q = file[d]
  OBVIOUS
<1>5. /\ l \in Loading /\ FrameSound(d, f) /\ f \in Frames /\ l.from \in Devices
      /\ q \in Workspaces /\ Sound(d, q) /\ Typed
  <2>1. q \in States(d, TRUE) /\ listener[d] \in Listeners
    BY <1>4 DEF States, SoundInv, Typed
  <2> QED
    BY <1>1, <1>2, <1>3, <1>4, <2>1, ListenerIs DEF SoundInv, Typed, ListenerSound, Loading
<1>6. /\ \A m \in ToSet(q.journal) : <<m, d>> \in got'
      /\ d \notin mixed' => Hidden(d, q) /\ Hidden(d, q)'
  BY <1>1, <1>4, <1>5, HiddenStays DEF KeptInv, FileKept, JournalGot
<1>7. ASSUME Busy(d, Idle) PROVE Fine
  BY <1>1, <1>7, BusyPlace, ListenersFine DEF ListenerPlace
<1>8. ASSUME NEW copy, NEW then, Hold(d, copy, then), Covers(q, copy)',
             \A m \in ToSet(copy.journal) :
                 m \in ToSet(q.journal) \/ (f.kind = "text" /\ f.id = m),
             f.kind # "sync" => \A m \in Shown(copy) : m \in Shown(q) \/ sent'[m].by # d
      PROVE  Fine
  <2>1. Covers(file[d], copy)' /\ (d \notin mixed' => Hidden(d, file[d])')
    BY <1>1, <1>4, <1>6, <1>8 DEF Covers, Hidden
  <2>2. d \notin mixed' /\ f.kind # "sync" => Hidden(d, copy)'
    BY <1>5, <1>6, <1>8, ShownHidden
  <2> QED
    BY <1>1, <1>2, <1>3, <1>6, <1>8, <2>1, <2>2, HoldFine
<1>9. CASE f.kind = "text" /\ HandleText(d, f.id)
  <2>1. CASE Received(q, f.id)
    BY <1>4, <1>7, <1>9, <2>1 DEF HandleText
  <2>2. CASE ~Received(q, f.id)
    <3>1. PICK s : s = Append(q.texts, f.id)
      OBVIOUS
    <3>2. PICK t : t = [q EXCEPT !.texts = s, !.stamp = clock + 1]
      OBVIOUS
    <3>3. PICK r : r = MarkReceived(t, f.id)
      OBVIOUS
    <3>4. Hold(d, r, "reply")
      BY <1>4, <1>9, <2>2, <3>1, <3>2, <3>3 DEF HandleText
    <3>5. f.id \in DOMAIN sent /\ f.id \in Id /\ sent[f.id].by # d
      BY <1>5, <1>9, SentFacts DEF FrameSound
    <3>6. s \in Seq(Id) /\ clock + 1 \in Nat /\ ToSet(s) = ToSet(q.texts) \cup {f.id}
      <4>1. q.texts \in Seq(Id) /\ clock \in Nat
        BY <1>5, SentFacts DEF Workspaces
      <4> QED
        BY <3>1, <3>5, <4>1, AppendIds
    <3>7. /\ t \in Workspaces /\ t.texts = s /\ t.notices = q.notices
          /\ t.pending = q.pending /\ t.journal = q.journal
      BY <1>5, <3>2, <3>6 DEF Workspaces
    <3>8. /\ r \in Workspaces /\ r.texts = s /\ r.notices = q.notices /\ r.pending = q.pending
          /\ Journaled(q.journal, r.journal, f.id)
      BY <1>5, <3>3, <3>5, <3>7, MarkReceivedFacts DEF Sound
    <3>9. ToSet(r.journal) \subseteq ToSet(q.journal) \cup {f.id}
      BY <1>5, <3>8, JournaledIds DEF Workspaces
    <3>10. Shown(r) = Shown(q) \cup {f.id}
      BY <3>6, <3>8 DEF Shown
    <3>11. Covers(q, r)'
      BY <3>8, SameCovers
    <3> QED
      BY <1>1, <1>8, <1>9, <3>4, <3>5, <3>9, <3>10, <3>11
  <2> QED
    BY <2>1, <2>2
<1>10. CASE f.kind = "broadcast" /\ HandleBroadcast(d, f.id)
  <2>1. PICK r : r = ReceiveBroadcast(q, f.id)
    OBVIOUS
  <2>2. Hold(d, r, "idle")
    BY <1>4, <1>10, <2>1 DEF HandleBroadcast
  <2>3. f.id \in DOMAIN sent /\ f.id \in Id /\ sent[f.id].by # d
    BY <1>5, <1>10, SentFacts DEF FrameSound
  <2>4. /\ r.pending = q.pending /\ r.journal = q.journal
        /\ Shown(r) \subseteq Shown(q) \cup {f.id}
    <3>1. CASE f.id \in ToSet(q.notices)
      BY <2>1, <3>1 DEF ReceiveBroadcast
    <3>2. CASE f.id \notin ToSet(q.notices)
      <4>1. PICK s : s = Append(q.notices, f.id)
        OBVIOUS
      <4>2. r = [q EXCEPT !.notices = s] /\ ToSet(s) = ToSet(q.notices) \cup {f.id}
        BY <1>5, <2>1, <2>3, <3>2, <4>1, AppendIds DEF ReceiveBroadcast, Workspaces
      <4>3. /\ r.pending = q.pending /\ r.journal = q.journal /\ r.texts = q.texts
            /\ r.notices = s
        BY <1>5, <4>2 DEF Workspaces
      <4> QED
        BY <4>2, <4>3 DEF Shown
    <3> QED
      BY <3>1, <3>2
  <2>5. Covers(q, r)'
    BY <2>4, SameCovers
  <2> QED
    BY <1>1, <1>8, <1>10, <2>2, <2>3, <2>4, <2>5
<1>11. CASE f.kind = "receipt" /\ HandleReceipt(d, f.id)
  <2>1. PICK p : p = Entry(f.id, l.from)
    OBVIOUS
  <2>2. p \in Pending /\ p.id = f.id /\ p.to = l.from
    BY <1>5, <1>11, <2>1 DEF Entry, Pending, Frames
  <2>3. <<f.id, l.from>> \in got'
    BY <1>1, <1>2, <1>3, <1>11 DEF KeptInv, ListenerKept
  <2>4. CASE Queued(q, p)
    <3>1. PICK t : t = RemovePending(q, p)
      OBVIOUS
    <3>2. PICK r : r = [t EXCEPT !.stamp = clock + 1]
      OBVIOUS
    <3>3. Hold(d, r, "idle")
      BY <1>2, <1>4, <1>11, <2>1, <2>4, <3>1, <3>2 DEF HandleReceipt
    <3>4. /\ t \in Workspaces /\ SameTexts(q, t)
          /\ \A x \in Pending : Queued(t, x) <=> Queued(q, x) /\ ~Same(x, p)
      BY <1>5, <2>2, <3>1, RemoveFacts DEF Sound
    <3>5. r.pending = t.pending /\ SameTexts(q, r)
      BY <3>2, <3>4 DEF Workspaces, SameTexts
    <3>6. Covers(q, r)'
      <4> SUFFICES ASSUME NEW i \in DOMAIN q.pending
                   PROVE  Queued(r, q.pending[i]) \/ Arriving(q.pending[i].id, q.pending[i].to)'
        BY DEF Covers, Queued
      <4>1. q.pending[i] \in Pending /\ Queued(q, q.pending[i])
        BY <1>5 DEF Workspaces, Queued, Same
      <4>2. CASE Same(q.pending[i], p)
        BY <2>2, <2>3, <4>2 DEF Same, Arriving
      <4>3. CASE ~Same(q.pending[i], p)
        BY <3>4, <3>5, <4>1, <4>3 DEF Queued
      <4> QED
        BY <4>2, <4>3
    <3> QED
      BY <1>8, <1>11, <3>3, <3>5, <3>6 DEF SameTexts, Shown
  <2>5. CASE ~Queued(q, p)
    BY <1>2, <1>4, <1>7, <1>11, <2>1, <2>5 DEF HandleReceipt
  <2> QED
    BY <2>4, <2>5
<1>12. CASE f.kind = "sync" /\ HandleSync(d, f)
  <2>1. CASE Hold(d, q, "idle")
    <3>1. Covers(q, q)'
      BY SameCovers
    <3> QED
      BY <1>8, <1>12, <2>1, <3>1
  <2>2. CASE Busy(d, Idle)
    BY <1>7, <2>2
  <2>3. CASE Hold(d, [q EXCEPT !.stamp = f.stamp, !.texts = f.texts, !.notices = f.notices], "idle")
    <3>1. PICK r : r = [q EXCEPT !.stamp = f.stamp, !.texts = f.texts, !.notices = f.notices]
      OBVIOUS
    <3>2. r.pending = q.pending /\ r.journal = q.journal
      BY <1>5, <3>1 DEF Workspaces
    <3>3. Covers(q, r)'
      BY <3>2, SameCovers
    <3> QED
      BY <1>8, <1>12, <2>3, <3>1, <3>2, <3>3
  <2> QED
    BY <1>4, <1>12, <2>1, <2>2, <2>3 DEF HandleSync
<1> QED
  BY <1>2, <1>3, <1>9, <1>10, <1>11, <1>12 DEF HandleFrame

LEMMA HandleFine ==
    ASSUME SoundInv, KeptInv, KeepStep, NEW d \in Devices, Handle(d)
    PROVE  Fine
<1>1. CASE Discard(d)
  BY <1>1, BusyPlace, ListenersFine DEF Discard, worldVars, ListenerPlace
<1> QED
  BY <1>1, HandleFrameFine DEF Handle

(* A write of d *)
LEMMA WriteCovers ==
    ASSUME SoundInv, NEW d \in Devices, NEW base \in Workspaces, NEW r, Write(d, base, r),
           Covers(base, r)'
    PROVE  \A b \in Devices \ overlapped', x \in Pending :
               Queued(file[b], x) => Queued(file'[b], x) \/ Arriving(x.id, x.to)'
<1> SUFFICES ASSUME NEW b \in Devices \ overlapped', NEW x \in Pending, Queued(file[b], x)
             PROVE  Queued(file'[b], x) \/ Arriving(x.id, x.to)'
  OBVIOUS
<1>1. /\ file \in [Devices -> Workspaces]
      /\ file' = [file EXCEPT ![d] = r] \/ file' = file
  BY DEF SoundInv, Typed, Write
<1>2. CASE b # d \/ file' = file
  BY <1>1, <1>2
<1>3. CASE b = d /\ file' # file
  <2>1. file[d] = base
    BY <1>3 DEF Write
  <2>2. PICK i \in DOMAIN base.pending : Same(base.pending[i], x)
    BY <1>3, <2>1 DEF Queued
  <2>3. Queued(r, base.pending[i]) \/ Arriving(base.pending[i].id, base.pending[i].to)'
    BY DEF Covers, Queued
  <2> QED
    BY <1>1, <1>3, <2>2, <2>3 DEF Queued, Same
<1> QED
  BY <1>2, <1>3

LEMMA WritePlace ==
    ASSUME SoundInv, NEW d \in Devices, NEW base, NEW r, Write(d, base, r),
           JournalGot(d, r)', d \notin mixed' => Hidden(d, r)'
    PROVE  \A b \in Devices : FilePlace(b)
<1>1. /\ file \in [Devices -> Workspaces]
      /\ file' = [file EXCEPT ![d] = r] \/ file' = file
  BY DEF SoundInv, Typed, Write
<1>2. file'[d] = r \/ file' = file
  BY <1>1
<1>3. file'[d] = r => FileKept(d)'
  BY DEF FileKept, JournalGot, Hidden
<1> QED
  BY <1>1, <1>2, <1>3 DEF FilePlace

LEMMA WriteFine ==
    ASSUME SoundInv, KeptInv, UNCHANGED <<calls, cut>>, NEW d \in Devices,
           NEW base \in Workspaces, NEW r, Write(d, base, r), Covers(base, r)',
           JournalGot(d, r)', d \notin mixed' => Hidden(d, r)',
           \A e \in Devices : ListenerPlace(e)
    PROVE  Fine
<1>1. Covered
  BY WriteCovers DEF Covered, Holds, Queued
<1>2. \A e \in Devices : FilePlace(e)
  BY WritePlace
<1>3. \A c \in calls' : CallPlace(c)
  BY DEF CallPlace
<1>4. \A b, c \in calls' : b.id = c.id => b = c
  BY DEF KeptInv
<1> QED
  BY <1>1, <1>2, <1>3, <1>4 DEF Fine, Places

(* What the copy of a listener has when it is saved *)
LEMMA CopyFacts ==
    ASSUME SoundInv, KeptInv, KeepStep, NEW d \in Devices, NEW l, l = listener[d],
           l.pc \in {"save", "flush"}
    PROVE  /\ l.base \in Workspaces /\ l.copy \in Workspaces
           /\ Sound(d, l.base) /\ Sound(d, l.copy)
           /\ Covers(l.base, l.copy)'
           /\ d \notin mixed' => \A r \in Loaded(l, FALSE) : Hidden(d, r)'
<1>2. /\ l.base \in Workspaces /\ l.copy \in Workspaces
      /\ Sound(d, l.base) /\ Sound(d, l.copy)
  <2>1. l.base \in States(d, TRUE) /\ l.copy \in States(d, TRUE)
    BY DEF States, Loaded
  <2> QED
    BY <2>1, StatesTyped DEF SoundInv
<1>3. Covers(l.base, l.copy)'
  BY <1>2, CoversStays DEF KeptInv, ListenerKept
<1>4. ASSUME d \notin mixed', NEW r \in Loaded(l, FALSE) PROVE Hidden(d, r)'
  <2>1. Hidden(d, r)
    BY <1>4 DEF KeptInv, ListenerKept, KeepStep
  <2>2. Sound(d, r)
    BY <1>2, <1>4 DEF Loaded
  <2> QED
    BY <2>1, <2>2, HiddenStays
<1> QED
  BY <1>2, <1>3, <1>4

LEMMA StoreFine ==
    ASSUME SoundInv, KeptInv, KeepStep, NEW d \in Devices, Store(d)
    PROVE  Fine
<1>1. PICK l : l = listener[d]
  OBVIOUS
<1>2. /\ l.pc = "save" /\ Write(d, l.base, l.copy)
      /\ got' = (IF l.frame.kind \in {"text", "broadcast"} THEN got \cup {<<l.frame.id, d>>} ELSE got)
      /\ l.frame.kind = "sync" /\ l.copy # l.base => d \in mixed'
      /\ UNCHANGED <<calls, cut>>
  BY <1>1 DEF Store, worldVars
<1>3. /\ l.base \in Workspaces /\ Covers(l.base, l.copy)'
      /\ d \notin mixed' => \A r \in Loaded(l, FALSE) : Hidden(d, r)'
  BY <1>1, <1>2, CopyFacts
<1>4. PICK copy : copy = l.copy
  OBVIOUS
<1>5. JournalGot(d, copy)'
  BY <1>1, <1>2, <1>4 DEF KeptInv, ListenerKept, JournalGot, KeepStep
<1>6. d \notin mixed' => Hidden(d, copy)'
  <2>1. d \notin mixed' => copy \in Loaded(l, FALSE)
    BY <1>2, <1>4 DEF Loaded
  <2> QED
    BY <1>3, <2>1
<1>7. PICK next : next = IF l.then = "reply"
                         THEN [pc |-> "reply", from |-> l.from, id |-> l.frame.id] ELSE Idle
  OBVIOUS
<1>8. Busy(d, next)
  BY <1>1, <1>7 DEF Store
<1>9. ASSUME listener'[d] = next PROVE ListenerPlace(d)
  <2>1. CASE l.then = "reply"
    <3>1. l.frame.kind = "text"
      BY <1>1, <1>2, <2>1 DEF SoundInv, ListenerSound
    <3>2. <<l.frame.id, d>> \in got'
      BY <1>2, <3>1
    <3> QED
      BY <1>7, <1>9, <2>1, <3>2 DEF ListenerPlace, ListenerKept
  <2>2. CASE l.then # "reply"
    BY <1>7, <1>9, <2>2 DEF ListenerPlace
  <2> QED
    BY <2>1, <2>2
<1>10. \A e \in Devices : ListenerPlace(e)
  BY <1>8, <1>9, BusyPlace
<1>11. Covers(l.base, copy)'
  BY <1>3, <1>4 DEF Covers
<1> QED
  BY <1>2, <1>3, <1>4, <1>5, <1>6, <1>10, <1>11, WriteFine

LEMMA ReplyFine ==
    ASSUME SoundInv, KeptInv, KeepStep, NEW d \in Devices, Reply(d)
    PROVE  Fine
<1>1. PICK l : l = listener[d]
  OBVIOUS
<1>2. /\ l.pc = "reply" /\ UNCHANGED <<file, calls, cut, got>>
      /\ l \in Replying /\ l.from \in Devices /\ <<l.id, d>> \in got'
  <2>1. l.pc = "reply" /\ UNCHANGED <<file, calls, cut, got>> /\ l \in Listeners
    BY <1>1 DEF Reply, worldVars, SoundInv, Typed
  <2>2. <<l.id, d>> \in got
    BY <1>1, <2>1 DEF KeptInv, ListenerKept
  <2> QED
    BY <2>1, <2>2, ListenerIs DEF Replying
<1>3. CASE Busy(d, Idle)
  BY <1>2, <1>3, BusyPlace, ListenersFine DEF ListenerPlace
<1>4. CASE /\ Accepts(l.from)
           /\ listener' = [listener EXCEPT ![d] = Idle,
                  ![l.from] = Handed(d, l.from, [kind |-> "receipt", id |-> l.id])]
  <2>1. PICK f : f = [kind |-> "receipt", id |-> l.id]
    OBVIOUS
  <2>2. PICK e : e = l.from
    OBVIOUS
  <2>3. e \in Devices /\ e # d /\ l # Idle
    BY <1>1, <1>2, <1>4, <2>2 DEF Accepts, Idle
  <2>4. listener' = [listener EXCEPT ![d] = Idle, ![e] = Handed(d, e, f)]
    BY <1>4, <2>1, <2>2
  <2>5. /\ listener'[d] = Idle /\ listener'[e] = Handed(d, e, f)
        /\ \A b \in Devices \ {d, e} : listener'[b] = listener[b]
    BY <2>3, <2>4 DEF SoundInv, Typed
  <2>6. f.kind = "receipt" => <<f.id, d>> \in got'
    BY <1>2, <2>1
  <2>7. ListenerPlace(e)
    BY <2>3, <2>5, <2>6, HandedPlace
  <2> QED
    BY <1>2, <2>5, <2>7, ListenersFine DEF ListenerPlace
<1> QED
  BY <1>1, <1>3, <1>4 DEF Reply

LEMMA FlushFine ==
    ASSUME SoundInv, KeptInv, KeepStep, NEW d \in Devices, NEW due, Flush(d, due)
    PROVE  Fine
<1>1. PICK q : q = file[d]
  OBVIOUS
<1>2. PICK l : l = [pc |-> "flush", base |-> q, copy |-> q, due |-> due, changed |-> FALSE]
  OBVIOUS
<1>3. UNCHANGED <<file, calls, cut, got, mixed>> /\ Busy(d, l)
  BY <1>1, <1>2 DEF Flush, worldVars
<1>4. Sound(d, q)
  BY <1>1 DEF SoundInv, States
<1>5. /\ \A m \in ToSet(q.journal) : <<m, d>> \in got'
      /\ d \notin mixed' => Hidden(d, q)'
  BY <1>1, <1>3, <1>4, HiddenStays DEF KeptInv, FileKept, JournalGot
<1>6. Covers(q, q)'
  BY SameCovers
<1>7. ASSUME listener'[d] = l PROVE ListenerPlace(d)
  <2>1. d \notin mixed' => \A r \in Loaded(l, FALSE) : Hidden(d, r)'
    BY <1>2, <1>5 DEF Loaded
  <2>2. l.pc = "flush" /\ l.copy = q /\ Covers(l.base, l.copy)'
    BY <1>2, <1>6 DEF Covers
  <2>3. ListenerKept(d)'
    BY <1>5, <1>7, <2>1, <2>2 DEF ListenerKept, Covers, Hidden
  <2> QED
    BY <2>3 DEF ListenerPlace
<1> QED
  BY <1>3, <1>7, BusyPlace, ListenersFine

(* A listener that flushes goes on with another copy. *)
LEMMA GoesPlace ==
    ASSUME SoundInv, KeptInv, KeepStep, NEW d \in Devices, NEW l, l = listener[d],
           l.pc = "flush", NEW i, NEW copy,
           SameTexts(l.copy, copy),
           \A x \in Pending : Queued(l.copy, x) => Queued(copy, x) \/ Arriving(x.id, x.to)',
           NEW b, listener'[d] = GoneOn(l, i, copy, b)
    PROVE  ListenerPlace(d)
<1>1. l \in Flushing
  BY ListenerIs DEF SoundInv, Typed
<1>2. PICK next : next = GoneOn(l, i, copy, b)
  OBVIOUS
<1>3. listener'[d] = next /\ next.pc = "flush" /\ next.base = l.base /\ next.copy = copy
  BY <1>1, <1>2 DEF Flushing, GoneOn
<1>4. /\ l.base \in Workspaces /\ Covers(l.base, l.copy)'
      /\ d \notin mixed' => \A r \in Loaded(l, FALSE) : Hidden(d, r)'
  BY CopyFacts
<1>5. Covers(l.base, copy)'
  <2> SUFFICES ASSUME NEW j \in DOMAIN l.base.pending, NEW p, p = l.base.pending[j]
               PROVE  Queued(copy, p) \/ Arriving(p.id, p.to)'
    BY DEF Covers, Queued
  <2>1. p \in Pending
    BY <1>4 DEF Workspaces
  <2>2. Queued(l.copy, p) \/ Arriving(p.id, p.to)'
    BY <1>4 DEF Covers, Queued
  <2> QED
    BY <2>1, <2>2
<1>6. \A m \in ToSet(copy.journal) : <<m, d>> \in got'
  BY DEF KeptInv, ListenerKept, KeepStep, SameTexts
<1>7. d \notin mixed' => \A r \in Loaded(next, FALSE) : Hidden(d, r)'
  <2>1. Loaded(next, FALSE) = {l.base, copy} /\ Loaded(l, FALSE) = {l.base, l.copy}
    BY <1>3 DEF Loaded
  <2>2. Shown(copy) = Shown(l.copy)
    BY DEF SameTexts, Shown
  <2>3. ASSUME Hidden(d, l.copy)' PROVE Hidden(d, copy)'
    BY <2>2, <2>3 DEF Hidden, Shown
  <2> QED
    BY <1>4, <2>1, <2>3
<1>8. ListenerKept(d)'
  BY <1>3, <1>5, <1>6, <1>7 DEF ListenerKept, Covers, Hidden
<1> QED
  BY <1>8 DEF ListenerPlace

(* A message that is handed over arrives. *)
LEMMA HandedArrives ==
    ASSUME NEW d, NEW e, NEW m, sent' = sent, listener'[e] = Handed(d, e, Message(m)),
           Drops(d, e, m)
    PROVE  Arriving(m, e)'
<1>1. CASE <<e, d>> \in trust
  BY <1>1 DEF Handed, Arriving, Message
<1>2. CASE <<e, d>> \notin trust
  BY <1>2 DEF Drops, Arriving
<1> QED
  BY <1>1, <1>2

LEMMA FlushOneFine ==
    ASSUME SoundInv, KeptInv, KeepStep, NEW d \in Devices, FlushOne(d)
    PROVE  Fine
<1>1. PICK l : l = listener[d]
  OBVIOUS
<1>2. l.pc = "flush" /\ UNCHANGED <<file, calls, sent, cut>>
  BY <1>1 DEF FlushOne, worldVars
<1>3. PICK i \in l.due :
        LET p == l.base.pending[i] IN
        \/ /\ Busy(d, GoneOn(l, i, RemovePending(l.copy, p), TRUE))
           /\ lost' = lost \cup {<<p.id, p.to>>}
        \/ Busy(d, GoneOn(l, i, l.copy, l.changed))
        \/ /\ Accepts(p.to)
           /\ listener' =
                [listener EXCEPT ![d] = GoneOn(l, i, RemovePending(l.copy, p), TRUE),
                                 ![p.to] = Handed(d, p.to, Message(p.id))]
           /\ Drops(d, p.to, p.id)
        \/ Busy(d, GoneOn(l, i, Reschedule(l.copy, p), TRUE))
  BY <1>1, FlushOneGoes
<1>4. PICK p : p = l.base.pending[i]
  OBVIOUS
<1>5. /\ l # Idle /\ l.copy \in Workspaces /\ Sound(d, l.copy)
      /\ p \in Pending /\ p.id \in DOMAIN sent /\ p.to \in Devices /\ p.to # d
  BY <1>1, <1>2, <1>4, FlushFacts
<1>6. PICK removed : removed = RemovePending(l.copy, p)
  OBVIOUS
<1>7. /\ SameTexts(l.copy, removed)
      /\ \A x \in Pending : Queued(l.copy, x) => Queued(removed, x) \/ Same(x, p)
  BY <1>5, <1>6, RemoveFacts DEF Sound
<1>8. ASSUME Arriving(p.id, p.to)'
      PROVE  \A x \in Pending : Queued(l.copy, x) => Queued(removed, x) \/ Arriving(x.id, x.to)'
  BY <1>7, <1>8 DEF Same
<1>9. PICK later : later = Reschedule(l.copy, p)
  OBVIOUS
<1>10. /\ SameTexts(l.copy, later)
       /\ \A x \in Pending : Queued(l.copy, x) => Queued(later, x)
  BY <1>5, <1>9, RescheduleFacts DEF Sound
<1>11. SameTexts(l.copy, l.copy)
  BY DEF SameTexts
<1>12. ASSUME NEW copy, NEW b, Busy(d, GoneOn(l, i, copy, b)), SameTexts(l.copy, copy),
              \A x \in Pending : Queued(l.copy, x) => Queued(copy, x) \/ Arriving(x.id, x.to)'
       PROVE  Fine
  <2>1. PICK next : next = GoneOn(l, i, copy, b)
    OBVIOUS
  <2>2. listener'[d] = next => ListenerPlace(d)
    BY <1>1, <1>2, <1>12, <2>1, GoesPlace
  <2> QED
    BY <1>2, <1>12, <2>1, <2>2, BusyPlace, ListenersFine
<1>13. CASE Busy(d, GoneOn(l, i, removed, TRUE)) /\ lost' = lost \cup {<<p.id, p.to>>}
  <2>1. Arriving(p.id, p.to)'
    BY <1>13 DEF Arriving
  <2> QED
    BY <1>7, <1>8, <1>12, <1>13, <2>1
<1>14. CASE \/ Busy(d, GoneOn(l, i, l.copy, l.changed))
            \/ Busy(d, GoneOn(l, i, later, TRUE))
  BY <1>10, <1>11, <1>12, <1>14
<1>15. CASE /\ Accepts(p.to)
            /\ listener' = [listener EXCEPT ![d] = GoneOn(l, i, removed, TRUE),
                                            ![p.to] = Handed(d, p.to, Message(p.id))]
            /\ Drops(d, p.to, p.id)
  <2>1. PICK e : e = p.to
    OBVIOUS
  <2>2. PICK f : f = Message(p.id)
    OBVIOUS
  <2>3. PICK next : next = GoneOn(l, i, removed, TRUE)
    OBVIOUS
  <2>4. /\ listener' = [listener EXCEPT ![d] = next, ![e] = Handed(d, e, f)]
        /\ listener \in [Devices -> Listeners]
    BY <1>15, <2>1, <2>2, <2>3 DEF SoundInv, Typed
  <2>5. /\ listener'[d] = next /\ listener'[e] = Handed(d, e, f)
        /\ \A b \in Devices \ {d, e} : listener'[b] = listener[b]
    BY <1>5, <2>1, <2>4
  <2>6. Arriving(p.id, p.to)'
    BY <1>2, <1>15, <2>1, <2>2, <2>5, HandedArrives
  <2>7. ListenerPlace(d)
    <3>1. \A x \in Pending : Queued(l.copy, x) => Queued(removed, x) \/ Arriving(x.id, x.to)'
      BY <1>8, <2>6
    <3>2. listener'[d] = GoneOn(l, i, removed, TRUE)
      BY <2>3, <2>5
    <3>3. SameTexts(l.copy, removed)
      BY <1>7
    <3> QED
      BY <1>1, <1>2, <3>1, <3>2, <3>3, GoesPlace
  <2>8. f.kind # "receipt"
    BY <1>5, <2>2, SentFacts DEF SoundInv, Message
  <2>9. ListenerPlace(e)
    BY <1>5, <2>1, <2>5, <2>8, HandedPlace
  <2> QED
    BY <1>2, <2>5, <2>7, <2>9, ListenersFine DEF ListenerPlace
<1> QED
  BY <1>3, <1>4, <1>6, <1>9, <1>13, <1>14, <1>15

LEMMA FlushEndsFine ==
    ASSUME SoundInv, KeptInv, KeepStep, NEW d \in Devices, FlushEnds(d)
    PROVE  Fine
<1>1. PICK l : l = listener[d]
  OBVIOUS
<1>2. /\ l.pc = "flush" /\ Busy(d, Idle) /\ UNCHANGED <<calls, cut, got>>
      /\ Write(d, l.base, l.copy) \/ file' = file
  BY <1>1 DEF FlushEnds, worldVars
<1>3. PICK copy : copy = l.copy
  OBVIOUS
<1>4. /\ l.base \in Workspaces /\ Covers(l.base, copy)'
      /\ d \notin mixed' => Hidden(d, copy)'
  <2>1. /\ l.base \in Workspaces /\ Covers(l.base, l.copy)'
        /\ d \notin mixed' => \A r \in Loaded(l, FALSE) : Hidden(d, r)'
    BY <1>1, <1>2, CopyFacts
  <2>2. copy \in Loaded(l, FALSE)
    BY <1>2, <1>3 DEF Loaded
  <2>3. Covers(l.base, copy)'
    BY <1>3, <2>1
  <2> QED
    BY <2>1, <2>2, <2>3
<1>5. JournalGot(d, copy)'
  BY <1>1, <1>2, <1>3 DEF KeptInv, ListenerKept, JournalGot
<1>6. \A e \in Devices : ListenerPlace(e)
  BY <1>2, BusyPlace DEF ListenerPlace
<1>7. CASE Write(d, l.base, l.copy)
  BY <1>2, <1>3, <1>4, <1>5, <1>6, <1>7, WriteFine
<1>8. CASE file' = file
  BY <1>2, <1>6, <1>8, ListenersFine
<1> QED
  BY <1>2, <1>7, <1>8

LEMMA StopFine ==
    ASSUME SoundInv, KeptInv, KeepStep, NEW d \in Devices, Stop(d)
    PROVE  Fine
<1>1. /\ calls' = {c \in calls : c.by # d} /\ Busy(d, Down) /\ file' = file
      /\ cut' = cut \cup {x \in Id \X Devices :
                            \E c \in calls : c.by = d /\ c.id = x[1] /\ Holds(c, x[2])}
  BY DEF Stop
<1>2. \A e \in Devices : FilePlace(e) /\ ListenerPlace(e)
  BY <1>1, BusyPlace DEF FilePlace, ListenerPlace
<1>3. \A b, c \in calls : b.id = c.id => b = c
  BY DEF KeptInv
<1>4. ASSUME NEW c \in calls' PROVE CallPlace(c)
  <2>1. c \in calls /\ c.by # d
    BY <1>1
  <2>2. \A b \in calls : b.by = d => b.id # c.id
    BY <1>3, <2>1
  <2>3. \A e \in Devices : <<c.id, e>> \in cut' => <<c.id, e>> \in cut
    BY <1>1, <2>2
  <2> QED
    BY <2>1, <2>3 DEF CallPlace
<1>5. ASSUME NEW c \in calls, NEW e \in Others(c.by), Holds(c, e)
      PROVE  (\E b \in calls' : b.id = c.id /\ Holds(b, e)) \/ <<c.id, e>> \in cut'
  <2>1. c.id \in Id /\ e \in Devices
    BY DEF SoundInv, Typed, Calls, Others
  <2> QED
    BY <1>1, <1>5, <2>1
<1>6. Covered
  BY <1>1, <1>5 DEF Covered
<1> QED
  BY <1>1, <1>2, <1>3, <1>4, <1>6 DEF Fine, Places

LEMMA OtherFine ==
    ASSUME SoundInv, KeptInv, NEW d \in Devices, NEW e \in Devices,
           Start(d) \/ Hang(d) \/ Discover(d, e) \/ Distrust(d, e)
    PROVE  Fine
<1>1. CASE Start(d) \/ Hang(d)
  BY <1>1, BusyPlace, ListenersFine DEF Start, Hang, worldVars, ListenerPlace
<1>2. CASE Discover(d, e) \/ Distrust(d, e)
  BY <1>2, ListenersFine DEF Discover, Distrust, ListenerPlace
<1> QED
  BY <1>1, <1>2

(* The calls *)
LEMMA BeginFine ==
    ASSUME SoundInv, KeptInv, KeepStep, NEW d \in Devices, NEW kind, NEW copy, Begin(d, kind, copy),
           copy.pending = file[d].pending, copy.journal = file[d].journal,
           Shown(copy) = Shown(file[d]) \cup {Len(sent) + 1}
    PROVE  Fine
<1>1. PICK q : q = file[d]
  OBVIOUS
<1>2. PICK n : n = Len(sent) + 1
  OBVIOUS
<1>3. PICK c : c = [by |-> d, id |-> n, pc |-> "send", to |-> Others(d), base |-> q, copy |-> copy]
  OBVIOUS
<1>4. /\ sent' = Append(sent, [kind |-> kind, by |-> d])
      /\ calls' = calls \cup {[by |-> d, id |-> Len(sent'), pc |-> "send", to |-> Others(d),
                               base |-> file[d], copy |-> copy]}
      /\ UNCHANGED <<file, listener, got, mixed, cut>>
  BY DEF Begin
<1>5. Len(sent') = n
  BY <1>2, <1>4, SentFacts DEF SoundInv, Typed
<1>6. calls' = calls \cup {c}
  BY <1>1, <1>3, <1>4, <1>5
<1>7. n \notin DOMAIN sent
  BY <1>2, SentFacts DEF SoundInv
<1>8. \A b \in calls : b.id # n
  BY <1>7 DEF SoundInv, CallSound
<1>9. Sound(d, q) /\ FileKept(d)
  BY <1>1 DEF SoundInv, States, KeptInv
<1>10. CallKept(c)'
  <2>1. JournalGot(d, copy)'
    BY <1>1, <1>4, <1>9 DEF FileKept, JournalGot
  <2>2. Covers(q, copy)'
    BY <1>1, SameCovers
  <2>3. \A e \in Others(d) : Holds(c, e)
    BY <1>3 DEF Holds
  <2>4. d \notin mixed' => Shown(copy) \cap Undecided(d)' \subseteq {n}
    <3>1. d \notin mixed' => Hidden(d, q)'
      BY <1>1, <1>4, <1>9, HiddenStays DEF FileKept
    <3> QED
      BY <1>1, <1>2, <3>1 DEF Hidden, Shown
  <2>5. \A e \in Devices : <<n, e>> \notin cut'
    BY <1>4, <1>7 DEF KeptInv
  <2>6. c.by = d /\ c.id = n /\ c.base = q /\ c.copy = copy /\ c.pc = "send"
    BY <1>3
  <2> QED
    BY <2>1, <2>2, <2>3, <2>4, <2>5, <2>6 DEF CallKept, JournalGot, Covers, Shown, Holds, Queued
<1>11. \A b \in calls' : CallPlace(b)
  BY <1>4, <1>6, <1>10 DEF CallPlace
<1>12. \A b1, b2 \in calls' : b1.id = b2.id => b1 = b2
  BY <1>3, <1>6, <1>8 DEF KeptInv
<1>13. \A b \in Devices : FilePlace(b) /\ ListenerPlace(b)
  BY <1>4 DEF FilePlace, ListenerPlace
<1>14. Covered
  BY <1>4, <1>6 DEF Covered
<1> QED
  BY <1>11, <1>12, <1>13, <1>14 DEF Fine, Places

LEMMA SendMessageFine ==
    ASSUME SoundInv, KeptInv, KeepStep, NEW d \in Devices, SendMessage(d)
    PROVE  Fine
<1>1. PICK q : q = file[d]
  OBVIOUS
<1>2. PICK s : s = Append(q.texts, Len(sent) + 1)
  OBVIOUS
<1>3. PICK copy : copy = [q EXCEPT !.texts = s, !.stamp = clock + 1]
  OBVIOUS
<1>4. Begin(d, "text", copy)
  BY <1>1, <1>2, <1>3 DEF SendMessage
<1>5. q \in Workspaces /\ ToSet(s) = ToSet(q.texts) \cup {Len(sent) + 1}
  <2>1. q \in Workspaces
    BY <1>1 DEF SoundInv, Typed
  <2> QED
    BY <1>2, <2>1, AppendIds DEF Workspaces
<1>6. /\ copy.texts = s /\ copy.notices = q.notices
      /\ copy.pending = q.pending /\ copy.journal = q.journal
  BY <1>3, <1>5 DEF Workspaces
<1>7. Shown(copy) = Shown(q) \cup {Len(sent) + 1}
  BY <1>5, <1>6 DEF Shown
<1> QED
  BY <1>1, <1>4, <1>6, <1>7, BeginFine

LEMMA CreateBroadcastFine ==
    ASSUME SoundInv, KeptInv, KeepStep, NEW d \in Devices, CreateBroadcast(d)
    PROVE  Fine
<1>1. PICK q : q = file[d]
  OBVIOUS
<1>2. PICK s : s = Append(q.notices, Len(sent) + 1)
  OBVIOUS
<1>3. PICK copy : copy = [q EXCEPT !.notices = s]
  OBVIOUS
<1>4. Begin(d, "broadcast", copy)
  BY <1>1, <1>2, <1>3 DEF CreateBroadcast
<1>5. q \in Workspaces /\ ToSet(s) = ToSet(q.notices) \cup {Len(sent) + 1}
  <2>1. q \in Workspaces
    BY <1>1 DEF SoundInv, Typed
  <2> QED
    BY <1>2, <2>1, AppendIds DEF Workspaces
<1>6. /\ copy.notices = s /\ copy.texts = q.texts
      /\ copy.pending = q.pending /\ copy.journal = q.journal
  BY <1>3, <1>5 DEF Workspaces
<1>7. Shown(copy) = Shown(q) \cup {Len(sent) + 1}
  BY <1>5, <1>6 DEF Shown
<1> QED
  BY <1>1, <1>4, <1>6, <1>7, BeginFine

LEMMA NextKept ==
    ASSUME SoundInv, KeptInv, KeepStep, cut' = cut, NEW c \in calls, NEW next,
           next.by = c.by, next.id = c.id, next.base = c.base, SameTexts(c.copy, next.copy),
           \A x \in Pending : Queued(c.copy, x) => Queued(next.copy, x),
           next.pc = "send" => \A e \in Others(c.by) : Holds(next, e) \/ Arriving(c.id, e)'
    PROVE  CallKept(next)'
<1>1. /\ CallKept(c) /\ c \in Calls /\ c.by \in Devices /\ c.base \in Workspaces
      /\ Sound(c.by, c.base) /\ Sound(c.by, c.copy)
  BY CallStates DEF KeptInv, SoundInv, Typed, Calls
<1>2. JournalGot(c.by, next.copy)'
  BY <1>1 DEF CallKept, JournalGot, KeepStep, SameTexts
<1>3. Covers(c.base, next.copy)'
  <2> SUFFICES ASSUME NEW j \in DOMAIN c.base.pending, NEW p, p = c.base.pending[j]
               PROVE  Queued(next.copy, p) \/ Arriving(p.id, p.to)'
    BY DEF Covers, Queued
  <2>1. p \in Pending
    BY <1>1 DEF Workspaces
  <2>2. Covers(c.base, c.copy)'
    BY <1>1, CoversStays DEF CallKept
  <2>3. Queued(c.copy, p) \/ Arriving(p.id, p.to)'
    BY <2>2 DEF Covers, Queued
  <2> QED
    BY <2>1, <2>3
<1>4. c.by \notin mixed' => Shown(next.copy) \cap Undecided(c.by)' \subseteq {c.id}
  <2>1. Shown(next.copy) = Shown(c.copy)
    BY DEF SameTexts, Shown
  <2>2. Shown(c.copy) \subseteq DOMAIN sent
    BY <1>1 DEF Sound, Ids, Shown
  <2> QED
    BY <1>1, <2>1, <2>2 DEF CallKept, KeepStep, DecideStep
<1>5. \A e \in Devices : <<c.id, e>> \notin cut'
  BY <1>1 DEF CallKept
<1> QED
  BY <1>2, <1>3, <1>4, <1>5 DEF CallKept, JournalGot, Covers, Shown, Holds, Queued

LEMMA NextPlace ==
    ASSUME KeptInv, cut' = cut, NEW c \in calls, NEW next, Continue(c, next), next.id = c.id,
           CallKept(next)'
    PROVE  /\ \A b \in calls' : CallPlace(b)
           /\ \A b1, b2 \in calls' : b1.id = b2.id => b1 = b2
<1>1. calls' = (calls \ {c}) \cup {next}
  BY DEF Continue
<1>2. \A b \in calls' : CallPlace(b)
  BY <1>1 DEF CallPlace
<1>3. \A b1, b2 \in calls : b1.id = b2.id => b1 = b2
  BY DEF KeptInv
<1>4. \A b \in calls \ {c} : b.id # next.id
  BY <1>3
<1>5. \A b1, b2 \in calls' : b1.id = b2.id => b1 = b2
  BY <1>1, <1>3, <1>4
<1> QED
  BY <1>2, <1>5

(* A step of a call but the save *)
LEMMA NextFine ==
    ASSUME SoundInv, KeptInv, KeepStep, UNCHANGED <<file, cut>>, NEW c \in calls, NEW next,
           Continue(c, next),
           next.by = c.by, next.id = c.id, next.base = c.base, next.pc = c.pc,
           SameTexts(c.copy, next.copy),
           \A x \in Pending : Queued(c.copy, x) => Queued(next.copy, x),
           \A e \in Others(c.by) : Holds(c, e) => Holds(next, e) \/ Arriving(c.id, e)',
           \A d \in Devices : ListenerPlace(d)
    PROVE  Fine
<1>1. c.id \in DOMAIN sent /\ CallKept(c)
  BY DEF SoundInv, CallSound, KeptInv
<1>2. next.pc = "send" => \A e \in Others(c.by) : Holds(next, e) \/ Arriving(c.id, e)'
  BY <1>1 DEF CallKept, KeepStep, ArriveStep, Others
<1>3. CallKept(next)'
  BY <1>2, NextKept
<1>4. /\ \A b \in calls' : CallPlace(b)
      /\ \A b1, b2 \in calls' : b1.id = b2.id => b1 = b2
  BY <1>3, NextPlace
<1>5. Covered
  <2>1. ASSUME NEW b \in calls, NEW e \in Others(b.by), Holds(b, e)
        PROVE  (\E b2 \in calls' : b2.id = b.id /\ Holds(b2, e)) \/ Arriving(b.id, e)'
    BY <2>1 DEF Continue
  <2> QED
    BY <2>1 DEF Covered
<1>6. \A d \in Devices : FilePlace(d)
  BY DEF FilePlace
<1> QED
  BY <1>4, <1>5, <1>6 DEF Fine, Places

LEMMA CallDeliversFine ==
    ASSUME SoundInv, KeptInv, KeepStep, NEW c \in calls, CallDelivers(c)
    PROVE  Fine
<1>1. PICK e \in c.to :
        /\ listener' = [listener EXCEPT ![e] = Handed(c.by, e, Message(c.id))]
        /\ Drops(c.by, e, c.id)
        /\ Continue(c, [c EXCEPT !.to = @ \ {e}])
  BY DEF CallDelivers
<1>2. UNCHANGED <<file, sent, cut>>
  BY DEF CallDelivers, worldVars
<1>3. c \in Calls /\ e \in Devices /\ c.id \in DOMAIN sent /\ listener \in [Devices -> Listeners]
  BY DEF SoundInv, Typed, Calls, CallSound, Others
<1>4. PICK next : next = [c EXCEPT !.to = c.to \ {e}]
  OBVIOUS
<1>5. /\ next.by = c.by /\ next.id = c.id /\ next.base = c.base /\ next.pc = c.pc
      /\ next.copy = c.copy /\ next.to = c.to \ {e}
  BY <1>3, <1>4 DEF Calls
<1>6. Continue(c, next)
  BY <1>1, <1>4
<1>7. PICK f : f = Message(c.id)
  OBVIOUS
<1>8. /\ listener'[e] = Handed(c.by, e, f)
      /\ \A b \in Devices \ {e} : listener'[b] = listener[b]
  BY <1>1, <1>3, <1>7
<1>9. f.kind # "receipt"
  BY <1>3, <1>7, SentFacts DEF SoundInv, Message
<1>10. ListenerPlace(e)
  BY <1>3, <1>8, <1>9, HandedPlace DEF Calls
<1>11. Arriving(c.id, e)'
  BY <1>1, <1>2, <1>7, <1>8, HandedArrives
<1>12. \A b \in Others(c.by) : Holds(c, b) => Holds(next, b) \/ Arriving(c.id, b)'
  <2> SUFFICES ASSUME NEW b \in Others(c.by), Holds(c, b), b # e PROVE Holds(next, b)
    BY <1>11
  <2> QED
    BY <1>5 DEF Holds, Queued
<1>13. \A b \in Devices : ListenerPlace(b)
  BY <1>8, <1>10 DEF ListenerPlace
<1>14. SameTexts(c.copy, next.copy) /\ \A x \in Pending : Queued(c.copy, x) => Queued(next.copy, x)
  BY <1>5 DEF SameTexts
<1> QED
  BY <1>2, <1>5, <1>6, <1>12, <1>13, <1>14, NextFine

LEMMA CallQueuesFine ==
    ASSUME SoundInv, KeptInv, KeepStep, NEW c \in calls, CallQueues(c)
    PROVE  Fine
<1>1. PICK e \in c.to :
        Continue(c, [c EXCEPT !.to = @ \ {e}, !.copy = Queue(@, Entry(c.id, e))])
  BY DEF CallQueues
<1>2. c.pc = "send" /\ UNCHANGED <<file, listener, cut>>
  BY DEF CallQueues, worldVars
<1>3. /\ c \in Calls /\ e \in Devices /\ c.id \in DOMAIN sent /\ c.copy \in Workspaces
      /\ Names(c.copy)
  <2>1. c \in Calls /\ c.copy \in States(c.by, TRUE)
    BY CallStates DEF SoundInv, Typed
  <2>2. Sound(c.by, c.copy)
    BY <2>1 DEF SoundInv, Calls
  <2> QED
    BY <2>1, <2>2 DEF SoundInv, CallSound, Calls, Others, Sound
<1>4. PICK p : p = Entry(c.id, e)
  OBVIOUS
<1>5. PICK r : r = Queue(c.copy, p)
  OBVIOUS
<1>6. p \in Pending
  BY <1>3, <1>4, EntryTyped DEF SoundInv
<1>7. SameTexts(c.copy, r) /\ \A x \in Pending : Queued(r, x) <=> Queued(c.copy, x) \/ Same(x, p)
  BY <1>3, <1>5, <1>6, QueueFacts
<1>8. PICK next : next = [c EXCEPT !.to = c.to \ {e}, !.copy = r]
  OBVIOUS
<1>9. /\ next.by = c.by /\ next.id = c.id /\ next.base = c.base /\ next.pc = c.pc
      /\ next.copy = r /\ next.to = c.to \ {e}
  BY <1>3, <1>8 DEF Calls
<1>10. Continue(c, next)
  BY <1>1, <1>4, <1>5, <1>8
<1>11. \A b \in Others(c.by) : Holds(c, b) => Holds(next, b)
  <2> SUFFICES ASSUME NEW b \in Others(c.by), Holds(c, b) PROVE Holds(next, b)
    OBVIOUS
  <2>1. Entry(c.id, b) \in Pending
    BY <1>3, EntryTyped DEF SoundInv, Others
  <2>2. CASE b = e
    <3>1. Queued(r, p)
      BY <1>6, <1>7 DEF Same
    <3> QED
      BY <1>2, <1>4, <1>9, <2>2, <3>1 DEF Holds
  <2>3. CASE b # e /\ b \in c.to
    BY <1>2, <1>9, <2>3 DEF Holds
  <2>4. CASE Queued(c.copy, Entry(c.id, b))
    BY <1>2, <1>7, <1>9, <2>1, <2>4 DEF Holds
  <2> QED
    BY <2>2, <2>3, <2>4 DEF Holds
<1>12. \A b \in Devices : ListenerPlace(b)
  BY <1>2 DEF ListenerPlace
<1> QED
  BY <1>2, <1>7, <1>9, <1>10, <1>11, <1>12, NextFine

LEMMA CallPassesFine ==
    ASSUME SoundInv, KeptInv, KeepStep, NEW c \in calls, CallPasses(c)
    PROVE  Fine
<1>1. PICK e \in c.to :
        Continue(c, [c EXCEPT !.to = @ \ {e}]) /\ lost' = lost \cup {<<c.id, e>>}
  BY DEF CallPasses
<1>2. UNCHANGED <<file, listener, cut>>
  BY DEF CallPasses, worldVars
<1>3. c \in Calls
  BY DEF SoundInv, Typed
<1>4. PICK next : next = [c EXCEPT !.to = c.to \ {e}]
  OBVIOUS
<1>5. /\ next.by = c.by /\ next.id = c.id /\ next.base = c.base /\ next.pc = c.pc
      /\ next.copy = c.copy /\ next.to = c.to \ {e}
  BY <1>3, <1>4 DEF Calls
<1>6. Continue(c, next)
  BY <1>1, <1>4
<1>7. Arriving(c.id, e)'
  BY <1>1 DEF Arriving
<1>8. \A b \in Others(c.by) : Holds(c, b) => Holds(next, b) \/ Arriving(c.id, b)'
  <2> SUFFICES ASSUME NEW b \in Others(c.by), Holds(c, b), b # e PROVE Holds(next, b)
    BY <1>7
  <2> QED
    BY <1>5 DEF Holds, Queued
<1>9. \A b \in Devices : ListenerPlace(b)
  BY <1>2 DEF ListenerPlace
<1>10. SameTexts(c.copy, next.copy) /\ \A x \in Pending : Queued(c.copy, x) => Queued(next.copy, x)
  BY <1>5 DEF SameTexts
<1> QED
  BY <1>2, <1>5, <1>6, <1>8, <1>9, <1>10, NextFine

(* A call that saves r, a copy with the same texts and queue *)
LEMMA SaveFine ==
    ASSUME SoundInv, KeptInv, KeepStep, UNCHANGED <<listener, cut>>, NEW c \in calls, NEW r,
           c.pc = "send", c.to = {}, Write(c.by, c.base, r),
           SameTexts(c.copy, r), r.pending = c.copy.pending,
           \A b \in calls' : b \in calls \ {c} \/ (CallKept(b)' /\ b.pc # "send"),
           calls \ {c} \subseteq calls',
           \A b1, b2 \in calls' : b1.id = b2.id => b1 = b2
    PROVE  Fine
<1>1. /\ CallKept(c) /\ c \in Calls /\ c.by \in Devices /\ c.base \in Workspaces
      /\ Sound(c.by, c.base) /\ Sound(c.by, c.copy)
  BY CallStates DEF KeptInv, SoundInv, Typed, Calls
<1>2. Covers(c.base, r)'
  <2>1. Covers(c.base, c.copy)'
    BY <1>1, CoversStays DEF CallKept
  <2> QED
    BY <2>1 DEF Covers, Queued
<1>3. JournalGot(c.by, r)'
  BY <1>1 DEF CallKept, JournalGot, KeepStep, SameTexts
<1>4. c.by \notin mixed' => Hidden(c.by, r)'
  <2> SUFFICES ASSUME c.by \notin mixed', NEW m, m \in Shown(r), m \in Undecided(c.by)'
               PROVE  FALSE
    BY DEF Hidden, Shown
  <2>1. m \in Shown(c.copy) /\ m \in DOMAIN sent
    BY <1>1 DEF SameTexts, Shown, Sound, Ids
  <2>2. m = c.id
    BY <1>1, <2>1 DEF CallKept, KeepStep, DecideStep
  <2>3. \A e \in Devices : <<m, e>> \notin cut'
    BY <1>1, <2>2 DEF CallKept
  <2>4. PICK b \in calls' : b.id = c.id /\ b.pc = "send"
    BY <2>2, <2>3 DEF Undecided
  <2> QED
    BY <2>4 DEF KeptInv
<1>5. \A b \in calls' : CallPlace(b)
  BY DEF CallPlace
<1>6. ASSUME NEW b \in calls, NEW e \in Others(b.by), Holds(b, e)
      PROVE  \/ \E b2 \in calls' : b2.id = b.id /\ Holds(b2, e)
             \/ Queued(file'[b.by], Entry(b.id, e)) \/ b.by \in overlapped'
  <2>1. CASE b # c
    BY <1>6, <2>1
  <2>2. CASE b = c
    <3>1. Queued(r, Entry(c.id, e))
      BY <1>6, <2>2 DEF Holds, Queued
    <3>2. file'[c.by] = r \/ c.by \in overlapped'
      BY <1>1 DEF SoundInv, Typed, Write
    <3> QED
      BY <2>2, <3>1, <3>2
  <2> QED
    BY <2>1, <2>2
<1>7. Covered
  <2>1. \A b \in Devices \ overlapped', x \in Pending :
            Queued(file[b], x) => Queued(file'[b], x) \/ Arriving(x.id, x.to)'
    BY <1>1, <1>2, WriteCovers
  <2> QED
    BY <1>6, <2>1 DEF Covered
<1>8. \A d \in Devices : FilePlace(d) /\ ListenerPlace(d)
  BY <1>1, <1>3, <1>4, WritePlace DEF ListenerPlace
<1> QED
  BY <1>5, <1>7, <1>8 DEF Fine, Places

LEMMA CallSavesFine ==
    ASSUME SoundInv, KeptInv, KeepStep, NEW c \in calls, CallSaves(c)
    PROVE  Fine
<1>1. /\ c.pc = "send" /\ c.to = {} /\ UNCHANGED <<listener, cut>>
      /\ c \in Calls /\ c.copy \in Workspaces
  BY DEF CallSaves, worldVars, SoundInv, Typed, Calls
<1>2. CASE sent[c.id].kind = "text"
  <2>1. Write(c.by, c.base, c.copy) /\ calls' = calls \ {c}
    BY <1>2 DEF CallSaves
  <2>2. SameTexts(c.copy, c.copy)
    BY DEF SameTexts
  <2>3. \A b1, b2 \in calls' : b1.id = b2.id => b1 = b2
    BY <2>1 DEF KeptInv
  <2> QED
    BY <1>1, <2>1, <2>2, <2>3, SaveFine
<1>3. CASE sent[c.id].kind # "text"
  <2>1. PICK r : r = [c.copy EXCEPT !.stamp = clock + 1]
    OBVIOUS
  <2>2. PICK next : next = [c EXCEPT !.pc = "sync", !.to = Others(c.by), !.copy = r]
    OBVIOUS
  <2>3. Write(c.by, c.base, r) /\ Continue(c, next)
    BY <1>3, <2>1, <2>2 DEF CallSaves
  <2>4. SameTexts(c.copy, r) /\ r.pending = c.copy.pending
    BY <1>1, <2>1 DEF Workspaces, SameTexts
  <2>5. /\ next.by = c.by /\ next.id = c.id /\ next.base = c.base
        /\ next.copy = r /\ next.pc = "sync"
    BY <1>1, <2>2 DEF Calls
  <2>6. CallKept(next)'
    <3>1. \A x \in Pending : Queued(c.copy, x) => Queued(r, x)
      BY <2>4 DEF Queued
    <3> QED
      BY <1>1, <2>4, <2>5, <3>1, NextKept
  <2>7. \A b1, b2 \in calls' : b1.id = b2.id => b1 = b2
    BY <1>1, <2>3, <2>5, <2>6, NextPlace
  <2>8. calls' = (calls \ {c}) \cup {next}
    BY <2>3 DEF Continue
  <2>9. \A b \in calls' : b \in calls \ {c} \/ (CallKept(b)' /\ b.pc # "send")
    BY <2>5, <2>6, <2>8
  <2> QED
    BY <1>1, <2>3, <2>4, <2>7, <2>8, <2>9, SaveFine
<1> QED
  BY <1>2, <1>3

LEMMA CallSyncsFine ==
    ASSUME SoundInv, KeptInv, KeepStep, NEW c \in calls, CallSyncs(c)
    PROVE  Fine
<1>1. /\ c.pc = "sync" /\ UNCHANGED <<file, cut>> /\ c \in Calls /\ c.to \subseteq Devices
      /\ listener \in [Devices -> Listeners]
  BY DEF CallSyncs, worldVars, SoundInv, Typed, Calls
<1>2. \A e \in Devices : ~Holds(c, e)
  BY <1>1 DEF Holds
<1>3. ASSUME NEW e \in c.to, Continue(c, [c EXCEPT !.to = @ \ {e}]),
             \A d \in Devices : ListenerPlace(d)
      PROVE  Fine
  <2>1. PICK next : next = [c EXCEPT !.to = c.to \ {e}]
    OBVIOUS
  <2>2. /\ next.by = c.by /\ next.id = c.id /\ next.base = c.base /\ next.pc = c.pc
        /\ next.copy = c.copy
    BY <1>1, <2>1 DEF Calls
  <2>3. Continue(c, next)
    BY <1>3, <2>1
  <2>4. SameTexts(c.copy, next.copy)
        /\ \A x \in Pending : Queued(c.copy, x) => Queued(next.copy, x)
    BY <2>2 DEF SameTexts
  <2>5. \A b \in Others(c.by) : ~Holds(c, b)
    BY <1>2 DEF Others
  <2> QED
    BY <1>1, <1>3, <2>2, <2>3, <2>4, <2>5, NextFine
<1>4. CASE \E e \in c.to :
             /\ listener' = [listener EXCEPT ![e] =
                    Handed(c.by, e, [kind |-> "sync", stamp |-> c.copy.stamp,
                                     texts |-> c.copy.texts, notices |-> c.copy.notices])]
             /\ Continue(c, [c EXCEPT !.to = @ \ {e}])
  <2>1. PICK f : f = [kind |-> "sync", stamp |-> c.copy.stamp,
                      texts |-> c.copy.texts, notices |-> c.copy.notices]
    OBVIOUS
  <2>2. PICK e \in c.to :
             /\ listener' = [listener EXCEPT ![e] = Handed(c.by, e, f)]
             /\ Continue(c, [c EXCEPT !.to = @ \ {e}])
    BY <1>4, <2>1
  <2>3. e \in Devices /\ c.by \in Devices
    BY <1>1 DEF Calls
  <2>4. /\ listener'[e] = Handed(c.by, e, f)
        /\ \A b \in Devices \ {e} : listener'[b] = listener[b]
    BY <1>1, <2>2, <2>3
  <2>5. f.kind # "receipt"
    BY <2>1
  <2>6. ListenerPlace(e)
    BY <2>3, <2>4, <2>5, HandedPlace
  <2>7. \A b \in Devices : ListenerPlace(b)
    BY <2>4, <2>6 DEF ListenerPlace
  <2> QED
    BY <1>3, <2>2, <2>7
<1>5. CASE \E e \in c.to : Continue(c, [c EXCEPT !.to = @ \ {e}]) /\ listener' = listener
  BY <1>3, <1>5 DEF ListenerPlace
<1>6. CASE calls' = calls \ {c} /\ listener' = listener
  <2>1. \A d \in Devices : FilePlace(d) /\ ListenerPlace(d)
    BY <1>1, <1>6 DEF FilePlace, ListenerPlace
  <2>2. (\A b \in calls' : CallPlace(b)) /\ \A b1, b2 \in calls' : b1.id = b2.id => b1 = b2
    BY <1>1, <1>6 DEF CallPlace, KeptInv
  <2>3. \A b \in calls, e \in Devices : Holds(b, e) => b \in calls'
    BY <1>2, <1>6
  <2>4. Covered
    BY <1>1, <2>3 DEF Covered, Others
  <2> QED
    BY <2>1, <2>2, <2>4 DEF Fine, Places
<1> QED
  BY <1>4, <1>5, <1>6 DEF CallSyncs

LEMMA StepsFine ==
    ASSUME SoundInv, KeptInv, KeepStep, [Next]_vars
    PROVE  Fine
<1>1. CASE UNCHANGED vars
  <2>1. \A d \in Devices : ListenerPlace(d)
    BY <1>1 DEF ListenerPlace, vars
  <2> QED
    BY <1>1, <2>1, ListenersFine DEF vars
<1>2. ASSUME NEW d \in Devices, Call(d) PROVE Fine
  BY <1>2, CallDeliversFine, CallQueuesFine, CallPassesFine, CallSavesFine, CallSyncsFine DEF Call
<1>3. ASSUME NEW d \in Devices, Listen(d) PROVE Fine
  BY <1>3, HandleFine, StoreFine, ReplyFine, FlushFine, FlushOneFine, FlushEndsFine
     DEF Listen, FlushBegins
<1> QED
  BY <1>1, <1>2, <1>3, SendMessageFine, CreateBroadcastFine, StopFine, OtherFine DEF Next

LEMMA KeptInit == Init => KeptInv
<1> SUFFICES ASSUME Init PROVE KeptInv
  OBVIOUS
<1>1. ASSUME NEW d \in Devices PROVE FileKept(d) /\ ListenerKept(d)
  <2>1. file[d].journal = <<>> /\ file[d].texts = <<>> /\ file[d].notices = <<>>
    BY DEF Init
  <2>2. ToSet(file[d].journal) = {} /\ Shown(file[d]) = {}
    BY <2>1 DEF ToSet, Shown
  <2>3. listener[d].pc = "idle"
    BY DEF Init, Idle
  <2> QED
    BY <2>2, <2>3 DEF FileKept, ListenerKept, JournalGot, Hidden
<1> QED
  BY <1>1 DEF Init, KeptInv

LEMMA KeptNext ==
    ASSUME SoundInv, KeptInv, [Next]_vars
    PROVE  KeptInv' /\ KeepStep /\ Fine
<1>1. KeepStep /\ \A x \in cut' : x[1] \in DOMAIN sent'
  BY StepsKeep
<1>2. Fine
  BY <1>1, StepsFine
<1> QED
  BY <1>1, <1>2, KeptStep DEF Fine

(* Every recipient of a message is decided on: this is inductive with KeptInv*)
(* and SoundInv.                                                             *)
DecidedInv ==
    \A d \in Devices \ overlapped : \A m \in DOMAIN sent :
        sent[m].by = d =>
            \A e \in Others(d) :
                \/ Arriving(m, e)
                \/ Queued(file[d], Entry(m, e))
                \/ \E c \in calls : c.id = m /\ Holds(c, e)
                \/ <<m, e>> \in cut

LEMMA NewHeld ==
    ASSUME SoundInv, [Next]_vars, NEW m \in DOMAIN sent', m \notin DOMAIN sent
    PROVE  \A e \in Others(sent'[m].by) : \E c \in calls' : c.id = m /\ Holds(c, e)
<1>1. ASSUME NEW d \in Devices,
             Listen(d) \/ Call(d) \/ Stop(d) \/ Start(d) \/ Hang(d)
      PROVE  sent' = sent
  BY <1>1 DEF Listen, Handle, HandleFrame, Discard, Store, Reply, FlushBegins, Flush, FlushOne, FlushEnds,
              Call, CallDelivers, CallQueues, CallPasses, CallSaves, CallSyncs,
              Stop, Start, Hang, worldVars
<1>2. ASSUME NEW d \in Devices, NEW e \in Devices, Discover(d, e) \/ Distrust(d, e)
      PROVE  sent' = sent
  BY <1>2 DEF Discover, Distrust
<1>3. ASSUME UNCHANGED vars PROVE sent' = sent
  BY <1>3 DEF vars
<1>4. PICK d \in Devices : SendMessage(d) \/ CreateBroadcast(d)
  <2>1. sent' # sent
    OBVIOUS
  <2>2. Next
    BY <1>3, <2>1
  <2> QED
    BY <1>1, <1>2, <2>1, <2>2 DEF Next
<1>5. PICK kind, copy : Begin(d, kind, copy)
  BY <1>4 DEF SendMessage, CreateBroadcast
<1>6. /\ sent' = Append(sent, [kind |-> kind, by |-> d])
      /\ calls' = calls \cup {[by |-> d, id |-> Len(sent'), pc |-> "send", to |-> Others(d),
                               base |-> file[d], copy |-> copy]}
  BY <1>5 DEF Begin
<1>7. m = Len(sent') /\ sent'[m].by = d
  BY <1>6, SentFacts DEF SoundInv, Typed
<1>8. PICK c : c = [by |-> d, id |-> m, pc |-> "send", to |-> Others(d), base |-> file[d],
                    copy |-> copy]
  OBVIOUS
<1>9. c \in calls' /\ c.id = m /\ \A e \in Others(d) : Holds(c, e)
  BY <1>6, <1>7, <1>8 DEF Holds
<1> QED
  BY <1>7, <1>9

LEMMA DecidedInit == Init => DecidedInv
  BY DEF Init, DecidedInv

LEMMA DecidedNext ==
    ASSUME SoundInv, KeptInv, DecidedInv, [Next]_vars
    PROVE  DecidedInv'
<1>1. KeepStep /\ Covered /\ got \subseteq got' /\ cut \subseteq cut'
      /\ overlapped \subseteq overlapped'
  BY KeptNext, HistoriesGrow DEF Fine
<1> SUFFICES ASSUME NEW d \in Devices, d \notin overlapped', NEW m \in DOMAIN sent',
                    sent'[m].by = d, NEW e \in Others(d)
             PROVE  \/ Arriving(m, e)'
                    \/ Queued(file'[d], Entry(m, e))
                    \/ \E c \in calls' : c.id = m /\ Holds(c, e)
                    \/ <<m, e>> \in cut'
  BY DEF DecidedInv, Queued, Holds, Others, Entry
<1>2. CASE m \notin DOMAIN sent
  BY <1>2, NewHeld
<1>3. CASE m \in DOMAIN sent
  <2>1. sent[m].by = d /\ e \in Devices /\ Entry(m, e) \in Pending
    BY <1>1, <1>3, EntryTyped DEF KeepStep, Grows, Others
  <2>2. \/ Arriving(m, e)
        \/ Queued(file[d], Entry(m, e))
        \/ \E c \in calls : c.id = m /\ Holds(c, e)
        \/ <<m, e>> \in cut
    BY <1>1, <1>3, <2>1 DEF DecidedInv
  <2>3. CASE Arriving(m, e)
    BY <1>1, <1>3, <2>1, <2>3 DEF KeepStep, ArriveStep
  <2>4. CASE Queued(file[d], Entry(m, e))
    BY <1>1, <2>1, <2>4 DEF Covered, Entry
  <2>5. CASE \E c \in calls : c.id = m /\ Holds(c, e)
    <3>1. PICK c \in calls : c.id = m /\ Holds(c, e)
      BY <2>5
    <3>2. c.by = d
      BY <2>1, <3>1 DEF SoundInv, CallSound
    <3> QED
      BY <1>1, <3>1, <3>2 DEF Covered
  <2> QED
    BY <1>1, <2>2, <2>3, <2>4, <2>5
<1> QED
  BY <1>2, <1>3

-----------------------------------------------------------------------------
(* What a member has stored it shows, unless another write of its own or a   *)
(* state has taken it away: a copy that is saved shows what its base shows,  *)
(* and the message it was made for.                                          *)
CallShows(c) == c.pc = "send" => Shown(c.base) \subseteq Shown(c.copy)
ListenerShows(d) ==
    LET l == listener[d] IN
    /\ l.pc = "flush" \/ (l.pc = "save" /\ l.frame.kind # "sync")
         => Shown(l.base) \subseteq Shown(l.copy)
    /\ l.pc = "save" /\ l.frame.kind \in {"text", "broadcast"} => l.frame.id \in Shown(l.copy)
FileShows(d) ==
    d \notin overlapped \cup mixed => \A m \in Id : <<m, d>> \in got => m \in Shown(file[d])
ShownInv ==
    /\ \A c \in calls : CallShows(c)
    /\ \A d \in Devices : ListenerShows(d) /\ FileShows(d)

(* What keeps it in a step *)
CallsShow == \A c \in calls' : c \in calls \/ CallShows(c)
ListenersShow ==
    \A d \in Devices :
        \/ listener'[d] \in {listener[d], Idle, Down, Hung}
        \/ listener'[d].pc \in {"load", "reply"}
        \/ ListenerShows(d)'
FilesShow ==
    \A d \in Devices : d \notin overlapped' \cup mixed' =>
        /\ Shown(file[d]) \subseteq Shown(file'[d])
        /\ \A m \in Id : <<m, d>> \in got' => <<m, d>> \in got \/ m \in Shown(file'[d])
Showing == CallsShow /\ ListenersShow /\ FilesShow

LEMMA ShownStep ==
    ASSUME ShownInv, [Next]_vars, Showing
    PROVE  ShownInv'
<1>1. overlapped \subseteq overlapped' /\ mixed \subseteq mixed'
  BY HistoriesGrow, MixedGrows
<1>2. \A c \in calls' : CallShows(c)'
  BY DEF Showing, CallsShow, ShownInv, CallShows, Shown
<1>3. ASSUME NEW d \in Devices PROVE ListenerShows(d)'
  <2>1. CASE listener'[d] = listener[d]
    BY <2>1 DEF ShownInv, ListenerShows, Shown
  <2>2. CASE listener'[d] \in {Idle, Down, Hung} \/ listener'[d].pc \in {"load", "reply"}
    <3>1. listener'[d].pc \in {"idle", "down", "hung", "load", "reply"}
      BY <2>2 DEF Idle, Down, Hung
    <3> QED
      BY <3>1 DEF ListenerShows
  <2> QED
    BY <2>1, <2>2 DEF Showing, ListenersShow
<1>4. ASSUME NEW d \in Devices PROVE FileShows(d)'
  <2> SUFFICES ASSUME d \notin overlapped' \cup mixed', NEW m \in Id, <<m, d>> \in got'
               PROVE  m \in Shown(file'[d])
    BY DEF FileShows, Shown
  <2>1. d \notin overlapped \cup mixed
    BY <1>1
  <2> QED
    BY <2>1 DEF Showing, FilesShow, ShownInv, FileShows
<1> QED
  BY <1>2, <1>3, <1>4 DEF ShownInv

(* A step that leaves the files, and a listener that goes on *)
LEMMA SameFiles ==
    ASSUME UNCHANGED <<file, got>>
    PROVE  FilesShow
  BY DEF FilesShow

LEMMA BusyShows ==
    ASSUME Typed, NEW d \in Devices, NEW next, Busy(d, next),
           \/ next \in {Idle, Down, Hung} \/ next.pc \in {"load", "reply"}
           \/ listener'[d] = next => ListenerShows(d)'
    PROVE  ListenersShow
<1>1. /\ listener'[d] = next
      /\ \A e \in Devices \ {d} : listener'[e] = listener[e]
  BY DEF Typed, Busy
<1> QED
  BY <1>1 DEF ListenersShow

LEMMA HandedShows ==
    ASSUME Typed, NEW d, NEW e \in Devices, NEW f, NEW b \in Devices, NEW next,
           \/ listener' = [listener EXCEPT ![e] = Handed(d, e, f)]
           \/ /\ listener' = [listener EXCEPT ![b] = next, ![e] = Handed(d, e, f)] /\ b # e
              /\ next = Idle \/ (listener'[b] = next => ListenerShows(b)')
    PROVE  ListenersShow
<1>1. /\ listener'[e] = Handed(d, e, f)
      /\ \A x \in Devices \ {e} : listener'[x] = listener[x] \/ (x = b /\ b # e /\ listener'[b] = next)
  BY DEF Typed
<1>2. Handed(d, e, f) = Idle \/ Handed(d, e, f).pc = "load"
  BY DEF Handed
<1>3. CASE listener' = [listener EXCEPT ![e] = Handed(d, e, f)]
  BY <1>2, <1>3 DEF ListenersShow, Typed
<1>4. CASE /\ listener' = [listener EXCEPT ![b] = next, ![e] = Handed(d, e, f)] /\ b # e
           /\ next = Idle \/ (listener'[b] = next => ListenerShows(b)')
  <2>1. /\ listener'[b] = next
        /\ \A x \in Devices \ {b, e} : listener'[x] = listener[x]
    BY <1>4 DEF Typed
  <2> QED
    BY <1>1, <1>2, <1>4, <2>1 DEF ListenersShow
<1> QED
  BY <1>3, <1>4

(* A write of r over what base was read from *)
LEMMA WriteShows ==
    ASSUME Typed, NEW d \in Devices, NEW base, NEW r, Write(d, base, r),
           d \notin mixed' => Shown(base) \subseteq Shown(r),
           \A e \in Devices, m \in Id : <<m, e>> \in got' =>
               <<m, e>> \in got \/ (e = d /\ m \in Shown(r)) \/ e \in mixed'
    PROVE  FilesShow
<1> SUFFICES ASSUME NEW e \in Devices, e \notin overlapped' \cup mixed'
             PROVE  /\ Shown(file[e]) \subseteq Shown(file'[e])
                    /\ \A m \in Id : <<m, e>> \in got' => <<m, e>> \in got \/ m \in Shown(file'[e])
  BY DEF FilesShow
<1>1. CASE e # d
  <2>1. file'[e] = file[e]
    BY <1>1 DEF Typed, Write
  <2> QED
    BY <1>1, <2>1
<1>2. CASE e = d
  <2>1. file'[d] = r /\ file[d] = base
    BY <1>2 DEF Typed, Write
  <2> QED
    BY <1>2, <2>1
<1> QED
  BY <1>1, <1>2

(* The calls *)
LEMMA CallsShowing ==
    ASSUME SoundInv, ShownInv, NEW c \in calls,
           CallDelivers(c) \/ CallQueues(c) \/ CallPasses(c) \/ CallSaves(c) \/ CallSyncs(c)
    PROVE  Showing
<1>1. Typed /\ c \in Calls /\ CallShows(c) /\ CallSound(c) /\ c.by \in Devices
  BY DEF SoundInv, Typed, ShownInv, Calls
<1>2. ASSUME NEW next, Continue(c, next), CallShows(next)
      PROVE  CallsShow
  BY <1>2 DEF CallsShow, Continue
<1>3. ASSUME UNCHANGED listener PROVE ListenersShow
  BY <1>3 DEF ListenersShow
<1>4. \A e \in c.to : e \in Devices /\ CallShows([c EXCEPT !.to = c.to \ {e}])
  BY <1>1 DEF Calls, CallShows, CallSound, Others
<1>5. CASE CallDelivers(c)
  <2>1. PICK e \in c.to :
          /\ listener' = [listener EXCEPT ![e] = Handed(c.by, e, Message(c.id))]
          /\ Continue(c, [c EXCEPT !.to = @ \ {e}])
    BY <1>5 DEF CallDelivers
  <2>2. CallsShow
    BY <1>2, <1>4, <2>1
  <2>3. ListenersShow
    BY <1>1, <1>4, <2>1, HandedShows
  <2> QED
    BY <1>5, <2>2, <2>3, SameFiles DEF CallDelivers, Showing
<1>6. CASE CallQueues(c)
  <2>1. PICK e \in c.to :
          Continue(c, [c EXCEPT !.to = @ \ {e}, !.copy = Queue(@, Entry(c.id, e))])
    BY <1>6 DEF CallQueues
  <2>2. PICK r : r = Queue(c.copy, Entry(c.id, e))
    OBVIOUS
  <2>3. Shown(r) = Shown(c.copy)
    <3>1. c.copy \in Workspaces /\ Names(c.copy)
      <4>1. c.copy \in States(c.by, TRUE)
        BY <1>1, CallStates
      <4> QED
        BY <1>1, <4>1 DEF SoundInv, Sound, Calls
    <3>2. Entry(c.id, e) \in Pending
      BY <1>1, <1>4, EntryTyped DEF CallSound
    <3>3. SameTexts(c.copy, r)
      BY <2>2, <3>1, <3>2, QueueFacts
    <3> QED
      BY <3>3 DEF SameTexts, Shown
  <2>4. PICK next : next = [c EXCEPT !.to = c.to \ {e}, !.copy = r]
    OBVIOUS
  <2>5. next.pc = c.pc /\ next.base = c.base /\ next.copy = r
    BY <1>1, <2>4 DEF Calls
  <2>6. CallShows(next) /\ Continue(c, next)
    BY <1>1, <2>1, <2>2, <2>3, <2>4, <2>5 DEF CallShows
  <2> QED
    BY <1>2, <1>3, <1>6, <2>6, SameFiles DEF CallQueues, Showing
<1>7. CASE CallPasses(c)
  BY <1>2, <1>3, <1>4, <1>7, SameFiles DEF CallPasses, Showing
<1>8. CASE CallSaves(c)
  <2>1. c.pc = "send" /\ UNCHANGED <<listener, got>>
    BY <1>8 DEF CallSaves
  <2>2. PICK r : r = [c.copy EXCEPT !.stamp = clock + 1]
    OBVIOUS
  <2>3. Shown(r) = Shown(c.copy) /\ Shown(c.base) \subseteq Shown(c.copy)
    BY <1>1, <2>1, <2>2 DEF Calls, Workspaces, Shown, CallShows
  <2>4. Write(c.by, c.base, c.copy) \/ Write(c.by, c.base, r)
    BY <1>8, <2>2 DEF CallSaves
  <2>5. FilesShow
    BY <1>1, <2>1, <2>3, <2>4, WriteShows
  <2>6. CallsShow
    <3>1. CASE calls' = calls \ {c}
      BY <3>1 DEF CallsShow
    <3>2. PICK next : next = [c EXCEPT !.pc = "sync", !.to = Others(c.by), !.copy = r]
      OBVIOUS
    <3>3. CallShows(next)
      BY <1>1, <3>2 DEF Calls, CallShows
    <3> QED
      BY <1>2, <1>8, <2>2, <3>1, <3>2, <3>3 DEF CallSaves
  <2> QED
    BY <1>3, <2>1, <2>5, <2>6 DEF Showing
<1>9. CASE CallSyncs(c)
  <2>1. FilesShow
    BY <1>9, SameFiles DEF CallSyncs
  <2>2. CallsShow
    <3>1. CASE calls' = calls \ {c}
      BY <3>1 DEF CallsShow
    <3> QED
      BY <1>2, <1>4, <1>9, <3>1 DEF CallSyncs
  <2>3. ListenersShow
    <3>1. PICK f : f = [kind |-> "sync", stamp |-> c.copy.stamp,
                        texts |-> c.copy.texts, notices |-> c.copy.notices]
      OBVIOUS
    <3>2. CASE \E e \in c.to : listener' = [listener EXCEPT ![e] = Handed(c.by, e, f)]
      BY <1>1, <1>4, <3>2, HandedShows
    <3> QED
      BY <1>3, <1>9, <3>1, <3>2 DEF CallSyncs
  <2> QED
    BY <2>1, <2>2, <2>3 DEF Showing
<1> QED
  BY <1>5, <1>6, <1>7, <1>8, <1>9

LEMMA BeginShows ==
    ASSUME SoundInv, NEW d \in Devices, SendMessage(d) \/ CreateBroadcast(d)
    PROVE  Showing
<1>1. PICK q : q = file[d]
  OBVIOUS
<1>2. q \in Workspaces
  BY <1>1 DEF SoundInv, Typed
<1>3. PICK n : n = Len(sent) + 1
  OBVIOUS
<1>4. PICK kind, copy : Begin(d, kind, copy) /\ Shown(q) \subseteq Shown(copy)
  <2>1. CASE SendMessage(d)
    <3>1. PICK s : s = Append(q.texts, n)
      OBVIOUS
    <3>2. PICK copy : copy = [q EXCEPT !.texts = s, !.stamp = clock + 1]
      OBVIOUS
    <3>3. ToSet(s) = ToSet(q.texts) \cup {n}
      BY <1>2, <3>1, AppendIds DEF Workspaces
    <3>4. Shown(q) \subseteq Shown(copy)
      BY <1>2, <3>2, <3>3 DEF Workspaces, Shown
    <3> QED
      BY <1>1, <1>3, <2>1, <3>1, <3>2, <3>4 DEF SendMessage
  <2>2. CASE CreateBroadcast(d)
    <3>1. PICK s : s = Append(q.notices, n)
      OBVIOUS
    <3>2. PICK copy : copy = [q EXCEPT !.notices = s]
      OBVIOUS
    <3>3. ToSet(s) = ToSet(q.notices) \cup {n}
      BY <1>2, <3>1, AppendIds DEF Workspaces
    <3>4. Shown(q) \subseteq Shown(copy)
      BY <1>2, <3>2, <3>3 DEF Workspaces, Shown
    <3> QED
      BY <1>1, <1>3, <2>2, <3>1, <3>2, <3>4 DEF CreateBroadcast
  <2> QED
    BY <2>1, <2>2
<1>5. PICK c : c = [by |-> d, id |-> Len(sent'), pc |-> "send", to |-> Others(d),
                    base |-> q, copy |-> copy]
  OBVIOUS
<1>6. calls' = calls \cup {c} /\ UNCHANGED <<file, got, listener>>
  BY <1>1, <1>4, <1>5 DEF Begin
<1>7. CallShows(c)
  BY <1>4, <1>5 DEF CallShows
<1> QED
  BY <1>6, <1>7, SameFiles DEF Showing, CallsShow, ListenersShow

(* The listener *)
LEMMA HoldShows ==
    ASSUME Typed, NEW d \in Devices, NEW copy, NEW then, Hold(d, copy, then),
           listener[d].frame.kind # "sync" => Shown(file[d]) \subseteq Shown(copy),
           listener[d].frame.kind \in {"text", "broadcast"} =>
               listener[d].frame.id \in Shown(copy)
    PROVE  ListenersShow
<1>1. PICK l : l = [pc |-> "save", from |-> listener[d].from, frame |-> listener[d].frame,
                    base |-> file[d], copy |-> copy, then |-> then]
  OBVIOUS
<1>2. Busy(d, l)
  BY <1>1 DEF Hold
<1>3. listener'[d] = l => ListenerShows(d)'
  BY <1>1 DEF ListenerShows, Shown
<1> QED
  BY <1>2, <1>3, BusyShows

LEMMA HandleShows ==
    ASSUME SoundInv, NEW d \in Devices, Handle(d)
    PROVE  Showing
<1>1. UNCHANGED <<file, calls, got>> /\ listener[d].pc = "load"
  BY DEF Handle, HandleFrame, Discard
<1>2. CallsShow /\ FilesShow
  BY <1>1, SameFiles DEF CallsShow
<1> SUFFICES ListenersShow
  BY <1>2 DEF Showing
<1>3. PICK f : f = listener[d].frame
  OBVIOUS
<1>4. PICK q : q = file[d]
  OBVIOUS
<1>5. /\ listener[d] \in Loading /\ FrameSound(d, f) /\ f \in Frames
      /\ listener[d].from \in Devices /\ q \in Workspaces /\ Sound(d, q) /\ Typed
  <2>1. q \in States(d, TRUE) /\ listener[d] \in Listeners
    BY <1>4 DEF States, SoundInv, Typed
  <2> QED
    BY <1>1, <1>3, <1>4, <2>1, ListenerIs DEF SoundInv, Typed, ListenerSound, Loading
<1>6. CASE Busy(d, Idle)
  BY <1>5, <1>6, BusyShows
<1>7. CASE f.kind = "text" /\ HandleText(d, f.id)
  <2>1. PICK s : s = Append(q.texts, f.id)
    OBVIOUS
  <2>2. PICK t : t = [q EXCEPT !.texts = s, !.stamp = clock + 1]
    OBVIOUS
  <2>3. PICK r : r = MarkReceived(t, f.id)
    OBVIOUS
  <2>4. Hold(d, r, "reply") \/ Busy(d, Idle)
    BY <1>4, <1>7, <2>1, <2>2, <2>3 DEF HandleText
  <2>5. f.id \in Id
    BY <1>5, <1>7, SentFacts DEF FrameSound
  <2>6. s \in Seq(Id) /\ clock + 1 \in Nat /\ ToSet(s) = ToSet(q.texts) \cup {f.id}
    <3>1. q.texts \in Seq(Id) /\ clock \in Nat
      BY <1>5, SentFacts DEF Workspaces
    <3> QED
      BY <2>1, <2>5, <3>1, AppendIds
  <2>7. t \in Workspaces /\ t.texts = s /\ t.notices = q.notices /\ t.journal = q.journal
    BY <1>5, <2>2, <2>6 DEF Workspaces
  <2>8. r.texts = s /\ r.notices = q.notices
    BY <1>5, <2>3, <2>5, <2>7, MarkReceivedFacts DEF Sound
  <2>9. Shown(r) = Shown(q) \cup {f.id}
    BY <2>6, <2>8 DEF Shown
  <2> QED
    BY <1>3, <1>4, <1>5, <1>6, <2>4, <2>9, HoldShows
<1>8. CASE f.kind = "broadcast" /\ HandleBroadcast(d, f.id)
  <2>1. PICK r : r = ReceiveBroadcast(q, f.id)
    OBVIOUS
  <2>2. Hold(d, r, "idle")
    BY <1>4, <1>8, <2>1 DEF HandleBroadcast
  <2>3. Shown(q) \cup {f.id} \subseteq Shown(r)
    <3>1. CASE f.id \in ToSet(q.notices)
      BY <2>1, <3>1 DEF ReceiveBroadcast, Shown
    <3>2. CASE f.id \notin ToSet(q.notices)
      <4>1. PICK s : s = Append(q.notices, f.id)
        OBVIOUS
      <4>2. r = [q EXCEPT !.notices = s] /\ ToSet(s) = ToSet(q.notices) \cup {f.id}
        BY <1>5, <2>1, <3>2, <4>1, AppendIds DEF ReceiveBroadcast, Workspaces
      <4>3. r.texts = q.texts /\ r.notices = s
        BY <1>5, <4>2 DEF Workspaces
      <4> QED
        BY <4>2, <4>3 DEF Shown
    <3> QED
      BY <3>1, <3>2
  <2> QED
    BY <1>3, <1>4, <1>5, <2>2, <2>3, HoldShows
<1>9. CASE f.kind = "receipt" /\ HandleReceipt(d, f.id)
  <2>1. PICK p : p = Entry(f.id, listener[d].from)
    OBVIOUS
  <2>2. PICK t : t = RemovePending(q, p)
    OBVIOUS
  <2>3. PICK r : r = [t EXCEPT !.stamp = clock + 1]
    OBVIOUS
  <2>4. Hold(d, r, "idle") \/ Busy(d, Idle)
    BY <1>4, <1>9, <2>1, <2>2, <2>3 DEF HandleReceipt
  <2>5. p \in Pending
    BY <1>5, <1>9, <2>1 DEF Entry, Pending, Frames
  <2>6. t \in Workspaces /\ SameTexts(q, t)
    BY <1>5, <2>2, <2>5, RemoveFacts DEF Sound
  <2>7. Shown(r) = Shown(q)
    BY <2>3, <2>6 DEF Workspaces, SameTexts, Shown
  <2> QED
    BY <1>3, <1>4, <1>5, <1>6, <1>9, <2>4, <2>7, HoldShows
<1>10. CASE f.kind = "sync" /\ HandleSync(d, f)
  <2>1. (\E copy : Hold(d, copy, "idle")) \/ Busy(d, Idle)
    BY <1>10 DEF HandleSync
  <2> QED
    BY <1>3, <1>5, <1>6, <1>10, <2>1, HoldShows
<1> QED
  BY <1>3, <1>6, <1>7, <1>8, <1>9, <1>10 DEF Handle, HandleFrame, Discard

LEMMA StoreShows ==
    ASSUME SoundInv, ShownInv, NEW d \in Devices, Store(d)
    PROVE  Showing
<1>1. PICK l : l = listener[d]
  OBVIOUS
<1>2. PICK copy : copy = l.copy
  OBVIOUS
<1>3. /\ l.pc = "save" /\ Write(d, l.base, copy) /\ UNCHANGED calls
      /\ got' = (IF l.frame.kind \in {"text", "broadcast"} THEN got \cup {<<l.frame.id, d>>} ELSE got)
      /\ l.frame.kind = "sync" /\ l.copy # l.base => d \in mixed'
  BY <1>1, <1>2 DEF Store
<1>4. /\ l.frame.kind # "sync" => Shown(l.base) \subseteq Shown(copy)
      /\ l.frame.kind \in {"text", "broadcast"} => l.frame.id \in Shown(copy)
  BY <1>1, <1>2, <1>3 DEF ShownInv, ListenerShows
<1>5. d \notin mixed' => Shown(l.base) \subseteq Shown(copy)
  BY <1>2, <1>3, <1>4
<1>6. \A e \in Devices, m \in Id : <<m, e>> \in got' =>
          <<m, e>> \in got \/ (e = d /\ m \in Shown(copy)) \/ e \in mixed'
  BY <1>3, <1>4
<1>7. FilesShow
  BY <1>3, <1>5, <1>6, WriteShows DEF SoundInv
<1>8. ListenersShow
  <2>1. PICK next : Busy(d, next) /\ (next = Idle \/ next.pc = "reply")
    BY DEF Store
  <2> QED
    BY <2>1, BusyShows DEF SoundInv
<1> QED
  BY <1>3, <1>7, <1>8 DEF Showing, CallsShow

LEMMA ReplyShows ==
    ASSUME SoundInv, NEW d \in Devices, Reply(d)
    PROVE  Showing
<1>1. PICK l : l = listener[d]
  OBVIOUS
<1>2. l.pc = "reply" /\ UNCHANGED <<file, calls, got>> /\ Typed /\ l \in Listeners
  BY <1>1 DEF Reply, SoundInv, Typed
<1>3. l.from \in Devices
  BY <1>2, ListenerIs DEF Replying
<1>4. CASE Busy(d, Idle)
  BY <1>2, <1>4, BusyShows, SameFiles DEF Showing, CallsShow
<1>5. CASE /\ Accepts(l.from)
           /\ listener' = [listener EXCEPT ![d] = Idle,
                  ![l.from] = Handed(d, l.from, [kind |-> "receipt", id |-> l.id])]
  <2>1. PICK e, f : e = l.from /\ f = [kind |-> "receipt", id |-> l.id]
    OBVIOUS
  <2>2. e \in Devices /\ d # e
    BY <1>1, <1>2, <1>3, <1>5, <2>1 DEF Accepts, Idle
  <2>3. listener' = [listener EXCEPT ![d] = Idle, ![e] = Handed(d, e, f)]
    BY <1>5, <2>1
  <2>4. ListenersShow
    BY <1>2, <2>2, <2>3, HandedShows
  <2> QED
    BY <1>2, <2>4, SameFiles DEF Showing, CallsShow
<1> QED
  BY <1>1, <1>4, <1>5 DEF Reply

LEMMA FlushBeginsShows ==
    ASSUME SoundInv, NEW d \in Devices, NEW due, Flush(d, due)
    PROVE  Showing
<1>1. PICK l : l = [pc |-> "flush", base |-> file[d], copy |-> file[d], due |-> due,
                 changed |-> FALSE]
  OBVIOUS
<1>2. UNCHANGED <<file, calls, got>> /\ Busy(d, l)
  BY <1>1 DEF Flush
<1>3. listener'[d] = l => ListenerShows(d)'
  BY <1>1 DEF ListenerShows
<1> QED
  BY <1>2, <1>3, BusyShows, SameFiles DEF Showing, CallsShow, SoundInv

LEMMA FlushOneShows ==
    ASSUME SoundInv, ShownInv, NEW d \in Devices, FlushOne(d)
    PROVE  Showing
<1>1. PICK l : l = listener[d]
  OBVIOUS
<1>2. l.pc = "flush" /\ UNCHANGED <<file, calls, got>> /\ Typed
  BY <1>1 DEF FlushOne, SoundInv
<1>3. PICK i \in l.due :
        LET p == l.base.pending[i] IN
        \/ Busy(d, GoneOn(l, i, RemovePending(l.copy, p), TRUE))
        \/ Busy(d, GoneOn(l, i, l.copy, l.changed))
        \/ /\ Accepts(p.to)
           /\ listener' =
                [listener EXCEPT ![d] = GoneOn(l, i, RemovePending(l.copy, p), TRUE),
                                 ![p.to] = Handed(d, p.to, Message(p.id))]
        \/ Busy(d, GoneOn(l, i, Reschedule(l.copy, p), TRUE))
  BY <1>1, FlushOneGoes
<1>4. PICK p : p = l.base.pending[i]
  OBVIOUS
<1>5. /\ l \in Flushing /\ l.copy \in Workspaces /\ Sound(d, l.copy)
      /\ p \in Pending /\ p.to \in Devices /\ p.to # d
  BY <1>1, <1>2, <1>4, FlushFacts
<1>6. Shown(l.base) \subseteq Shown(l.copy)
  BY <1>1, <1>2 DEF ShownInv, ListenerShows
<1>7. ASSUME NEW copy, SameTexts(l.copy, copy), NEW b, listener'[d] = GoneOn(l, i, copy, b)
      PROVE  ListenerShows(d)'
  <2>1. PICK next : next = GoneOn(l, i, copy, b)
    OBVIOUS
  <2>2. listener'[d] = next /\ next.pc = "flush" /\ next.base = l.base /\ next.copy = copy
    BY <1>5, <1>7, <2>1 DEF Flushing, GoneOn
  <2>3. Shown(copy) = Shown(l.copy)
    BY <1>7 DEF SameTexts, Shown
  <2> QED
    BY <1>6, <2>2, <2>3 DEF ListenerShows, Shown
<1>8. PICK removed : removed = RemovePending(l.copy, p)
  OBVIOUS
<1>9. SameTexts(l.copy, removed)
  BY <1>5, <1>8, RemoveFacts DEF Sound
<1>10. PICK later : later = Reschedule(l.copy, p)
  OBVIOUS
<1>11. SameTexts(l.copy, later)
  BY <1>5, <1>10, RescheduleFacts DEF Sound
<1>12. SameTexts(l.copy, l.copy)
  BY DEF SameTexts
<1>13. ASSUME NEW copy, SameTexts(l.copy, copy), NEW b, Busy(d, GoneOn(l, i, copy, b))
       PROVE  ListenersShow
  <2>1. PICK next : next = GoneOn(l, i, copy, b)
    OBVIOUS
  <2>2. listener'[d] = next => ListenerShows(d)'
    BY <1>7, <1>13, <2>1
  <2> QED
    BY <1>2, <1>13, <2>1, <2>2, BusyShows
<1>14. ASSUME \/ Busy(d, GoneOn(l, i, removed, TRUE))
              \/ Busy(d, GoneOn(l, i, l.copy, l.changed))
              \/ Busy(d, GoneOn(l, i, later, TRUE))
       PROVE  ListenersShow
  <2>1. CASE Busy(d, GoneOn(l, i, removed, TRUE))
    BY <1>9, <1>13, <2>1
  <2>2. CASE Busy(d, GoneOn(l, i, l.copy, l.changed))
    BY <1>12, <1>13, <2>2
  <2>3. CASE Busy(d, GoneOn(l, i, later, TRUE))
    BY <1>11, <1>13, <2>3
  <2> QED
    BY <1>14, <2>1, <2>2, <2>3
<1>15. ASSUME listener' = [listener EXCEPT ![d] = GoneOn(l, i, removed, TRUE),
                                           ![p.to] = Handed(d, p.to, Message(p.id))]
       PROVE  ListenersShow
  <2>1. PICK e, f, next : e = p.to /\ f = Message(p.id) /\ next = GoneOn(l, i, removed, TRUE)
    OBVIOUS
  <2>2. listener' = [listener EXCEPT ![d] = next, ![e] = Handed(d, e, f)] /\ e \in Devices /\ d # e
    BY <1>5, <1>15, <2>1
  <2>3. listener'[d] = next => ListenerShows(d)'
    BY <1>7, <1>9, <2>1
  <2>4. /\ listener' = [listener EXCEPT ![d] = next, ![e] = Handed(d, e, f)] /\ d # e
        /\ next = Idle \/ (listener'[d] = next => ListenerShows(d)')
    BY <2>2, <2>3
  <2> QED
    BY <1>2, <2>2, <2>4, HandedShows
<1>16. ListenersShow
  <2>1. \/ Busy(d, GoneOn(l, i, removed, TRUE))
        \/ Busy(d, GoneOn(l, i, l.copy, l.changed))
        \/ listener' = [listener EXCEPT ![d] = GoneOn(l, i, removed, TRUE),
                                        ![p.to] = Handed(d, p.to, Message(p.id))]
        \/ Busy(d, GoneOn(l, i, later, TRUE))
    BY <1>3, <1>4, <1>8, <1>10
  <2> QED
    BY <1>14, <1>15, <2>1
<1> QED
  BY <1>2, <1>16, SameFiles DEF Showing, CallsShow

LEMMA FlushEndsShows ==
    ASSUME SoundInv, ShownInv, NEW d \in Devices, FlushEnds(d)
    PROVE  Showing
<1>1. PICK l : l = listener[d]
  OBVIOUS
<1>2. /\ l.pc = "flush" /\ Busy(d, Idle) /\ UNCHANGED <<calls, got>>
      /\ Write(d, l.base, l.copy) \/ file' = file
  BY <1>1 DEF FlushEnds
<1>3. Shown(l.base) \subseteq Shown(l.copy)
  BY <1>1, <1>2 DEF ShownInv, ListenerShows
<1>4. FilesShow
  BY <1>2, <1>3, WriteShows, SameFiles DEF SoundInv
<1> QED
  BY <1>2, <1>4, BusyShows DEF Showing, CallsShow, SoundInv

LEMMA OthersShow ==
    ASSUME SoundInv, NEW d \in Devices, NEW e \in Devices,
           Stop(d) \/ Start(d) \/ Hang(d) \/ Discover(d, e) \/ Distrust(d, e)
    PROVE  Showing
<1>1. CASE Stop(d) \/ Start(d) \/ Hang(d)
  <2>1. UNCHANGED <<file, got>> /\ calls' \subseteq calls
        /\ \E next \in {Idle, Down, Hung} : Busy(d, next)
    BY <1>1 DEF Stop, Start, Hang
  <2> QED
    BY <2>1, BusyShows, SameFiles DEF Showing, CallsShow, SoundInv
<1>2. CASE Discover(d, e) \/ Distrust(d, e)
  BY <1>2, SameFiles DEF Discover, Distrust, Showing, CallsShow, ListenersShow
<1> QED
  BY <1>1, <1>2

LEMMA ShownInit == Init => ShownInv
  BY DEF Init, ShownInv, ListenerShows, FileShows, Idle

LEMMA ShownNext ==
    ASSUME SoundInv, ShownInv, [Next]_vars
    PROVE  ShownInv'
<1>1. CASE UNCHANGED vars
  BY <1>1, SameFiles, ShownStep DEF vars, Showing, CallsShow, ListenersShow
<1>2. ASSUME NEW d \in Devices, Call(d) PROVE Showing
  BY <1>2, CallsShowing DEF Call
<1>3. ASSUME NEW d \in Devices, Listen(d) PROVE Showing
  BY <1>3, HandleShows, StoreShows, ReplyShows, FlushBeginsShows, FlushOneShows, FlushEndsShows
     DEF Listen, FlushBegins
<1>4. ASSUME Next PROVE Showing
  <2>1. PICK d \in Devices :
          \/ SendMessage(d) \/ CreateBroadcast(d) \/ Call(d)
          \/ Listen(d) \/ Hang(d)
          \/ Stop(d) \/ Start(d)
          \/ \E e \in Devices : Discover(d, e) \/ Distrust(d, e)
    BY <1>4 DEF Next
  <2>2. CASE SendMessage(d) \/ CreateBroadcast(d)
    BY <2>2, BeginShows
  <2>3. CASE Call(d) \/ Listen(d)
    BY <1>2, <1>3, <2>3
  <2>4. CASE Hang(d) \/ Stop(d) \/ Start(d) \/ \E e \in Devices : Discover(d, e) \/ Distrust(d, e)
    BY <2>4, OthersShow
  <2> QED
    BY <2>1, <2>2, <2>3, <2>4
<1> QED
  BY <1>1, <1>4, ShownStep

(* However calls, listeners, retries, faults, stops and users interleave, a  *)
(* message is not forgotten by a device whose writes did not undo each other:*)
(* each other member shows it, dropped it or is about to store it, or it is  *)
(* still queued or being sent; one that has stored it shows it for good, but *)
(* for its own overlapping writes, the states it takes over and a file that  *)
(* is left half written.  What a stop has cut off, the author does not show. *)
THEOREM NoMessageForgotten == Spec => []NothingForgotten
<1>1. SoundInv /\ KeptInv /\ DecidedInv /\ ShownInv => NothingForgotten
  <2> SUFFICES ASSUME SoundInv, KeptInv, DecidedInv, ShownInv,
                      NEW m \in DOMAIN sent, NEW e \in Others(sent[m].by)
               PROVE  /\ <<m, e>> \in got => Shows(e, m)
                      /\ sent[m].by \notin overlapped \cup torn =>
                           \/ <<m, e>> \in got \cup lost
                           \/ Queued(file[sent[m].by], Entry(m, e))
                           \/ Underway(m, e)
                           \/ /\ <<m, e>> \in cut
                              /\ \/ sent[m].by \in mixed
                                 \/ m \notin Shown(file[sent[m].by])
    BY DEF NothingForgotten
  <2>1. sent[m].by \in Devices /\ m \in Id /\ e \in Devices
    BY SentFacts DEF Others, SoundInv
  <2>2. <<m, e>> \in got => Shows(e, m)
    BY <2>1 DEF ShownInv, FileShows, Shows
  <2>3. <<m, e>> \in cut => sent[m].by \in mixed \/ m \notin Shown(file[sent[m].by])
    BY <2>1 DEF KeptInv, FileKept, Hidden, Undecided, Others
  <2> QED
    BY <2>1, <2>2, <2>3 DEF DecidedInv, Arriving, Underway
<1>2. KeptInv /\ SoundInv /\ [Next]_vars => KeptInv'
  BY KeptNext
<1>3. KeptInv /\ DecidedInv /\ SoundInv /\ [Next]_vars => DecidedInv'
  BY DecidedNext
<1>4. ShownInv /\ SoundInv /\ [Next]_vars => ShownInv'
  BY ShownNext
<1> QED
  BY <1>1, <1>2, <1>3, <1>4, KeptInit, DecidedInit, ShownInit, SoundHolds, PTL DEF Spec
=============================================================================
