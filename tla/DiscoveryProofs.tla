--------------------------- MODULE DiscoveryProofs ---------------------------
(* However late, often and disordered beacons come, and whatever sessions    *)
(* start, stop and overlap: a peer is not shown long after its last beacon,  *)
(* and a session answers a device at most once in a timeout.                 *)
EXTENDS Discovery, TLAPS

Thread == [dev : Devices, session : Session, table : PeerTable]
Sight == [by : Devices, session : Session, of : Devices, was : Session, at : Time]

(* The table of session n of d, which has given the answers A: an entry is   *)
(* no older than a fresh beacon when it is made, and after an answer there   *)
(* is an entry until the timeout is over.                                    *)
Since(d, table, a) ==
    IF table[a.of] = None THEN time - a.at > Timeout
    ELSE table[a.of].last_seen >= a.at + Skew[d]
TableOK(d, n, table, A) ==
    /\ table \in PeerTable
    /\ table[d] = None
    /\ \A e \in Devices :
         table[e] # None => table[e].last_seen - (table[e].made + Skew[e]) <= Timeout + Tolerance
    /\ \A a \in A : a.by = d /\ a.session = n => Since(d, table, a)

Types ==
    /\ time \in Time /\ net \subseteq Beacon
    /\ starts \in 0 .. MaxStarts /\ faults \in 0 .. MaxFaults
    /\ threads \subseteq Thread
    /\ answers \subseteq Sight
    /\ handle \in [Devices -> 0 .. starts]
Threads == \A t \in threads : t.session <= starts /\ TableOK(t.dev, t.session, t.table, answers)
OneEach == \A t, u \in threads : t.session = u.session => t = u
Held == \A d \in Devices : handle[d] # 0 => \E t \in threads : t.dev = d /\ t.session = handle[d]
Sights == \A a \in answers : a.session = handle[a.by] /\ a.at <= time

Inv == Types /\ Threads /\ OneEach /\ Held /\ Sights /\ AnswersApart

-----------------------------------------------------------------------------
LEMMA Constants ==
    /\ MaxTime \in Nat /\ MaxStarts \in Nat /\ MaxFaults \in Nat
    /\ Timeout \in Nat /\ Tolerance \in Nat
    /\ \A d \in Devices : Skew[d] \in Int
BY SkewAssumption, TimeoutAssumption, BoundsAssumption

LEMMA NowIsClock ==
    ASSUME time \in Time, NEW d \in Devices
    PROVE  Now(d) \in Clock /\ Now(d) \in Int
BY Constants DEF Now, Clock, Time

LEMMA EntryType ==
    ASSUME NEW p \in Peer
    PROVE  p.session \in Session /\ p.made \in Int /\ p.last_seen \in Int
BY Constants DEF Peer, Clock, Session, Time

-----------------------------------------------------------------------------
(* Tables *)

LEMMA PruneTable ==
    ASSUME time \in Time, NEW d \in Devices, NEW n, NEW A \in SUBSET Sight,
           NEW table, TableOK(d, n, table, A)
    PROVE  TableOK(d, n, Prune(d, table), A)
<1> DEFINE pruned == Prune(d, table)
<1>1. table \in PeerTable BY DEF TableOK
<1>2. \A e \in Devices : pruned[e] = None \/ pruned[e] = table[e] BY DEF Prune
<1>3. pruned \in PeerTable BY <1>1 DEF Prune, PeerTable
<1>4. ASSUME NEW a \in A, a.by = d, a.session = n PROVE Since(d, pruned, a)
  <2>1. Since(d, table, a) BY <1>4 DEF TableOK
  <2>2. a.of \in Devices /\ a.at \in Int /\ Skew[d] \in Int /\ time \in Int /\ Timeout \in Int
    BY Constants DEF Sight, Time
  <2>3. CASE pruned[a.of] = table[a.of]
    BY <2>1, <2>3 DEF Since
  <2>4. CASE pruned[a.of] # table[a.of]
    <3>1. pruned[a.of] = None /\ Stale(d, table[a.of])
      BY <2>2, <2>4 DEF Prune
    <3>6. table[a.of] \in Peer \cup {None} BY <1>1, <2>2 DEF PeerTable
    <3>7. table[a.of] # None /\ Now(d) - table[a.of].last_seen > Timeout
      BY <3>1 DEF Stale
    <3>2. table[a.of] \in Peer /\ time + Skew[d] - table[a.of].last_seen > Timeout
      <4>1. table[a.of] \in Peer BY <3>6, <3>7
      <4>2. table[a.of].last_seen \in Int BY <4>1, EntryType
      <4>3. time + Skew[d] - table[a.of].last_seen > Timeout
        BY <2>2, <3>7, <4>2 DEF Now
      <4> QED BY <4>1, <4>3
    <3>3. table[a.of].last_seen >= a.at + Skew[d]
      BY <2>1, <3>1 DEF Since, Stale
    <3>4. table[a.of].last_seen \in Int BY <3>2, EntryType
    <3>5. time - a.at > Timeout BY <2>2, <3>2, <3>3, <3>4
    <3> QED BY <3>1, <3>5 DEF Since
  <2> QED BY <2>3, <2>4
<1>5. pruned[d] = None BY <1>2 DEF TableOK
<1>6. \A e \in Devices :
        pruned[e] # None => pruned[e].last_seen - (pruned[e].made + Skew[e]) <= Timeout + Tolerance
  BY <1>2 DEF TableOK
<1> HIDE DEF pruned
<1>7. TableOK(d, n, pruned, A) BY <1>3, <1>4, <1>5, <1>6 DEF TableOK
<1> QED BY <1>7 DEF pruned

(* What taking a beacon makes of a table, for the devices that it is not of  *)
LEMMA ObserveTable ==
    ASSUME time \in Time, NEW t \in Thread, NEW b \in Beacon, Takes(t.dev, b),
           t.table \in PeerTable
    PROVE  /\ Observe(t, b) \in PeerTable
           /\ \A e \in Devices \ {b.from} : Observe(t, b)[e] = t.table[e]
           /\ Observe(t, b)[b.from] # None
           /\ Observe(t, b)[b.from].last_seen = Now(t.dev)
           /\ Observe(t, b)[b.from].last_seen - (Observe(t, b)[b.from].made + Skew[b.from])
                <= Timeout + Tolerance
<1> DEFINE p == [session |-> b.session, made |-> b.made, last_seen |-> Now(t.dev)]
<1>1. b.from \in Devices /\ b.session \in Session /\ b.made \in Time /\ t.dev \in Devices
  BY DEF Beacon, Thread
<1>2. Now(t.dev) \in Clock /\ Now(t.dev) \in Int BY <1>1, NowIsClock
<1>3. p \in Peer BY <1>1, <1>2 DEF Peer
<1>4. p # None BY <1>1, Constants DEF Session, None
<1>5. Now(t.dev) - (b.made + Skew[b.from]) <= Timeout + Tolerance
  BY <1>1, <1>2, Constants DEF Takes, Fresh, Time
<1>6. Observe(t, b) = [t.table EXCEPT ![b.from] = p] BY DEF Observe
<1>7. Observe(t, b)[b.from] = p BY <1>1, <1>6 DEF PeerTable
<1> HIDE DEF p
<1>8. Observe(t, b) \in PeerTable BY <1>1, <1>3, <1>6 DEF PeerTable
<1>9. \A e \in Devices \ {b.from} : Observe(t, b)[e] = t.table[e]
  BY <1>6 DEF PeerTable
<1> QED BY <1>4, <1>5, <1>7, <1>8, <1>9 DEF p

(* An answer to a device that was not listed, and none to one that was *)
LEMMA TakenTable ==
    ASSUME time \in Time, NEW t \in Thread, NEW b \in Beacon, Takes(t.dev, b),
           NEW A \in SUBSET Sight, TableOK(t.dev, t.session, t.table, A),
           \A a \in A : a.at <= time,
           NEW B \in SUBSET Sight,
           \A a \in B : a \in A \/ a = Sighting(t, b)
    PROVE  TableOK(t.dev, t.session, Observe(t, b), B)
<1>1. t.table \in PeerTable BY DEF TableOK
<1>2. /\ Observe(t, b) \in PeerTable
      /\ \A e \in Devices \ {b.from} : Observe(t, b)[e] = t.table[e]
      /\ Observe(t, b)[b.from] # None
      /\ Observe(t, b)[b.from].last_seen = Now(t.dev)
      /\ Observe(t, b)[b.from].last_seen - (Observe(t, b)[b.from].made + Skew[b.from])
           <= Timeout + Tolerance
  BY <1>1, ObserveTable
<1>3. b.from \in Devices /\ t.dev \in Devices /\ b.from # t.dev
  BY DEF Beacon, Thread, Takes
<1>4. Observe(t, b)[t.dev] = None BY <1>2, <1>3 DEF TableOK
<1>5. \A e \in Devices : Observe(t, b)[e] # None =>
        Observe(t, b)[e].last_seen - (Observe(t, b)[e].made + Skew[e]) <= Timeout + Tolerance
  BY <1>2, <1>3 DEF TableOK
<1>6. ASSUME NEW a \in B, a.by = t.dev, a.session = t.session PROVE Since(t.dev, Observe(t, b), a)
  <2>1. a.of \in Devices /\ a.at \in Int /\ a.at <= time /\ Skew[t.dev] \in Int /\ time \in Int
    BY <1>3, Constants DEF Sight, Time, Sighting
  <2>2. CASE a.of = b.from
    BY <1>2, <2>1, <2>2 DEF Since, Now
  <2>3. CASE a.of # b.from
    <3>1. a \in A BY <2>3 DEF Sighting
    <3>2. Since(t.dev, t.table, a) BY <1>6, <3>1 DEF TableOK
    <3> QED BY <1>2, <2>1, <2>3, <3>2 DEF Since
  <2> QED BY <2>2, <2>3
<1> QED BY <1>2, <1>4, <1>5, <1>6 DEF TableOK

-----------------------------------------------------------------------------
(* A turn of t that leaves it the table: what every turn shares *)
LEMMA LoopStep ==
    ASSUME Inv, NEW t \in threads, NEW table, Loop(t, table),
           answers' \in SUBSET Sight, net' \in SUBSET Beacon, faults' \in 0 .. MaxFaults,
           \A a \in answers' : a \in answers \/ (a.by = t.dev /\ a.session = t.session),
           ~Ended(t) => TableOK(t.dev, t.session, table, answers'),
           \A a \in answers' : a.session = handle[a.by] /\ a.at <= time,
           AnswersApart',
           UNCHANGED <<time, handle, starts>>
    PROVE  Inv'
<1>1. t \in Thread /\ threads \subseteq Thread /\ OneEach /\ Held /\ Threads
  BY DEF Inv, Types
<1> DEFINE next == IF Ended(t) THEN {} ELSE {[t EXCEPT !.table = table]}
<1>2. threads' = (threads \ {t}) \cup next BY DEF Loop
<1>3. ~Ended(t) => table \in PeerTable BY DEF TableOK
<1>4. \A u \in next : u.dev = t.dev /\ u.session = t.session /\ u.table = table /\ u \in Thread
  BY <1>1, <1>3 DEF Thread
<1>5. \A u \in next : ~Ended(t) OBVIOUS
<1>6. ~Ended(t) => \E u \in next : u.dev = t.dev /\ u.session = t.session
  BY <1>4
<1> HIDE DEF next
<1>7. Types'
  BY <1>1, <1>2, <1>4 DEF Inv, Types
<1>8. Threads'
  <2> SUFFICES ASSUME NEW u \in threads'
               PROVE  u.session <= starts /\ TableOK(u.dev, u.session, u.table, answers')
    BY DEF Threads, TableOK, Since
  <2>1. CASE u \in next
    BY <1>1, <1>4, <1>5, <2>1 DEF Threads
  <2>2. CASE u \in threads /\ u # t
    <3>1. u.session # t.session BY <1>1, <2>2 DEF OneEach
    <3>2. TableOK(u.dev, u.session, u.table, answers) BY <1>1, <2>2 DEF Threads
    <3>3. TableOK(u.dev, u.session, u.table, answers')
      BY <3>1, <3>2 DEF TableOK
    <3> QED BY <1>1, <2>2, <3>3 DEF Threads
  <2> QED BY <1>2, <2>1, <2>2
<1>9. OneEach'
  <2> SUFFICES ASSUME NEW u \in threads', NEW v \in threads', u.session = v.session
               PROVE  u = v
    BY DEF OneEach
  <2>1. \A x, y \in next : x = y
    BY DEF next
  <2>2. \A x \in threads : x # t => x.session # t.session
    BY <1>1 DEF OneEach
  <2> QED BY <1>1, <1>2, <1>4, <2>1, <2>2 DEF OneEach
<1>10. Held'
  <2> SUFFICES ASSUME NEW d \in Devices, handle[d] # 0
               PROVE  \E u \in threads' : u.dev = d /\ u.session = handle[d]
    BY DEF Held
  <2>1. PICK u \in threads : u.dev = d /\ u.session = handle[d]
    BY <1>1 DEF Held
  <2>2. CASE u = t
    BY <1>2, <1>6, <2>1, <2>2 DEF Ended
  <2>3. CASE u # t
    BY <1>2, <2>1, <2>3
  <2> QED BY <2>2, <2>3
<1>11. Sights' BY DEF Sights
<1> QED BY <1>7, <1>8, <1>9, <1>10, <1>11 DEF Inv

-----------------------------------------------------------------------------
LEMMA InitInv == Init => Inv
<1> SUFFICES ASSUME Init PROVE Inv OBVIOUS
<1>1. Types BY Constants DEF Init, Types, Time
<1> QED BY <1>1 DEF Init, Inv, Threads, OneEach, Held, Sights, AnswersApart

LEMMA StartStep ==
    ASSUME Inv, NEW d \in Devices, Start(d)
    PROVE  Inv'
<1>1. Types /\ Threads /\ OneEach /\ Held /\ Sights /\ AnswersApart BY DEF Inv
<1> DEFINE new == [dev |-> d, session |-> starts', table |-> NoPeers]
<1>2. starts \in Nat /\ starts' = starts + 1 /\ starts' \in Session /\ starts' \in 0 .. MaxStarts
  BY <1>1, Constants DEF Start, Types, Session
<1>3. /\ threads' = threads \cup {new} /\ handle' = [handle EXCEPT ![d] = starts']
      /\ handle[d] = 0 /\ UNCHANGED <<time, faults, missed, answers>>
  BY DEF Start
<1>4. NoPeers \in PeerTable /\ \A e \in Devices : NoPeers[e] = None
  BY DEF NoPeers, PeerTable
<1>5. new \in Thread /\ new.dev = d /\ new.session = starts' /\ new.table = NoPeers
  BY <1>2, <1>4 DEF Thread
<1>6. \A a \in answers : a.by # d
  BY <1>1, <1>3, Constants DEF Sights, Types, Sight, Session
<1> HIDE DEF new
<1>7. Types'
  <2>1. \A e \in Devices : Datagram(d, starts', e, FALSE) \in Beacon
    BY <1>1, <1>2, Constants DEF Datagram, Beacon, Types
  <2>2. net' \subseteq Beacon BY <1>1, <2>1 DEF Start, Types
  <2>3. handle' \in [Devices -> 0 .. starts'] BY <1>1, <1>2, <1>3 DEF Types
  <2> QED BY <1>1, <1>2, <1>3, <1>5, <2>2, <2>3 DEF Types
<1>8. Threads'
  <2> SUFFICES ASSUME NEW t \in threads'
               PROVE  t.session <= starts' /\ TableOK(t.dev, t.session, t.table, answers)
    BY <1>3 DEF Threads, TableOK, Since
  <2>1. CASE t = new
    BY <1>2, <1>4, <1>5, <1>6, <2>1 DEF TableOK
  <2>2. CASE t \in threads
    BY <1>1, <1>2, <2>2, Constants DEF Threads, Types, Thread, Session
  <2> QED BY <1>3, <2>1, <2>2
<1>9. OneEach'
  <2>1. \A t \in threads : t.session # new.session
    BY <1>1, <1>2, <1>5, Constants DEF Threads, Types, Thread, Session
  <2> QED BY <1>1, <1>3, <2>1 DEF OneEach
<1>10. Held'
  BY <1>1, <1>3, <1>5 DEF Held, Types
<1>11. Sights' /\ AnswersApart'
  BY <1>1, <1>3, <1>6 DEF Sights, AnswersApart, Types, Sight
<1> QED BY <1>7, <1>8, <1>9, <1>10, <1>11 DEF Inv

LEMMA StopStep ==
    ASSUME Inv, NEW d \in Devices, Stop(d)
    PROVE  Inv'
<1>1. Types /\ Threads /\ OneEach /\ Held /\ Sights /\ AnswersApart BY DEF Inv
<1>2. /\ handle' = [handle EXCEPT ![d] = 0] /\ answers' = {a \in answers : a.by # d}
      /\ UNCHANGED <<time, net, threads, starts, faults>>
  BY DEF Stop
<1>3. Types' BY <1>1, <1>2 DEF Types
<1>4. Threads' BY <1>1, <1>2 DEF Threads, TableOK, Since
<1>5. OneEach' BY <1>1, <1>2 DEF OneEach
<1>6. Held' BY <1>1, <1>2 DEF Held, Types
<1>7. Sights' /\ AnswersApart' BY <1>1, <1>2 DEF Sights, AnswersApart, Types, Sight
<1> QED BY <1>3, <1>4, <1>5, <1>6, <1>7 DEF Inv

LEMMA WaitStep ==
    ASSUME Inv, NEW t \in threads, Wait(t)
    PROVE  Inv'
<1>1. Types /\ Threads /\ Sights /\ AnswersApart BY DEF Inv
<1>2. t \in Thread /\ time \in Time /\ answers \in SUBSET Sight BY <1>1 DEF Types
<1>3. TableOK(t.dev, t.session, t.table, answers) BY <1>1 DEF Threads
<1>4. t.dev \in Devices BY <1>2 DEF Thread
<1>5. TableOK(t.dev, t.session, Prune(t.dev, t.table), answers)
  BY <1>2, <1>3, <1>4, PruneTable
<1>6. Loop(t, Prune(t.dev, t.table)) /\ UNCHANGED <<time, net, handle, starts, faults, answers>>
  BY DEF Wait
<1>7. AnswersApart' BY <1>1, <1>6 DEF AnswersApart
<1> QED BY <1>1, <1>5, <1>6, <1>7, LoopStep DEF Types, Sights

LEMMA ReceiveStep ==
    ASSUME Inv, NEW t \in threads, Receive(t)
    PROVE  Inv'
<1>1. Types /\ Threads /\ Sights /\ AnswersApart BY DEF Inv
<1>2. t \in Thread /\ time \in Time /\ answers \in SUBSET Sight /\ net \subseteq Beacon
  BY <1>1 DEF Types
<1>3. TableOK(t.dev, t.session, t.table, answers) BY <1>1 DEF Threads
<1>4. t.dev \in Devices /\ t.session \in Session BY <1>2 DEF Thread
<1>5. PICK b \in net :
        \/ /\ Takes(t.dev, b) /\ FirstSight(t, b)
           /\ Loop(t, Prune(t.dev, Observe(t, b)))
           /\ net' = Left(t, b) \cup Answer(t, b)
           /\ answers' = IF Ended(t) THEN answers ELSE answers \cup {Sighting(t, b)}
        \/ /\ Takes(t.dev, b) /\ ~FirstSight(t, b)
           /\ Loop(t, Prune(t.dev, Observe(t, b)))
           /\ net' = Left(t, b)
           /\ UNCHANGED answers
        \/ /\ ~Takes(t.dev, b)
           /\ Loop(t, Prune(t.dev, t.table))
           /\ net' = Left(t, b)
           /\ UNCHANGED answers
  BY DEF Receive
<1>6. UNCHANGED <<time, handle, starts, faults>> BY DEF Receive
<1>7. b \in Beacon /\ b.from \in Devices /\ b.session \in Session
  BY <1>2 DEF Beacon
<1>8. Left(t, b) \subseteq Beacon BY <1>2 DEF Left
<1>9. \A a \in answers : a.session = handle[a.by] /\ a.at <= time BY <1>1 DEF Sights
<1>10. faults' \in 0 .. MaxFaults BY <1>1, <1>6 DEF Types
<1>11. CASE ~Takes(t.dev, b)
  <2>1. TableOK(t.dev, t.session, Prune(t.dev, t.table), answers)
    BY <1>2, <1>3, <1>4, PruneTable
  <2>2. AnswersApart' BY <1>1, <1>5, <1>11 DEF AnswersApart
  <2> QED BY <1>2, <1>5, <1>6, <1>8, <1>9, <1>10, <1>11, <2>1, <2>2, LoopStep
<1>12. CASE Takes(t.dev, b) /\ UNCHANGED answers /\ net' \subseteq Beacon
  <2>1. TableOK(t.dev, t.session, Observe(t, b), answers)
    BY <1>2, <1>3, <1>7, <1>9, <1>12, TakenTable
  <2>2. TableOK(t.dev, t.session, Prune(t.dev, Observe(t, b)), answers)
    BY <1>2, <1>4, <2>1, PruneTable
  <2>3. AnswersApart' BY <1>1, <1>12 DEF AnswersApart
  <2> QED BY <1>2, <1>5, <1>6, <1>9, <1>10, <1>12, <2>2, <2>3, LoopStep
<1>13. CASE /\ Takes(t.dev, b) /\ FirstSight(t, b) /\ ~Ended(t)
            /\ answers' = answers \cup {Sighting(t, b)} /\ net' \subseteq Beacon
  <2> DEFINE new == Sighting(t, b)
  <2>1. /\ new \in Sight /\ new.by = t.dev /\ new.session = t.session
        /\ new.of = b.from /\ new.at = time
    BY <1>2, <1>4, <1>7 DEF Sighting, Sight
  <2>2. answers' \in SUBSET Sight BY <1>2, <1>13, <2>1
  <2>3. TableOK(t.dev, t.session, Observe(t, b), answers')
    BY <1>2, <1>3, <1>7, <1>9, <1>13, <2>2, TakenTable
  <2>4. TableOK(t.dev, t.session, Prune(t.dev, Observe(t, b)), answers')
    BY <1>2, <1>4, <2>2, <2>3, PruneTable
  <2>5. \A a \in answers : a.by = t.dev /\ a.session = t.session /\ a.of = b.from
          => time - a.at > Timeout
    BY <1>3, <1>13 DEF FirstSight, TableOK, Since
  <2> HIDE DEF new
  <2>6. AnswersApart'
    <3> SUFFICES ASSUME NEW a \in answers', NEW c \in answers', a.by = c.by,
                        a.session = c.session, a.of = c.of, a.at < c.at
                 PROVE  c.at - a.at > Timeout
      BY DEF AnswersApart
    <3>1. CASE a \in answers /\ c \in answers
      BY <1>1, <3>1 DEF AnswersApart
    <3>2. CASE a \in answers /\ c = new
      BY <2>1, <2>5, <3>2
    <3>3. CASE a = new
      <4>1. c.at <= time /\ c.at \in Int /\ time \in Int
        BY <1>2, <1>9, <1>13, <2>1, Constants DEF new, Sight, Time
      <4> QED BY <2>1, <3>3, <4>1
    <3> QED BY <1>13, <3>1, <3>2, <3>3 DEF new
  <2>7. \A a \in answers' : a.session = handle[a.by] /\ a.at <= time
    BY <1>2, <1>9, <1>13, <2>1, Constants DEF new, Ended, Time
  <2>8. \A a \in answers' : a \in answers \/ (a.by = t.dev /\ a.session = t.session)
    BY <1>13, <2>1 DEF new
  <2> QED BY <1>5, <1>6, <1>10, <1>13, <2>2, <2>4, <2>6, <2>7, <2>8, LoopStep
<1>14. Answer(t, b) \subseteq Beacon
  BY <1>2, <1>4, <1>7, Constants DEF Answer, Datagram, Beacon
<1> QED BY <1>5, <1>8, <1>11, <1>12, <1>13, <1>14

(* What comes and goes on the network concerns no table, and time only makes *)
(* the answers that are over older.                                          *)
LEMMA NetworkStep ==
    ASSUME Inv, NEW b \in net, Lose(b) \/ Copy(b)
    PROVE  Inv'
<1>1. Types /\ Threads /\ OneEach /\ Held /\ Sights /\ AnswersApart BY DEF Inv
<1>2. UNCHANGED <<time, threads, handle, starts, answers>> BY DEF Lose, Copy
<1>3. faults' \in 0 .. MaxFaults BY <1>1, Constants DEF Types, Lose, Copy
<1>4. net' \subseteq Beacon
  <2>1. CASE Lose(b) BY <1>1, <2>1 DEF Types, Lose
  <2>2. CASE Copy(b)
    <3>1. [b EXCEPT !.copy = faults'] \in Beacon BY <1>1, <1>3 DEF Types, Beacon
    <3> QED BY <1>1, <2>2, <3>1 DEF Types, Copy
  <2> QED BY <2>1, <2>2
<1>5. Types' BY <1>1, <1>2, <1>3, <1>4 DEF Types
<1>6. Threads' /\ OneEach' /\ Held' /\ Sights' /\ AnswersApart'
  BY <1>1, <1>2 DEF Threads, TableOK, Since, OneEach, Held, Sights, AnswersApart
<1> QED BY <1>5, <1>6 DEF Inv

LEMMA TickStep ==
    ASSUME Inv, Tick
    PROVE  Inv'
<1>1. Types /\ Threads /\ OneEach /\ Held /\ Sights /\ AnswersApart BY DEF Inv
<1>2. time \in Int /\ time' = time + 1 /\ time' \in Time
  BY <1>1, Constants DEF Tick, Types, Time
<1>3. UNCHANGED <<net, threads, handle, starts, faults, missed, answers>> BY DEF Tick
<1>4. \A a \in answers : a.at \in Int BY <1>1 DEF Types, Sight, Time
<1>5. Types' BY <1>1, <1>2, <1>3 DEF Types
<1>6. Threads'
  <2> SUFFICES ASSUME NEW t \in threads
               PROVE  t.session <= starts /\ TableOK(t.dev, t.session, t.table, answers)'
    BY <1>3 DEF Threads
  <2>1. t.session <= starts /\ TableOK(t.dev, t.session, t.table, answers)
    BY <1>1 DEF Threads
  <2>2. ASSUME NEW a \in answers, Since(t.dev, t.table, a) PROVE Since(t.dev, t.table, a)'
    BY <1>2, <1>4, <2>2, Constants DEF Since
  <2> QED BY <1>3, <2>1, <2>2 DEF TableOK
<1>7. Sights' BY <1>1, <1>2, <1>3, <1>4 DEF Sights
<1>8. OneEach' /\ Held' /\ AnswersApart'
  BY <1>1, <1>3 DEF OneEach, Held, AnswersApart
<1> QED BY <1>5, <1>6, <1>7, <1>8 DEF Inv

LEMMA StepInv ==
    ASSUME Inv, [Next]_vars
    PROVE  Inv'
<1>1. ASSUME NEW d \in Devices, Start(d) PROVE Inv' BY <1>1, StartStep
<1>2. ASSUME NEW d \in Devices, Stop(d) PROVE Inv' BY <1>2, StopStep
<1>3. ASSUME NEW t \in threads, Receive(t) PROVE Inv' BY <1>3, ReceiveStep
<1>4. ASSUME NEW t \in threads, Wait(t) PROVE Inv' BY <1>4, WaitStep
<1>5. ASSUME NEW b \in net, Lose(b) \/ Copy(b) PROVE Inv' BY <1>5, NetworkStep
<1>6. CASE Tick BY <1>6, TickStep
<1>7. CASE UNCHANGED vars
  BY <1>7 DEF vars, Inv, Types, Threads, TableOK, Since, OneEach, Held, Sights, AnswersApart
<1> QED BY <1>1, <1>2, <1>3, <1>4, <1>5, <1>6, <1>7 DEF Next, Own

-----------------------------------------------------------------------------
LEMMA InvImpliesType ==
    ASSUME Inv
    PROVE  TypeOK
<1>1. Types /\ Threads /\ OneEach /\ Held BY DEF Inv
<1>2. \A t \in threads : t.session \in Session /\ t.table \in PeerTable /\ t.table[t.dev] = None
  BY <1>1 DEF Types, Thread, Threads, TableOK
<1>3. \A d \in Devices : handle[d] # 0 => \E t \in Own(d) : t.session = handle[d]
  BY <1>1 DEF Held, Own
<1> QED BY <1>1, <1>2, <1>3 DEF TypeOK, Types, OneEach

LEMMA InvImpliesGone ==
    ASSUME Inv
    PROVE  GoneInTime
<1> SUFFICES ASSUME NEW t \in threads, NEW e \in Devices, Prune(t.dev, t.table)[e] # None
             PROVE  time - Prune(t.dev, t.table)[e].made
                      <= 2 * Timeout + Tolerance + Skew[e] - Skew[t.dev]
  BY DEF GoneInTime
<1> DEFINE p == t.table[e]
<1>1. t \in Thread /\ time \in Int /\ TableOK(t.dev, t.session, t.table, answers)
  BY DEF Inv, Types, Threads, Time
<1>2. Prune(t.dev, t.table)[e] = p /\ p # None /\ ~Stale(t.dev, p)
  BY DEF Prune
<1>3. p \in Peer BY <1>1, <1>2 DEF TableOK, PeerTable
<1>4. p.made \in Int /\ p.last_seen \in Int BY <1>3, EntryType
<1>5. Skew[e] \in Int /\ Skew[t.dev] \in Int /\ Timeout \in Nat /\ Tolerance \in Nat
  BY <1>1, Constants DEF Thread
<1>6. p.last_seen - (p.made + Skew[e]) <= Timeout + Tolerance
  BY <1>1, <1>2 DEF TableOK
<1> HIDE DEF p
<1>7. time + Skew[t.dev] - p.last_seen <= Timeout
  BY <1>1, <1>2, <1>4, <1>5 DEF Stale, Now
<1> QED BY <1>1, <1>2, <1>4, <1>5, <1>6, <1>7

LEMMA Invariance == Spec => []Inv
<1>1. Init => Inv BY InitInv
<1>2. Inv /\ [Next]_vars => Inv' BY StepInv
<1> QED BY <1>1, <1>2, PTL DEF Spec

(* The client never holds the handle of a session whose thread has given up, *)
(* and no thread lists its own device.                                       *)
THEOREM DiscoveryTypeCorrect == Spec => []TypeOK
<1>1. Inv => TypeOK BY InvImpliesType
<1> QED BY <1>1, Invariance, PTL

(* What a turn shows was announced at most two timeouts and the tolerance    *)
(* ago, up to the difference of the clocks, however late or often the        *)
(* network delivers it: for every network, skew, timeout and tolerance.      *)
THEOREM PeersGoInTime == Spec => []GoneInTime
<1>1. Inv => GoneInTime BY InvImpliesGone
<1> QED BY <1>1, Invariance, PTL

(* A session answers a device once in a timeout, for any number of devices,  *)
(* sessions and datagrams.                                                   *)
THEOREM NoAnswerStorm == Spec => []AnswersApart
<1>1. Inv => AnswersApart BY DEF Inv
<1> QED BY <1>1, Invariance, PTL
=============================================================================
