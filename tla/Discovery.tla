------------------------------- MODULE Discovery -------------------------------
(* Discovery on the local network: a session of a device announces itself    *)
(* with a signed beacon when it starts (capsi_discovery_start), lists the    *)
(* devices whose beacons it takes, answers one it did not list before, and   *)
(* drops those it has not heard for a while.                                 *)
(*                                                                           *)
(* A session is a thread with a socket and a table of its own.  Its handle   *)
(* is given up at once (capsi_discovery_stop); the thread goes on to the end *)
(* of its turn, beside the thread of the next session, on the same port.     *)
(*                                                                           *)
(* Beacons are unacknowledged datagrams: lost, late, in any order and more   *)
(* than once.  They carry the sender's wall clock.  Datagrams that are not   *)
(* valid beacons from this network are dropped and not modelled.  What a     *)
(* turn writes to trust.json is in TrustList.                                *)
EXTENDS Integers

CONSTANTS
    Devices,
    Reach,      \* pairs <<d, e>>: what d broadcasts gets to e
    Skew,       \* per device: how far its clock is ahead, in seconds
    Timeout,    \* PEER_TIMEOUT_SECS
    Tolerance,  \* the 60 of is_fresh(60)
    MaxTime,    \* bound on the seconds that pass
    MaxStarts,  \* bound on the sessions, of all devices
    MaxFaults   \* bound on the datagrams that are lost or arrive once more

ASSUME ReachAssumption == Reach \subseteq Devices \X Devices
ASSUME SkewAssumption == Skew \in [Devices -> Int]
ASSUME TimeoutAssumption == Timeout \in Nat /\ Tolerance \in Nat
ASSUME BoundsAssumption == {MaxTime, MaxStarts, MaxFaults} \subseteq Nat

(* The sessions are numbered as they start; each has a name of its own, as   *)
(* after the user has changed it.                                            *)
Session == 1 .. MaxStarts
Time == 0 .. MaxTime

(* A Beacon and the device it is addressed to; made is the true time, of     *)
(* which sent_at is the sender's clock.                                      *)
Beacon == [from : Devices, session : Session, made : Time, to : Devices, answer : BOOLEAN,
           copy : 0 .. MaxFaults]

(* A Peer: what its last beacon said and the reader's clock at that moment   *)
None == [session |-> 0]
Clock == {time + skew : time \in Time, skew \in {Skew[d] : d \in Devices}}
Peer == [session : Session, made : Time, last_seen : Clock]
NoPeers == [d \in Devices |-> None]
PeerTable == [Devices -> Peer \cup {None}]

VARIABLES
    time,       \* the true time
    net,        \* the datagrams under way
    threads,    \* the threads of the sessions, with the table that the client polls
    handle,     \* per device: the session the client holds, or 0
    starts, faults,
    missed,     \* history: <<d, e>> when an answer of d was lost on e: by the
                \* network, as stale, or read by a session no longer held
    answers     \* history: the first sights of the sessions that are held, each
                \* of which was answered

vars == <<time, net, threads, handle, starts, faults, missed, answers>>

Init ==
    /\ time = 0 /\ net = {} /\ threads = {}
    /\ handle = [d \in Devices |-> 0]
    /\ starts = 0 /\ faults = 0
    /\ missed = {} /\ answers = {}

Now(d) == time + Skew[d]
Ended(t) == handle[t.dev] # t.session

(* The loop's condition: the stop flag is set when the handle is given up. *)
Loop(t, table) ==
    LET next == IF Ended(t) THEN {} ELSE {[t EXCEPT !.table = table]} IN
    threads' = (threads \ {t}) \cup next

-----------------------------------------------------------------------------
(* The table *)

(* Beacon::is_fresh *)
FreshForGood(d, b) == b.made + Skew[b.from] - Now(d) <= Tolerance
Fresh(d, b) ==
    Now(d) - (b.made + Skew[b.from]) \in -Tolerance .. Timeout + Tolerance

(* absorb_reporting: a session's own broadcast comes back to it *)
Takes(d, b) == b.from # d /\ Fresh(d, b)

FirstSightAlways(t, b) == TRUE
FirstSight(t, b) == t.table[b.from] = None

(* PeerTable::observe *)
Observe(t, b) ==
    [t.table EXCEPT ![b.from] =
        [session |-> b.session, made |-> b.made, last_seen |-> Now(t.dev)]]

(* PeerTable::prune *)
Stale(d, p) == p # None /\ Now(d) - p.last_seen > Timeout
Prune(d, table) == [e \in Devices |-> IF Stale(d, table[e]) THEN None ELSE table[e]]

-----------------------------------------------------------------------------
(* The client *)

Datagram(d, n, e, answer) ==
    [from |-> d, session |-> n, made |-> time, to |-> e, answer |-> answer, copy |-> 0]

(* capsi_discovery_start: the socket is bound when it returns; the thread    *)
(* announces the session, once, before its loop.                             *)
Start(d) ==
    /\ handle[d] = 0 /\ starts < MaxStarts
    /\ starts' = starts + 1
    /\ handle' = [handle EXCEPT ![d] = starts']
    /\ threads' = threads \cup {[dev |-> d, session |-> starts', table |-> NoPeers]}
    /\ net' = net \cup {Datagram(d, starts', e, FALSE) : e \in {e \in Devices : <<d, e>> \in Reach}}
    /\ UNCHANGED <<time, faults, missed, answers>>

(* capsi_discovery_stop.  When the application exits, its threads end with   *)
(* it: a last turn in which nothing comes.                                   *)
Stop(d) ==
    /\ handle[d] # 0
    /\ handle' = [handle EXCEPT ![d] = 0]
    /\ answers' = {a \in answers : a.by # d}
    /\ missed' = {p \in missed : p[2] # d}
    /\ UNCHANGED <<time, net, threads, starts, faults>>

-----------------------------------------------------------------------------
(* The thread of a session *)

Misses(b) == missed' = missed \cup {<<x.from, x.to>> : x \in {x \in {b} : x.answer}}

(* greet: to the address the beacon came from *)
AnswerByBroadcast(t, b) ==
    {Datagram(t.dev, t.session, e, TRUE) : e \in {e \in Devices : <<t.dev, e>> \in Reach}}
Answer(t, b) == {Datagram(t.dev, t.session, b.from, TRUE)}

(* A broadcast gets to every socket on the port, an answer to one of them. *)
Left(t, b) == IF Ended(t) /\ ~b.answer THEN net ELSE net \ {b}
Sighting(t, b) == [by |-> t.dev, session |-> t.session, of |-> b.from, was |-> b.session,
                   at |-> time]

(* A turn: receive_once, which answers a device that is new, then prune and  *)
(* publish                                                                   *)
Receive(t) ==
    /\ \E b \in net :
         /\ b.to = t.dev
         /\ \/ /\ Takes(t.dev, b) /\ FirstSight(t, b)
               /\ Loop(t, Prune(t.dev, Observe(t, b)))
               /\ net' = Left(t, b) \cup Answer(t, b)
               /\ answers' = IF Ended(t) THEN answers ELSE answers \cup {Sighting(t, b)}
            \/ /\ Takes(t.dev, b) /\ ~FirstSight(t, b)
               /\ Loop(t, Prune(t.dev, Observe(t, b)))
               /\ net' = Left(t, b)
               /\ UNCHANGED answers
            \/ /\ ~Takes(t.dev, b)
               /\ Loop(t, Prune(t.dev, t.table))
               /\ net' = Left(t, b)
               /\ UNCHANGED answers
         /\ IF Takes(t.dev, b) /\ ~Ended(t) THEN UNCHANGED missed ELSE Misses(b)
    /\ UNCHANGED <<time, handle, starts, faults>>

(* A turn in which nothing comes for half a second *)
WaitGivesUp(t) ==
    /\ threads' = threads \ {t}
    /\ UNCHANGED <<time, net, handle, starts, faults, missed, answers>>
Wait(t) ==
    /\ Loop(t, Prune(t.dev, t.table))
    /\ UNCHANGED <<time, net, handle, starts, faults, missed, answers>>

Own(d) == {t \in threads : t.dev = d}

-----------------------------------------------------------------------------
(* The network and the clock *)

Lose(b) ==
    /\ faults < MaxFaults
    /\ faults' = faults + 1
    /\ net' = net \ {b}
    /\ Misses(b)
    /\ UNCHANGED <<time, threads, handle, starts, answers>>

(* announce_targets: an announcement is sent to the broadcast address of     *)
(* every interface and to the limited one, and may arrive more than once.    *)
Copy(b) ==
    /\ ~b.answer /\ faults < MaxFaults
    /\ faults' = faults + 1
    /\ net' = net \cup {[b EXCEPT !.copy = faults']}
    /\ UNCHANGED <<time, threads, handle, starts, missed, answers>>

(* A thread that is stopped ends its turn within half a second. *)
Tick ==
    /\ time < MaxTime
    /\ \A t \in threads : ~Ended(t)
    /\ time' = time + 1
    /\ UNCHANGED <<net, threads, handle, starts, faults, missed, answers>>

-----------------------------------------------------------------------------
Next ==
    \/ \E d \in Devices :
         \/ Start(d) \/ Stop(d)
         \/ \E t \in Own(d) : Receive(t) \/ Wait(t)
    \/ \E b \in net : Lose(b) \/ Copy(b)
    \/ Tick

Spec == Init /\ [][Next]_vars

(* The network delivers what it does not lose, to threads that run. *)
FairSpec == Spec /\ \A d \in Devices : WF_vars(\E t \in Own(d) : Receive(t))

-----------------------------------------------------------------------------
(* A thread lists other devices only.  lib.rs:138-142: the client never      *)
(* holds the handle of a session whose thread "has already given up".        *)
TypeOK ==
    /\ time \in Time /\ net \subseteq Beacon
    /\ handle \in [Devices -> 0 .. starts]
    /\ \A t \in threads :
         /\ t.session \in Session /\ t.table \in PeerTable /\ t.table[t.dev] = None
         /\ \A u \in threads : t.session = u.session => t = u
    /\ \A d \in Devices : handle[d] # 0 => \E t \in Own(d) : t.session = handle[d]

(* beacon.rs:90-91: neither a clock that is ahead nor an old announcement    *)
(* makes "a peer appear permanently online".  What a turn shows the client   *)
(* was announced at most two timeouts and the tolerance ago, whatever the     *)
(* network repeats, give or take what the two clocks differ.                 *)
GoneInTime ==
    \A t \in threads : \A e \in Devices :
        LET p == Prune(t.dev, t.table)[e] IN
        p # None => time - p.made <= 2 * Timeout + Tolerance + Skew[e] - Skew[t.dev]

(* However many beacons of a device come, a session answers it once in a     *)
(* timeout: two devices do not answer each other for ever.                   *)
AnswersApart ==
    \A a, b \in answers :
        a.by = b.by /\ a.session = b.session /\ a.of = b.of /\ a.at < b.at
            => b.at - a.at > Timeout

(* The session of e that is held is listed by d, and does not list d yet. *)
Owed(d, e) ==
    /\ \E a \in answers : a.by = d /\ a.of = e /\ a.was = handle[e]
    /\ ~\E a \in answers : a.by = e /\ a.of = d
    /\ <<d, e>> \notin missed

(* service.rs:199-200: "the two devices see each other": who is listed when  *)
(* its session is first heard lists the other device too, also where only    *)
(* its own broadcasts get out, unless the answer is missed or it stops.      *)
ListsBack ==
    \A d, e \in Devices : Owed(d, e) ~> ~Owed(d, e)
=============================================================================
