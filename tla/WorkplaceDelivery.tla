-------------------------- MODULE WorkplaceDelivery --------------------------
(* How the texts and broadcasts of a workplace reach its members: a call     *)
(* sends to one member after the other and queues what could not be sent in  *)
(* the workspace file; the listener retries the queue on its tick; the       *)
(* receiving listener drops what its journal of received ids holds, and      *)
(* acknowledges a text.                                                      *)
(*                                                                           *)
(* A listener is one thread: while it sends it accepts nothing, and a client *)
(* waits, with no timeout, for a listener that is busy (see Messaging for    *)
(* the connection itself).  Calls and listener load workspace.json, change   *)
(* their copy and write it back with no lock, in place: a file that is found *)
(* half written, or left so, cannot be parsed.                               *)
(*                                                                           *)
(* All devices are members of the one group.  The states a broadcast sends   *)
(* along carry messages and notices; the rest of a state is in Workplace.    *)
EXTENDS Integers, Sequences, SequencesExt

CONSTANTS
    Devices,    \* the members' devices that take part
    Admins,     \* those of them whose states the others take over
    Unseen,     \* pairs <<d, e>>: d has not discovered e at the start
    Kinds,      \* what the users send: "text", "broadcast"
    MaxSent,    \* bound on what they send
    Faults,     \* what goes wrong: a subset of FaultKind
    MaxFaults,  \* bound on the times a network fault or a stop happens
    Forgetful,  \* the devices whose user may stop trusting another one
    JournalSize \* MAX_RECEIVED_IDS

FaultKind == {"stop", "fail", "lose", "hang", "tear"}

ASSUME MaxSentAssumption == MaxSent \in Nat
ASSUME FaultsAssumption == Faults \subseteq FaultKind /\ MaxFaults \in Nat
ASSUME JournalAssumption == JournalSize \in Nat \ {0}

(* A message is named by its place in the order of sending, which stands for *)
(* the random id of its envelope.                                            *)
Id == 1 .. MaxSent
Pending == [id : Id, to : Devices, late : BOOLEAN]

VARIABLES
    file,       \* workspace.json of a device
    calls,      \* the users' calls in progress
    listener,   \* per device: what its listener is doing
    sent,       \* kind and author of every message
    clock,      \* milliseconds
    trust,      \* pairs <<d, e>>: d trusts e
    known,      \* pairs <<d, e>>: d has an address of e
    torn,       \* the devices whose workspace.json cannot be parsed
    faults,     \* how often something went wrong
    got,        \* history: <<id, d>> when d has stored the message
    lost,       \* history: <<id, d>> when d dropped the message or stopped over it
    overlapped, \* history: the devices where a write has undone another
    mixed,      \* history: the devices that have taken over a state
    cut         \* history: <<id, e>> when its author stopped before it had decided on e

vars == <<file, calls, listener, sent, clock, trust, known, torn, faults,
          got, lost, overlapped, mixed, cut>>
worldVars == <<sent, trust, known, cut>>

Others(d) == Devices \ {d}
Down == [pc |-> "down"]
Idle == [pc |-> "idle"]
Hung == [pc |-> "hung"]
Up(d) == listener[d] # Down

Init ==
    /\ file = [d \in Devices |->
                 [stamp |-> 0, texts |-> <<>>, notices |-> <<>>,
                  pending |-> <<>>, journal |-> <<>>]]
    /\ calls = {}
    /\ listener = [d \in Devices |-> Idle]
    /\ sent = <<>>
    /\ clock = 0
    /\ trust = Devices \X Devices
    /\ known = (Devices \X Devices) \ Unseen
    /\ torn = {} /\ faults = 0
    /\ got = {} /\ lost = {}
    /\ overlapped = {} /\ mixed = {} /\ cut = {}

-----------------------------------------------------------------------------
(* Workspace: the queue and the journal *)

Entry(m, e) == [id |-> m, to |-> e, late |-> FALSE]
Same(p, q) == p.id = q.id /\ p.to = q.to
Queued(r, p) == \E i \in DOMAIN r.pending : Same(r.pending[i], p)

(* queue_delivery *)
Queue(r, p) == IF Queued(r, p) THEN r ELSE [r EXCEPT !.pending = Append(@, p)]

(* remove_pending_delivery: a queue names a message and a recipient once *)
RemovePending(r, p) ==
    IF Queued(r, p)
    THEN [r EXCEPT !.pending = RemoveAt(@, CHOOSE i \in DOMAIN @ : Same(@[i], p))] ELSE r

(* reschedule_delivery *)
RescheduleDrops(r, p) == RemovePending(r, p)
Reschedule(r, p) ==
    [r EXCEPT !.pending =
        [i \in DOMAIN @ |-> IF Same(@[i], p) THEN [@[i] EXCEPT !.late = TRUE] ELSE @[i]]]

(* mark_received_message: the journal keeps the last ids *)
MarkReceivedShort(r, m) ==
    [r EXCEPT !.journal =
        LET ids == Append(@, m) IN
        SubSeq(ids, IF Len(ids) < JournalSize THEN 1 ELSE Len(ids) - JournalSize + 2, Len(ids))]
MarkReceivedAll(r, m) == [r EXCEPT !.journal = Append(@, m)]
MarkReceived(r, m) ==
    [r EXCEPT !.journal =
        LET ids == Append(@, m) IN
        SubSeq(ids, IF Len(ids) <= JournalSize THEN 1 ELSE Len(ids) - JournalSize + 1, Len(ids))]

(* receive_broadcast: the broadcasts have an id of their own *)
ReceiveBroadcastAgain(r, m) == [r EXCEPT !.notices = Append(@, m)]
ReceiveBroadcast(r, m) ==
    IF m \in ToSet(r.notices) THEN r ELSE [r EXCEPT !.notices = Append(@, m)]

-----------------------------------------------------------------------------
(* connect_and_send: d hands e a frame when the listener of e accepts; it    *)
(* fails when e is not running, and as a fault when it is (a stale address,  *)
(* a broken network).  A listener drops what comes from a device it does not *)
(* trust.                                                                    *)
Accepts(e) == listener[e] = Idle
Fault(kind) == kind \in Faults /\ faults < MaxFaults /\ faults' = faults + 1
Handed(d, e, frame) ==
    IF <<e, d>> \in trust
    THEN [pc |-> "load", from |-> d, frame |-> frame] ELSE Idle

Message(m) == [kind |-> sent[m].kind, id |-> m]
Drops(d, e, m) == lost' = IF <<e, d>> \in trust THEN lost ELSE lost \cup {<<m, e>>}

(* Who is about to save, or in the middle of it *)
Saves(l) == l.pc = "save" \/ (l.pc = "flush" /\ l.due = {} /\ l.changed)
Savers(d) ==
    {c \in calls : c.by = d /\ c.pc = "send" /\ c.to = {}} \cup {l \in {listener[d]} : Saves(l)}

(* A write of d that was computed from base.  Two writes at a time may leave *)
(* a file with a piece of either.                                            *)
Write(d, base, r) ==
    \/ /\ file' = [file EXCEPT ![d] = r]
       /\ overlapped' = IF file[d] = base THEN overlapped ELSE overlapped \cup {d}
       /\ torn' = torn \ {d}
    \/ /\ "tear" \in Faults /\ (d \in torn \/ \E p, q \in Savers(d) : p # q)
       /\ overlapped' = overlapped \cup {d}
       /\ torn' = torn \cup {d}
       /\ UNCHANGED file

-----------------------------------------------------------------------------
(* The users' calls *)

(* capsi_workplace_send_message, capsi_workplace_create_broadcast: the call  *)
(* holds its copy while it sends.                                            *)
Begin(d, kind, copy) ==
    /\ Up(d) /\ d \notin torn /\ kind \in Kinds /\ Len(sent) < MaxSent
    /\ sent' = Append(sent, [kind |-> kind, by |-> d])
    /\ clock' = clock + 1
    /\ calls' = calls \cup {[by |-> d, id |-> Len(sent'), pc |-> "send", to |-> Others(d),
                             base |-> file[d], copy |-> copy]}
    /\ UNCHANGED <<file, listener, trust, known, torn, faults, got, lost, overlapped, mixed, cut>>

SendMessage(d) ==
    Begin(d, "text", [file[d] EXCEPT !.texts = Append(@, Len(sent) + 1), !.stamp = clock + 1])

CreateBroadcast(d) ==
    Begin(d, "broadcast", [file[d] EXCEPT !.notices = Append(@, Len(sent) + 1)])

Continue(c, next) == calls' = (calls \ {c}) \cup {next}

(* The loop over the recipients, deliver_workplace_envelope *)
CallDelivers(c) ==
    \E e \in c.to :
        /\ c.pc = "send"
        /\ {<<c.by, e>>} \subseteq trust \cap known /\ Accepts(e)
        /\ listener' = [listener EXCEPT ![e] = Handed(c.by, e, Message(c.id))]
        /\ Drops(c.by, e, c.id)
        /\ Continue(c, [c EXCEPT !.to = @ \ {e}])
        /\ UNCHANGED <<file, worldVars, clock, torn, faults, got, overlapped, mixed>>

CallQueues(c) ==
    \E e \in c.to :
        /\ c.pc = "send"
        /\ <<c.by, e>> \in trust
        /\ \/ (<<c.by, e>> \in known => ~Up(e)) /\ UNCHANGED faults
           \/ Fault("fail")
        /\ Continue(c, [c EXCEPT !.to = @ \ {e}, !.copy = Queue(@, Entry(c.id, e))])
        /\ UNCHANGED <<file, listener, worldVars, clock, torn, got, lost, overlapped, mixed>>

(* A recipient that is not trusted is passed over, so everybody is when the  *)
(* trust list cannot be read; and a frame whose connection breaks after the  *)
(* write is as good as not sent.                                             *)
CallPasses(c) ==
    \E e \in c.to :
        /\ c.pc = "send"
        /\ (<<c.by, e>> \notin trust /\ UNCHANGED faults) \/ Fault("lose")
        /\ lost' = lost \cup {<<c.id, e>>}
        /\ Continue(c, [c EXCEPT !.to = @ \ {e}])
        /\ UNCHANGED <<file, listener, worldVars, clock, torn, got, overlapped, mixed>>

(* The copy is saved; a broadcast touches it first and sends the whole state *)
(* to all members.                                                           *)
CallSaves(c) ==
    LET d == c.by
        announced == [c.copy EXCEPT !.stamp = clock + 1]
    IN
    /\ c.pc = "send" /\ c.to = {}
    /\ IF sent[c.id].kind = "text"
       THEN /\ Write(d, c.base, c.copy)
            /\ calls' = calls \ {c}
            /\ UNCHANGED clock
       ELSE /\ Write(d, c.base, announced)
            /\ Continue(c, [c EXCEPT !.pc = "sync", !.to = Others(d), !.copy = announced])
            /\ clock' = clock + 1
    /\ UNCHANGED <<listener, worldVars, faults, got, lost, mixed>>

(* sync_state_to_members: what cannot be sent is not queued *)
CallSyncs(c) ==
    /\ c.pc = "sync"
    /\ \/ \E e \in c.to :
            /\ <<c.by, e>> \in trust \cap known /\ Accepts(e)
            /\ listener' = [listener EXCEPT ![e] =
                   Handed(c.by, e, [kind |-> "sync", stamp |-> c.copy.stamp,
                                    texts |-> c.copy.texts, notices |-> c.copy.notices])]
            /\ Continue(c, [c EXCEPT !.to = @ \ {e}])
            /\ UNCHANGED faults
       \/ \E e \in c.to :
            /\ \/ (<<c.by, e>> \in trust \cap known => ~Up(e)) /\ UNCHANGED faults
               \/ Fault("fail")
            /\ Continue(c, [c EXCEPT !.to = @ \ {e}])
            /\ UNCHANGED listener
       \/ /\ c.to = {}
          /\ calls' = calls \ {c}
          /\ UNCHANGED <<listener, faults>>
    /\ UNCHANGED <<file, worldVars, clock, torn, got, lost, overlapped, mixed>>

Call(d) ==
    \E c \in calls :
        /\ c.by = d
        /\ CallDelivers(c) \/ CallQueues(c) \/ CallPasses(c) \/ CallSaves(c) \/ CallSyncs(c)

-----------------------------------------------------------------------------
(* The listener receives *)

Busy(d, next) == listener' = [listener EXCEPT ![d] = next]
Hold(d, copy, then) ==
    Busy(d, [pc |-> "save", from |-> listener[d].from, frame |-> listener[d].frame,
             base |-> file[d], copy |-> copy, then |-> then])

(* has_received_message *)
Received(r, m) == m \in ToSet(r.journal)

HandleText(d, m) ==
    IF Received(file[d], m)
    THEN Busy(d, Idle) /\ UNCHANGED clock
    ELSE /\ Hold(d, MarkReceived([file[d] EXCEPT !.texts = Append(@, m), !.stamp = clock + 1], m),
                 "reply")
         /\ clock' = clock + 1

HandleBroadcast(d, m) ==
    Hold(d, ReceiveBroadcast(file[d], m), "idle") /\ UNCHANGED clock

(* mark_delivery_delivered *)
HandleReceipt(d, m) ==
    LET p == Entry(m, listener[d].from) IN
    IF Queued(file[d], p)
    THEN /\ Hold(d, [RemovePending(file[d], p) EXCEPT !.stamp = clock + 1], "idle")
         /\ clock' = clock + 1
    ELSE Busy(d, Idle) /\ UNCHANGED clock

(* apply_network_state: an older state is not taken over, but the copy saved *)
HandleSync(d, s) ==
    /\ IF s.stamp < file[d].stamp THEN Hold(d, file[d], "idle")
       ELSE IF listener[d].from \in Admins
       THEN Hold(d, [file[d] EXCEPT !.stamp = s.stamp, !.texts = s.texts,
                                    !.notices = s.notices], "idle")
       ELSE Busy(d, Idle)
    /\ UNCHANGED clock

HandleFrame(d) ==
    /\ listener[d].pc = "load" /\ d \notin torn
    /\ LET f == listener[d].frame IN
       \/ f.kind = "text" /\ HandleText(d, f.id)
       \/ f.kind = "broadcast" /\ HandleBroadcast(d, f.id)
       \/ f.kind = "receipt" /\ HandleReceipt(d, f.id)
       \/ f.kind = "sync" /\ HandleSync(d, f)
    /\ UNCHANGED <<file, calls, worldVars, torn, faults, got, lost, overlapped, mixed>>

(* store.load fails: the file was left half written, or a call is writing    *)
(* it.  The frame is dropped, its sender knows nothing of it.                *)
Discard(d) ==
    LET l == listener[d] IN
    /\ l.pc = "load"
    /\ d \in torn \/ ("tear" \in Faults /\ Savers(d) # {})
    /\ lost' = IF l.frame.kind \in {"text", "broadcast"} THEN lost \cup {<<l.frame.id, d>>}
               ELSE lost
    /\ Busy(d, Idle)
    /\ UNCHANGED <<file, calls, worldVars, clock, torn, faults, got, overlapped, mixed>>

Handle(d) == HandleFrame(d) \/ Discard(d)

Store(d) ==
    LET l == listener[d] IN
    /\ l.pc = "save"
    /\ Write(d, l.base, l.copy)
    /\ got' = IF l.frame.kind \in {"text", "broadcast"} THEN got \cup {<<l.frame.id, d>>} ELSE got
    /\ mixed' = IF l.frame.kind = "sync" /\ l.copy # l.base THEN mixed \cup {d} ELSE mixed
    /\ Busy(d, IF l.then = "reply" THEN [pc |-> "reply", from |-> l.from, id |-> l.frame.id]
               ELSE Idle)
    /\ UNCHANGED <<calls, worldVars, clock, faults, lost>>

(* The receipt of a text: sent to its sender, or forgotten *)
Reply(d) ==
    LET l == listener[d] IN
    /\ l.pc = "reply"
    /\ \/ /\ Accepts(l.from)
          /\ listener' = [listener EXCEPT ![d] = Idle,
                 ![l.from] = Handed(d, l.from, [kind |-> "receipt", id |-> l.id])]
          /\ UNCHANGED faults
       \/ /\ (~Up(l.from) /\ UNCHANGED faults) \/ Fault("fail")
          /\ Busy(d, Idle)
    /\ UNCHANGED <<file, calls, worldVars, clock, torn, got, lost, overlapped, mixed>>

-----------------------------------------------------------------------------
(* flush_workplace_deliveries, at the head of the listener's loop.  waited:  *)
(* the time of the entries that were put off has come.                       *)
Flush(d, due) ==
    /\ Accepts(d) /\ d \notin torn /\ due # {}
    /\ Busy(d, [pc |-> "flush", base |-> file[d], copy |-> file[d], due |-> due,
                 changed |-> FALSE])
    /\ UNCHANGED <<file, calls, worldVars, clock, torn, faults, got, lost, overlapped, mixed>>

FlushOnTime(d, waited) ==
    Flush(d, {i \in DOMAIN file[d].pending : ~file[d].pending[i].late})
FlushBegins(d, waited) ==
    Flush(d, {i \in DOMAIN file[d].pending : waited \/ ~file[d].pending[i].late})

(* The first due entry: dropped, as in CallPasses, kept, delivered or put     *)
(* off.  due: places in the queue as it was loaded.                          *)
First(l, i) == i \in l.due /\ \A j \in l.due : i <= j

FlushOne(d) ==
    LET l == listener[d]
        Goes(i, copy) == [l EXCEPT !.due = @ \ {i}, !.copy = copy, !.changed = TRUE]
    IN
    /\ l.pc = "flush"
    /\ \E i \in l.due :
         LET p == l.base.pending[i] IN
         /\ First(l, i)
         /\ \/ /\ (<<d, p.to>> \notin trust /\ UNCHANGED faults) \/ Fault("lose")
               /\ Busy(d, Goes(i, RemovePending(l.copy, p)))
               /\ lost' = lost \cup {<<p.id, p.to>>}
            \/ /\ <<d, p.to>> \in trust \ known
               /\ Busy(d, [l EXCEPT !.due = @ \ {i}])
               /\ UNCHANGED <<lost, faults>>
            \/ /\ <<d, p.to>> \in trust \cap known /\ Accepts(p.to)
               /\ listener' = [listener EXCEPT ![d] = Goes(i, RemovePending(l.copy, p)),
                                               ![p.to] = Handed(d, p.to, Message(p.id))]
               /\ Drops(d, p.to, p.id)
               /\ UNCHANGED faults
            \/ /\ <<d, p.to>> \in trust \cap known
               /\ (~Up(p.to) /\ UNCHANGED faults) \/ Fault("fail")
               /\ Busy(d, Goes(i, Reschedule(l.copy, p)))
               /\ UNCHANGED lost
    /\ UNCHANGED <<file, calls, worldVars, clock, torn, got, overlapped, mixed>>

FlushEnds(d) ==
    LET l == listener[d] IN
    /\ l.pc = "flush" /\ l.due = {}
    /\ IF l.changed THEN Write(d, l.base, l.copy) ELSE UNCHANGED <<file, torn, overlapped>>
    /\ Busy(d, Idle)
    /\ UNCHANGED <<calls, worldVars, clock, faults, got, lost, mixed>>

Listen(d) ==
    \/ Handle(d) \/ Store(d) \/ Reply(d)
    \/ \E waited \in BOOLEAN : FlushBegins(d, waited)
    \/ FlushOne(d) \/ FlushEnds(d)

(* A connection that neither fails nor goes on: nothing in connect_and_send, *)
(* or in accept_and_read, ends the wait.                                     *)
Hang(d) ==
    /\ Fault("hang")
    /\ listener[d].pc \in {"idle", "reply", "flush"}
    /\ Busy(d, Hung)
    /\ UNCHANGED <<file, calls, worldVars, clock, torn, got, lost, overlapped, mixed>>

-----------------------------------------------------------------------------
(* The application is killed, at any moment, and started again; in the       *)
(* middle of a save it leaves half a file, which nothing repairs.            *)
Holds(c, e) == c.pc = "send" /\ (e \in c.to \/ Queued(c.copy, Entry(c.id, e)))

Stop(d) ==
    LET l == listener[d] IN
    /\ Up(d) /\ Fault("stop")
    /\ torn' = torn \/ ("tear" \in Faults /\ Savers(d) # {} /\ torn' = torn \cup {d})
    /\ calls' = {c \in calls : c.by # d}
    /\ Busy(d, Down)
    /\ lost' = IF l.pc \in {"load", "save"} /\ l.frame.kind \in {"text", "broadcast"}
               THEN lost \cup {<<l.frame.id, d>>} ELSE lost
    /\ cut' = cut \cup {x \in Id \X Devices :
                          \E c \in calls : c.by = d /\ c.id = x[1] /\ Holds(c, x[2])}
    /\ UNCHANGED <<file, sent, clock, trust, known, got, overlapped, mixed>>

Start(d) ==
    /\ ~Up(d)
    /\ Busy(d, Idle)
    /\ UNCHANGED <<file, calls, worldVars, clock, torn, faults, got, lost, overlapped, mixed>>

(* capsi_discovery_start: the address of a trusted device is remembered *)
Discover(d, e) ==
    /\ Up(d) /\ Up(e) /\ <<d, e>> \in trust \ known
    /\ known' = known \cup {<<d, e>>}
    /\ UNCHANGED <<file, calls, listener, sent, clock, trust, torn, faults, got, lost, overlapped,
                   mixed, cut>>

(* The user blocks or forgets a device. *)
Distrust(d, e) ==
    /\ Up(d) /\ d \in Forgetful /\ d # e /\ <<d, e>> \in trust
    /\ trust' = trust \ {<<d, e>>}
    /\ UNCHANGED <<file, calls, listener, sent, clock, known, torn, faults, got, lost, overlapped,
                   mixed, cut>>

-----------------------------------------------------------------------------
Next ==
    \E d \in Devices :
        \/ SendMessage(d) \/ CreateBroadcast(d) \/ Call(d)
        \/ Listen(d) \/ Hang(d)
        \/ Stop(d) \/ Start(d)
        \/ \E e \in Devices : Discover(d, e) \/ Distrust(d, e)

Spec == Init /\ [][Next]_vars

(* The listeners run, the tick comes, time passes; a stopped application is  *)
(* started again, and running devices discover each other.  Nothing obliges  *)
(* a call to come to an end, which may hang for ever too.                    *)
FairSpec ==
    /\ Spec
    /\ \A d \in Devices :
         /\ WF_vars(Handle(d)) /\ WF_vars(Store(d)) /\ WF_vars(Reply(d))
         /\ WF_vars(FlushBegins(d, TRUE)) /\ WF_vars(FlushOne(d)) /\ WF_vars(FlushEnds(d))
         /\ WF_vars(Start(d))
         /\ \A e \in Devices : WF_vars(Discover(d, e))

-----------------------------------------------------------------------------
Workspace(r) ==
    /\ r.stamp \in 0 .. clock
    /\ {r.texts, r.notices, r.journal} \subseteq Seq(Id)
    /\ r.pending \in Seq(Pending)
    /\ \A i, j \in DOMAIN r.pending : Same(r.pending[i], r.pending[j]) => i = j
    /\ Len(r.journal) <= JournalSize

(* An entry of the queue names a message of the device itself and another    *)
(* device, once; a journal is bounded; a copy in use is a workspace too.     *)
TypeOK ==
    /\ \A d \in Devices :
         /\ Workspace(file[d])
         /\ \A p \in ToSet(file[d].pending) : sent[p.id].by = d /\ p.to # d
         /\ listener[d].pc \in {"save", "flush"} => Workspace(listener[d].copy)
    /\ \A c \in calls : Up(c.by) /\ Workspace(c.copy) /\ c.to \subseteq Others(c.by)
    /\ got \cup lost \cup cut \subseteq Id \X Devices

(* workplace.rs:158-160: "Envelope ids already accepted from the network,    *)
(* used for idempotent retries": however often a text is sent, with stops,   *)
(* lost receipts and overlapping writes in between, a receiver shows it once *)
(* unless JournalSize others have come in the meantime.                      *)
TextOnce ==
    \A d \in Devices \ mixed : \A i, j \in DOMAIN file[d].texts :
        i < j /\ file[d].texts[i] = file[d].texts[j] => j - i > JournalSize

(* A broadcast comes by envelope, by retry and with the author's state, and  *)
(* is shown once.                                                            *)
BroadcastOnce ==
    \A d \in Devices : IsInjective(file[d].notices)

(* Message m is on its way to e: in a call, or with the listener of e. *)
Underway(m, e) ==
    \/ \E c \in calls : c.id = m /\ Holds(c, e)
    \/ listener[e].pc \in {"load", "save"} /\ Message(m) = listener[e].frame

Shown(r) == ToSet(r.texts) \cup ToSet(r.notices)

(* A member that has stored a message shows it, unless another write of its  *)
(* own or a state undid that, or its file cannot be parsed.                  *)
Shows(e, m) == m \in Shown(file[e]) \/ e \in overlapped \cup mixed \cup torn

(* A message reaches every other member, which then shows it, or is queued   *)
(* for it by its author, or on its way, or was dropped by one that stopped,  *)
(* could not read a file or does not trust the other.  An author whose       *)
(* writes undid each other, or whose file cannot be parsed, may lose it.     *)
(* When the author stops while it sends, what was not decided is forgotten,  *)
(* and the author does not show it either, unless it comes back with a state.*)
NothingForgotten ==
    \A m \in DOMAIN sent : LET d == sent[m].by IN
        \A e \in Others(d) :
            /\ <<m, e>> \in got => Shows(e, m)
            /\ d \notin overlapped \cup torn =>
                 \/ <<m, e>> \in got \cup lost
                 \/ Queued(file[d], Entry(m, e))
                 \/ Underway(m, e)
                 \/ <<m, e>> \in cut /\ (d \in mixed \/ m \notin Shown(file[d]))

(* What a listener waits for: another one to accept *)
Blocked(d, e) ==
    \/ listener[d].pc = "reply" /\ listener[d].from = e
    \/ listener[d].pc = "flush"
       /\ \E i \in listener[d].due :
            First(listener[d], i) /\ listener[d].base.pending[i].to = e
Jammed == \E S \in SUBSET Devices \ {{}} : \A d \in S : \E e \in S : Blocked(d, e)

Waiting(d, m, e) == Queued(file[d], Entry(m, e)) /\ d \notin torn
Stuck == Jammed \/ \E d \in Devices : listener[d] = Hung

(* No entry stays in a queue that can be read, unless listeners wait for     *)
(* each other or on a dead connection for good.                              *)
QueueDrainsOrSticks ==
    \A d \in Devices, m \in Id : \A e \in Others(d) : []<>(~Waiting(d, m, e) \/ Stuck)

Settled(d, m, e) == <<m, e>> \in got \cup lost \/ d \in overlapped

(* lib.rs:1779-1782: "a group message or broadcast queued while a member was *)
(* offline goes out once the member is reachable again".                     *)
QueuedArrive ==
    \A d \in Devices, m \in Id : \A e \in Others(d) :
        Queued(file[d], Entry(m, e)) ~> Settled(d, m, e)
=============================================================================
