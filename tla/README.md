# Capsi in TLA+

Capsi is a serverless messenger for a local network: devices find each other by
UDP beacons, meet over authenticated TCP connections, exchange texts and files
one to one, and share a small workplace (members, roles, groups, messages). All
logic is in Rust, in the crate `capsi-core` (`src/Capsi/crates/capsi-core`) and
in the native library behind the Flutter client
(`src/Capsi/flutter/native/src/lib.rs`, in the following `lib.rs`). This
directory holds TLA+ modules of that logic, TLC configurations that check them
on small instances and TLAPS proofs of the theorems that matter most.

Code is cited as `file:line`. `PROJECT.json` maps every definition to its lines.

## 1. The system

### How it runs

The native library has no server object and no lock around its data. Every
exported function is a complete program: it loads what it needs from the data
directory, does its work, sends what it has to and writes back. The Flutter
client runs each call on an isolate of its own, so calls overlap. Next to them
two threads run as long as the client is open:

* the **listener** (`capsi_message_start`, thread `capsi-messages`,
  `lib.rs:332-805`): accept one connection, do the handshake, read one frame,
  handle it, often send a receipt, and accept again; at the head of its loop it
  flushes queued workplace deliveries;
* **discovery** (`capsi_discovery_start`, `lib.rs:124-200`): receive beacons,
  keep a table of the visible peers and record them in the trust list.

So three kinds of threads share files and nothing else. That, and that a
connection has to be answered by a listener which is itself a client at times,
is where the hard behaviour of this program comes from.

### Components

| Component | State | Operations | Hard behaviour | What makes it correct |
|---|---|---|---|---|
| **File transfer** (`lib.rs`, `storage/conversation.rs`) | a record per transfer in the conversation file of either device; the `.part` file and the copy under `downloads` | `capsi_file_send` (offer, poll, chunks), accept, decline, cancel, the handlers of offer, chunk and receipt | five threads on two devices, decisions during a chunk, lost frames, the 30 s deadline, a source that changes, stale records written back | only the offered content under `downloads`; no data without consent; Complete means there; the send ends |
| **Messages** (`lib.rs`, `transport.rs`) | a conversation file per contact, with the delivery state of each text | `capsi_message_send`, the handlers of text and receipt | a handshake blocks both sides; the only thread that answers handshakes performs them too | delivered means stored; a text arrives or its loss has a cause; what can hold a listener for ever |
| **Sessions** (`crypto/session.rs`) | send counter; replay window of 16 words of 64 bits | `seal`, `open` | frames twice, late, far ahead; borders of words and of the window | each frame once, and each at its first arrival |
| **Trust list** (`identity/trust.rs`) | `trust.json` | observe, accept, ignore, load, `is_trusted` | three threads, no lock; a write truncates first; a list that does not parse is moved aside, one that is not text is an error for good | no decision the user did not make; visible peers are listed |
| **Workplace** (`workplace.rs`, `lib.rs`) | a replica of the workspace per device | set role, create group, add, remove, move, rename, invite, send message, delete; handlers of state, tombstone and text | overlapping calls, whole states overtaking each other, demoted admins with old states, invitations nobody else hears of | no right without a grant; members agree; a demotion and a deletion hold; who holds it belongs to it |
| **Workplace deliveries** (`workplace.rs:488-590`, `lib.rs:1735-1839`) | queue with attempts and next time; journal of 4096 received ids | send, broadcast, queue, flush, retry, deduplicate, acknowledge | a copy of the workspace held across sends; lost receipts; devices that stop; saves cut short; sends without a timeout; the flush runs on the thread that accepts | shown once, nothing forgotten, the queue drains |
| **Discovery** (`discovery/`, `lib.rs:124-215`) | table of peers per session, with times | start, stop, announce, receive, answer, prune | datagrams lost, late and repeated; clocks that disagree; the thread of a stopped session beside that of the next | a dead peer disappears; no storm of answers; who is listed lists back |
| **Handshake, framing, identity** | keys; none | handshake, encode, decode, `load_or_create` | byte formats | unit tested |
| **Native sessions and events** | handle tables; 128 events | start, poll, stop | a thread outlives its handle; the oldest events are dropped | reload restores the view |
| **Flutter client, runners, website** | user interface | | | |

Interaction: a call or the listener of one device *sends a frame* to the
listener of another (file transfer, messages, workplace); the frame travels in a
session; whether it is taken at all depends on the trust list; discovery feeds
the trust list and thereby the addresses the senders use. Threads of a device
interact only through files.

The hazards this leads to are listed, each at its line, in `PROJECT.json`.

## 2. The modules

| Module | Models | Used by |
|---|---|---|
| `FileTransfer` | one transfer between two devices, and texts that rewrite the same files | runs `FT*` |
| `FileTransferProofs`, `FileTransferPromises` | theorems on it: types and the copy; consent, completion and the prefix | |
| `Messaging` | texts both ways, receipts, deliveries, the blocking connections and the files both threads of a device write | run `Texts` |
| `MessagingProofs` | theorems on it | |
| `FrameOnce` | what a session promises: abstract specification | `Session` |
| `Session` | counter and replay window | run `Replay` |
| `SessionProofs` | theorems on it | |
| `TrustList` | `trust.json` and its three users | run `Trust` |
| `TrustListProofs` | theorems on it | |
| `Workplace` | the replicas of the workplace | runs `Workplace*` |
| `WorkplaceProofs` | theorems on it | |
| `WorkplaceDelivery` | texts and broadcasts, their queue and journal | runs `Delivery*` |
| `WorkplaceDeliveryProofs` | theorems on it | |
| `Discovery` | beacons, the peer tables and the sessions | run `Discovery` |
| `DiscoveryProofs` | theorems on it | |
| `MC*` | instances: who calls what | all runs |

Conventions. *At most one* of something (a record, a file, a frame in hand) is a
set with at most one element. A variable commented *history* is not in the
program; it remembers what the properties speak about. A definition that stands
directly before another one and is named after a mistake (`InAnyOrder` before
`InOrder`, `NoDeadline` before `Deadline`, ...) is that definition with a bug
somebody could make. No module uses it: putting it in the other's place must make
a property fail, and `PROJECT.json` says which one.

### FileTransfer

State: `rec[d]` is the transfer's record in the conversation file of device `d`,
`file` the `.part` file and the copy under `downloads`, `source` the content of
the file being sent, `thread` the local state of `capsi_file_send`, `listener[d]`
that of the listener of `d`, `op[u]` that of the call `u` of a user. Contents are
sequences; the file is `<<1, 2, ...>>` when it is hashed, and its digest is
represented by that sequence.

Actions: `SendStart`, `SendOffer`, `Poll`, `ReadChunk`, `SendChunk` are the steps
of `capsi_file_send` (`lib.rs:878-1000`); `HandleOffer`, `LoadForChunk`,
`WriteChunk`, `VerifyCopy`, `RenameCopy`, `LoadForReceipt`, `WriteRecord`,
`UnlinkAfterReceipt`, `Reply` and `LoadForText` are the handlers
(`lib.rs:404-560`), cut where another thread can come in between: at every load
and save of a conversation, write, rename and removal of a file, and send.
`OpLoad`, `OpRename`, `OpPersist`, `OpUnlink`, `OpSend` are accept, decline and
cancel (`lib.rs:1034-1143`). `PeerText` is a text of the other device and
`EditSource` an edit of the file by the user. `Restart` is an application that is
killed at any step and started again: files stay, threads and calls are gone, and
nothing in the program looks for what was under way. The sender's call is not made
again (the client offers no resumption; a new call is a new transfer).

Abstractions. A frame has a connection of its own and `connect_and_send` returns
only after the peer's listener has answered the handshake, so a send is a step of
both: it needs an idle listener, and waits for one without a time limit
(`transport.rs:27`). The listener is such a client too: after a text it has stored,
and after the last chunk, it sends a receipt (`Reply`, `lib.rs:535-539`, `761-765`)
and accepts nothing until that is taken, so that two listeners may wait for each
other (`Jammed`). A frame that was handed over can still be dropped (`"drop"`), an
offer or a chunk can be refused (`"refuse"`), a receipt too (`"refuseReceipt"`), the
answer can come too late (`"timeout"`). Which calls the users make and which faults occur are
constants, so a run states its conditions. A conversation is saved in place
(`write_private`: `fs::write` truncates, then fills). With `"torn"` that is two
steps, `Truncate` and `WriteRecord`, `OpTruncate` and `OpPersist`: in between the
conversation is skipped at load as unreadable, so no record is found; a fill that
comes after the other thread's may leave a garbled file, which reads the same. The
appends of an offer, on either side, are one step; so is every save without
`"torn"`. What is saved, a copy loaded earlier, is never abstracted.

### Messaging

Both devices have two clients, the user's call and the listener. `Connect`
succeeds without the listener (the system queues the connection), `Accept` takes
the next connection, `WriteFrame` needs the listener's handshake. The listener is
one thread: between `Acknowledge` or `Flush` and the end of `WriteFrame` it does
not accept (`lib.rs:364-440`, `765`, `transport.rs`). None of these steps has a
timeout in the code; only accepting has one.

`file[d]` is the conversation of a device, each of its two threads has a `copy` it
loaded (`Load`), changes (`AppendSent`, `AppendReceived`, `HandleReceipt`) and
writes in place (`Save` truncates, `Saved` fills, and two fills at a time may leave
something that does not parse). Everything that can fail is an action of its own,
bounded together by `MaxFaults`: a connection is refused, breaks in the handshake or
falls silent (`Refused`, `Broken`, `Silent`, `SilentServed`), the frame is written
and then not read, or its sender is not trusted, or the trust list cannot be read
(`Dropped`, `lib.rs:380-401`), the store cannot be loaded or written (`StoreFails`,
`749-759`). `lost` and `spoiled` are histories: the texts a failure ended, and what
the threads of a device have written over of each other's texts.

### Session, FrameOnce

`Session` has the window as the code has it, a word being the set of its bits,
with `First`, `Ahead` and `Behind` for the cases of `ReplayWindow::accept`
(`crypto/session.rs:220-300`). A frame is its counter. A frame that was not sealed
fails authentication before the window is touched. `FrameOnce` says what is
promised, without a window: a frame is opened at its first arrival unless one at
least 1024 further was opened before, and never again. The refinement mapping is
`Window <- 1024, sealed <- send_counter`.

The transport opens a session per connection and most connections carry one
frame, so today's traffic hardly exercises the window; the module is about what
`Session` promises to any caller. The counter is a natural number: `u64` would
overflow after 2^64 frames.

### TrustList

Three threads, `discovery`, `user` and `listener`, each load (`Load`), read
(`Read`) and, if the text does not parse, move the file aside (`MoveAside`), change
their copy and write it back. A file that is not UTF-8, or is gone by the time it is
read, is an error instead (`trust.rs:84-87`): nothing is moved, the loop skips its
round, a call fails, a message is dropped. A write truncates the file and then
fills it (`write_private`,
`device.rs:275-286`), so the file has a form besides its content; a thread whose
open file was moved aside writes into the moved one (`detached`). The peer table
changes in any way (`Receive`): what makes a peer visible is left to discovery.

### Workplace

`replica[d]` is `workspace.json`, with the members' roles, the groups, who has
written in which group, and `updated_at` (`stamp`). A call is a record in `calls`:
it has loaded the replica, and what is left is to save its copy and send it to
each member (`workplace_mutate_path`, `lib.rs:1841-1873`), to send a text and then
save (`lib.rs:1290-1385`), or to send the tombstone and remove the file
(`1507-1537`). Any number of calls of a user overlap. The listener handles one
frame at a time, loading in one step and writing in the next. `Accepts` is
`apply_network_state` after the check of the timestamp; a device without a replica
follows `from_network_state` (`Joins`), which checks that the owner sends and that
the device is a member. A device that is no member has the role `NoRole`; `Invite` is the
workplace part of `capsi_trust_accept`, which makes the accepted device a member
and sends the state to that one alone. `Rename` stands for the creation of a
department too: for both the merge looks at the timestamp only.

### WorkplaceDelivery

One group of which all devices are members. `file[d]` is `workspace.json` again,
now with the texts and broadcasts it shows, the queue (`pending`) and the journal
of received ids. A call (`SendMessage`, `CreateBroadcast`) sends to one member
after the other (`CallDelivers`), queues for whom it cannot reach (`CallQueues`),
passes over whom it does not trust or know (`CallPasses`), saves its copy
(`CallSaves`) and, for a broadcast, sends the state along (`CallSyncs`). The
listener handles one frame (`Handle`, `Store`), acknowledges a text (`Reply`), or
works off the due entries (`FlushBegins`, `FlushOne`, `FlushEnds`), with a copy it
saves at the end if an entry was dropped, delivered or put off (`changed`,
`lib.rs:1804-1839`). `Stop` and `Start` are the application; `Discover` and
`Distrust` are what discovery and the trust list do to the addresses and to trust.

A frame needs a listener that accepts; a client whose peer runs but does not accept
waits. That is `Messaging`'s connection in one step. The 30 seconds of back-off are
a flag, `late`, and their end a choice of `FlushBegins`. A message
is named by its place in the order of sending, which stands for the random id of its
envelope; the queue keeps the envelope, so a retry has the same id.

What goes wrong is chosen from `Faults` and bounded by `MaxFaults`. `stop` kills the
application at any step. `fail` is a send that returns an error although the peer
runs: a stale address, a network that fails. `lose` is a frame that was written and
not read. `hang` (`Hang`, `Hung`) is a connection that neither fails nor goes on;
`connect_and_send` and `accept_and_read` wait for it for ever. `tear` is the save of
`workspace.json` in place (`workplace.rs:633-636`): a frame that comes while the file
is half written is dropped (`Discard`, `lib.rs:642-648`, `706-712`), its sender being
told nothing; and two saves at a time, or a stop in the middle of one, leave a file
that cannot be parsed (`torn`), on which every later call and frame fails.

`got`, `lost`, `cut`, `mixed` and `overlapped` are histories, which
`NothingForgotten` needs. Two writes on one device of which the second rests on a
copy older than the first (`overlapped`) lose entries of the queue and texts, of the
author and of the receiver alike: a message that was stored is shown only on a
device where that did not happen, and which did not take over a state instead
(`mixed`). A stop in the middle of a call takes with it what the call had not decided
(`cut`), and the author, which saves at the end of the call, does not show the
message then. With three or more devices it may show it again: a member that got it
can pass it on within a state, and a device that takes over a state is in `mixed`.

### Discovery

A session is a thread with its table; `handle[d]` is the session the client holds.
`Start` announces the session to every device its broadcasts reach (`Reach`) and
`Stop` gives up the handle, while the thread goes on to the end of its turn. A turn
is `Receive` or `Wait`: take a datagram, answer the sender if it is new to the
table (`Answer`, to its address alone), drop who is stale, publish. `Lose`, `Copy`
and the choice of the datagram are the network. `time` is the true time and
`Skew[d]` what the clock of `d` adds to it; freshness compares the sender's clock
with the reader's, staleness the reader's with itself.

A broadcast reaches every socket on the port and an answer one of them
(`SO_REUSEPORT`), so an old thread can take an answer from a new session. Beacons
that do not verify are dropped by the code and left out here.

## 3. The runs

All runs end with the state space exhausted, except those that end with the
expected counterexample. Deadlock is not looked for where `CHECK_DEADLOCK FALSE`
is set: a transfer ends, the users' calls are bounded, and all that is left may
be to stop. That threads stop that should not is stated by liveness properties.

| Run | Instance | States | Shows |
|---|---|---|---|
| `FTSafety` | 3 units in chunks of 2; accept, decline and both cancels; drop, edit, timeout, crash | 2,335,585 | `TypeOK`, `ConsentFirst`, `ContiguousPrefix`, `IntactCopy`, `CompleteMeansCopied` |
| `FTEmpty` | a file of no units; accept, decline and texts of both devices; refused frames and receipts, drop, timeout, crash, torn | 3,207,810 | `CompleteMeansCopied` where accepting completes the transfer, while texts write stale records back and saves are met half done |
| `FTLive` | the receiver's accept and cancel, a text of each device, deadline, refused offers and chunks, fair threads | 85,137 | `SendEndsOrJams`, `Delivered`, `StopIsFinal` |
| `Replay` | 9 counters at 0, at the borders of words and of the window | 4,995 | `WindowExact`, `OpenedOnce` (refinement) |
| `Trust` | 2 peers, 2 decisions, 1 message, fair threads | 559,402 | `TypeOK`, `OnlyByConsent`, `VisibleListed` |
| `Texts` | both users send a text, one listener has a delivery to flush, 2 failures of any kind at any step, fair threads | 204,821 | `TypeOK`, `DeliveredMeansKept`, `TextsArrive` |
| `Workplace` | 3 devices, members or not, 1 group, roles admin and member, 2 overlapping calls of any kind, sends may fail | 2,728,611 | `TypeOK`, `RolesGranted`, `MembersAgree`, `HoldersBelong`, `DeletionHolds`, `DemotionHolds` |
| `Delivery` | 2 devices, 2 texts or broadcasts, a journal of one, one not discovered yet, one fault of any kind, files found and left half written, one that may withdraw trust, fair threads | 1,052,574 | `TypeOK`, `TextOnce`, `BroadcastOnce`, `NothingForgotten`, `QueueDrainsOrSticks` |
| `Discovery` | 2 devices, broadcasts of one of them get out, its clock ahead by a second and no tolerance, 3 sessions, 4 seconds, one lost or repeated datagram | 300,854 | `TypeOK`, `GoneInTime`, `AnswersApart`, `ListsBack` |
| `FTSourceKept` | a declined offer | | counterexample to `SourceKept` |
| `WorkplaceFrozen` | 2 devices, 2 groups, texts and changes of groups | | counterexample to `OwnerIsFollowed` |
| `DeliveryStuck` | 2 devices, 2 texts, one stop, fair threads | | counterexample to `QueuedArrive` |

### Why the bounds are enough

* Files: with 3 units in chunks of 2 there is a full chunk and a shorter last one,
  so a first, a last, a missing and a repeated chunk are all different; the empty
  file is a run of its own. Every thread of the program is there; a user makes
  each call once or again after it failed, and two calls are enough to overlap.
  Restarts and half-done saves are not bounded. `FTSafety` leaves `"torn"` out,
  which would triple its states; `TypeOK` and `IntactCopy` are proved with it.
* Sessions: what a counter does depends on its distance to the highest, and the
  counters chosen have distances below, at and above 64, 128 and 1024. The
  theorems hold for every counter.
* Trust: two decisions are needed to overwrite one by the other, two peers so that
  a write for one can lose the other. One message, because reading twice is
  reading once in two behaviours.
* Messages: one text of each user, so that each of the four threads is once a
  client of the other device and every two of them meet; a second text of a user
  repeats the first, as its thread serves one after the other. Two failures, so that
  the second can hit what the first has left. One of the listeners flushes, the other
  one meets it with a receipt; two that flush are in `Delivery`. The theorem has any
  number of all of these.
* Workplace: two calls of any users, kinds and overlaps; three devices so that an
  admin can hold a state the owner does not know and a third member hears of
  both, or is not a member yet. `MaxClock` bounds the calls, as each takes one
  millisecond. Roles are limited to admin and member; the manager appears in
  `WorkplaceFrozen`. Two calls do not contain a series of demotions.
* Deliveries: two messages so that one is in the queue while another is sent, and
  so that one pushes the other out of a journal of one; one fault, at any step of
  either device: a stop or a failed send is what loses a receipt. The theorems have
  any number of faults. Retries, files met half written and overlapping saves that
  garble a file are not bounded.
* Discovery: `GoneInTime` bounds how long a peer is listed after its last beacon was
  made, and a run says something only if its time goes beyond the bound. With a
  timeout of one second and no tolerance it is 3 seconds for a peer whose clock is
  ahead by one, and 4 seconds of time are enough to exceed it; a beacon of that peer
  is from the future, then fresh, then stale, and one that is repeated or comes late
  is taken when it is due. Three sessions are two of one device and one of the other.
  The theorems have no such bounds.

### Fairness

Threads run: weak fairness of the user's threads, of discovery and of the
listeners in `Messaging` and `TrustList`, since a step that stays possible is taken
by a scheduled thread. Nothing obliges users, beacons, messages or failures. In
`WorkplaceDelivery` the tick comes and the back-off ends, a stopped application is
started again, and two running devices find each other's address; without the last
two nobody is reachable again, which is the condition of the promise. Nothing is
assumed of the users' calls there, which may hang in a send for ever. In
`Discovery` the network delivers what it does not lose, to threads that run. In
`FileTransfer` a send is one step with the listener, which is idle again and again
but not all the time, so weak fairness would let a client be overtaken for ever.
In the program connections wait in the system's backlog, first come first served;
that is strong fairness of the sending thread, of `Listener(d)` and of `OpStep(u)`.
It gets a client through to a listener that comes back to accept again and again and
does not make the listener come back: two listeners that send to each other stay
`Jammed` under it. `Messaging` models that backlog and needs weak fairness only.
`Delivered` assumes in addition that the receiving user answers, and that no text is
under way, as a part of the property.

### What the violated runs say

* `SourceKept`: when the receiver declines or cancels, the sender's listener
  removes the file at `local_path` (`lib.rs:552-559`), and on the sender that is
  the file the user chose (`lib.rs:922`).
* `OwnerIsFollowed`: a member writes in a group and is removed from the group. Its
  message stays, and `apply_network_state` refuses every state with a message of
  somebody who is not in the group (`workplace.rs:267-276`), so the members never
  follow the owner again.
* `QueuedArrive`: one listener flushes its queue and connects to the other, which at
  that moment connects to the first with a receipt. Each waits for the handshake the
  other would have to answer (`transport.rs:27`), without a timeout, and both
  accept nothing any more: neither the queued text nor any other gets through,
  although both devices run. `lib.rs:1779-1782` says that it goes out once the
  member is reachable again. `QueueDrainsOrSticks` shows what else can keep an entry
  in a queue for good: a connection that hangs, and a file that cannot be parsed.

### Seen while modelling, without a run

File transfer:

* A `Completed` receipt overrides a cancel of the sender (`lib.rs:547`); the
  release plan says a cancelled transfer never ends complete.
* An interrupted send (`lib.rs:979`), an acceptance after the deadline
  (`lib.rs:952`) and a restart leave records in Transferring; nothing moves them
  on. A copy that fails verification is not reported to the sender (`lib.rs:522`).
  A cancel that overtakes the offer is dropped (`lib.rs:551`).
* A text during a transfer can write back a record that was loaded before the
  acceptance; the release plan (F13) says both work at a time.

Messages:

* The user's thread loads the conversation, the listener stores a text and
  acknowledges it, the user's thread writes its copy back (`lib.rs:862`): the text
  is gone and its sender sees it as delivered. `DeliveredMeansKept` therefore excuses
  a text that the receiver's own threads have written over (`spoiled`), and says that
  nothing else loses a confirmed text.
* A text to a device that does not trust the sender, or cannot read its trust list or
  conversation, is sent and stays Sent at the sender: it is dropped without a receipt
  (`lib.rs:388-401`, `749-759`).
* A connection on which nothing more is heard holds a listener, or a call, for ever
  (`transport.rs:27`, `44`).
* The receipt of a text can arrive before `capsi_message_send` has stored the text
  (`lib.rs:777`); it is dropped and the text stays Sent.
* A conversation that is found half written is skipped, and the next append writes
  a new one over the history (`conversation.rs:316`).

Trust and discovery:

* Two threads that write `trust.json` at once can leave text that is not UTF-8.
  `TrustStore::load` then returns the error of the read and moves nothing aside
  (`trust.rs:84-87`), so that every later load fails, although `trust.rs:91-92` means
  to keep such a file aside and begin afresh. `VisibleListed` names this exception.
* The discovery loop saves a list it loaded before the user's accept was written
  (`lib.rs:181-186`): an accepted device is pending again, although
  `trust.rs:174-176` says it never is downgraded by a beacon.
* The client's session announces once (`lib.rs:169`); the repeated announcement is
  in `Discovery::run`, which nothing calls. Two idle devices drop each other after
  20 seconds; the release plan (`docs/release-verification-plan.md:1122-1124`)
  expects them listed after 60, as "the beacon repeats every" 5 seconds.
* A session that is started again within the timeout, as after a change of a
  setting (`main.dart:399-416`), lists nobody: the others list it still and so do
  not answer. Where broadcasts of one side only get out, the entry of the other
  side ends after the timeout and is not renewed.
* Clocks 60 to 80 seconds apart give a listing on one side only.
* The thread of a stopped listener keeps the port to the end of its turn, up to 500
  ms or as long as a send blocks it, so a retry at once (`main.dart:543`) fails.

Workplace:

* A state of an overlapping call of the owner that arrives after the tombstone
  brings a deleted workplace back, despite the timestamp of the tombstone
  (`workplace.rs:190`); so does a call or a handler that had loaded the file.
* Receiving a text moves `updated_at`, so a state sent before it is older and is
  dropped silently (`workplace.rs:223`). Hence `MembersAgree` speaks of workplaces
  without texts. A member that missed its own demotion is told nothing when its
  states are refused.
* Only the invitee hears of an invitation (`lib.rs:245-276`). The next state of an
  admin does not have the new member, and the owner takes it over: the member is
  out, without anybody having removed it, and is not told.
* A flush and a call, or two calls, that overlap on one device save over each other
  (`lib.rs:1837`): texts and entries of the queue are lost. A listener that stops
  after it has answered the handshake loses the text, because the sender's entry is
  gone on Ok.
* A text for a member that is not trusted is reported as queued (`lib.rs:1350-1353`)
  and is not. A rescheduled entry goes after later ones, so texts change order. A
  text that came with a state is not in the journal.
* `workspace.json` is written in place and, when it cannot be parsed, neither
  repaired nor moved aside (`workplace.rs:628-636`).

## 4. What is proved

For every value of the constants, subject only to the `ASSUME`s of the modules
(bounds are natural numbers, the calls are those of the program, `NoDetails` is no
beacon, skews are integers), which TLC evaluates in the runs.

| Theorem | Says | Argument |
|---|---|---|
| `FileTransferProofs!TypeCorrect` | `Spec => []TypeOK` | One lemma per action. `TypeOK` contains what later proofs need of the threads: the sender's record names the source and the receiver's never does; a listener past the first step of a chunk holds a chunk. |
| `FileTransferProofs!CopyIntact` | `Spec => []IntactCopy` | `IntactCopy` is not inductive: a rename relies on a verification two steps earlier, and between them a decision may touch the file. `CopyInv` adds that a record which names the copy is settled, so that chunks and decisions touch the `.part` file only (`RecordsSettled`, `OpsSafe`), that what the listener is about to rename is verified (`ListenerSafe`), and that no chunk of an empty file exists, whose acceptance renames unverified (`NoChunkOfEmpty`). |
| `FileTransferPromises!NoDataUnasked` | `Spec => []ConsentFirst` | `PromiseInv`: what each record, in a file, in a thread or in a call, says of acceptance and completion is true (`RecordsKept`, `ListenersKept`, `OpsKept`), for stale copies too, so that writing one back does no harm. Rests on `CopyInv`. |
| `FileTransferPromises!CompleteIsCopied` | `Spec => []CompleteMeansCopied` | From `PromiseInv`: a record says Complete, and a receipt says so, only after the copy was renamed; a cancel of the sender is what the property excepts. |
| `FileTransferPromises!NoGap` | `Spec => []ContiguousPrefix` | `PrefixInv`: while the source is as it was, the thread reads whole chunks in turn (`ThreadReads`), the `.part` file is a prefix no longer than what was read (`PartPrefix`), and the chunk at the listener is one the thread is past and starts no earlier than the file ends (`ChunkInTurn`). |
| `SessionProofs!WindowCorrect` | `Spec => []WindowExact` | `ShiftExact`: after a shift by any distance bit k is what bit k - delta was, across words; `SetBitExact`; and the three cases of `accept`. |
| `SessionProofs!SessionOpensOnce` | `Spec => OpenedOnce` | `Open` maps to `Arrive`: by `WindowExact` a frame is refused exactly when it was opened or is stale (`RefusedExact`); `Seal` maps to `Seal`. |
| `TrustListProofs!TrustTypeCorrect` | `Spec => []TypeOK` | From `Inv`. |
| `TrustListProofs!ConsentRequired` | `Spec => []OnlyByConsent` | `Inv` adds `InProgress`: a decision being carried out is one the user made. Then no load, move, stale write or observation adds a decision to a list. |
| `MessagingProofs!MessagingTypeCorrect` | `Spec => []TypeOK` | `LinkInv`: a client is in at most one backlog, in it once, and only while it waits for that listener; a listener that serves somebody reads and has that client no more in its backlog (`BacklogOK`, `ServingOK`, `InboxOK`, `UserOK`). |
| `MessagingProofs!DeliveredIsKept` | `Spec => []DeliveredMeansKept` | `KeptInv`: a receipt on its way, or about to be sent, speaks of a text that is `Firm` at the other device (`FramesKept`), and so does every copy and file that shows one as delivered (`FilesKept`, `CopiesKept`). `Firm` is what makes it inductive: the text is in the file and in every copy that will be written, or it is being written, or its loss to a write of the same device is noted (`spoiled`). No condition on who sends, how much, or what fails. |
| `WorkplaceProofs!WorkplaceTypeCorrect`, `!NoRightMadeUp`, `!NoFileOfOthers` | `Spec => []TypeOK`, `[]RolesGranted`, `[]HoldersBelong` | `Inv` says of every state there is, in a file, a frame, a call or a listener, that its roles were given by one who might give them, that it is no newer than the clock, and of every frame who may have sent it and that the state in it has the addressee as a member. `Accepts` alone does not see to that; it follows from who sends what to whom. |
| `WorkplaceProofs!DemotionKept` | `Spec => []DemotionHolds` | `DemotionInv`: a merge makes nobody an admin on the owner's device (`AdminsWithin`), and unless writes overlapped the owner's file has no admin its last save did not have (`Ruled`). |
| `WorkplaceProofs!DeletionKept` | `Spec => []DeletionHolds` | `DeletionInv`: there is a set of members that all states have in common (`Everywhere`), so the tombstone goes to all of them, and after it the workplace is `Gone` from a device or the tombstone is `Coming`; no state of the owner follows it. |
| `WorkplaceProofs!MembersFollow` | `Spec => []MembersAgree` | `AgreementInv`: while only the owner changes it, every state in use is the newest one or has an earlier timestamp (`AllBehind`), and unless a send of the newest failed each member has it or it is on its way there (`OnWay`, `Reached`). |
| `WorkplaceDeliveryProofs!DeliveryTypeCorrect` | `Spec => []TypeOK` | `SoundInv`: the queue of a workspace names messages of its own device and other members, once each, its journal is bounded and what it shows was sent. It is proved of every copy at once: each state a device has after a step comes `From`, or `TakesOver`, one it had before. |
| `WorkplaceDeliveryProofs!BroadcastsShownOnce` | `Spec => []BroadcastOnce` | `OnceInv`: the same of copies and of the states in frames. |
| `WorkplaceDeliveryProofs!TextsShownOnce` | `Spec => []TextOnce` | `ApartInv`: two equal texts are further apart than the journal is long, and the last texts of others are those in the journal, in its order (`Apart`); so a text that is not in the journal was pushed out by as many others. |
| `WorkplaceDeliveryProofs!NoMessageForgotten` | `Spec => []NothingForgotten` | `KeptInv`: what has arrived stays arrived, what a call or a flush is about to save still has every entry its base has or sends it (`Covers`), and what is not decided is not shown (`Hidden`). `DecidedInv` follows the message from the call that makes it to the queue and from there to each member. `ShownInv` follows it on in the member's file: every copy about to be saved shows what its base shows, and a listener's copy also the message it is about, so what was stored stays shown unless a write rests on an older copy or a state is taken over. |
| `DiscoveryProofs!DiscoveryTypeCorrect` | `Spec => []TypeOK` | From `Inv`: the sessions of threads are distinct and have started (`Threads`, `OneEach`), and a thread whose session is held is there (`Held`). |
| `DiscoveryProofs!PeersGoInTime` | `Spec => []GoneInTime` | `TableOK`: no entry was older than a fresh beacon when it was made, by the two clocks; it then ages with the reader's clock and a turn drops it when it is stale. |
| `DiscoveryProofs!NoAnswerStorm` | `Spec => []AnswersApart` | `Since`: after an answer the table has an entry that is as recent, or the timeout has passed; so a first sight comes after the timeout. |

With these every invariant of the passing runs and the refinement of `FrameOnce`
has a theorem. An invariant alone is seldom inductive here, for one reason: threads
write back copies they loaded earlier, so what is to hold of a file has to be said
of every copy of it, in calls, listeners and frames. The strengthenings above are
of that kind, and each conjunct is kept by one lemma per action.

Only model-checked: the liveness properties `SendEndsOrJams`, `Delivered`,
`StopIsFinal`, `VisibleListed`, `TextsArrive`, `QueueDrainsOrSticks` and `ListsBack`.
They rest on fairness, hence on ENABLED, which the prover does not handle. The
three violated properties are refuted by a run, which no proof could do better.

## 5. What is not modelled

* Handshake, cipher, framing, message validation, device identity: sequential
  code over bytes, with unit tests. The models start from an authenticated frame.
* Failing disks, except in `Messaging`, where a store may fail to load or to save.
  Half-done saves of the workspace in `Workplace`, which is about whole states;
  `WorkplaceDelivery` has them.
* A killed application in `Messaging`: what it takes with it is what a failure of
  the thread does there, and a text is queued by nobody.
* In `FileTransfer`, a connection that hangs: it holds the transfer for ever, which
  the properties of `Messaging` and `WorkplaceDelivery` say of such a connection.
* Two transfers at a time, and two files of one name.
* Clocks in the workplace: timestamps of different devices are comparable. With
  clocks that disagree "older" loses its meaning and `MembersAgree` with it. A wall
  clock that is set back while a session runs (`beacon.rs:136`).
* Of the workplace: its creation, departments (no exported call puts anybody into
  one), invitations of a device that has a workplace of its own (it refuses).
* Of discovery: `Discovery::run`, the bytes and signature of a beacon, the list of
  broadcast addresses (`interfaces.rs`), which is a pure computation.
* The queue of events, the Flutter client, packaging, website.
* One-to-one texts to devices that are offline are not queued by the program, so
  there is nothing to model.

## 6. Plan

Built in this order: `FileTransfer` first, because a transfer has most threads and
most to lose; then `Session`, `TrustList`, `Messaging`, `Workplace`,
`WorkplaceDelivery`, `Discovery`, and restarts and half-done saves in
`FileTransfer`. The model is complete as far as the list above goes.

Every invariant the runs check is proved. What is left: an abstract specification
of what a queue promises, a message on its way until it is shown or dropped,
implemented by `WorkplaceDelivery`, with the invariants above as the lemmas of its
steps. The hazards without a property are those where the program keeps no promise
that could be stated: a decision that the discovery loop's save undoes, a receipt
that comes before the text is stored, a text that touches `updated_at`, an answer
that the thread of an old session takes, and the queue of 128 events.
