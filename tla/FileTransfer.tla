---------------------------- MODULE FileTransfer ----------------------------
(* One file sent from one Capsi device to another.                          *)
(*                                                                          *)
(* Each device runs one listener thread (capsi_message_start), which takes  *)
(* one connection at a time, and any number of calls from the Flutter UI,   *)
(* each on an isolate of its own.  All of them read a whole conversation    *)
(* file, change their copy and write the copy back (MessageStore), with no  *)
(* lock between them.  capsi_file_send is such a call; it offers the file,  *)
(* waits for an answer and sends the chunks.                                *)
(*                                                                          *)
(* A frame travels on a TCP connection of its own and connect_and_send      *)
(* returns only after the peer's listener has answered the handshake, so a  *)
(* send is a rendezvous with an idle listener.  It has no time limit.       *)
(*                                                                          *)
(* "At most one" is a set with at most one element: {} is no record, no     *)
(* file, no frame.                                                          *)
EXTENDS Integers, Sequences

CONSTANTS
    Size,       \* length of the offered file, in units of data
    ChunkSize,  \* TRANSFER_CHUNK_SIZE in the same units
    UserOps,    \* the <<device, call>> pairs the users make
    Faults      \* what goes wrong: a subset of FaultKind

Device == {"sender", "receiver"}
Other(d) == IF d = "sender" THEN "receiver" ELSE "sender"

OpKind == {"accept", "decline", "cancel", "text", "peerText"}
FaultKind == {"refuse", "refuseReceipt", "drop", "timeout", "edit", "crash", "torn"}

ASSUME SizeAssumption == Size \in Nat
ASSUME ChunkSizeAssumption == ChunkSize \in Nat \ {0}
ASSUME UserOpsAssumption ==
    /\ UserOps \subseteq Device \X OpKind
    /\ \A u \in UserOps : u[2] \in {"accept", "decline"} => u[1] = "receiver"
ASSUME FaultsAssumption == Faults \subseteq FaultKind

VARIABLES
    rec,        \* rec[d]: the transfer's record in d's conversation file
    file,       \* the receiver's .part file and its copy under downloads
    source,     \* content of the file being sent
    linked,     \* is the source still there under its path
    thread,     \* capsi_file_send on the sender
    listener,   \* listener[d]: the thread "capsi-messages" of d
    op,         \* op[u]: the UI call u
    asked       \* history: the UI calls that persisted their decision

vars == <<rec, file, source, linked, thread, listener, op, asked>>

(* Orig is the content when capsi_file_send hashed it: the digest of the    *)
(* offer stands for it.  A unit changed by a later edit reads as 0.         *)
Orig == [i \in 1..Size |-> i]
Edited(n) == [i \in 1..n |-> 0]
ChunksRoundedDown == Size \div ChunkSize
Chunks == (Size + ChunkSize - 1) \div ChunkSize

Min2(a, b) == IF a < b THEN a ELSE b

TransferState ==
    {"Offered", "Transferring", "Complete", "Declined", "Failed", "Cancelled"}
ReceiptState == {"Accepted", "Declined", "Completed", "Failed", "Cancelled"}
Path == {"source", "part", "final"}
Record == [state : TransferState, path : Path]

Frame ==
    [kind : {"offer", "text", "ack"}]
      \cup [kind : {"chunk"}, index : Nat, data : Seq(Nat)]
      \cup [kind : {"receipt"}, state : ReceiptState]

Offer == [kind |-> "offer"]
Text == [kind |-> "text"]
Ack == [kind |-> "ack"]
Chunk(i, data) == [kind |-> "chunk", index |-> i, data |-> data]
Receipt(s) == [kind |-> "receipt", state |-> s]

Idle == [pc |-> "accept", frame |-> {}, held |-> {}]
NoOp == [pc |-> "idle", held |-> {}]
Sending == [pc |-> "send", held |-> {}]

Init ==
    /\ rec = [d \in Device |-> {}]
    /\ file = [part |-> {}, final |-> {}]
    /\ source = Orig
    /\ linked = TRUE
    /\ thread = [pc |-> "start", next |-> 0, cursor |-> 0, buf |-> <<>>]
    /\ listener = [d \in Device |-> Idle]
    /\ op = [u \in UserOps |-> NoOp]
    /\ asked = {}

-----------------------------------------------------------------------------
(* The transport.  Deliver(d, f) hands f to d's idle listener; Sent allows  *)
(* a frame that the peer's listener took but dropped before handling it.    *)

At(d, pc) == listener[d].pc = pc
Taken(f) == [pc |-> "handle", frame |-> {f}, held |-> {}]

Deliver(d, f) ==
    /\ At(d, "accept")
    /\ listener' = [listener EXCEPT ![d] = Taken(f)]

Sent(d, f) ==
    \/ Deliver(d, f)
    \/ /\ "drop" \in Faults /\ At(d, "accept")
       /\ UNCHANGED listener

(* A record with another state; local_path is kept (update_transfer with    *)
(* local_path None).                                                        *)
WithState(held, s) == {[r EXCEPT !.state = s] : r \in held}

-----------------------------------------------------------------------------
(* capsi_file_send.  When it returns, its buffer and its file handle go. *)

Over(pc) == [thread EXCEPT !.pc = pc, !.cursor = 0, !.buf = <<>>]

OutgoingRecordAtPart == [state |-> "Offered", path |-> "part"]
OutgoingRecord == [state |-> "Offered", path |-> "source"]

(* Hash the file, then append the outgoing record before any network step. *)
SendStart ==
    /\ thread.pc = "start"
    /\ rec' = [rec EXCEPT !["sender"] = {OutgoingRecord}]
    /\ thread' = [thread EXCEPT !.pc = "offer"]
    /\ UNCHANGED <<file, source, linked, listener, op, asked>>

SendOffer ==
    /\ thread.pc = "offer"
    /\ Sent("receiver", Offer)
    /\ thread' = [thread EXCEPT !.pc = "wait"]
    /\ UNCHANGED <<rec, file, source, linked, op, asked>>

NoDeadline == FALSE
Deadline == "timeout" \in Faults

Granted(r) == r.state \in {"Transferring", "Complete"}
Ended(r) == r.state \in {"Declined", "Failed", "Cancelled"}

(* The 100 ms poll of the persisted record, up to the 30 s deadline, then   *)
(* File::open.                                                              *)
Poll ==
    /\ thread.pc = "wait"
    /\ \/ /\ \E r \in rec["sender"] : Granted(r)
          /\ thread' = IF linked THEN [thread EXCEPT !.pc = "read"] ELSE Over("error")
       \/ /\ \E r \in rec["sender"] : Ended(r)
          /\ thread' = Over("error")
       \/ /\ Deadline
          /\ \A r \in rec["sender"] : ~Granted(r) /\ ~Ended(r)
          /\ thread' = Over("error")
    /\ UNCHANGED <<rec, file, source, linked, listener, op, asked>>

ReadBuffer ==
    SubSeq(source, thread.cursor + 1,
           Min2(thread.cursor + ChunkSize, Len(source)))

(* One turn of the chunk loop up to the send: look at the record, read the  *)
(* next buffer; the loop ends at the advertised number of chunks or at the  *)
(* end of the file.                                                         *)
ReadChunk ==
    /\ thread.pc = "read"
    /\ thread' =
         IF thread.next = Chunks THEN Over("done")
         ELSE IF \E r \in rec["sender"] : Ended(r)
              THEN Over("error")
         ELSE IF ReadBuffer = <<>> THEN Over("done")
         ELSE [pc |-> "chunk", next |-> thread.next, buf |-> ReadBuffer,
               cursor |-> thread.cursor + Len(ReadBuffer)]
    /\ UNCHANGED <<rec, file, source, linked, listener, op, asked>>

SendChunk ==
    /\ thread.pc = "chunk"
    /\ Sent("receiver", Chunk(thread.next, thread.buf))
    /\ thread' = [pc |-> "read", next |-> thread.next + 1, buf |-> <<>>,
                  cursor |-> thread.cursor]
    /\ UNCHANGED <<rec, file, source, linked, op, asked>>

(* The connection fails, and with it the call. *)
RefuseThread ==
    /\ "refuse" \in Faults
    /\ thread.pc \in {"offer", "chunk"}
    /\ thread' = Over("error")
    /\ UNCHANGED <<rec, file, source, linked, listener, op, asked>>

Thread == SendStart \/ SendOffer \/ Poll \/ ReadChunk \/ SendChunk

-----------------------------------------------------------------------------
(* The listener thread: one frame at a time, its handler to the end. *)

Handles(d, kind) ==
    At(d, "handle") /\ \E f \in listener[d].frame : f.kind = kind

(* Create the .part file and append the incoming record. *)
HandleOffer ==
    /\ Handles("receiver", "offer")
    /\ file' = [file EXCEPT !.part = {<<>>}]
    /\ rec' = [rec EXCEPT !["receiver"] = {[state |-> "Offered", path |-> "part"]}]
    /\ listener' = [listener EXCEPT !["receiver"] = Idle]
    /\ UNCHANGED <<source, linked, thread, op, asked>>

(* Load the record; a transfer that is not running drops the chunk. *)
LoadForChunk ==
    /\ Handles("receiver", "chunk")
    /\ LET running == {r \in rec["receiver"] : r.state = "Transferring"}
       IN  listener' = [listener EXCEPT !["receiver"] =
                          IF running = {} THEN Idle
                          ELSE [@ EXCEPT !.pc = "write", !.held = running]]
    /\ UNCHANGED <<rec, file, source, linked, thread, op, asked>>

InAnyOrder(content, i) == TRUE
InOrder(content, i) == i = Len(content) \div ChunkSize

(* Append the data if it is the next chunk by the length of the .part file, *)
(* which must exist.                                                        *)
WriteChunk ==
    /\ At("receiver", "write")
    /\ \E f \in listener["receiver"].frame, r \in listener["receiver"].held :
         \/ \E content \in file[r.path] :
              /\ InOrder(content, f.index)
              /\ file' = [file EXCEPT ![r.path] = {content \o f.data}]
              /\ listener' = [listener EXCEPT !["receiver"] =
                                IF Len(content \o f.data) >= Size
                                THEN [@ EXCEPT !.pc = "verify"] ELSE Idle]
         \/ /\ \A content \in file[r.path] : ~InOrder(content, f.index)
            /\ listener' = [listener EXCEPT !["receiver"] = Idle]
            /\ UNCHANGED file
    /\ UNCHANGED <<rec, source, linked, thread, op, asked>>

MatchesInSize(copy) == \E content \in copy : Len(content) = Size
Matches(copy) == copy = {Orig}

(* Compare size and digest of the whole file with the offer. *)
VerifyCopy ==
    /\ At("receiver", "verify")
    /\ \E r \in listener["receiver"].held :
         listener' = [listener EXCEPT !["receiver"] =
                        IF Matches(file[r.path])
                        THEN [@ EXCEPT !.pc = "rename"]
                        ELSE [@ EXCEPT !.pc = "record",
                               !.held = WithState(listener["receiver"].held, "Failed")]]
    /\ UNCHANGED <<rec, file, source, linked, thread, op, asked>>

NotRenamed(from) == [file EXCEPT ![from] = {}]
Renamed(from) == [file EXCEPT ![from] = {}, !.final = file[from]]

(* Move the .part file under downloads; it may have been removed meanwhile. *)
RenameCopy ==
    /\ At("receiver", "rename")
    /\ \E r \in listener["receiver"].held :
         IF file[r.path] = {}
         THEN /\ listener' = [listener EXCEPT !["receiver"] = Idle]
              /\ UNCHANGED file
         ELSE /\ file' = Renamed(r.path)
              /\ listener' = [listener EXCEPT !["receiver"] =
                   [@ EXCEPT !.pc = "record",
                             !.held = {[state |-> "Complete", path |-> "final"]}]]
    /\ UNCHANGED <<rec, source, linked, thread, op, asked>>

CancelledResumes(s) ==
    CASE s \in {"Accepted", "Cancelled"} -> "Transferring"
      [] s = "Completed" -> "Complete"
      [] OTHER -> s
ReceiptEffect(s) ==
    CASE s = "Accepted" -> "Transferring"
      [] s = "Completed" -> "Complete"
      [] OTHER -> s

(* Load the record a receipt is about and give it the receipt's state. *)
LoadForReceipt(d) ==
    /\ At(d, "handle")
    /\ \E f \in listener[d].frame :
         /\ f.kind = "receipt"
         /\ listener' = [listener EXCEPT ![d] =
                           IF rec[d] = {} THEN Idle
                           ELSE [@ EXCEPT !.pc = "record",
                                   !.held = WithState(rec[d], ReceiptEffect(f.state))]]
    /\ UNCHANGED <<rec, file, source, linked, thread, op, asked>>

(* An unrelated text message: the same conversation file is loaded and      *)
(* written back with one message more.                                      *)
LoadForText(d) ==
    /\ Handles(d, "text")
    /\ listener' = [listener EXCEPT ![d] =
                      [@ EXCEPT !.pc = "record", !.held = rec[d]]]
    /\ UNCHANGED <<rec, file, source, linked, thread, op, asked>>

(* The peer has stored a text: it is marked in the same file, if it is there *)
(* already.                                                                 *)
LoadForAck(d) ==
    /\ Handles(d, "ack")
    /\ \E entry \in {Idle, [listener[d] EXCEPT !.pc = "record", !.held = rec[d]]} :
         listener' = [listener EXCEPT ![d] = entry]
    /\ UNCHANGED <<rec, file, source, linked, thread, op, asked>>

Removing(f) == f.kind = "receipt" /\ f.state \in {"Cancelled", "Declined"}
CompletingAlways(f, held) == f.kind = "chunk"
Completing(f, held) == f.kind = "chunk" /\ \E r \in held : r.state = "Complete"

(* What is acknowledged from inside its handler: the last chunk and a text *)
Replying(f, held) == Completing(f, held) \/ f.kind = "text"
ReplyTo(f) == IF f.kind = "text" THEN Ack ELSE Receipt("Completed")

(* A conversation file is written in place, truncated and then filled; one   *)
(* that is found empty or garbled is skipped at load.  A fill that finds the *)
(* other writer's text may leave both in the file, which then reads as {}.   *)
Truncated(d) ==
    /\ "torn" \in Faults
    /\ rec' = [rec EXCEPT ![d] = {}]
Filled(d, pc, held) ==
    \/ rec' = [rec EXCEPT ![d] = held]
    \/ /\ pc = "fill" /\ rec[d] # {}
       /\ rec' = [rec EXCEPT ![d] = {}]

Truncate(d) ==
    /\ At(d, "record")
    /\ Truncated(d)
    /\ listener' = [listener EXCEPT ![d].pc = "fill"]
    /\ UNCHANGED <<file, source, linked, thread, op, asked>>

(* Write the handler's copy of the conversation back. *)
WriteRecord(d) ==
    /\ At(d, "record") \/ At(d, "fill")
    /\ Filled(d, listener[d].pc, listener[d].held)
    /\ \E f \in listener[d].frame :
         listener' = [listener EXCEPT ![d] =
                        IF Removing(f) THEN [@ EXCEPT !.pc = "unlink"]
                        ELSE IF Replying(f, @.held) THEN [@ EXCEPT !.pc = "reply", !.held = {}]
                        ELSE Idle]
    /\ UNCHANGED <<file, source, linked, thread, op, asked>>

(* A receipt that ends the transfer removes the file under the record's     *)
(* local_path, on whichever side it arrives.                                *)
UnlinkAfterReceipt(d) ==
    /\ At(d, "unlink")
    /\ \E r \in listener[d].held :
         IF r.path = "source"
         THEN linked' = FALSE /\ UNCHANGED file
         ELSE file' = [file EXCEPT ![r.path] = {}] /\ UNCHANGED linked
    /\ listener' = [listener EXCEPT ![d] = Idle]
    /\ UNCHANGED <<rec, source, thread, op, asked>>

(* The receipt is sent before the listener takes another connection, best   *)
(* effort but for as long as the peer's listener is busy.                   *)
Reply(d) ==
    /\ At(d, "reply") /\ At(Other(d), "accept")
    /\ \E f \in listener[d].frame :
         \/ listener' = [listener EXCEPT ![d] = Idle, ![Other(d)] = Taken(ReplyTo(f))]
         \/ /\ "drop" \in Faults
            /\ listener' = [listener EXCEPT ![d] = Idle]
    /\ UNCHANGED <<rec, file, source, linked, thread, op, asked>>

RefuseReply(d) ==
    /\ "refuseReceipt" \in Faults
    /\ At(d, "reply")
    /\ listener' = [listener EXCEPT ![d] = Idle]
    /\ UNCHANGED <<rec, file, source, linked, thread, op, asked>>

Listener(d) ==
    \/ d = "receiver" /\ \/ HandleOffer \/ LoadForChunk \/ WriteChunk
                         \/ VerifyCopy \/ RenameCopy
    \/ LoadForReceipt(d) \/ LoadForText(d) \/ LoadForAck(d)
    \/ Truncate(d) \/ WriteRecord(d) \/ UnlinkAfterReceipt(d) \/ Reply(d)

-----------------------------------------------------------------------------
(* Calls from the UI: capsi_file_accept and capsi_file_decline              *)
(* (file_transfer_action), capsi_file_cancel, and capsi_message_send, which *)
(* appends to the same conversation file.                                   *)

(* The flag the two entry points pass to file_transfer_action. *)
BothAccept(k) == k \in {"accept", "decline"}
AcceptFlag(k) == k = "accept"

(* The state a decision stores and the receipt it sends. *)
Decision(k) ==
    CASE AcceptFlag(k) -> IF Size = 0 THEN <<"Complete", "Completed">>
                          ELSE <<"Transferring", "Accepted">>
      [] k = "cancel" -> <<"Cancelled", "Cancelled">>
      [] OTHER -> <<"Declined", "Declined">>

Allowed(k, r) ==
    \/ k \in {"accept", "decline"} /\ r.state = "Offered"
    \/ k = "cancel" /\ r.state \notin {"Complete", "Cancelled", "Declined"}

(* Load the store; a call whose transfer is absent or past the decision     *)
(* returns an error and changes nothing.                                    *)
OpLoad(u) ==
    /\ op[u].pc = "idle"
    /\ LET loaded == IF u[2] = "text" THEN rec[u[1]]
                     ELSE {r \in rec[u[1]] : Allowed(u[2], r)}
       IN  /\ u[2] = "text" \/ loaded # {}
           /\ op' = [op EXCEPT ![u] =
                [held |-> loaded,
                 pc |-> IF AcceptFlag(u[2]) /\ Size = 0 THEN "rename"
                        ELSE IF u[2] = "decline" /\ ~AcceptFlag(u[2]) THEN "unlink"
                        ELSE "persist"]]
    /\ UNCHANGED <<rec, file, source, linked, thread, listener, asked>>

(* Accepting an empty file finishes it on the spot. *)
OpRename(u) ==
    /\ op[u].pc = "rename"
    /\ \E r \in op[u].held :
         IF file[r.path] = {}
         THEN op' = [op EXCEPT ![u] = NoOp] /\ UNCHANGED file
         ELSE /\ file' = Renamed(r.path)
              /\ op' = [op EXCEPT ![u] =
                          [pc |-> "persist",
                           held |-> {[state |-> "Complete", path |-> "final"]}]]
    /\ UNCHANGED <<rec, source, linked, thread, listener, asked>>

OpTruncate(u) ==
    /\ op[u].pc = "persist"
    /\ Truncated(u[1])
    /\ op' = [op EXCEPT ![u].pc = "fill"]
    /\ UNCHANGED <<file, source, linked, thread, listener, asked>>

OpPersist(u) ==
    /\ op[u].pc \in {"persist", "fill"}
    /\ IF u[2] = "text"
       THEN /\ Filled(u[1], op[u].pc, op[u].held)
            /\ op' = [op EXCEPT ![u] = NoOp]
            /\ UNCHANGED asked
       ELSE /\ Filled(u[1], op[u].pc, WithState(op[u].held, Decision(u[2])[1]))
            /\ op' = [op EXCEPT ![u] = IF u = <<"receiver", "cancel">>
                                       THEN [@ EXCEPT !.pc = "unlink"] ELSE Sending]
            /\ asked' = asked \cup {u}
    /\ UNCHANGED <<file, source, linked, thread, listener>>

(* Decline removes the .part file before it stores the decision, the        *)
(* receiver's cancel after.                                                 *)
OpUnlink(u) ==
    /\ op[u].pc = "unlink"
    /\ \E r \in op[u].held : file' = [file EXCEPT ![r.path] = {}]
    /\ op' = [op EXCEPT ![u] = IF u[2] = "decline"
                               THEN [@ EXCEPT !.pc = "persist"] ELSE Sending]
    /\ UNCHANGED <<rec, source, linked, thread, listener, asked>>

OpSend(u) ==
    /\ op[u].pc = "send"
    /\ Sent(Other(u[1]), Receipt(Decision(u[2])[2]))
    /\ op' = [op EXCEPT ![u] = NoOp]
    /\ UNCHANGED <<rec, file, source, linked, thread, asked>>

RefuseOp(u) ==
    /\ "refuseReceipt" \in Faults
    /\ op[u].pc = "send"
    /\ op' = [op EXCEPT ![u] = NoOp]
    /\ UNCHANGED <<rec, file, source, linked, thread, listener, asked>>

OpStep(u) ==
    OpRename(u) \/ OpTruncate(u) \/ OpPersist(u) \/ OpUnlink(u) \/ OpSend(u)

-----------------------------------------------------------------------------
(* The surroundings: a text from the peer, one for each time that d runs,   *)
(* and another program that rewrites the file while it is being sent.       *)

PeerText(d) ==
    /\ <<d, "peerText">> \in UserOps
    /\ op[<<d, "peerText">>] = NoOp
    /\ op' = [op EXCEPT ![<<d, "peerText">>].pc = "sent"]
    /\ Deliver(d, Text)
    /\ UNCHANGED <<rec, file, source, linked, thread, asked>>

EditSource ==
    /\ "edit" \in Faults
    /\ linked
    /\ thread.pc \notin {"start", "done", "error"}
    /\ \E n \in 0..Size + 1 : source' = Edited(n)
    /\ UNCHANGED <<rec, file, linked, thread, listener, op, asked>>

(* The application of d is killed and started again: what is in its files    *)
(* stays, a save that was under way leaves no readable record, every thread  *)
(* and call of it is gone, and the new listener takes up nothing.            *)
Restart(d) ==
    /\ "crash" \in Faults
    /\ listener' = [listener EXCEPT ![d] = Idle]
    /\ op' = [u \in UserOps |-> IF u[1] = d THEN NoOp ELSE op[u]]
    /\ thread' = IF d = "sender" /\ thread.pc \notin {"start", "done"}
                 THEN Over("error") ELSE thread
    /\ UNCHANGED <<rec, file, source, linked, asked>>

Next ==
    \/ Thread \/ RefuseThread
    \/ \E d \in Device : Listener(d) \/ RefuseReply(d) \/ PeerText(d) \/ Restart(d)
    \/ \E u \in UserOps : OpLoad(u) \/ OpStep(u) \/ RefuseOp(u)
    \/ EditSource

Spec == Init /\ [][Next]_vars

(* A thread that has started runs on; a listener whose backlog holds a      *)
(* connection accepts it in turn, so a send that waits for it is strongly   *)
(* fair: it gets through if the peer's listener comes back to accept again  *)
(* and again, which nothing obliges it to, its own receipt being such a     *)
(* send.  Nothing obliges a user to act, an edit, a text or a refusal to     *)
(* happen.                                                                  *)
Fairness ==
    /\ SF_vars(Thread)
    /\ \A d \in Device : SF_vars(Listener(d))
    /\ \A u \in {u \in UserOps : u[2] # "peerText"} : SF_vars(OpStep(u))

FairSpec == Spec /\ Fairness

(* The receiving user answers the offer with this call. *)
Answers(k) == WF_vars(OpLoad(<<"receiver", k>>))

-----------------------------------------------------------------------------
(* Properties *)

ThreadState == {"start", "offer", "wait", "read", "chunk", "done", "error"}

RecordPaths(d) == IF d = "sender" THEN {"source"} ELSE {"part", "final"}
RecordOf(d) == [state : TransferState, path : RecordPaths(d)]
ListenerState ==
    {"accept", "handle", "write", "verify", "rename", "record", "fill", "unlink", "reply"}
OpState == {"idle", "rename", "persist", "fill", "unlink", "send", "sent"}

ForChunk == {"write", "verify", "rename"}

RecOK ==
    /\ rec = [d \in Device |-> rec[d]]
    /\ \A d \in Device : rec[d] \subseteq RecordOf(d)
FilesOK ==
    /\ file \in [{"part", "final"} -> SUBSET Seq(Nat)]
    /\ source \in Seq(Nat)
    /\ linked \in BOOLEAN
ThreadOK ==
    thread \in [pc : ThreadState, next : Nat, cursor : Nat, buf : Seq(Nat)]
EntryOK(d, e) ==
    /\ e \in [pc : ListenerState, frame : SUBSET Frame, held : SUBSET RecordOf(d)]
    /\ \A f, g \in e.frame : f = g
    /\ \A f \in e.frame : f.kind \in {"offer", "chunk"} => d = "receiver"
    /\ e.pc \in ForChunk => d = "receiver" /\ \A f \in e.frame : f.kind = "chunk"
    /\ e.pc = "reply" => \A f \in e.frame : f.kind \in {"chunk", "text"}
ListenerOK ==
    /\ listener = [d \in Device |-> listener[d]]
    /\ \A d \in Device : EntryOK(d, listener[d])
OpOK ==
    /\ op = [u \in UserOps |-> op[u]]
    /\ \A u \in UserOps :
         /\ op[u] \in [pc : OpState, held : SUBSET RecordOf(u[1])]
         /\ op[u].pc \in {"rename", "unlink"} => u[1] = "receiver"
    /\ asked \subseteq UserOps

(* The shape of every variable; in particular a sender's record always      *)
(* names the source file and a receiver's never does, and the listener is   *)
(* past the first step of a chunk only with a chunk in hand.                *)
TypeOK == RecOK /\ FilesOK /\ ThreadOK /\ ListenerOK /\ OpOK

(* Whatever is lost, refused, edited or decided meanwhile, a file appears   *)
(* under downloads only with the content the sender hashed for the offer.   *)
IntactCopy == file.final \subseteq {Orig}

(* The strengthening that makes IntactCopy inductive.  A record that names  *)
(* the copy under downloads is settled, so a running chunk or a pending     *)
(* decision only ever touches the .part file; what the listener renames is  *)
(* verified; and an empty file never sees a chunk, so that accepting it may *)
(* rename its .part file unverified.                                        *)
Settled(r) == r.path = "final" => r.state \in {"Complete", "Cancelled"}

RecordsSettled == \A r \in rec["receiver"] : Settled(r)

ListenerSafe ==
    LET l == listener["receiver"]
    IN  /\ \A r \in l.held : Settled(r)
        /\ l.pc \in {"write", "verify", "rename"} =>
             \A r \in l.held : r.path = "part"
        /\ l.pc = "rename" => file.part \subseteq {Orig}
        /\ \A f \in l.frame :
             /\ f.kind = "receipt" => f.state = "Cancelled"
             /\ f.kind = "chunk" => Size # 0

OpSafe(u, o) ==
    /\ o.pc \notin {"idle", "sent"} => u[2] \in {"accept", "decline", "cancel", "text"}
    /\ o.pc \in {"unlink", "send"} => u[2] # "text"
    /\ o.pc = "rename" => u[2] = "accept" /\ Size = 0
    /\ u[1] = "receiver" => \A r \in o.held : Settled(r)
    /\ u[2] \in {"accept", "decline"} /\ o.pc \in {"rename", "unlink", "persist", "fill"} =>
         \A r \in o.held :
           r.path = "part" \/ (o.pc \in {"persist", "fill"} /\ u[2] = "accept" /\ Size = 0)

OpsSafe == \A u \in UserOps : OpSafe(u, op[u])

NoChunkOfEmpty ==
    Size = 0 => /\ thread.next = 0
                /\ thread.pc # "chunk"
                /\ file.part \subseteq {<<>>}

CopyInv ==
    IntactCopy /\ RecordsSettled /\ ListenerSafe /\ OpsSafe /\ NoChunkOfEmpty

(* Unless somebody edits the source, the .part file is at all times a       *)
(* contiguous prefix of it, however many chunks were lost on the way.       *)
ContiguousPrefix ==
    source = Orig =>
        \A content \in file.part : \E n \in 0..Size : content = SubSeq(Orig, 1, n)

(* No data reaches the receiver's disk unless its user accepted the offer:  *)
(* three processes have to agree on it, by way of two stored records.       *)
ConsentFirst ==
    \A content \in file.part \cup file.final :
        content # <<>> => <<"receiver", "accept">> \in asked

(* If the sender does not cancel, a transfer that either device shows as    *)
(* complete has left a verified copy with the receiver, also when the       *)
(* receiver cancels, answers twice or has its record overwritten.           *)
CompleteMeansCopied ==
    <<"sender", "cancel">> \notin asked =>
        \A d \in Device : \A r \in rec[d] :
            r.state = "Complete" => file.final = {Orig}

(* The two listeners wait for each other to take a receipt. *)
Jammed == \A d \in Device : At(d, "reply")

(* capsi_file_send comes to an end, whatever the users do and whichever     *)
(* frame of it is refused, although only the wait for the answer has a time *)
(* limit: what can hold it for ever is that both listeners send a receipt   *)
(* to each other.  (A connection that neither fails nor goes on would, too; *)
(* connect_and_send does not guard against one and there is none here.)     *)
SendEndsOrJams ==
    []<>(thread.pc \in {"start", "done", "error"} \/ Jammed)

InState(d, s) == \E r \in rec[d] : r.state = s

(* No other call decides, and no text comes meanwhile, which would rewrite  *)
(* the record from a copy.                                                  *)
Only(decisions) ==
    []/\ asked \subseteq {<<"receiver", k>> : k \in decisions}
      /\ \A d \in Device : \A f \in listener[d].frame : f.kind # "text"

(* If the receiver only ever declines or cancels and no text comes, its     *)
(* decision settles the transfer: both devices end with a stopped record    *)
(* and stay there, whatever offer, deadline or chunk is under way.          *)
StopIsFinal ==
    (Only({"decline", "cancel"}) /\ <>[](asked # {})) =>
        <>[](\A d \in Device : \E r \in rec[d] : Ended(r))

(* An accepted transfer, if the answer comes in time and nobody stops it,   *)
(* ends complete on both devices.                                           *)
Delivered ==
    (Only({"accept"}) /\ [](thread.pc # "error") /\ Answers("accept")) =>
        <>[](\A d \in Device : InState(d, "Complete"))

(* What the repository says of a transfer and the code does not keep. *)

(* FileReceipt::Cancelled and Declined stop the sending; the file that was  *)
(* being sent is the user's and stays where it is.                          *)
SourceKept == linked
=============================================================================
