------------------------ MODULE FileTransferPromises ------------------------
(* What the users are promised of a transfer, for every file size, chunk    *)
(* size, set of user calls and set of faults: no data without consent, no   *)
(* "complete" without the file, and no gap in what has arrived.             *)
EXTENDS FileTransferProofs

-----------------------------------------------------------------------------
(* Consent and completion.  A record says that data may flow only if the    *)
(* receiving user has accepted, and that the transfer is complete only if   *)
(* the copy is there, wherever it is held: in a file, by a listener or by a *)
(* call that has loaded it and will write it back.                          *)

Consent == <<"receiver", "accept">> \in asked
Copied == <<"sender", "cancel">> \notin asked => file.final = {Orig}

Kept(d, r) ==
    /\ d = "receiver" /\ r.state = "Transferring" => Consent
    /\ r.state = "Complete" => Copied

(* A receipt reaches the receiver only after the sender's cancel; one that   *)
(* says Completed is sent only after the copy has been made.                 *)
FrameKept(d, f) ==
    /\ d = "receiver" /\ f.kind = "receipt" => <<"sender", "cancel">> \in asked
    /\ f.kind = "receipt" /\ f.state = "Completed" => Copied

ListenerKept(d, l) ==
    /\ \A r \in l.held : Kept(d, r)
    /\ \A f \in l.frame : FrameKept(d, f)
    /\ l.pc = "write" => \A r \in l.held : r.state = "Transferring"
    /\ d = "receiver" /\ l.pc = "unlink" => <<"sender", "cancel">> \in asked
    /\ l.pc = "reply" => \A f \in l.frame : f.kind = "chunk" => Copied

(* The receiver's cancel removes the .part file, never the copy. *)
OpKept(u, o) ==
    /\ \A r \in o.held : Kept(u[1], r)
    /\ u = <<"receiver", "cancel">> => \A r \in o.held : r.path = "part"
    /\ o.pc = "unlink" => u[2] \in {"decline", "cancel"}
    /\ o.pc = "send" \/ (o.pc = "unlink" /\ u[2] = "cancel") => u \in asked
    /\ u[2] = "accept" /\ Size = 0 /\ o.pc \in {"persist", "fill", "send"} => Copied

RecordsKept == \A d \in Device : \A r \in rec[d] : Kept(d, r)
ListenersKept == \A d \in Device : ListenerKept(d, listener[d])
OpsKept == \A u \in UserOps : OpKept(u, op[u])

PromiseInv == ConsentFirst /\ RecordsKept /\ ListenersKept /\ OpsKept

LEMMA PromiseInit == Init => PromiseInv
<1> SUFFICES ASSUME Init PROVE PromiseInv OBVIOUS
<1>1. ConsentFirst /\ RecordsKept
  BY DEF Init, ConsentFirst, RecordsKept
<1>2. ListenersKept
  BY DEF Init, Idle, ListenersKept, ListenerKept
<1>3. OpsKept
  BY DEF Init, NoOp, OpsKept, OpKept
<1> QED BY <1>1, <1>2, <1>3 DEF PromiseInv

(* What has been asked stays asked, and a copy stays unless the sender       *)
(* cancels.                                                                  *)
Stays == asked \subseteq asked' /\ (Copied => Copied')

LEMMA KeptStays ==
    ASSUME Stays
    PROVE  /\ \A d, r : Kept(d, r) => Kept(d, r)'
           /\ \A d, f : FrameKept(d, f) => FrameKept(d, f)'
           /\ \A d, l : ListenerKept(d, l) => ListenerKept(d, l)'
           /\ \A u, o : OpKept(u, o) => OpKept(u, o)'
<1>1. \A d, r : Kept(d, r) => Kept(d, r)'
  BY DEF Stays, Kept, Consent
<1>2. \A d, f : FrameKept(d, f) => FrameKept(d, f)'
  BY DEF Stays, FrameKept
<1>3. \A d, l : ListenerKept(d, l) => ListenerKept(d, l)'
  BY <1>1, <1>2 DEF Stays, ListenerKept
<1>4. \A u, o : OpKept(u, o) => OpKept(u, o)'
  BY <1>1 DEF Stays, OpKept
<1> QED BY <1>1, <1>2, <1>3, <1>4

(* One record, listener or call changes. *)
LEMMA SaveKept ==
    ASSUME TypeOK, RecordsKept, Stays, NEW d \in Device, NEW S, NEW pc,
           Truncated(d) \/ Filled(d, pc, S),
           \A r \in S : Kept(d, r)'
    PROVE  RecordsKept'
<1>1. PICK T \in {{}, S} : rec' = [rec EXCEPT ![d] = T]
  BY DEF Truncated, Filled
<1>2. \A e \in Device : rec'[e] = IF e = d THEN T ELSE rec[e]
  BY <1>1 DEF TypeOK, RecOK
<1> QED BY <1>1, <1>2, KeptStays DEF RecordsKept

LEMMA EntryKept ==
    ASSUME TypeOK, ListenersKept, Stays, NEW d \in Device, NEW e, ListenerKept(d, e)',
           listener' = [listener EXCEPT ![d] = e]
    PROVE  ListenersKept'
<1>1. \A b \in Device : listener'[b] = IF b = d THEN e ELSE listener[b]
  BY DEF TypeOK, ListenerOK
<1> QED BY <1>1, KeptStays DEF ListenersKept

LEMMA IdleKept == \A d : ListenerKept(d, Idle)'
BY DEF ListenerKept, Idle

LEMMA TakenFields == \A f : Taken(f).pc = "handle" /\ Taken(f).frame = {f} /\ Taken(f).held = {}
BY DEF Taken

LEMMA FrameDelivered ==
    ASSUME TypeOK, ListenersKept, Stays, NEW d \in Device, NEW f, FrameKept(d, f)',
           Sent(d, f)
    PROVE  ListenersKept'
<1>1. CASE UNCHANGED listener
  BY <1>1, KeptStays DEF ListenersKept
<1>2. CASE Deliver(d, f)
  <2>1. ASSUME NEW x, x = Taken(f) PROVE ListenerKept(d, x)'
    BY <2>1, TakenFields DEF ListenerKept
  <2> QED BY <1>2, <2>1, EntryKept DEF Deliver
<1> QED BY <1>1, <1>2 DEF Sent

LEMMA CallKept ==
    ASSUME TypeOK, OpsKept, Stays, NEW u \in UserOps, NEW o, OpKept(u, o)',
           op' = [op EXCEPT ![u] = o]
    PROVE  OpsKept'
<1>1. \A v \in UserOps : op'[v] = IF v = u THEN o ELSE op[v]
  BY DEF TypeOK, OpOK
<1> QED BY <1>1, KeptStays DEF OpsKept

LEMMA SendingKept == Sending.pc = "send" /\ Sending.held = {}
BY DEF Sending

LEMMA NoOpKept == \A u : OpKept(u, NoOp)'
BY DEF OpKept, NoOp

(* Steps that touch no file and persist no decision. *)
LEMMA UnchangedStays ==
    ASSUME PromiseInv, UNCHANGED <<file, asked>>
    PROVE  /\ Stays /\ ConsentFirst'
           /\ UNCHANGED rec => RecordsKept'
           /\ UNCHANGED listener => ListenersKept'
           /\ UNCHANGED op => OpsKept'
<1>1. Stays BY DEF Stays, Copied
<1>2. ConsentFirst' BY DEF PromiseInv, ConsentFirst
<1> QED BY <1>1, <1>2, KeptStays
        DEF PromiseInv, RecordsKept, ListenersKept, OpsKept

-----------------------------------------------------------------------------
(* The thread and the surroundings *)

LEMMA PromiseThread ==
    ASSUME TypeOK, PromiseInv, Thread
    PROVE  PromiseInv'
<1>1. UNCHANGED <<file, op, asked>>
  BY DEF Thread, SendStart, SendOffer, Poll, ReadChunk, SendChunk
<1>2. Stays /\ ConsentFirst' /\ OpsKept'
  BY <1>1, UnchangedStays
<1>3. RecordsKept'
  <2>1. CASE UNCHANGED rec
    BY <1>1, <2>1, UnchangedStays
  <2>2. CASE rec' = [rec EXCEPT !["sender"] = {OutgoingRecord}]
    <3>1. \A d \in Device : \A r \in rec'[d] : r \in rec[d] \/ r.state = "Offered"
      BY <2>2 DEF TypeOK, RecOK, OutgoingRecord
    <3> QED BY <1>2, <3>1, KeptStays DEF PromiseInv, RecordsKept, Kept
  <2> QED BY <2>1, <2>2 DEF Thread, SendStart, SendOffer, Poll, ReadChunk, SendChunk
<1>4. ListenersKept'
  <2>1. CASE UNCHANGED listener
    BY <1>1, <2>1, UnchangedStays
  <2>2. CASE SendOffer
    <3>1. FrameKept("receiver", Offer)' BY DEF FrameKept, Offer
    <3>2. Sent("receiver", Offer) BY <2>2 DEF SendOffer
    <3> QED BY <1>2, <3>1, <3>2, FrameDelivered DEF PromiseInv, Device
  <2>3. CASE SendChunk
    <3> DEFINE f == Chunk(thread.next, thread.buf)
    <3>1. f.kind = "chunk" BY DEF Chunk
    <3>2. Sent("receiver", f) BY <2>3 DEF SendChunk
    <3> HIDE DEF f
    <3>3. ASSUME NEW x, x = f PROVE FrameKept("receiver", x)'
      BY <3>1, <3>3 DEF FrameKept
    <3> QED BY <1>2, <3>2, <3>3, FrameDelivered DEF PromiseInv, Device
  <2> QED BY <2>1, <2>2, <2>3 DEF Thread, SendStart, Poll, ReadChunk
<1> QED BY <1>2, <1>3, <1>4 DEF PromiseInv

LEMMA PromiseRefuseThread ==
    ASSUME PromiseInv, RefuseThread
    PROVE  PromiseInv'
BY UnchangedStays DEF RefuseThread, PromiseInv

LEMMA PromisePeerText ==
    ASSUME TypeOK, PromiseInv, NEW d \in Device, PeerText(d)
    PROVE  PromiseInv'
<1>1. UNCHANGED <<file, asked, rec>> BY DEF PeerText
<1>2. Stays /\ ConsentFirst' /\ RecordsKept'
  BY <1>1, UnchangedStays
<1> DEFINE u == <<d, "peerText">>
           o == [NoOp EXCEPT !.pc = "sent"]
<1>5. u \in UserOps /\ op' = [op EXCEPT ![u] = o]
  BY DEF PeerText
<1>6. o.pc = "sent" /\ o.held = {} BY DEF NoOp
<1> HIDE DEF o
<1>7. ASSUME NEW x, x = o PROVE OpKept(u, x)'
  BY <1>6, <1>7 DEF OpKept
<1>8. OpsKept'
  <2> HIDE DEF u
  <2> QED BY <1>2, <1>5, <1>7, CallKept DEF PromiseInv
<1>3. FrameKept(d, Text)' BY DEF FrameKept, Text
<1>4. ListenersKept'
  BY <1>2, <1>3, FrameDelivered DEF PeerText, Sent, PromiseInv
<1> QED BY <1>2, <1>4, <1>8 DEF PromiseInv

LEMMA PromiseEditSource ==
    ASSUME PromiseInv, EditSource
    PROVE  PromiseInv'
BY UnchangedStays DEF EditSource, PromiseInv

LEMMA PromiseRestart ==
    ASSUME TypeOK, PromiseInv, NEW d \in Device, Restart(d)
    PROVE  PromiseInv'
<1>1. UNCHANGED <<file, asked, rec>> BY DEF Restart
<1>2. Stays /\ ConsentFirst' /\ RecordsKept'
  BY <1>1, UnchangedStays
<1>3. ListenersKept'
  BY <1>2, IdleKept, EntryKept DEF Restart, PromiseInv
<1>4. \A u \in UserOps : op'[u] = NoOp \/ op'[u] = op[u]
  BY DEF Restart
<1>5. OpsKept'
  BY <1>2, <1>4, NoOpKept, KeptStays DEF OpsKept, PromiseInv
<1> QED BY <1>2, <1>3, <1>5 DEF PromiseInv

-----------------------------------------------------------------------------
(* The listener *)

(* The listener goes on with other records held, none of them for a chunk   *)
(* to be written.                                                            *)
LEMMA GoesOn ==
    ASSUME TypeOK, PromiseInv, Stays, NEW d \in Device, NEW pc \in ListenerState, NEW held,
           listener' = [listener EXCEPT ![d] =
                          [listener[d] EXCEPT !.pc = pc, !.held = held]],
           \A r \in held : Kept(d, r)',
           pc = "write" => \A r \in held : r.state = "Transferring",
           d = "receiver" /\ pc = "unlink" => <<"sender", "cancel">> \in asked,
           pc = "reply" => \A f \in listener[d].frame : f.kind = "chunk" => Copied
    PROVE  ListenersKept'
<1> DEFINE e == [listener[d] EXCEPT !.pc = pc, !.held = held]
<1>1. e.pc = pc /\ e.held = held /\ e.frame = listener[d].frame
  BY ListenerFields
<1>2. listener' = [listener EXCEPT ![d] = e] OBVIOUS
<1> HIDE DEF e
<1>3. \A f \in listener[d].frame : FrameKept(d, f)'
  BY KeptStays DEF PromiseInv, ListenersKept, ListenerKept
<1>4. ASSUME NEW x, x = e PROVE ListenerKept(d, x)'
  BY <1>1, <1>3, <1>4 DEF ListenerKept, Stays
<1> QED BY <1>2, <1>4, EntryKept DEF PromiseInv

LEMMA SamePc ==
    ASSUME TypeOK, NEW d \in Device, NEW pc
    PROVE  [listener[d] EXCEPT !.pc = pc] =
             [listener[d] EXCEPT !.pc = pc, !.held = listener[d].held]
<1> DEFINE L == listener[d]
<1>1. L \in [pc : ListenerState, frame : SUBSET Frame, held : SUBSET RecordOf(d)]
  BY ListenerFields
<1> HIDE DEF L
<1>2. [L EXCEPT !.pc = pc] = [L EXCEPT !.pc = pc, !.held = L.held]
  BY <1>1
<1> QED BY <1>2 DEF L

LEMMA ReceiverKept ==
    ASSUME PromiseInv
    PROVE  /\ ListenerKept("receiver", listener["receiver"])
           /\ \A r \in rec["receiver"] : Kept("receiver", r)
BY DEF PromiseInv, ListenersKept, RecordsKept, Device

LEMMA PromiseHandleOffer ==
    ASSUME TypeOK, PromiseInv, HandleOffer
    PROVE  PromiseInv'
<1>1. /\ file'.part = {<<>>} /\ file'.final = file.final /\ UNCHANGED <<op, asked>>
  BY DEF HandleOffer, TypeOK, FilesOK
<1>2. Stays BY <1>1 DEF Stays, Copied
<1>3. ConsentFirst' BY <1>1 DEF PromiseInv, ConsentFirst
<1>4. RecordsKept'
  <2>1. \A d \in Device : \A r \in rec'[d] : r \in rec[d] \/ r.state = "Offered"
    BY DEF HandleOffer, TypeOK, RecOK
  <2> QED BY <1>2, <2>1, KeptStays DEF PromiseInv, RecordsKept, Kept
<1>5. ListenersKept'
  BY <1>2, IdleKept, EntryKept DEF HandleOffer, PromiseInv, Device
<1>6. OpsKept'
  BY <1>1, <1>2, KeptStays DEF PromiseInv, OpsKept
<1> QED BY <1>3, <1>4, <1>5, <1>6 DEF PromiseInv

LEMMA PromiseLoadForChunk ==
    ASSUME TypeOK, PromiseInv, LoadForChunk
    PROVE  PromiseInv'
<1>1. UNCHANGED <<file, asked, rec, op>> BY DEF LoadForChunk
<1>2. Stays /\ ConsentFirst' /\ RecordsKept' /\ OpsKept'
  BY <1>1, UnchangedStays
<1> DEFINE running == {r \in rec["receiver"] : r.state = "Transferring"}
<1>3. \A r \in running : Kept("receiver", r)'
  BY <1>2, ReceiverKept, KeptStays
<1>4. \/ listener' = [listener EXCEPT !["receiver"] = Idle]
      \/ listener' = [listener EXCEPT !["receiver"] =
           [listener["receiver"] EXCEPT !.pc = "write", !.held = running]]
  BY DEF LoadForChunk
<1>5. \A r \in running : r.state = "Transferring" OBVIOUS
<1> HIDE DEF running
<1>6. ListenersKept'
  BY <1>2, <1>3, <1>4, <1>5, IdleKept, EntryKept, GoesOn DEF PromiseInv, Device, ListenerState
<1> QED BY <1>2, <1>6 DEF PromiseInv

LEMMA PromiseWriteChunk ==
    ASSUME TypeOK, CopyInv, PromiseInv, WriteChunk
    PROVE  PromiseInv'
<1> DEFINE L == listener["receiver"]
<1>1. L.pc = "write" /\ \A r \in L.held : r.state = "Transferring" /\ r.path = "part"
  BY ReceiverKept DEF WriteChunk, At, ListenerKept, CopyInv, ListenerSafe
<1>2. L.held # {} => Consent
  BY <1>1, ReceiverKept DEF ListenerKept, Kept
<1>3. Consent BY <1>2 DEF WriteChunk
<1>4. file'.final = file.final
  BY <1>1 DEF WriteChunk, TypeOK, FilesOK
<1>5. UNCHANGED <<asked, rec, op>> BY DEF WriteChunk
<1>6. Stays BY <1>4, <1>5 DEF Stays, Copied
<1>7. ConsentFirst' BY <1>3, <1>5 DEF ConsentFirst, Consent
<1>8. RecordsKept' /\ OpsKept'
  BY <1>5, <1>6, KeptStays DEF PromiseInv, RecordsKept, OpsKept
<1>9. ListenersKept'
  <2>1. \/ listener' = [listener EXCEPT !["receiver"] = Idle]
        \/ listener' = [listener EXCEPT !["receiver"] = [L EXCEPT !.pc = "verify"]]
    BY DEF WriteChunk
  <2>2. [L EXCEPT !.pc = "verify"] = [L EXCEPT !.pc = "verify", !.held = L.held]
    BY SamePc DEF Device
  <2>3. \A r \in L.held : Kept("receiver", r)'
    BY <1>6, ReceiverKept, KeptStays DEF ListenerKept
  <2> QED BY <1>6, <2>1, <2>2, <2>3, IdleKept, EntryKept, GoesOn
          DEF PromiseInv, Device, ListenerState
<1> QED BY <1>7, <1>8, <1>9 DEF PromiseInv

LEMMA PromiseVerifyCopy ==
    ASSUME TypeOK, PromiseInv, VerifyCopy
    PROVE  PromiseInv'
<1> DEFINE L == listener["receiver"]
           failed == WithState(L.held, "Failed")
<1>1. UNCHANGED <<file, asked, rec, op>> BY DEF VerifyCopy
<1>2. Stays /\ ConsentFirst' /\ RecordsKept' /\ OpsKept'
  BY <1>1, UnchangedStays
<1>3. \A r \in L.held : Kept("receiver", r)'
  BY <1>2, ReceiverKept, KeptStays DEF ListenerKept
<1>4. \A r \in failed : r.state = "Failed"
  BY ListenerFields DEF WithState, RecordOf, Device
<1>5. \A r \in failed : Kept("receiver", r)'
  BY <1>4 DEF Kept
<1>6. \/ listener' = [listener EXCEPT !["receiver"] = [L EXCEPT !.pc = "rename"]]
      \/ listener' = [listener EXCEPT !["receiver"] = [L EXCEPT !.pc = "record", !.held = failed]]
  BY DEF VerifyCopy
<1>7. [L EXCEPT !.pc = "rename"] = [L EXCEPT !.pc = "rename", !.held = L.held]
  BY SamePc DEF Device
<1> HIDE DEF failed
<1>8. ListenersKept'
  BY <1>2, <1>3, <1>5, <1>6, <1>7, GoesOn DEF Device, ListenerState
<1> QED BY <1>2, <1>8 DEF PromiseInv

LEMMA PromiseRenameCopy ==
    ASSUME TypeOK, CopyInv, PromiseInv, RenameCopy
    PROVE  PromiseInv'
<1> DEFINE L == listener["receiver"]
           done == [state |-> "Complete", path |-> "final"]
<1>1. \A r \in L.held : r.path = "part"
  BY DEF RenameCopy, At, CopyInv, ListenerSafe
<1>2. file.part \subseteq {Orig}
  BY DEF RenameCopy, At, CopyInv, ListenerSafe
<1>3. \/ UNCHANGED file /\ listener' = [listener EXCEPT !["receiver"] = Idle]
      \/ /\ file.part # {} /\ file' = [file EXCEPT !["part"] = {}, !.final = file["part"]]
         /\ listener' = [listener EXCEPT !["receiver"] =
                           [L EXCEPT !.pc = "record", !.held = {done}]]
  BY <1>1 DEF RenameCopy, Renamed
<1>4. \/ UNCHANGED file /\ listener' = [listener EXCEPT !["receiver"] = Idle]
      \/ /\ file'.part = {} /\ file'.final = {Orig} /\ file'.final = file.part
         /\ listener' = [listener EXCEPT !["receiver"] =
                           [L EXCEPT !.pc = "record", !.held = {done}]]
  <2>1. CASE /\ file.part # {} /\ file' = [file EXCEPT !["part"] = {}, !.final = file["part"]]
             /\ listener' = [listener EXCEPT !["receiver"] =
                               [L EXCEPT !.pc = "record", !.held = {done}]]
    <3>1. file'.part = {} /\ file'.final = file.part
      BY <2>1 DEF TypeOK, FilesOK
    <3>2. file.part = {Orig} BY <1>2, <2>1
    <3> QED BY <2>1, <3>1, <3>2
  <2> QED BY <1>3, <2>1
<1>5. UNCHANGED <<asked, rec, op>> BY DEF RenameCopy
<1>6. Stays BY <1>4, <1>5 DEF Stays, Copied
<1>7. ConsentFirst' BY <1>4, <1>5 DEF PromiseInv, ConsentFirst
<1>8. RecordsKept' /\ OpsKept'
  BY <1>5, <1>6, KeptStays DEF PromiseInv, RecordsKept, OpsKept
<1>9. file'.final = {Orig} => \A r \in {done} : Kept("receiver", r)'
  BY DEF Kept, Copied
<1> HIDE DEF done
<1>10. ListenersKept'
  <2>1. CASE listener' = [listener EXCEPT !["receiver"] = Idle]
    BY <1>6, <2>1, IdleKept, EntryKept DEF PromiseInv, Device
  <2>2. CASE /\ file'.final = {Orig}
             /\ listener' = [listener EXCEPT !["receiver"] =
                               [L EXCEPT !.pc = "record", !.held = {done}]]
    <3> DEFINE S == {done}
    <3>1. \A r \in S : Kept("receiver", r)'
      BY <1>9, <2>2
    <3>2. listener' = [listener EXCEPT !["receiver"] = [L EXCEPT !.pc = "record", !.held = S]]
      BY <2>2
    <3> HIDE DEF S
    <3> QED BY <1>6, <3>1, <3>2, GoesOn DEF Device, ListenerState
  <2> QED BY <1>4, <2>1, <2>2
<1> QED BY <1>7, <1>8, <1>10 DEF PromiseInv

LEMMA PromiseLoadForReceipt ==
    ASSUME TypeOK, CopyInv, PromiseInv, NEW d \in Device, LoadForReceipt(d)
    PROVE  PromiseInv'
<1>1. UNCHANGED <<file, asked, rec, op>> BY DEF LoadForReceipt
<1>2. Stays /\ ConsentFirst' /\ RecordsKept' /\ OpsKept'
  BY <1>1, UnchangedStays
<1>3. PICK f \in listener[d].frame :
        /\ f.kind = "receipt"
        /\ \/ listener' = [listener EXCEPT ![d] = Idle]
           \/ listener' = [listener EXCEPT ![d] =
                [listener[d] EXCEPT !.pc = "record",
                             !.held = WithState(rec[d], ReceiptEffect(f.state))]]
  BY DEF LoadForReceipt
<1> DEFINE s == ReceiptEffect(f.state)
           held == WithState(rec[d], s)
<1>4. FrameKept(d, f) /\ f \in Frame
  BY ListenerFields DEF PromiseInv, ListenersKept, ListenerKept
<1>5. f.state \in ReceiptState BY <1>3, <1>4 DEF Frame
<1>6. s = "Complete" => f.state = "Completed"
  BY <1>5 DEF ReceiptEffect, ReceiptState
<1>7. d = "receiver" => f.state = "Cancelled"
  BY <1>3 DEF CopyInv, ListenerSafe
<1>8. d = "receiver" => s = "Cancelled"
  BY <1>7 DEF ReceiptEffect
<1> HIDE DEF s
<1>9. \A r \in held : r.state = s
  BY DEF WithState, TypeOK, RecOK, RecordOf
<1>10. \A r \in held : Kept(d, r)
  BY <1>3, <1>4, <1>6, <1>8, <1>9 DEF Kept, FrameKept
<1>11. \A r \in held : Kept(d, r)'
  BY <1>2, <1>10, KeptStays
<1> HIDE DEF held
<1>12. \/ listener' = [listener EXCEPT ![d] = Idle]
       \/ listener' = [listener EXCEPT ![d] =
            [listener[d] EXCEPT !.pc = "record", !.held = held]]
  BY <1>3 DEF held, s
<1>13. ListenersKept'
  BY <1>2, <1>11, <1>12, IdleKept, EntryKept, GoesOn DEF PromiseInv, ListenerState
<1> QED BY <1>2, <1>13 DEF PromiseInv

LEMMA PromiseLoadForText ==
    ASSUME TypeOK, PromiseInv, NEW d \in Device, LoadForText(d)
    PROVE  PromiseInv'
<1>1. UNCHANGED <<file, asked, rec, op>> BY DEF LoadForText
<1>2. Stays /\ ConsentFirst' /\ RecordsKept' /\ OpsKept'
  BY <1>1, UnchangedStays
<1>3. \A r \in rec[d] : Kept(d, r)'
  BY <1>2, KeptStays DEF PromiseInv, RecordsKept
<1>4. ListenersKept'
  BY <1>2, <1>3, GoesOn DEF LoadForText, ListenerState
<1> QED BY <1>2, <1>4 DEF PromiseInv

LEMMA PromiseLoadForAck ==
    ASSUME TypeOK, PromiseInv, NEW d \in Device, LoadForAck(d)
    PROVE  PromiseInv'
<1>1. UNCHANGED <<file, asked, rec, op>> BY DEF LoadForAck
<1>2. Stays /\ ConsentFirst' /\ RecordsKept' /\ OpsKept'
  BY <1>1, UnchangedStays
<1>3. \A r \in rec[d] : Kept(d, r)'
  BY <1>2, KeptStays DEF PromiseInv, RecordsKept
<1>4. ListenersKept'
  BY <1>2, <1>3, IdleKept, EntryKept, GoesOn DEF LoadForAck, ListenerState, PromiseInv
<1> QED BY <1>2, <1>4 DEF PromiseInv

LEMMA HeldKept ==
    ASSUME PromiseInv, Stays, NEW d \in Device
    PROVE  \A r \in listener[d].held : Kept(d, r)'
BY KeptStays DEF PromiseInv, ListenersKept, ListenerKept

LEMMA PromiseTruncate ==
    ASSUME TypeOK, PromiseInv, NEW d \in Device, Truncate(d)
    PROVE  PromiseInv'
<1>1. UNCHANGED <<file, asked, op>> BY DEF Truncate
<1>2. Stays /\ ConsentFirst' /\ OpsKept'
  BY <1>1, UnchangedStays
<1>3. RecordsKept'
  <2>1. Truncated(d) \/ Filled(d, "record", {}) BY DEF Truncate
  <2> QED BY <1>2, <2>1, SaveKept DEF PromiseInv
<1>4. listener' = [listener EXCEPT ![d] = [listener[d] EXCEPT !.pc = "fill"]]
  BY DEF Truncate
<1>5. ListenersKept'
  BY <1>2, <1>4, SamePc, HeldKept, GoesOn DEF ListenerState
<1> QED BY <1>2, <1>3, <1>5 DEF PromiseInv

LEMMA PromiseWriteRecord ==
    ASSUME TypeOK, PromiseInv, NEW d \in Device, WriteRecord(d)
    PROVE  PromiseInv'
<1>1. UNCHANGED <<file, asked, op>> BY DEF WriteRecord
<1>2. Stays /\ ConsentFirst' /\ OpsKept'
  BY <1>1, UnchangedStays
<1>3. RecordsKept'
  BY <1>2, SaveKept, HeldKept DEF WriteRecord, PromiseInv
<1>4. PICK f \in listener[d].frame :
        \/ listener' = [listener EXCEPT ![d] = Idle]
        \/ /\ f.kind = "receipt"
           /\ listener' = [listener EXCEPT ![d] = [listener[d] EXCEPT !.pc = "unlink"]]
        \/ /\ f.kind = "chunk" => \E r \in listener[d].held : r.state = "Complete"
           /\ listener' = [listener EXCEPT ![d] =
                             [listener[d] EXCEPT !.pc = "reply", !.held = {}]]
  BY DEF WriteRecord, Removing, Completing, Replying
<1>5. FrameKept(d, f) /\ \A r \in listener[d].held : Kept(d, r)
  BY DEF PromiseInv, ListenersKept, ListenerKept
<1>6. ListenersKept'
  <2>1. CASE listener' = [listener EXCEPT ![d] = Idle]
    BY <1>2, <2>1, IdleKept, EntryKept DEF PromiseInv
  <2>2. CASE /\ f.kind = "receipt"
             /\ listener' = [listener EXCEPT ![d] = [listener[d] EXCEPT !.pc = "unlink"]]
    <3>1. d = "receiver" => <<"sender", "cancel">> \in asked
      BY <1>5, <2>2 DEF FrameKept
    <3> QED BY <1>2, <2>2, <3>1, SamePc, HeldKept, GoesOn DEF ListenerState
  <2>3. CASE /\ f.kind = "chunk" => \E r \in listener[d].held : r.state = "Complete"
             /\ listener' = [listener EXCEPT ![d] =
                               [listener[d] EXCEPT !.pc = "reply", !.held = {}]]
    <3>1. \A g \in listener[d].frame : g = f
      BY EntryFields DEF EntryOK
    <3>2. \A g \in listener[d].frame : g.kind = "chunk" => Copied
      BY <1>5, <2>3, <3>1 DEF Kept
    <3> DEFINE S == {}
    <3>3. listener' = [listener EXCEPT ![d] = [listener[d] EXCEPT !.pc = "reply", !.held = S]]
      BY <2>3
    <3>4. \A r \in S : Kept(d, r)'
      OBVIOUS
    <3> HIDE DEF S
    <3> QED BY <1>2, <3>2, <3>3, <3>4, GoesOn DEF ListenerState
  <2> QED BY <1>4, <2>1, <2>2, <2>3
<1> QED BY <1>2, <1>3, <1>6 DEF PromiseInv

LEMMA PromiseUnlinkAfterReceipt ==
    ASSUME TypeOK, PromiseInv, NEW d \in Device, UnlinkAfterReceipt(d)
    PROVE  PromiseInv'
<1>1. UNCHANGED <<asked, rec, op>> BY DEF UnlinkAfterReceipt
<1>2. PICK r \in listener[d].held :
        \/ UNCHANGED file
        \/ r.path # "source" /\ file' = [file EXCEPT ![r.path] = {}]
  BY DEF UnlinkAfterReceipt
<1>3. d = "receiver" \/ r.path = "source"
  BY ListenerFields DEF RecordOf, RecordPaths, Device
<1>4. UNCHANGED file \/ <<"sender", "cancel">> \in asked
  BY <1>2, <1>3 DEF UnlinkAfterReceipt, At, PromiseInv, ListenersKept, ListenerKept
<1>5. Stays BY <1>1, <1>4 DEF Stays, Copied
<1>6. file'.part \cup file'.final \subseteq file.part \cup file.final
  BY <1>2 DEF TypeOK, FilesOK
<1>7. ConsentFirst' BY <1>1, <1>6 DEF PromiseInv, ConsentFirst
<1>8. RecordsKept' /\ OpsKept'
  BY <1>1, <1>5, KeptStays DEF PromiseInv, RecordsKept, OpsKept
<1>9. ListenersKept'
  BY <1>5, IdleKept, EntryKept DEF UnlinkAfterReceipt, PromiseInv
<1> QED BY <1>7, <1>8, <1>9 DEF PromiseInv

LEMMA PromiseReply ==
    ASSUME TypeOK, PromiseInv, NEW d \in Device, Reply(d) \/ RefuseReply(d)
    PROVE  PromiseInv'
<1>1. UNCHANGED <<file, asked, rec, op>> BY DEF Reply, RefuseReply
<1>2. Stays /\ ConsentFirst' /\ RecordsKept' /\ OpsKept'
  BY <1>1, UnchangedStays
<1> DEFINE b == Other(d)
<1>3. b \in Device /\ b # d /\ \A e \in Device : e = d \/ e = b
  BY DEF Other, Device
<1>4. CASE listener' = [listener EXCEPT ![d] = Idle]
  BY <1>1, <1>2, <1>4, IdleKept, EntryKept DEF PromiseInv
<1>5. ASSUME NEW f \in listener[d].frame, At(d, "reply"),
             listener' = [listener EXCEPT ![d] = Idle, ![b] = Taken(ReplyTo(f))]
      PROVE  ListenersKept'
  <2>1. f.kind = "chunk" => d = "receiver" /\ Copied
    BY <1>5, EntryFields DEF At, PromiseInv, ListenersKept, ListenerKept, EntryOK
  <2>2. f.kind \in {"chunk", "text"}
    BY <1>5, EntryFields DEF At, EntryOK
  <2>3. ASSUME NEW g, g = ReplyTo(f) PROVE FrameKept(b, g)'
    BY <1>2, <1>3, <2>1, <2>2, <2>3 DEF ReplyTo, Ack, Receipt, FrameKept, Stays
  <2>4. ASSUME NEW x, x = Taken(ReplyTo(f)) PROVE ListenerKept(b, x)'
    BY <2>3, <2>4, TakenFields DEF ListenerKept
  <2>5. listener'[d] = Idle /\ listener'[b] = Taken(ReplyTo(f))
    BY <1>3, <1>5 DEF TypeOK, ListenerOK
  <2> QED BY <1>3, <2>4, <2>5, IdleKept DEF ListenersKept
<1>6. CASE RefuseReply(d)
  BY <1>4, <1>6 DEF RefuseReply
<1>7. CASE Reply(d)
  <2>1. PICK f \in listener[d].frame :
          \/ listener' = [listener EXCEPT ![d] = Idle, ![b] = Taken(ReplyTo(f))]
          \/ listener' = [listener EXCEPT ![d] = Idle]
    BY <1>7 DEF Reply
  <2>2. At(d, "reply") BY <1>7 DEF Reply
  <2> QED BY <1>2, <1>4, <1>5, <2>1, <2>2 DEF PromiseInv
<1> QED BY <1>6, <1>7

LEMMA PromiseListener ==
    ASSUME TypeOK, CopyInv, PromiseInv, NEW d \in Device, Listener(d)
    PROVE  PromiseInv'
BY PromiseHandleOffer, PromiseLoadForChunk, PromiseWriteChunk, PromiseVerifyCopy,
   PromiseRenameCopy, PromiseReply, PromiseLoadForReceipt, PromiseLoadForText,
   PromiseLoadForAck,
   PromiseTruncate, PromiseWriteRecord, PromiseUnlinkAfterReceipt
   DEF Listener

-----------------------------------------------------------------------------
(* The calls from the UI *)

LEMMA LoadedKept ==
    ASSUME PromiseInv, Stays, NEW u \in UserOps
    PROVE  /\ OpKept(u, op[u])
           /\ \A r \in op[u].held : Kept(u[1], r)'
           /\ \A r \in rec[u[1]] : Kept(u[1], r)'
<1>1. u[1] \in Device BY UserOpsAssumption
<1> QED BY <1>1, KeptStays DEF PromiseInv, OpsKept, OpKept, RecordsKept

LEMMA PromiseOpLoad ==
    ASSUME TypeOK, CopyInv, PromiseInv, NEW u \in UserOps, OpLoad(u)
    PROVE  PromiseInv'
<1>1. UNCHANGED <<file, asked, rec, listener>> BY DEF OpLoad
<1>2. Stays /\ ConsentFirst' /\ RecordsKept' /\ ListenersKept'
  BY <1>1, UnchangedStays
<1> DEFINE loaded == IF u[2] = "text" THEN rec[u[1]]
                     ELSE {r \in rec[u[1]] : Allowed(u[2], r)}
           to == IF AcceptFlag(u[2]) /\ Size = 0 THEN "rename"
                 ELSE IF u[2] = "decline" /\ ~AcceptFlag(u[2]) THEN "unlink"
                 ELSE "persist"
           o == [held |-> loaded, pc |-> to]
<1>3. op' = [op EXCEPT ![u] = o]
  BY DEF OpLoad
<1>4. \A r \in loaded : Kept(u[1], r)'
  BY <1>2, LoadedKept
<1>5. ASSUME u = <<"receiver", "cancel">> PROVE \A r \in loaded : r.path = "part"
  <2>1. \A r \in loaded : /\ r \in rec["receiver"]
                          /\ r.state \notin {"Complete", "Cancelled"}
    BY <1>5 DEF Allowed
  <2> QED BY <2>1, ReceiverPaths DEF CopyInv, RecordsSettled, Settled, TypeOK, RecOK, Device
<1>6. /\ to \in {"rename", "unlink", "persist"}
      /\ to = "unlink" => u[2] = "decline"
      /\ to = "persist" => ~(u[2] = "accept" /\ Size = 0)
  BY DEF AcceptFlag
<1>7. o.held = loaded /\ o.pc = to OBVIOUS
<1> HIDE DEF loaded, to, o
<1>8. ASSUME NEW x, x = o PROVE OpKept(u, x)'
  BY <1>4, <1>5, <1>6, <1>7, <1>8 DEF OpKept
<1>9. OpsKept'
  BY <1>2, <1>3, <1>8, CallKept DEF PromiseInv
<1> QED BY <1>2, <1>9 DEF PromiseInv

LEMMA PromiseOpRename ==
    ASSUME TypeOK, CopyInv, PromiseInv, NEW u \in UserOps, OpRename(u)
    PROVE  PromiseInv'
<1> DEFINE done == [state |-> "Complete", path |-> "final"]
           o == [pc |-> "persist", held |-> {done}]
<1>1. u[2] = "accept" /\ Size = 0 /\ \A r \in op[u].held : r.path = "part"
  BY DEF OpRename, CopyInv, OpsSafe, OpSafe
<1>2. \/ UNCHANGED file /\ op' = [op EXCEPT ![u] = NoOp]
      \/ /\ file.part # {} /\ file' = [file EXCEPT !["part"] = {}, !.final = file["part"]]
         /\ op' = [op EXCEPT ![u] = o]
  BY <1>1 DEF OpRename, Renamed
<1>3. UNCHANGED <<asked, rec, listener>> BY DEF OpRename
<1>4. \/ UNCHANGED file /\ op' = [op EXCEPT ![u] = NoOp]
      \/ /\ file'.part = {} /\ file'.final = {Orig} /\ file'.final = file.part
         /\ op' = [op EXCEPT ![u] = o]
  <2>1. CASE /\ file.part # {} /\ file' = [file EXCEPT !["part"] = {}, !.final = file["part"]]
             /\ op' = [op EXCEPT ![u] = o]
    <3>1. file'.part = {} /\ file'.final = file.part
      BY <2>1 DEF TypeOK, FilesOK
    <3>2. file.part = {Orig}
      BY <1>1, <2>1, EmptyFile DEF CopyInv, NoChunkOfEmpty
    <3> QED BY <2>1, <3>1, <3>2
  <2> QED BY <1>2, <2>1
<1>5. Stays BY <1>3, <1>4 DEF Stays, Copied
<1>6. ConsentFirst' BY <1>3, <1>4 DEF PromiseInv, ConsentFirst
<1>7. RecordsKept' /\ ListenersKept'
  BY <1>3, <1>5, KeptStays DEF PromiseInv, RecordsKept, ListenersKept
<1>8. ASSUME file'.final = {Orig}, NEW x, x = o PROVE OpKept(u, x)'
  BY <1>1, <1>8 DEF OpKept, Kept, Copied
<1> HIDE DEF o
<1>9. OpsKept'
  BY <1>4, <1>5, <1>8, NoOpKept, CallKept DEF PromiseInv
<1> QED BY <1>6, <1>7, <1>9 DEF PromiseInv

LEMMA PromiseOpTruncate ==
    ASSUME TypeOK, PromiseInv, NEW u \in UserOps, OpTruncate(u)
    PROVE  PromiseInv'
<1>1. UNCHANGED <<file, asked, listener>> BY DEF OpTruncate
<1>2. Stays /\ ConsentFirst' /\ ListenersKept'
  BY <1>1, UnchangedStays
<1>3. RecordsKept'
  <2>1. Truncated(u[1]) \/ Filled(u[1], "record", {}) BY DEF OpTruncate
  <2> QED BY <1>2, <2>1, OpFields, SaveKept DEF PromiseInv
<1> DEFINE o == [op[u] EXCEPT !.pc = "fill"]
<1>4. o.pc = "fill" /\ o.held = op[u].held /\ op[u].pc = "persist"
  BY OpAt DEF OpTruncate
<1>5. op' = [op EXCEPT ![u] = o] BY DEF OpTruncate
<1> HIDE DEF o
<1>6. ASSUME NEW x, x = o PROVE OpKept(u, x)'
  BY <1>2, <1>4, <1>6, LoadedKept DEF OpKept, Stays
<1>7. OpsKept'
  BY <1>2, <1>5, <1>6, CallKept DEF PromiseInv
<1> QED BY <1>2, <1>3, <1>7 DEF PromiseInv

LEMMA PromiseOpPersist ==
    ASSUME TypeOK, CopyInv, PromiseInv, NEW u \in UserOps, OpPersist(u)
    PROVE  PromiseInv'
<1>1. UNCHANGED <<file, listener>> /\ asked \subseteq asked' BY DEF OpPersist
<1>2. Stays BY <1>1 DEF Stays, Copied
<1>3. ConsentFirst' BY <1>1 DEF PromiseInv, ConsentFirst
<1>4. ListenersKept'
  BY <1>1, <1>2, KeptStays DEF PromiseInv, ListenersKept
<1>5. OpKept(u, op[u]) /\ OpSafe(u, op[u]) /\ op[u].pc \in {"persist", "fill"}
  BY <1>2, LoadedKept DEF OpPersist, CopyInv, OpsSafe
<1>6. CASE u[2] = "text"
  <2>1. RecordsKept'
    BY <1>2, <1>6, OpFields, LoadedKept, SaveKept DEF OpPersist, PromiseInv
  <2>2. OpsKept'
    BY <1>2, <1>6, NoOpKept, CallKept DEF OpPersist, PromiseInv
  <2> QED BY <1>3, <1>4, <2>1, <2>2 DEF PromiseInv
<1>7. CASE u[2] # "text"
  <2> DEFINE s == Decision(u[2])[1]
             held == WithState(op[u].held, s)
  <2>1. /\ Filled(u[1], op[u].pc, held) /\ u \in asked'
        /\ \/ op' = [op EXCEPT ![u] = Sending]
           \/ /\ op' = [op EXCEPT ![u] = [op[u] EXCEPT !.pc = "unlink"]]
              /\ u[2] = "cancel"
    BY <1>7 DEF OpPersist
  <2>2. u[2] \in {"accept", "decline", "cancel"}
    BY <1>5, <1>7 DEF OpSafe
  <2>3. /\ s = "Complete" => u[2] = "accept" /\ Size = 0
        /\ s = "Transferring" => u[2] = "accept"
    BY <2>2 DEF Decision, AcceptFlag
  <2> HIDE DEF s
  <2>4. \A r \in held : r.state = s
    BY OpFields DEF WithState, RecordOf
  <2>5. ASSUME u[2] = "accept" PROVE u = <<"receiver", "accept">>
    BY <2>5, UserOpsAssumption
  <2>6. \A r \in held : Kept(u[1], r)'
    <3>1. s = "Complete" => Copied'
      BY <1>2, <1>5, <2>3 DEF OpKept, Stays
    <3>2. s = "Transferring" => Consent'
      BY <2>1, <2>3, <2>5 DEF Consent
    <3> QED BY <2>4, <3>1, <3>2 DEF Kept
  <2> HIDE DEF held
  <2>7. RecordsKept'
    BY <1>2, <2>1, <2>6, OpFields, SaveKept DEF PromiseInv
  <2> DEFINE o == [op[u] EXCEPT !.pc = "unlink"]
  <2>8. o.pc = "unlink" /\ o.held = op[u].held
    BY OpAt
  <2>9. op' = [op EXCEPT ![u] = Sending] \/ (op' = [op EXCEPT ![u] = o] /\ u[2] = "cancel")
    BY <2>1
  <2> HIDE DEF o
  <2>10. ASSUME u[2] = "cancel", NEW x, x = o PROVE OpKept(u, x)'
    BY <1>2, <1>5, <2>1, <2>8, <2>10, LoadedKept DEF OpKept, Stays
  <2>11. OpKept(u, Sending)'
    BY <1>2, <1>5, <2>1, SendingKept DEF OpKept, Stays
  <2>12. OpsKept'
    BY <1>2, <2>9, <2>10, <2>11, CallKept DEF PromiseInv
  <2> QED BY <1>3, <1>4, <2>7, <2>12 DEF PromiseInv
<1> QED BY <1>6, <1>7

LEMMA PromiseOpUnlink ==
    ASSUME TypeOK, CopyInv, PromiseInv, NEW u \in UserOps, OpUnlink(u)
    PROVE  PromiseInv'
<1>1. /\ op[u].pc = "unlink" /\ u[1] = "receiver" /\ OpKept(u, op[u]) /\ OpSafe(u, op[u])
      /\ UNCHANGED <<asked, rec, listener>>
  BY DEF OpUnlink, TypeOK, OpOK, PromiseInv, OpsKept, CopyInv, OpsSafe
<1>2. u = <<"receiver", "cancel">> \/ u[2] = "decline"
  BY <1>1, UserOpsAssumption DEF OpKept
<1>3. \A r \in op[u].held : r.path = "part"
  BY <1>1, <1>2 DEF OpKept, OpSafe
<1>4. file'.final = file.final /\ file'.part = {}
  BY <1>3 DEF OpUnlink, TypeOK, FilesOK
<1>5. Stays BY <1>1, <1>4 DEF Stays, Copied
<1>6. ConsentFirst' BY <1>1, <1>4 DEF PromiseInv, ConsentFirst
<1>7. RecordsKept' /\ ListenersKept'
  BY <1>1, <1>5, KeptStays DEF PromiseInv, RecordsKept, ListenersKept
<1> DEFINE o == [op[u] EXCEPT !.pc = "persist"]
<1>8. o.pc = "persist" /\ o.held = op[u].held
  BY OpAt
<1>9. \/ op' = [op EXCEPT ![u] = o]
      \/ op' = [op EXCEPT ![u] = Sending] /\ u[2] = "cancel"
  <2>1. u[2] = "decline" \/ u[2] = "cancel" BY <1>2
  <2> QED BY <2>1 DEF OpUnlink
<1> HIDE DEF o
<1>10. u[2] # "accept" BY <1>2
<1>11. ASSUME NEW x, x = o PROVE OpKept(u, x)'
  BY <1>3, <1>5, <1>8, <1>10, <1>11, LoadedKept DEF OpKept
<1>12. ASSUME u[2] = "cancel" PROVE OpKept(u, Sending)'
  <2>1. u \in asked' BY <1>1, <1>12 DEF OpKept
  <2> QED BY <1>10, <2>1, SendingKept DEF OpKept
<1>13. OpsKept'
  BY <1>5, <1>9, <1>11, <1>12, CallKept DEF PromiseInv
<1> QED BY <1>6, <1>7, <1>13 DEF PromiseInv

LEMMA PromiseOpSend ==
    ASSUME TypeOK, CopyInv, PromiseInv, NEW u \in UserOps, OpSend(u)
    PROVE  PromiseInv'
<1>1. UNCHANGED <<file, asked, rec>> BY DEF OpSend
<1>2. Stays /\ ConsentFirst' /\ RecordsKept'
  BY <1>1, UnchangedStays
<1>3. OpKept(u, op[u]) /\ OpSafe(u, op[u]) /\ op[u].pc = "send"
  BY <1>2, LoadedKept DEF OpSend, CopyInv, OpsSafe
<1> DEFINE f == Receipt(Decision(u[2])[2])
<1>4. u \in asked /\ u[2] \in {"accept", "decline", "cancel"}
  BY <1>3 DEF OpKept, OpSafe
<1>5. Other(u[1]) \in Device /\ (Other(u[1]) = "receiver" => u = <<"sender", "cancel">>)
  BY <1>4, UserOpsAssumption DEF Other, Device
<1>6. f.state = "Completed" => Copied
  BY <1>3, <1>4 DEF Receipt, Decision, AcceptFlag, OpKept
<1>7. Sent(Other(u[1]), f) BY DEF OpSend
<1> HIDE DEF f
<1>8. ASSUME NEW x, x = f PROVE FrameKept(Other(u[1]), x)'
  BY <1>2, <1>4, <1>5, <1>6, <1>8 DEF FrameKept, Stays
<1>9. ListenersKept'
  BY <1>2, <1>5, <1>7, <1>8, FrameDelivered DEF PromiseInv
<1>10. OpsKept'
  BY <1>2, NoOpKept, CallKept DEF OpSend, PromiseInv
<1> QED BY <1>2, <1>9, <1>10 DEF PromiseInv

LEMMA PromiseRefuseOp ==
    ASSUME TypeOK, PromiseInv, NEW u \in UserOps, RefuseOp(u)
    PROVE  PromiseInv'
<1>1. UNCHANGED <<file, asked, rec, listener>> BY DEF RefuseOp
<1>2. OpsKept'
  BY <1>1, UnchangedStays, NoOpKept, CallKept DEF RefuseOp, PromiseInv
<1> QED BY <1>1, <1>2, UnchangedStays DEF PromiseInv

LEMMA PromiseNext == TypeOK /\ CopyInv /\ PromiseInv /\ [Next]_vars => PromiseInv'
<1> SUFFICES ASSUME TypeOK, CopyInv, PromiseInv, [Next]_vars PROVE PromiseInv' OBVIOUS
<1>1. CASE UNCHANGED vars
  BY <1>1, UnchangedStays DEF vars, PromiseInv
<1>2. CASE Next
  BY <1>2, PromiseThread, PromiseListener, PromisePeerText, PromiseOpLoad, PromiseOpRename,
     PromiseOpTruncate, PromiseOpPersist, PromiseOpUnlink, PromiseOpSend,
     PromiseEditSource, PromiseRestart, PromiseRefuseThread, PromiseReply, PromiseRefuseOp
     DEF Next, OpStep
<1> QED BY <1>1, <1>2

LEMMA PromiseHolds == Spec => []PromiseInv
BY PromiseInit, PromiseNext, CopyInvHolds, TypeCorrect, PTL DEF Spec

(* Nothing of the file is on the receiver's disk unless its user accepted    *)
(* the offer, whatever the two conversation files are overwritten with.      *)
THEOREM NoDataUnasked == Spec => []ConsentFirst
BY PromiseHolds, PTL DEF PromiseInv

(* As long as the sender does not cancel, a record that says Complete, on    *)
(* either device, means that the whole file is under the receiver's          *)
(* downloads.                                                                *)
THEOREM CompleteIsCopied == Spec => []CompleteMeansCopied
<1>1. PromiseInv => CompleteMeansCopied
  BY DEF PromiseInv, RecordsKept, Kept, Copied, CompleteMeansCopied
<1> QED BY <1>1, PromiseHolds, PTL

-----------------------------------------------------------------------------
(* The .part file.  Of a file with data, as long as nobody has edited it,    *)
(* the thread reads whole chunks in turn; the chunk at the listener is one   *)
(* the thread is past, and no later one has been written.                    *)

Start(i) == i * ChunkSize
Span(i) == SubSeq(Orig, Start(i) + 1, Min2(Start(i) + ChunkSize, Size))

Prefix(content) == Len(content) <= Size /\ content = SubSeq(Orig, 1, Len(content))

ThreadReads ==
    /\ thread.pc \in {"start", "offer", "wait", "read"} =>
         thread.cursor = Min2(Start(thread.next), Size)
    /\ thread.pc = "chunk" =>
         /\ Start(thread.next) < Size
         /\ thread.buf = Span(thread.next)
         /\ thread.cursor = Min2(Start(thread.next) + ChunkSize, Size)

PartPrefix ==
    \A content \in file.part : Prefix(content) /\ Len(content) <= Start(thread.next)

ChunkInTurn(f) ==
    /\ f.index < thread.next /\ Start(f.index) < Size
    /\ f.data = Span(f.index)
    /\ \A content \in file.part : Len(content) <= Start(f.index)

PrefixInv ==
    Size # 0 /\ source = Orig =>
        /\ ThreadReads /\ PartPrefix
        /\ \A f \in listener["receiver"].frame :
             f.kind = "chunk" /\ listener["receiver"].pc \in {"handle", "write"} => ChunkInTurn(f)

(* The lengths and the pieces of the file: chunk i starts where the chunks   *)
(* before it end, and extends what they make up.                             *)
LEMMA StartNext ==
    ASSUME NEW i \in Nat
    PROVE  Start(i) \in Nat /\ Start(i + 1) = Start(i) + ChunkSize
BY ChunkSizeAssumption DEF Start

LEMMA StartOrder ==
    ASSUME NEW i \in Nat, NEW j \in Nat, i < j
    PROVE  Start(i) + ChunkSize <= Start(j)
<1> DEFINE k == ChunkSize
           m == j - i - 1
<1>1. k \in Nat /\ m \in Nat BY ChunkSizeAssumption
<1>2. j = i + 1 + m OBVIOUS
<1> HIDE DEF k, m
<1>3. m * k \in Nat BY <1>1
<1>4. (i + 1 + m) * k = i * k + k + m * k BY <1>1
<1> QED BY <1>1, <1>2, <1>3, <1>4 DEF Start, k

LEMMA InOrderStarts ==
    ASSUME NEW n \in Nat, NEW i \in Nat, i = n \div ChunkSize, n <= Start(i)
    PROVE  n = Start(i)
<1> DEFINE k == ChunkSize
<1>1. k \in Nat /\ k > 0 BY ChunkSizeAssumption
<1> HIDE DEF k
<1>2. k * (n \div k) <= n BY <1>1
<1>3. i * k <= n BY <1>1, <1>2 DEF k
<1>4. i * k \in Nat BY <1>1
<1> QED BY <1>3, <1>4 DEF Start, k

LEMMA OrigIsSeq == /\ Orig \in Seq(Nat) /\ Len(Orig) = Size
                   /\ \A i \in 1..Size : Orig[i] \in Nat
BY SizeAssumption, IsASeq DEF Orig

(* A piece of the file, and two that meet. *)
LEMMA Piece ==
    ASSUME NEW m \in Nat, NEW n \in Nat, m <= n, n <= Size
    PROVE  /\ SubSeq(Orig, m + 1, n) \in Seq(Nat)
           /\ Len(SubSeq(Orig, m + 1, n)) = n - m
           /\ \A i \in 1 .. n - m : SubSeq(Orig, m + 1, n)[i] = Orig[m + i]
<1>1. \A i \in m + 1 .. n : Orig[i] \in Nat
  BY OrigIsSeq, SizeAssumption
<1>2. m + 1 \in Int /\ n \in Int OBVIOUS
<1> DEFINE a == m + 1
<1>3. /\ SubSeq(Orig, a, n) \in Seq(Nat)
      /\ Len(SubSeq(Orig, a, n)) = IF a <= n THEN n - a + 1 ELSE 0
      /\ \A i \in 1 .. n - a + 1 : SubSeq(Orig, a, n)[i] = Orig[a + i - 1]
  <2> HIDE DEF a
  <2> QED BY <1>1, <1>2, SubSeqProperties DEF a
<1>4. \A i \in 1 .. n - m : i \in 1 .. n - a + 1 /\ a + i - 1 = m + i
  OBVIOUS
<1> QED BY <1>3, <1>4

LEMMA PiecesMeet ==
    ASSUME NEW m \in Nat, NEW n \in Nat, m <= n, n <= Size
    PROVE  SubSeq(Orig, 1, m) \o SubSeq(Orig, m + 1, n) = SubSeq(Orig, 1, n)
<1>1. 1 \in 1 .. Len(Orig) + 1 /\ m \in 1 - 1 .. Len(Orig) /\ n \in m .. Len(Orig)
  BY OrigIsSeq, SizeAssumption
<1> QED BY <1>1, OrigIsSeq, ConcatAdjacentSubSeq

(* The chunk that starts where a prefix ends makes it a longer prefix. *)
LEMMA ChunkExtends ==
    ASSUME NEW content, Prefix(content), NEW i \in Nat,
           Len(content) = Start(i), Start(i) < Size
    PROVE  /\ Prefix(content \o Span(i))
           /\ Len(content \o Span(i)) <= Start(i) + ChunkSize
<1> DEFINE m == Start(i)
           n == Min2(Start(i) + ChunkSize, Size)
<1>1. /\ m \in Nat /\ n \in Nat /\ m <= n /\ n <= Size /\ n <= m + ChunkSize
  <2>1. Start(i) \in Nat BY StartNext
  <2>2. ChunkSize \in Nat /\ Size \in Nat
    BY ChunkSizeAssumption, SizeAssumption
  <2> QED BY <2>1, <2>2 DEF Min2
<1>2. content = SubSeq(Orig, 1, m) BY DEF Prefix
<1>3. Span(i) = SubSeq(Orig, m + 1, n) BY DEF Span
<1> HIDE DEF m, n
<1>4. content \o Span(i) = SubSeq(Orig, 1, n)
  BY <1>1, <1>2, <1>3, PiecesMeet
<1>5. Len(SubSeq(Orig, 1, n)) = n BY <1>1, Piece
<1> QED BY <1>1, <1>4, <1>5 DEF Prefix, m

-----------------------------------------------------------------------------
(* The steps of the transfer keep PrefixInv. *)

InHand(f) == f.kind = "chunk" /\ listener["receiver"].pc \in {"handle", "write"}

LEMMA PrefixInit == Init => PrefixInv
<1> SUFFICES ASSUME Init PROVE PrefixInv OBVIOUS
<1>1. file.part = {} /\ listener["receiver"].frame = {}
  BY DEF Init, Idle, Device
<1>2. thread.pc = "start" /\ thread.next = 0 /\ thread.cursor = 0
  BY DEF Init
<1>3. Min2(Start(0), Size) = 0
  BY ChunkSizeAssumption, SizeAssumption DEF Start, Min2
<1> QED BY <1>1, <1>2, <1>3 DEF PrefixInv, ThreadReads, PartPrefix

(* Steps that leave the thread where it is, or kill it, write no data and    *)
(* give the listener no chunk it did not have.                               *)
LEMMA PrefixKept ==
    ASSUME PrefixInv, TypeOK, UNCHANGED source,
           thread' = thread \/ (thread'.pc = "error" /\ thread'.next = thread.next),
           file'.part \subseteq file.part \/ file'.part = {<<>>},
           \A f \in listener'["receiver"].frame :
             InHand(f)' => f \in listener["receiver"].frame /\ InHand(f)
    PROVE  PrefixInv'
<1> SUFFICES ASSUME Size # 0, source = Orig, ThreadReads, PartPrefix,
                    \A f \in listener["receiver"].frame : InHand(f) => ChunkInTurn(f)
             PROVE  /\ ThreadReads' /\ PartPrefix'
                    /\ \A f \in listener'["receiver"].frame : InHand(f)' => ChunkInTurn(f)'
  BY DEF PrefixInv, InHand
<1>1. thread.next \in Nat BY DEF TypeOK, ThreadOK
<1>2. ThreadReads' BY DEF ThreadReads
<1>3. \A i \in Nat : Start(i) \in Nat BY StartNext
<1>4. Prefix(<<>>) /\ Len(<<>>) = 0
  BY SizeAssumption, EmptySeq, SubSeqEmpty DEF Prefix
<1>5. thread'.next = thread.next OBVIOUS
<1>6. PartPrefix'
  BY <1>1, <1>3, <1>4, <1>5 DEF PartPrefix
<1>7. ASSUME NEW f \in listener'["receiver"].frame, InHand(f)'
      PROVE  ChunkInTurn(f)'
  <2>1. ChunkInTurn(f) BY <1>7
  <2>2. f \in Frame /\ f.kind = "chunk"
    BY <1>7 DEF InHand, TypeOK, ListenerOK, EntryOK, Device
  <2>3. f.index \in Nat BY <2>2 DEF Frame
  <2> QED BY <1>3, <1>4, <1>5, <2>1, <2>3 DEF ChunkInTurn
<1> QED BY <1>2, <1>6, <1>7

(* A frame that is no chunk reaches a listener. *)
LEMMA PrefixDelivered ==
    ASSUME PrefixInv, TypeOK, UNCHANGED <<source, thread, file>>,
           NEW d \in Device, NEW g, g.kind # "chunk", Sent(d, g)
    PROVE  PrefixInv'
<1>1. listener'["receiver"] = listener["receiver"]
      \/ listener'["receiver"].frame = {g}
  BY TakenFields DEF Sent, Deliver, TypeOK, ListenerOK, Device
<1>2. \A f \in listener'["receiver"].frame :
        InHand(f)' => f \in listener["receiver"].frame /\ InHand(f)
  BY <1>1 DEF InHand
<1> QED BY <1>2, PrefixKept

(* The listener of d is done with its frame, or no longer at the chunk. *)
LEMMA PrefixTurned ==
    ASSUME PrefixInv, TypeOK, UNCHANGED <<source, thread>>,
           file'.part \subseteq file.part \/ file'.part = {<<>>},
           NEW d \in Device, NEW e, listener' = [listener EXCEPT ![d] = e],
           e.frame = {} \/ e.pc \notin {"handle", "write"}
    PROVE  PrefixInv'
<1>1. listener'["receiver"] = listener["receiver"] \/ listener'["receiver"] = e
  BY DEF TypeOK, ListenerOK, Device
<1>2. \A f \in listener'["receiver"].frame :
        InHand(f)' => f \in listener["receiver"].frame /\ InHand(f)
  BY <1>1 DEF InHand
<1> QED BY <1>2, PrefixKept

LEMMA ReadSpan ==
    ASSUME TypeOK, source = Orig, ReadBuffer # <<>>,
           thread.cursor = Min2(Start(thread.next), Size)
    PROVE  /\ Start(thread.next) < Size
           /\ ReadBuffer = Span(thread.next)
           /\ thread.cursor + Len(ReadBuffer) = Min2(Start(thread.next) + ChunkSize, Size)
<1> DEFINE m == Start(thread.next)
           c == thread.cursor
           n == Min2(c + ChunkSize, Size)
<1>1. /\ m \in Nat /\ Size \in Nat /\ ChunkSize \in Nat /\ ChunkSize > 0
      /\ ReadBuffer = SubSeq(Orig, c + 1, n)
  <2>1. thread.next \in Nat BY DEF TypeOK, ThreadOK
  <2>2. m \in Nat BY <2>1, StartNext
  <2>3. Len(source) = Size BY OrigIsSeq
  <2> QED BY <2>2, <2>3, SizeAssumption, ChunkSizeAssumption DEF ReadBuffer
<1>2. c = Min2(m, Size) OBVIOUS
<1>3. SUFFICES /\ m < Size
               /\ ReadBuffer = SubSeq(Orig, m + 1, Min2(m + ChunkSize, Size))
               /\ c + Len(ReadBuffer) = Min2(m + ChunkSize, Size)
  BY DEF Span
<1> HIDE DEF m, c
<1>4. m < Size
  <2> SUFFICES ASSUME ~(m < Size) PROVE FALSE OBVIOUS
  <2>1. c = Size BY <1>1, <1>2 DEF Min2
  <2>2. n = Size /\ n < c + 1 /\ n \in Int /\ c + 1 \in Int
    BY <1>1, <2>1 DEF Min2
  <2> HIDE DEF n
  <2> QED BY <1>1, <2>2, SubSeqEmpty
<1>5. c = m BY <1>1, <1>2, <1>4 DEF Min2
<1>6. n \in Nat /\ m <= n /\ n <= Size /\ n = Min2(m + ChunkSize, Size)
  BY <1>1, <1>4, <1>5 DEF Min2
<1> HIDE DEF n
<1>7. Len(SubSeq(Orig, m + 1, n)) = n - m BY <1>1, <1>6, Piece
<1> QED BY <1>1, <1>4, <1>5, <1>6, <1>7

(* Steps of the thread that send no chunk. *)
LEMMA PrefixThreadGoes ==
    ASSUME PrefixInv, TypeOK, UNCHANGED <<source, file>>, ThreadReads => ThreadReads',
           thread'.next = thread.next,
           \A f \in listener'["receiver"].frame :
             InHand(f)' => f \in listener["receiver"].frame /\ InHand(f)
    PROVE  PrefixInv'
<1> SUFFICES ASSUME Size # 0, source = Orig, ThreadReads, PartPrefix,
                    \A f \in listener["receiver"].frame : InHand(f) => ChunkInTurn(f)
             PROVE  /\ ThreadReads' /\ PartPrefix'
                    /\ \A f \in listener'["receiver"].frame : InHand(f)' => ChunkInTurn(f)'
  BY DEF PrefixInv, InHand
<1> QED BY DEF PartPrefix, ChunkInTurn

LEMMA PrefixSendChunk ==
    ASSUME PrefixInv, TypeOK, SendChunk
    PROVE  PrefixInv'
<1> DEFINE i == thread.next
           c == Chunk(i, thread.buf)
<1> SUFFICES ASSUME Size # 0, source = Orig, ThreadReads, PartPrefix,
                    \A f \in listener["receiver"].frame : InHand(f) => ChunkInTurn(f)
             PROVE  /\ ThreadReads' /\ PartPrefix'
                    /\ \A f \in listener'["receiver"].frame : InHand(f)' => ChunkInTurn(f)'
  BY DEF PrefixInv, InHand, SendChunk
<1>1. i \in Nat /\ thread.pc = "chunk" /\ file' = file
  BY DEF SendChunk, TypeOK, ThreadOK
<1>2. /\ Sent("receiver", c)
      /\ thread' = [pc |-> "read", next |-> i + 1, buf |-> <<>>, cursor |-> thread.cursor]
  BY DEF SendChunk
<1>11. thread'.pc = "read" /\ thread'.next = i + 1 /\ thread'.cursor = thread.cursor
  BY <1>2
<1>12. /\ Start(i) < Size /\ thread.buf = Span(i)
      /\ thread.cursor = Min2(Start(i + 1), Size)
  BY <1>1, StartNext DEF ThreadReads
<1>13. ThreadReads' BY <1>11, <1>12 DEF ThreadReads
<1>14. Start(i) \in Nat /\ Start(i + 1) \in Nat /\ Start(i) <= Start(i + 1)
  <2>1. Start(i) \in Nat /\ Start(i + 1) = Start(i) + ChunkSize
    BY <1>1, StartNext
  <2> QED BY <2>1, ChunkSizeAssumption
<1>15. PartPrefix'
  <2>1. ASSUME NEW content \in file.part PROVE Len(content) \in Nat
    BY <2>1, LenProperties DEF TypeOK, FilesOK
  <2> QED BY <1>1, <1>11, <1>14, <2>1 DEF PartPrefix
<1>16. ASSUME NEW x, x = c PROVE ChunkInTurn(x)'
  <2>1. c.index = i /\ c.data = thread.buf BY DEF Chunk
  <2> HIDE DEF c
  <2> QED BY <1>1, <1>11, <1>12, <1>16, <2>1 DEF ChunkInTurn, PartPrefix
<1>17. \A f \in listener'["receiver"].frame :
        InHand(f)' => f = c \/ (f \in listener["receiver"].frame /\ InHand(f))
  BY <1>2, TakenFields DEF InHand, Sent, Deliver, TypeOK, ListenerOK, Device
<1>18. ASSUME NEW f \in listener["receiver"].frame, InHand(f)
      PROVE  ChunkInTurn(f)'
  <2>1. f.index \in Nat
    BY <1>18 DEF InHand, TypeOK, ListenerOK, EntryOK, Device, Frame
  <2> QED BY <1>1, <1>11, <1>18, <2>1 DEF ChunkInTurn
<1> HIDE DEF c
<1> QED BY <1>13, <1>15, <1>16, <1>17, <1>18

LEMMA OverFields ==
    ASSUME TypeOK
    PROVE  \A pc \in {"done", "error"} : Over(pc).pc = pc /\ Over(pc).next = thread.next
BY OverType DEF TypeOK, ThreadState

LEMMA PrefixReadChunk ==
    ASSUME PrefixInv, TypeOK, ReadChunk
    PROVE  PrefixInv'
<1>1. /\ UNCHANGED <<source, file, listener>> /\ thread.pc = "read"
      /\ thread.next \in Nat
  BY DEF ReadChunk, TypeOK, ThreadOK
<1>2. PICK pc \in {"done", "error", "chunk"} :
        /\ thread'.pc = pc /\ thread'.next = thread.next
        /\ pc = "chunk" => /\ ReadBuffer # <<>> /\ thread'.buf = ReadBuffer
                           /\ thread'.cursor = thread.cursor + Len(ReadBuffer)
  <2>1. CASE thread' = Over("done") \/ thread' = Over("error")
    BY <2>1, OverFields
  <2>2. CASE /\ ReadBuffer # <<>>
             /\ thread' = [pc |-> "chunk", next |-> thread.next, buf |-> ReadBuffer,
                           cursor |-> thread.cursor + Len(ReadBuffer)]
    BY <2>2
  <2> QED BY <2>1, <2>2 DEF ReadChunk
<1> SUFFICES ASSUME Size # 0, source = Orig, ThreadReads, PartPrefix,
                    \A f \in listener["receiver"].frame : InHand(f) => ChunkInTurn(f)
             PROVE  /\ ThreadReads' /\ PartPrefix'
                    /\ \A f \in listener'["receiver"].frame : InHand(f)' => ChunkInTurn(f)'
  BY <1>1 DEF PrefixInv, InHand
<1>3. ThreadReads'
  BY <1>1, <1>2, ReadSpan DEF ThreadReads
<1> QED BY <1>1, <1>2, <1>3 DEF PartPrefix, ChunkInTurn, InHand

LEMMA PrefixThread ==
    ASSUME PrefixInv, TypeOK, Thread
    PROVE  PrefixInv'
<1>1. CASE SendStart \/ Poll
  <2>1. /\ UNCHANGED <<source, file, listener>> /\ thread'.next = thread.next
        /\ thread.pc \in {"start", "wait"}
        /\ thread'.pc \in {"offer", "read"} => thread'.cursor = thread.cursor
        /\ thread'.pc \in {"offer", "read", "error"}
    BY <1>1, OverFields DEF SendStart, Poll, TypeOK, ThreadOK
  <2>2. ThreadReads => ThreadReads' BY <2>1 DEF ThreadReads
  <2> QED BY <2>1, <2>2, PrefixThreadGoes DEF InHand
<1>2. CASE SendOffer
  <2>1. /\ UNCHANGED <<source, file>> /\ thread'.next = thread.next
        /\ thread'.cursor = thread.cursor /\ thread.pc = "offer"
        /\ thread'.pc = "wait"
    BY <1>2 DEF SendOffer, TypeOK, ThreadOK
  <2>2. ThreadReads => ThreadReads' BY <2>1 DEF ThreadReads
  <2>3. \/ listener'["receiver"] = listener["receiver"]
        \/ listener'["receiver"].frame = {Offer}
    BY <1>2, TakenFields DEF SendOffer, Sent, Deliver, TypeOK, ListenerOK, Device
  <2>4. Offer.kind # "chunk" BY DEF Offer
  <2>5. \A f \in listener'["receiver"].frame :
          InHand(f)' => f \in listener["receiver"].frame /\ InHand(f)
    BY <2>3, <2>4 DEF InHand
  <2> QED BY <2>1, <2>2, <2>5, PrefixThreadGoes
<1> QED BY <1>1, <1>2, PrefixReadChunk, PrefixSendChunk DEF Thread

LEMMA PrefixRefuseThread ==
    ASSUME PrefixInv, TypeOK, RefuseThread
    PROVE  PrefixInv'
BY OverFields, PrefixKept DEF RefuseThread, InHand

LEMMA PrefixWriteChunk ==
    ASSUME PrefixInv, TypeOK, CopyInv, WriteChunk
    PROVE  PrefixInv'
<1> DEFINE L == listener["receiver"]
           e == [L EXCEPT !.pc = "verify"]
<1>1. PICK f \in L.frame, r \in L.held :
        \/ \E content \in file[r.path] :
             /\ InOrder(content, f.index)
             /\ file' = [file EXCEPT ![r.path] = {content \o f.data}]
        \/ UNCHANGED file
  BY DEF WriteChunk
<1>2. r.path = "part" /\ L.pc = "write"
  BY DEF WriteChunk, At, CopyInv, ListenerSafe
<1>3. f.kind = "chunk" /\ f.index \in Nat /\ f.data \in Seq(Nat)
  BY <1>2 DEF TypeOK, ListenerOK, EntryOK, Device, ForChunk, Frame
<1>4. UNCHANGED <<source, thread>> /\ thread.next \in Nat
  BY DEF WriteChunk, TypeOK, ThreadOK
<1>5. e.pc = "verify" /\ Idle.frame = {}
  BY ListenerFields DEF Idle, Device
<1>6. \/ listener' = [listener EXCEPT !["receiver"] = Idle]
      \/ listener' = [listener EXCEPT !["receiver"] = e]
  BY DEF WriteChunk
<1> HIDE DEF e
<1>7. CASE UNCHANGED file
  BY <1>4, <1>5, <1>6, <1>7, PrefixTurned DEF Device
<1>8. ASSUME NEW content \in file["part"], InOrder(content, f.index),
             file' = [file EXCEPT !["part"] = {content \o f.data}]
      PROVE  PrefixInv'
  <2>1. listener'["receiver"].frame = {} \/ listener'["receiver"].pc = "verify"
    BY <1>5, <1>6, ReceiverEntry
  <2>2. file'.part = {content \o f.data} BY <1>8 DEF TypeOK, FilesOK
  <2> SUFFICES ASSUME Size # 0, source = Orig, ThreadReads, PartPrefix, ChunkInTurn(f)
               PROVE  ThreadReads' /\ PartPrefix'
    BY <1>2, <1>3, <1>4, <2>1 DEF PrefixInv
  <2>3. Len(content) \in Nat /\ Len(content) <= Start(f.index) /\ Prefix(content)
    <3>1. content \in Seq(Nat) BY <1>8 DEF TypeOK, FilesOK
    <3>2. Len(content) \in Nat BY <3>1, LenProperties
    <3> QED BY <1>8, <3>2 DEF PartPrefix, ChunkInTurn
  <2>4. Len(content) = Start(f.index)
    BY <1>3, <1>8, <2>3, InOrderStarts DEF InOrder
  <2> DEFINE longer == content \o f.data
  <2>5. Prefix(longer) /\ Len(longer) <= Start(f.index) + ChunkSize
    BY <1>3, <2>3, <2>4, ChunkExtends DEF ChunkInTurn
  <2>6. Start(f.index) + ChunkSize <= Start(thread.next) /\ Start(f.index) + ChunkSize \in Nat
    <3>1. Start(f.index) \in Nat BY <1>3, StartNext
    <3>2. f.index < thread.next BY DEF ChunkInTurn
    <3> QED BY <1>3, <1>4, <3>1, <3>2, StartOrder, ChunkSizeAssumption
  <2>7. Len(longer) \in Nat /\ Start(thread.next) \in Nat
    <3>1. longer \in Seq(Nat)
      BY <1>3, <1>8, ConcatProperties DEF TypeOK, FilesOK
    <3>2. Len(longer) \in Nat BY <3>1, LenProperties
    <3> QED BY <1>4, <3>2, StartNext
  <2> HIDE DEF longer
  <2>8. Len(longer) <= Start(thread.next) BY <2>5, <2>6, <2>7
  <2>9. file'.part = {longer} BY <2>2 DEF longer
  <2>10. ThreadReads' BY <1>4 DEF ThreadReads
  <2>11. PartPrefix' BY <1>4, <2>5, <2>8, <2>9 DEF PartPrefix
  <2> QED BY <2>10, <2>11
<1> QED BY <1>1, <1>2, <1>7, <1>8

LEMMA PrefixLoadForChunk ==
    ASSUME PrefixInv, TypeOK, LoadForChunk
    PROVE  PrefixInv'
<1> DEFINE L == listener["receiver"]
           running == {r \in rec["receiver"] : r.state = "Transferring"}
           e == [L EXCEPT !.pc = "write", !.held = running]
<1>1. e.frame = L.frame /\ Idle.frame = {} /\ L.pc = "handle"
  BY ListenerFields DEF Idle, Device, LoadForChunk, Handles, At
<1>2. listener'["receiver"] = Idle \/ listener'["receiver"] = e
  BY ReceiverEntry DEF LoadForChunk
<1> HIDE DEF e
<1>3. \A f \in listener'["receiver"].frame :
        InHand(f)' => f \in listener["receiver"].frame /\ InHand(f)
  BY <1>1, <1>2 DEF InHand
<1> QED BY <1>3, PrefixKept DEF LoadForChunk

(* The other steps of a listener: it is done, or past the chunk, and the     *)
(* .part file is as it was, removed, moved or new.                           *)
LEMMA PrefixPasses ==
    ASSUME PrefixInv, TypeOK, UNCHANGED <<source, thread>>,
           file'.part \subseteq file.part \/ file'.part = {<<>>},
           NEW d \in Device,
           \/ listener' = [listener EXCEPT ![d] = Idle]
           \/ \E pc \in ListenerState \ {"handle", "write"} :
                listener' = [listener EXCEPT ![d] = [listener[d] EXCEPT !.pc = pc]]
           \/ \E pc \in ListenerState \ {"handle", "write"} : \E held :
                listener' = [listener EXCEPT ![d] =
                               [listener[d] EXCEPT !.pc = pc, !.held = held]]
    PROVE  PrefixInv'
<1>1. PICK e : /\ listener' = [listener EXCEPT ![d] = e]
               /\ e.frame = {} \/ e.pc \notin {"handle", "write"}
  <2> DEFINE L == listener[d]
  <2>1. Idle.frame = {} BY DEF Idle
  <2>2. L \in [pc : ListenerState, frame : SUBSET Frame, held : SUBSET RecordOf(d)]
    BY ListenerFields
  <2> HIDE DEF L
  <2>3. \A pc, held : /\ [L EXCEPT !.pc = pc].pc = pc
                      /\ [L EXCEPT !.pc = pc, !.held = held].pc = pc
    BY <2>2
  <2>4. CASE listener' = [listener EXCEPT ![d] = Idle]
    BY <2>1, <2>4
  <2>5. ASSUME NEW pc \in ListenerState \ {"handle", "write"},
               listener' = [listener EXCEPT ![d] = [L EXCEPT !.pc = pc]]
        PROVE  \E e : /\ listener' = [listener EXCEPT ![d] = e]
                      /\ e.frame = {} \/ e.pc \notin {"handle", "write"}
    <3> WITNESS [L EXCEPT !.pc = pc]
    <3> QED BY <2>3, <2>5
  <2>6. ASSUME NEW pc \in ListenerState \ {"handle", "write"}, NEW held,
               listener' = [listener EXCEPT ![d] = [L EXCEPT !.pc = pc, !.held = held]]
        PROVE  \E e : /\ listener' = [listener EXCEPT ![d] = e]
                      /\ e.frame = {} \/ e.pc \notin {"handle", "write"}
    <3> WITNESS [L EXCEPT !.pc = pc, !.held = held]
    <3> QED BY <2>3, <2>6
  <2> QED BY <2>4, <2>5, <2>6 DEF L
<1> QED BY <1>1, PrefixTurned

(* What a listener answers is no chunk. *)
LEMMA PrefixReply ==
    ASSUME PrefixInv, TypeOK, NEW d \in Device, Reply(d) \/ RefuseReply(d)
    PROVE  PrefixInv'
<1>1. \/ listener' = [listener EXCEPT ![d] = Idle]
      \/ \E f \in listener[d].frame :
           listener' = [listener EXCEPT ![d] = Idle, ![Other(d)] = Taken(ReplyTo(f))]
  BY DEF Reply, RefuseReply
<1>2. \A f : ReplyTo(f).kind # "chunk" BY DEF ReplyTo, Ack, Receipt
<1>3. \/ listener'["receiver"] = listener["receiver"]
      \/ listener'["receiver"].frame = {}
      \/ \E f : listener'["receiver"].frame = {ReplyTo(f)}
  BY <1>1, TakenFields DEF Other, Idle, TypeOK, ListenerOK, Device
<1>4. \A g \in listener'["receiver"].frame :
        InHand(g)' => g \in listener["receiver"].frame /\ InHand(g)
  BY <1>2, <1>3 DEF InHand
<1>5. UNCHANGED <<source, thread, file>> BY DEF Reply, RefuseReply
<1> QED BY <1>4, <1>5, PrefixKept

LEMMA PrefixListener ==
    ASSUME PrefixInv, TypeOK, CopyInv, NEW d \in Device, Listener(d)
    PROVE  PrefixInv'
<1> USE DEF Device, ListenerState
<1>1. CASE d = "receiver" /\ HandleOffer
  <2>1. file'.part = {<<>>} BY <1>1 DEF HandleOffer, TypeOK, FilesOK
  <2> QED BY <1>1, <2>1, PrefixPasses DEF HandleOffer
<1>2. CASE d = "receiver" /\ VerifyCopy
  <2>1. listener' = [listener EXCEPT ![d] = [listener[d] EXCEPT !.pc = "rename"]]
        \/ \E held : listener' = [listener EXCEPT ![d] =
                                    [listener[d] EXCEPT !.pc = "record", !.held = held]]
    BY <1>2 DEF VerifyCopy
  <2> QED BY <1>2, <2>1, PrefixPasses DEF VerifyCopy
<1>3. CASE d = "receiver" /\ RenameCopy
  <2>1. \A r \in listener[d].held : r.path = "part"
    BY <1>3 DEF RenameCopy, At, CopyInv, ListenerSafe
  <2>2. file'.part \subseteq file.part
    BY <1>3, <2>1 DEF RenameCopy, Renamed, TypeOK, FilesOK
  <2>3. listener' = [listener EXCEPT ![d] = Idle]
        \/ \E held : listener' = [listener EXCEPT ![d] =
                                    [listener[d] EXCEPT !.pc = "record", !.held = held]]
    BY <1>3 DEF RenameCopy
  <2> QED BY <1>3, <2>2, <2>3, PrefixPasses DEF RenameCopy
<1>4. CASE Reply(d)
  BY <1>4, PrefixReply
<1>5. CASE LoadForReceipt(d) \/ LoadForText(d) \/ LoadForAck(d)
  <2>1. listener' = [listener EXCEPT ![d] = Idle]
        \/ \E held : listener' = [listener EXCEPT ![d] =
                                    [listener[d] EXCEPT !.pc = "record", !.held = held]]
    <3>1. CASE LoadForReceipt(d) \/ LoadForText(d)
      BY <3>1 DEF LoadForReceipt, LoadForText
    <3>2. CASE LoadForAck(d)
      BY <3>2 DEF LoadForAck
    <3> QED BY <1>5, <3>1, <3>2
  <2>2. UNCHANGED <<source, thread, file>>
    BY <1>5 DEF LoadForReceipt, LoadForText, LoadForAck
  <2> QED BY <2>1, <2>2, PrefixPasses
<1>6. CASE Truncate(d) \/ WriteRecord(d)
  <2>1. listener' = [listener EXCEPT ![d] = Idle]
        \/ \E pc \in {"fill", "unlink"} :
             listener' = [listener EXCEPT ![d] = [listener[d] EXCEPT !.pc = pc]]
        \/ \E held : listener' = [listener EXCEPT ![d] =
                                    [listener[d] EXCEPT !.pc = "reply", !.held = held]]
    BY <1>6 DEF Truncate, WriteRecord
  <2> QED BY <1>6, <2>1, PrefixPasses DEF Truncate, WriteRecord
<1>7. CASE UnlinkAfterReceipt(d)
  <2>1. file'.part \subseteq file.part
    <3>1. PICK r \in listener[d].held :
            UNCHANGED file \/ (r.path # "source" /\ file' = [file EXCEPT ![r.path] = {}])
      BY <1>7 DEF UnlinkAfterReceipt
    <3>2. r.path \in {"source", "part", "final"}
      BY ListenerFields DEF RecordOf, RecordPaths
    <3> QED BY <3>1, <3>2 DEF TypeOK, FilesOK
  <2> QED BY <1>7, <2>1, PrefixPasses DEF UnlinkAfterReceipt
<1> QED BY <1>1, <1>2, <1>3, <1>4, <1>5, <1>6, <1>7, PrefixLoadForChunk, PrefixWriteChunk
        DEF Listener

(* The calls: they write no data, and send receipts only. *)
LEMMA PrefixOp ==
    ASSUME PrefixInv, TypeOK, NEW u \in UserOps, OpLoad(u) \/ OpStep(u) \/ RefuseOp(u)
    PROVE  PrefixInv'
<1>1. CASE OpLoad(u) \/ OpTruncate(u) \/ OpPersist(u) \/ RefuseOp(u)
  BY <1>1, PrefixKept DEF RefuseOp, OpLoad, OpTruncate, OpPersist, InHand
<1>2. CASE OpRename(u) \/ OpUnlink(u)
  <2>1. u[1] = "receiver" /\ UNCHANGED <<source, thread, listener>>
    BY <1>2 DEF OpRename, OpUnlink, TypeOK, OpOK
  <2>2. \A r \in op[u].held : r.path \in {"part", "final"}
    BY <2>1 DEF TypeOK, OpOK, RecordOf, RecordPaths
  <2>3. file'.part \subseteq file.part
    BY <1>2, <2>2 DEF OpRename, OpUnlink, Renamed, TypeOK, FilesOK
  <2> QED BY <2>1, <2>3, PrefixKept DEF InHand
<1>3. CASE OpSend(u)
  <2> DEFINE d == Other(u[1])
             g == Receipt(Decision(u[2])[2])
  <2>1. d \in Device /\ g.kind # "chunk"
    BY DEF Other, Device, Receipt
  <2>2. Sent(d, g) /\ UNCHANGED <<source, thread, file>>
    BY <1>3 DEF OpSend
  <2> HIDE DEF d, g
  <2> QED BY <2>1, <2>2, PrefixDelivered
<1> QED BY <1>1, <1>2, <1>3 DEF OpStep

LEMMA PrefixPeerText ==
    ASSUME PrefixInv, TypeOK, NEW d \in Device, PeerText(d)
    PROVE  PrefixInv'
<1>1. Text.kind # "chunk" BY DEF Text
<1> QED BY <1>1, PrefixDelivered DEF PeerText, Sent

LEMMA PrefixRestart ==
    ASSUME PrefixInv, TypeOK, NEW d \in Device, Restart(d)
    PROVE  PrefixInv'
<1>1. thread' = thread \/ (thread'.pc = "error" /\ thread'.next = thread.next)
  BY OverFields DEF Restart
<1>2. listener'["receiver"] = listener["receiver"] \/ listener'["receiver"].frame = {}
  BY DEF Restart, Idle, TypeOK, ListenerOK, Device
<1> QED BY <1>1, <1>2, PrefixKept DEF Restart, InHand

(* An edit leaves a file that is not the one offered, unless that is empty. *)
LEMMA PrefixEditSource ==
    ASSUME EditSource
    PROVE  PrefixInv'
<1> SUFFICES ASSUME Size # 0 PROVE source' # Orig
  BY DEF PrefixInv
<1>1. PICK n \in 0..Size + 1 : source' = Edited(n)
  BY DEF EditSource
<1>2. 1 \in DOMAIN Orig /\ Orig[1] = 1
  BY SizeAssumption DEF Orig
<1>3. 1 \in DOMAIN Edited(n) => Edited(n)[1] = 0
  BY DEF Edited
<1> QED BY <1>1, <1>2, <1>3

LEMMA PrefixNext == TypeOK /\ CopyInv /\ PrefixInv /\ [Next]_vars => PrefixInv'
<1> SUFFICES ASSUME TypeOK, CopyInv, PrefixInv, [Next]_vars PROVE PrefixInv' OBVIOUS
<1>1. CASE UNCHANGED vars
  BY <1>1, PrefixKept DEF vars, InHand
<1>2. CASE Next
  BY <1>2, PrefixThread, PrefixRefuseThread, PrefixListener, PrefixReply, PrefixPeerText, PrefixRestart, PrefixOp,
     PrefixEditSource DEF Next
<1> QED BY <1>1, <1>2

(* Unless somebody edits the file, what the receiver has of it is a prefix   *)
(* without a gap: a chunk that was lost holds up all the later ones.         *)
THEOREM NoGap == Spec => []ContiguousPrefix
<1>1. TypeOK /\ CopyInv /\ PrefixInv => ContiguousPrefix
  <2> SUFFICES ASSUME TypeOK, CopyInv, PrefixInv, source = Orig, NEW content \in file.part
               PROVE  \E n \in 0..Size : content = SubSeq(Orig, 1, n)
    BY DEF ContiguousPrefix
  <2>1. CASE Size = 0
    <3>1. content = <<>> BY <2>1 DEF CopyInv, NoChunkOfEmpty
    <3>2. SubSeq(Orig, 1, 0) = <<>> BY SubSeqEmpty
    <3> QED BY <2>1, <3>1, <3>2
  <2>2. CASE Size # 0
    <3>1. content \in Seq(Nat) BY DEF TypeOK, FilesOK
    <3>2. Len(content) \in Nat BY <3>1, LenProperties
    <3>3. Prefix(content) BY <2>2 DEF PrefixInv, PartPrefix
    <3>4. Len(content) \in 0..Size BY <3>2, <3>3, SizeAssumption DEF Prefix
    <3> QED BY <3>3, <3>4 DEF Prefix
  <2> QED BY <2>1, <2>2
<1>2. Spec => []PrefixInv
  BY PrefixInit, PrefixNext, CopyInvHolds, TypeCorrect, PTL DEF Spec
<1> QED BY <1>1, <1>2, CopyInvHolds, TypeCorrect, PTL
=============================================================================
