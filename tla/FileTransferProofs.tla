------------------------- MODULE FileTransferProofs -------------------------
(* Type correctness and the integrity of the received copy, for every file  *)
(* size, chunk size, set of user calls and set of faults.                   *)
EXTENDS FileTransfer, TLAPS, SequenceTheorems

(* Changing the state of a record keeps its path. *)
LEMMA WithStateType ==
    ASSUME NEW d \in Device, NEW held \in SUBSET RecordOf(d),
           NEW s \in TransferState
    PROVE  WithState(held, s) \subseteq RecordOf(d)
BY DEF WithState, RecordOf

(* What is read from the source is a sequence of its units. *)
LEMMA ReadBufferType ==
    ASSUME TypeOK
    PROVE  ReadBuffer \in Seq(Nat)
<1> DEFINE m == thread.cursor + 1
           n == Min2(thread.cursor + ChunkSize, Len(source))
<1>1. /\ source \in Seq(Nat)
      /\ thread.cursor \in Nat
      /\ Len(source) \in Nat
  BY DEF TypeOK, FilesOK, ThreadOK
<1>2. m \in Int /\ n \in Int /\ m >= 1 /\ n <= Len(source)
  BY <1>1, ChunkSizeAssumption DEF Min2
<1>3. \A i \in m .. n : source[i] \in Nat
  BY <1>1, <1>2, ElementOfSeq
<1> HIDE DEF m, n
<1>4. SubSeq(source, m, n) \in Seq(Nat)
  BY <1>2, <1>3, SubSeqProperties
<1> QED BY <1>4 DEF ReadBuffer, m, n

(* Replacing one device's record. *)
LEMMA RecordUpdate ==
    ASSUME RecOK, NEW d \in Device, NEW S \in SUBSET RecordOf(d),
           rec' = [rec EXCEPT ![d] = S]
    PROVE  RecOK'
BY DEF RecOK

(* Replacing one listener's entry, or delivering a frame to it. *)
LEMMA ListenerUpdate ==
    ASSUME ListenerOK, NEW d \in Device, NEW e, EntryOK(d, e),
           listener' = [listener EXCEPT ![d] = e]
    PROVE  ListenerOK'
BY DEF ListenerOK

LEMMA DeliverType ==
    ASSUME ListenerOK, NEW d \in Device, NEW f \in Frame,
           f.kind \in {"offer", "chunk"} => d = "receiver",
           Sent(d, f)
    PROVE  ListenerOK'
<1>1. CASE Deliver(d, f)
  <2>1. EntryOK(d, [pc |-> "handle", frame |-> {f}, held |-> {}])
    BY DEF EntryOK, ListenerState, ForChunk
  <2> QED BY <1>1, <2>1, ListenerUpdate DEF Deliver, Taken
<1>2. CASE UNCHANGED listener
  BY <1>2 DEF ListenerOK
<1> QED BY <1>1, <1>2 DEF Sent

LEMMA IdleType == \A d \in Device : EntryOK(d, Idle)
BY DEF EntryOK, Idle, ListenerState, ForChunk

LEMMA OverType ==
    ASSUME ThreadOK, NEW pc \in ThreadState
    PROVE  /\ Over(pc) \in [pc : ThreadState, next : Nat, cursor : Nat, buf : Seq(Nat)]
           /\ Over(pc).pc = pc /\ Over(pc).next = thread.next
BY EmptySeq DEF Over, ThreadOK

LEMMA TypeInit == Init => TypeOK
<1> SUFFICES ASSUME Init PROVE TypeOK OBVIOUS
<1>1. Orig \in Seq(Nat)
  BY SizeAssumption, IsASeq DEF Orig
<1>2. RecOK BY DEF Init, RecOK
<1>3. FilesOK BY <1>1 DEF Init, FilesOK
<1>4. ThreadOK BY EmptySeq DEF Init, ThreadOK, ThreadState
<1>5. ListenerOK BY IdleType DEF Init, ListenerOK
<1>6. OpOK BY DEF Init, OpOK, NoOp, OpState
<1> QED BY <1>2, <1>3, <1>4, <1>5, <1>6 DEF TypeOK

LEMMA TypeThread == TypeOK /\ Thread => TypeOK'
<1> SUFFICES ASSUME TypeOK, Thread PROVE TypeOK' OBVIOUS
<1> USE DEF TypeOK
<1>1. CASE SendStart
  <2>1. RecOK'
    <3>1. {OutgoingRecord} \in SUBSET RecordOf("sender")
      BY DEF OutgoingRecord, RecordOf, RecordPaths, TransferState
    <3> QED BY <1>1, <3>1, RecordUpdate DEF SendStart, Device
  <2>2. ThreadOK'
    BY <1>1 DEF ThreadOK, SendStart, ThreadState
  <2> QED BY <1>1, <2>1, <2>2 DEF SendStart, FilesOK, ListenerOK, OpOK
<1>2. CASE SendOffer
  <2>1. ThreadOK'
    BY <1>2 DEF ThreadOK, SendOffer, ThreadState
  <2>2. ListenerOK'
    BY <1>2, DeliverType DEF SendOffer, Offer, Frame, Device
  <2> QED BY <1>2, <2>1, <2>2 DEF SendOffer, RecOK, FilesOK, OpOK
<1>3. CASE Poll
  <2>1. ThreadOK'
    BY <1>3, OverType DEF ThreadOK, Poll, ThreadState
  <2> QED BY <1>3, <2>1 DEF Poll, RecOK, FilesOK, ListenerOK, OpOK
<1>4. CASE ReadChunk
  <2>1. ThreadOK'
    <3> DEFINE b == ReadBuffer
    <3>1. b \in Seq(Nat) /\ Len(b) \in Nat
      BY ReadBufferType
    <3>2. ThreadOK /\ (\/ thread' = Over("done")
                      \/ thread' = Over("error")
                      \/ thread' = [pc |-> "chunk", next |-> thread.next, buf |-> b,
                                    cursor |-> thread.cursor + Len(b)])
      BY <1>4 DEF ReadChunk
    <3> HIDE DEF b
    <3>3. thread.next \in Nat /\ thread.cursor + Len(b) \in Nat
      BY <3>1, <3>2 DEF ThreadOK
    <3>4. CASE thread' = [pc |-> "chunk", next |-> thread.next, buf |-> b,
                          cursor |-> thread.cursor + Len(b)]
      BY <3>1, <3>3, <3>4 DEF ThreadOK, ThreadState
    <3>5. CASE \E s \in {"done", "error"} : thread' = Over(s)
      BY <3>5, OverType DEF ThreadOK, ThreadState
    <3> QED BY <3>2, <3>4, <3>5
  <2> QED BY <1>4, <2>1 DEF ReadChunk, RecOK, FilesOK, ListenerOK, OpOK
<1>5. CASE SendChunk
  <2>1. ThreadOK'
    <3>1. thread.next + 1 \in Nat /\ <<>> \in Seq(Nat)
      BY EmptySeq DEF ThreadOK
    <3>2. thread' = [pc |-> "read", next |-> thread.next + 1, buf |-> <<>>,
                     cursor |-> thread.cursor]
      BY <1>5 DEF SendChunk
    <3> QED BY <3>1, <3>2 DEF ThreadOK, ThreadState
  <2>2. Chunk(thread.next, thread.buf) \in Frame
    BY DEF ThreadOK, Chunk, Frame
  <2> DEFINE c == Chunk(thread.next, thread.buf)
  <2> HIDE DEF c
  <2>3. ListenerOK'
    <3>1. Sent("receiver", c)
      BY <1>5 DEF SendChunk, c
    <3>2. "receiver" \in Device /\ c \in Frame
      BY <2>2 DEF Device, c
    <3> QED BY <3>1, <3>2, DeliverType
  <2> QED BY <1>5, <2>1, <2>3 DEF SendChunk, RecOK, FilesOK, OpOK
<1> QED BY <1>1, <1>2, <1>3, <1>4, <1>5 DEF Thread

LEMMA TypeRefuseThread == TypeOK /\ RefuseThread => TypeOK'
<1> SUFFICES ASSUME TypeOK, RefuseThread PROVE TypeOK' OBVIOUS
<1>1. ThreadOK'
  BY OverType DEF RefuseThread, TypeOK, ThreadOK, ThreadState
<1> QED BY <1>1 DEF RefuseThread, TypeOK, RecOK, FilesOK, ListenerOK, OpOK

(* Facts about the entry a listener works on. *)
LEMMA EntryFields ==
    ASSUME TypeOK, NEW d \in Device
    PROVE  /\ EntryOK(d, listener[d])
           /\ listener[d].held \in SUBSET RecordOf(d)
           /\ rec[d] \in SUBSET RecordOf(d)
BY DEF TypeOK, ListenerOK, EntryOK, RecOK

(* An entry that goes on with another pc and other records held. *)
LEMMA EntryStep ==
    ASSUME TypeOK, NEW d \in Device, NEW pc \in ListenerState,
           NEW held \in SUBSET RecordOf(d),
           pc \in ForChunk => d = "receiver" /\ \A f \in listener[d].frame : f.kind = "chunk",
           pc = "reply" => \A f \in listener[d].frame : f.kind \in {"chunk", "text"}
    PROVE  /\ EntryOK(d, [listener[d] EXCEPT !.pc = pc])
           /\ EntryOK(d, [listener[d] EXCEPT !.pc = pc, !.held = held])
<1> DEFINE L == listener[d]
<1>1. /\ L \in [pc : ListenerState, frame : SUBSET Frame, held : SUBSET RecordOf(d)]
      /\ \A f, g \in L.frame : f = g
      /\ \A f \in L.frame : f.kind \in {"offer", "chunk"} => d = "receiver"
  BY EntryFields DEF EntryOK
<1> HIDE DEF L
<1>2. EntryOK(d, [L EXCEPT !.pc = pc])
  <2> SUFFICES /\ pc \in ForChunk => d = "receiver" /\ \A f \in L.frame : f.kind = "chunk"
               /\ pc = "reply" => \A f \in L.frame : f.kind \in {"chunk", "text"}
    BY <1>1 DEF EntryOK
  <2> QED BY DEF L
<1>3. EntryOK(d, [L EXCEPT !.pc = pc, !.held = held])
  <2> SUFFICES /\ pc \in ForChunk => d = "receiver" /\ \A f \in L.frame : f.kind = "chunk"
               /\ pc = "reply" => \A f \in L.frame : f.kind \in {"chunk", "text"}
    BY <1>1 DEF EntryOK
  <2> QED BY DEF L
<1> QED BY <1>2, <1>3 DEF L

LEMMA ReceiverPaths ==
    \A r \in RecordOf("receiver") : r.path \in {"part", "final"}
BY DEF RecordOf, RecordPaths

LEMMA TypeHandleOffer == TypeOK /\ HandleOffer => TypeOK'
<1> SUFFICES ASSUME TypeOK, HandleOffer PROVE TypeOK' OBVIOUS
<1> USE DEF TypeOK, HandleOffer
<1>1. RecOK'
  <2>1. {[state |-> "Offered", path |-> "part"]} \in SUBSET RecordOf("receiver")
    BY DEF RecordOf, RecordPaths, TransferState
  <2> QED BY <2>1, RecordUpdate DEF Device
<1>2. FilesOK'
  BY EmptySeq DEF FilesOK
<1>3. ListenerOK'
  BY IdleType, ListenerUpdate DEF Device
<1> QED BY <1>1, <1>2, <1>3 DEF ThreadOK, OpOK

LEMMA TypeLoadForChunk == TypeOK /\ LoadForChunk => TypeOK'
<1> SUFFICES ASSUME TypeOK, LoadForChunk PROVE TypeOK' OBVIOUS
<1>1. "receiver" \in Device BY DEF Device
<1>2. \A f \in listener["receiver"].frame : f.kind = "chunk"
  BY <1>1, EntryFields DEF LoadForChunk, Handles, EntryOK
<1> DEFINE running == {r \in rec["receiver"] : r.state = "Transferring"}
           e == [listener["receiver"] EXCEPT !.pc = "write", !.held = running]
<1>3. running \in SUBSET RecordOf("receiver")
  BY <1>1, EntryFields
<1>4. EntryOK("receiver", e)
  BY <1>1, <1>2, <1>3, EntryStep DEF ListenerState
<1>5. \/ listener' = [listener EXCEPT !["receiver"] = Idle]
      \/ listener' = [listener EXCEPT !["receiver"] = e]
  BY DEF LoadForChunk
<1> HIDE DEF e
<1>6. ListenerOK'
  BY <1>1, <1>4, <1>5, IdleType, ListenerUpdate DEF TypeOK
<1> QED BY <1>6 DEF LoadForChunk, TypeOK, RecOK, FilesOK, ThreadOK, OpOK

LEMMA TypeWriteChunk == TypeOK /\ WriteChunk => TypeOK'
<1> SUFFICES ASSUME TypeOK, WriteChunk PROVE TypeOK' OBVIOUS
<1>1. "receiver" \in Device BY DEF Device
<1> DEFINE L == listener["receiver"]
<1>2. EntryOK("receiver", L) BY <1>1, EntryFields
<1>3. \A f \in L.frame : f.kind = "chunk" /\ f.data \in Seq(Nat)
  BY <1>2 DEF WriteChunk, At, EntryOK, ForChunk, Frame
<1>4. \A r \in L.held : r.path \in {"part", "final"}
  BY <1>2, ReceiverPaths DEF EntryOK
<1>5. EntryOK("receiver", [L EXCEPT !.pc = "verify"])
  BY <1>1, <1>3, EntryStep, EntryFields DEF ListenerState
<1>6. ListenerOK'
  BY <1>1, <1>5, IdleType, ListenerUpdate DEF WriteChunk, TypeOK
<1>7. FilesOK'
  <2>1. CASE UNCHANGED file
    BY <2>1 DEF WriteChunk, TypeOK, FilesOK
  <2>2. CASE \E f \in L.frame, r \in L.held : \E content \in file[r.path] :
                file' = [file EXCEPT ![r.path] = {content \o f.data}]
    <3>1. PICK f \in L.frame, r \in L.held : \E content \in file[r.path] :
                file' = [file EXCEPT ![r.path] = {content \o f.data}]
      BY <2>2
    <3>2. PICK content \in file[r.path] :
                file' = [file EXCEPT ![r.path] = {content \o f.data}]
      BY <3>1
    <3>3. content \in Seq(Nat)
      BY <1>4 DEF TypeOK, FilesOK
    <3>4. content \o f.data \in Seq(Nat)
      BY <1>3, <3>3, ConcatProperties
    <3> QED BY <1>4, <3>2, <3>4 DEF TypeOK, FilesOK, WriteChunk
  <2> QED BY <2>1, <2>2 DEF WriteChunk
<1> QED BY <1>6, <1>7 DEF WriteChunk, TypeOK, RecOK, ThreadOK, OpOK

LEMMA TypeVerifyCopy == TypeOK /\ VerifyCopy => TypeOK'
<1> SUFFICES ASSUME TypeOK, VerifyCopy PROVE TypeOK' OBVIOUS
<1>1. "receiver" \in Device BY DEF Device
<1> DEFINE L == listener["receiver"]
<1>2. EntryOK("receiver", L) /\ L.held \in SUBSET RecordOf("receiver")
  BY <1>1, EntryFields
<1>3. \A f \in L.frame : f.kind = "chunk"
  BY <1>2 DEF VerifyCopy, At, EntryOK, ForChunk
<1>4. WithState(L.held, "Failed") \in SUBSET RecordOf("receiver")
  BY <1>1, <1>2, WithStateType DEF TransferState
<1>5. EntryOK("receiver", [L EXCEPT !.pc = "rename"])
  BY <1>1, <1>2, <1>3, EntryStep DEF ListenerState
<1>6. EntryOK("receiver", [L EXCEPT !.pc = "record", !.held = WithState(L.held, "Failed")])
  BY <1>1, <1>4, EntryStep DEF ListenerState, ForChunk
<1>7. \/ listener' = [listener EXCEPT !["receiver"] = [L EXCEPT !.pc = "rename"]]
      \/ listener' = [listener EXCEPT !["receiver"] =
                        [L EXCEPT !.pc = "record", !.held = WithState(L.held, "Failed")]]
  BY DEF VerifyCopy
<1> HIDE DEF L
<1>8. ListenerOK'
  BY <1>1, <1>5, <1>6, <1>7, ListenerUpdate DEF TypeOK
<1> QED BY <1>8 DEF VerifyCopy, TypeOK, RecOK, FilesOK, ThreadOK, OpOK

LEMMA TypeRenameCopy == TypeOK /\ RenameCopy => TypeOK'
<1> SUFFICES ASSUME TypeOK, RenameCopy PROVE TypeOK' OBVIOUS
<1>1. "receiver" \in Device BY DEF Device
<1> DEFINE L == listener["receiver"]
           done == [state |-> "Complete", path |-> "final"]
<1>2. EntryOK("receiver", L) BY <1>1, EntryFields
<1>3. \A r \in L.held : r.path \in {"part", "final"}
  BY <1>2, ReceiverPaths DEF EntryOK
<1>4. {done} \in SUBSET RecordOf("receiver")
  BY DEF RecordOf, RecordPaths, TransferState
<1>5. EntryOK("receiver", [L EXCEPT !.pc = "record", !.held = {done}])
  BY <1>1, <1>4, EntryStep DEF ListenerState, ForChunk
<1>6. ListenerOK'
  BY <1>1, <1>5, IdleType, ListenerUpdate DEF RenameCopy, TypeOK
<1>7. FilesOK'
  BY <1>3 DEF RenameCopy, Renamed, TypeOK, FilesOK
<1> QED BY <1>6, <1>7 DEF RenameCopy, TypeOK, RecOK, ThreadOK, OpOK

LEMMA TypeLoadForReceipt ==
    ASSUME TypeOK, NEW d \in Device, LoadForReceipt(d)
    PROVE  TypeOK'
<1>1. PICK f \in listener[d].frame :
        /\ f.kind = "receipt"
        /\ listener' = [listener EXCEPT ![d] =
                          IF rec[d] = {} THEN Idle
                          ELSE [@ EXCEPT !.pc = "record",
                                  !.held = WithState(rec[d], ReceiptEffect(f.state))]]
  BY DEF LoadForReceipt
<1>2. f \in Frame BY EntryFields DEF EntryOK
<1>3. f.state \in ReceiptState BY <1>1, <1>2 DEF Frame
<1>4. ReceiptEffect(f.state) \in TransferState
  BY <1>3 DEF ReceiptEffect, ReceiptState, TransferState
<1>5. WithState(rec[d], ReceiptEffect(f.state)) \in SUBSET RecordOf(d)
  BY <1>4, WithStateType, EntryFields
<1>6. EntryOK(d, [listener[d] EXCEPT !.pc = "record",
                      !.held = WithState(rec[d], ReceiptEffect(f.state))])
  BY <1>5, EntryStep DEF ListenerState, ForChunk
<1>7. ListenerOK'
  BY <1>1, <1>6, IdleType, ListenerUpdate DEF TypeOK
<1> QED BY <1>7 DEF LoadForReceipt, TypeOK, RecOK, FilesOK, ThreadOK, OpOK

LEMMA TypeLoadForText ==
    ASSUME TypeOK, NEW d \in Device, LoadForText(d)
    PROVE  TypeOK'
<1>1. EntryOK(d, [listener[d] EXCEPT !.pc = "record", !.held = rec[d]])
  BY EntryFields, EntryStep DEF ListenerState, ForChunk
<1>2. ListenerOK'
  BY <1>1, ListenerUpdate DEF LoadForText, TypeOK
<1> QED BY <1>2 DEF LoadForText, TypeOK, RecOK, FilesOK, ThreadOK, OpOK

LEMMA TypeLoadForAck ==
    ASSUME TypeOK, NEW d \in Device, LoadForAck(d)
    PROVE  TypeOK'
<1>1. EntryOK(d, [listener[d] EXCEPT !.pc = "record", !.held = rec[d]])
  BY EntryFields, EntryStep DEF ListenerState, ForChunk
<1>2. ListenerOK'
  BY <1>1, IdleType, ListenerUpdate DEF LoadForAck, TypeOK
<1> QED BY <1>2 DEF LoadForAck, TypeOK, RecOK, FilesOK, ThreadOK, OpOK

(* Both halves of a save that is not atomic. *)
LEMMA SaveType ==
    ASSUME TypeOK, NEW d \in Device, NEW S \in SUBSET RecordOf(d), NEW pc,
           Truncated(d) \/ Filled(d, pc, S)
    PROVE  RecOK'
<1>1. PICK T \in SUBSET RecordOf(d) : rec' = [rec EXCEPT ![d] = T]
  BY DEF Truncated, Filled
<1> QED BY <1>1, RecordUpdate DEF TypeOK

LEMMA TypeTruncate ==
    ASSUME TypeOK, NEW d \in Device, Truncate(d)
    PROVE  TypeOK'
<1>1. RecOK'
  BY SaveType DEF Truncate
<1>2. EntryOK(d, [listener[d] EXCEPT !.pc = "fill"])
  BY EntryFields, EntryStep DEF ListenerState, ForChunk
<1>3. ListenerOK'
  BY <1>2, ListenerUpdate DEF Truncate, TypeOK
<1> QED BY <1>1, <1>3 DEF Truncate, TypeOK, FilesOK, ThreadOK, OpOK

LEMMA TypeWriteRecord ==
    ASSUME TypeOK, NEW d \in Device, WriteRecord(d)
    PROVE  TypeOK'
<1> DEFINE L == listener[d]
<1>1. RecOK'
  BY EntryFields, SaveType DEF WriteRecord
<1>2. PICK f \in L.frame :
        \/ listener' = [listener EXCEPT ![d] = Idle]
        \/ listener' = [listener EXCEPT ![d] = [L EXCEPT !.pc = "unlink"]]
        \/ /\ Replying(f, L.held)
           /\ ~Removing(f)
           /\ listener' = [listener EXCEPT ![d] = [L EXCEPT !.pc = "reply", !.held = {}]]
  BY DEF WriteRecord
<1>3. EntryOK(d, [L EXCEPT !.pc = "unlink"])
  BY EntryFields, EntryStep DEF ListenerState, ForChunk
<1>4. ASSUME Replying(f, L.held)
      PROVE  EntryOK(d, [L EXCEPT !.pc = "reply", !.held = {}])
  <2>1. \A g \in L.frame : g.kind \in {"chunk", "text"}
    BY <1>4, EntryFields DEF EntryOK, Replying, Completing
  <2> QED BY <2>1, EntryFields, EntryStep DEF ListenerState, ForChunk
<1> HIDE DEF L
<1>5. ListenerOK'
  BY <1>2, <1>3, <1>4, IdleType, ListenerUpdate DEF TypeOK
<1> QED BY <1>1, <1>5 DEF WriteRecord, TypeOK, FilesOK, ThreadOK, OpOK

LEMMA TypeUnlinkAfterReceipt ==
    ASSUME TypeOK, NEW d \in Device, UnlinkAfterReceipt(d)
    PROVE  TypeOK'
<1>1. ListenerOK'
  BY IdleType, ListenerUpdate DEF UnlinkAfterReceipt, TypeOK
<1>2. FilesOK'
  <2>1. PICK r \in listener[d].held :
          IF r.path = "source"
          THEN linked' = FALSE /\ UNCHANGED file
          ELSE file' = [file EXCEPT ![r.path] = {}] /\ UNCHANGED linked
    BY DEF UnlinkAfterReceipt
  <2> QED BY <2>1 DEF UnlinkAfterReceipt, TypeOK, FilesOK
<1> QED BY <1>1, <1>2 DEF UnlinkAfterReceipt, TypeOK, RecOK, ThreadOK, OpOK

(* A receipt goes to the sender, an acknowledgement to either side. *)
LEMMA ReplyFrame ==
    ASSUME TypeOK, NEW d \in Device, At(d, "reply"), NEW f \in listener[d].frame
    PROVE  /\ ReplyTo(f) \in Frame
           /\ ReplyTo(f).kind \in {"receipt", "ack"}
           /\ ReplyTo(f).kind = "receipt" => d = "receiver"
<1>1. f.kind \in {"chunk", "text"} /\ (f.kind = "chunk" => d = "receiver")
  BY EntryFields DEF EntryOK, At
<1>2. CASE f.kind = "text"
  BY <1>2 DEF ReplyTo, Ack, Frame
<1>3. CASE f.kind = "chunk"
  BY <1>1, <1>3 DEF ReplyTo, Receipt, Frame, ReceiptState
<1> QED BY <1>1, <1>2, <1>3

LEMMA TypeReply ==
    ASSUME TypeOK, NEW d \in Device, Reply(d) \/ RefuseReply(d)
    PROVE  TypeOK'
<1>1. Other(d) \in Device /\ Other(d) # d BY DEF Device, Other
<1>2. ListenerOK'
  <2>1. CASE listener' = [listener EXCEPT ![d] = Idle]
    BY <2>1, IdleType, ListenerUpdate DEF TypeOK
  <2>2. ASSUME NEW f \in listener[d].frame, At(d, "reply"),
               listener' = [listener EXCEPT ![d] = Idle, ![Other(d)] = Taken(ReplyTo(f))]
        PROVE  ListenerOK'
    <3>1. EntryOK(Other(d), Taken(ReplyTo(f)))
      BY <2>2, ReplyFrame DEF EntryOK, Taken, ListenerState, ForChunk
    <3> DEFINE e == Taken(ReplyTo(f))
    <3> HIDE DEF e
    <3> QED BY <1>1, <2>2, <3>1, IdleType DEF TypeOK, ListenerOK, e
  <2> QED BY <2>1, <2>2 DEF Reply, RefuseReply
<1> QED BY <1>2 DEF Reply, RefuseReply, TypeOK, RecOK, FilesOK, ThreadOK, OpOK

LEMMA TypeListener ==
    ASSUME TypeOK, NEW d \in Device, Listener(d)
    PROVE  TypeOK'
BY TypeHandleOffer, TypeLoadForChunk, TypeWriteChunk, TypeVerifyCopy,
   TypeRenameCopy, TypeReply, TypeLoadForReceipt, TypeLoadForText, TypeLoadForAck,
   TypeTruncate, TypeWriteRecord, TypeUnlinkAfterReceipt
   DEF Listener

-----------------------------------------------------------------------------
(* The calls from the UI. *)

LEMMA OpFields ==
    ASSUME TypeOK, NEW u \in UserOps
    PROVE  /\ u[1] \in Device
           /\ u[2] \in OpKind
           /\ op[u].held \in SUBSET RecordOf(u[1])
           /\ AcceptFlag(u[2]) \/ u[2] = "decline" => u[1] = "receiver"
BY UserOpsAssumption DEF TypeOK, OpOK, AcceptFlag

(* Replacing one call's state. *)
LEMMA OpUpdate ==
    ASSUME OpOK, NEW u \in UserOps, NEW pc \in OpState,
           NEW held \in SUBSET RecordOf(u[1]),
           pc \in {"rename", "unlink"} => u[1] = "receiver",
           op' = [op EXCEPT ![u] = [pc |-> pc, held |-> held]],
           asked' \subseteq UserOps
    PROVE  OpOK'
BY DEF OpOK

LEMMA OpStepTo ==
    ASSUME OpOK, NEW u \in UserOps, NEW pc \in OpState,
           pc \in {"rename", "unlink"} => u[1] = "receiver",
           op' = [op EXCEPT ![u].pc = pc],
           asked' \subseteq UserOps
    PROVE  OpOK'
BY DEF OpOK

LEMMA OpEnds ==
    ASSUME OpOK, NEW u \in UserOps, op' = [op EXCEPT ![u] = NoOp],
           asked' \subseteq UserOps
    PROVE  OpOK'
<1>1. "idle" \in OpState /\ {} \in SUBSET RecordOf(u[1])
  BY DEF OpState
<1>2. op' = [op EXCEPT ![u] = [pc |-> "idle", held |-> {}]]
  BY DEF NoOp
<1> QED BY <1>1, <1>2, OpUpdate

LEMMA OpSends ==
    ASSUME OpOK, NEW u \in UserOps, op' = [op EXCEPT ![u] = Sending],
           asked' \subseteq UserOps
    PROVE  OpOK'
<1>1. "send" \in OpState /\ {} \in SUBSET RecordOf(u[1])
  BY DEF OpState
<1>2. op' = [op EXCEPT ![u] = [pc |-> "send", held |-> {}]]
  BY DEF Sending
<1> QED BY <1>1, <1>2, OpUpdate

LEMMA TypeOpLoad ==
    ASSUME TypeOK, NEW u \in UserOps, OpLoad(u)
    PROVE  TypeOK'
<1> DEFINE to == IF AcceptFlag(u[2]) /\ Size = 0 THEN "rename"
                 ELSE IF u[2] = "decline" /\ ~AcceptFlag(u[2]) THEN "unlink"
                 ELSE "persist"
           loaded == IF u[2] = "text" THEN rec[u[1]]
                     ELSE {r \in rec[u[1]] : Allowed(u[2], r)}
<1>1. to \in OpState /\ (to \in {"rename", "unlink"} => u[1] = "receiver")
  BY OpFields DEF OpState
<1>2. loaded \in SUBSET RecordOf(u[1])
  BY OpFields, EntryFields
<1>3. op' = [op EXCEPT ![u] = [pc |-> to, held |-> loaded]]
  BY DEF OpLoad
<1>4. asked' \subseteq UserOps
  BY DEF OpLoad, TypeOK, OpOK
<1> HIDE DEF to, loaded
<1>5. OpOK'
  BY <1>1, <1>2, <1>3, <1>4, OpUpdate DEF TypeOK
<1> QED BY <1>5 DEF OpLoad, TypeOK, RecOK, FilesOK, ThreadOK, ListenerOK

LEMMA TypeOpRename ==
    ASSUME TypeOK, NEW u \in UserOps, OpRename(u)
    PROVE  TypeOK'
<1>1. u[1] = "receiver"
  BY DEF OpRename, TypeOK, OpOK
<1>2. PICK r \in op[u].held :
         IF file[r.path] = {}
         THEN op' = [op EXCEPT ![u] = NoOp] /\ UNCHANGED file
         ELSE /\ file' = Renamed(r.path)
              /\ op' = [op EXCEPT ![u] =
                          [pc |-> "persist",
                           held |-> {[state |-> "Complete", path |-> "final"]}]]
  BY DEF OpRename
<1>3. r \in RecordOf("receiver") /\ r.path \in {"part", "final"}
  BY <1>1, OpFields, ReceiverPaths
<1>4. FilesOK'
  <2>1. CASE UNCHANGED file
    BY <2>1 DEF OpRename, TypeOK, FilesOK
  <2>2. CASE file' = Renamed(r.path)
    BY <1>3, <2>2 DEF OpRename, Renamed, TypeOK, FilesOK
  <2> QED BY <1>2, <2>1, <2>2
<1>5. {[state |-> "Complete", path |-> "final"]} \in SUBSET RecordOf(u[1])
  BY <1>1 DEF RecordOf, RecordPaths, TransferState
<1>6. OpOK'
  BY <1>2, <1>5, OpUpdate, OpEnds DEF OpRename, TypeOK, OpOK, OpState
<1> QED BY <1>4, <1>6 DEF OpRename, TypeOK, RecOK, ThreadOK, ListenerOK

LEMMA TypeOpTruncate ==
    ASSUME TypeOK, NEW u \in UserOps, OpTruncate(u)
    PROVE  TypeOK'
<1>1. RecOK'
  BY OpFields, SaveType DEF OpTruncate
<1>2. OpOK'
  BY OpStepTo DEF OpTruncate, TypeOK, OpOK, OpState
<1> QED BY <1>1, <1>2 DEF OpTruncate, TypeOK, FilesOK, ThreadOK, ListenerOK

LEMMA TypeOpPersist ==
    ASSUME TypeOK, NEW u \in UserOps, OpPersist(u)
    PROVE  TypeOK'
<1>1. Decision(u[2])[1] \in TransferState
  BY DEF Decision, TransferState
<1>2. RecOK'
  <2>1. WithState(op[u].held, Decision(u[2])[1]) \in SUBSET RecordOf(u[1])
    BY <1>1, OpFields, WithStateType
  <2>2. PICK S \in SUBSET RecordOf(u[1]) : Filled(u[1], op[u].pc, S)
    BY <2>1, OpFields DEF OpPersist
  <2> QED BY <2>2, OpFields, SaveType
<1>3. OpOK'
  <2>1. asked' \subseteq UserOps
    BY DEF OpPersist, TypeOK, OpOK
  <2>2. \/ op' = [op EXCEPT ![u] = NoOp]
        \/ op' = [op EXCEPT ![u] = Sending]
        \/ u[1] = "receiver" /\ op' = [op EXCEPT ![u].pc = "unlink"]
    BY DEF OpPersist
  <2> QED BY <2>1, <2>2, OpStepTo, OpEnds, OpSends DEF TypeOK, OpState
<1> QED BY <1>2, <1>3 DEF OpPersist, TypeOK, FilesOK, ThreadOK, ListenerOK

LEMMA TypeOpUnlink ==
    ASSUME TypeOK, NEW u \in UserOps, OpUnlink(u)
    PROVE  TypeOK'
<1>1. FilesOK'
  BY DEF OpUnlink, TypeOK, FilesOK
<1>2. OpOK'
  <2>1. asked' \subseteq UserOps
    BY DEF OpUnlink, TypeOK, OpOK
  <2>2. \/ op' = [op EXCEPT ![u] = Sending]
        \/ op' = [op EXCEPT ![u].pc = "persist"]
    BY DEF OpUnlink
  <2> QED BY <2>1, <2>2, OpStepTo, OpSends DEF TypeOK, OpState
<1> QED BY <1>1, <1>2 DEF OpUnlink, TypeOK, RecOK, ThreadOK, ListenerOK

LEMMA TypeOpSend ==
    ASSUME TypeOK, NEW u \in UserOps, OpSend(u)
    PROVE  TypeOK'
<1>1. Receipt(Decision(u[2])[2]) \in Frame
  BY DEF Receipt, Decision, Frame, ReceiptState
<1>2. Other(u[1]) \in Device
  BY DEF Other, Device
<1>3. ListenerOK'
  BY <1>1, <1>2, DeliverType DEF OpSend, TypeOK, Receipt
<1>4. OpOK'
  BY OpEnds DEF OpSend, TypeOK, OpOK
<1> QED BY <1>3, <1>4 DEF OpSend, TypeOK, RecOK, FilesOK, ThreadOK

LEMMA TypeRefuseOp ==
    ASSUME TypeOK, NEW u \in UserOps, RefuseOp(u)
    PROVE  TypeOK'
<1>1. OpOK'
  BY OpEnds DEF RefuseOp, TypeOK, OpOK
<1> QED BY <1>1 DEF RefuseOp, TypeOK, RecOK, FilesOK, ThreadOK, ListenerOK

LEMMA TypePeerText ==
    ASSUME TypeOK, NEW d \in Device, PeerText(d)
    PROVE  TypeOK'
<1>1. Text \in Frame BY DEF Text, Frame
<1>2. ListenerOK'
  BY <1>1, DeliverType DEF PeerText, Sent, TypeOK, Text
<1>3. OpOK'
  BY OpStepTo DEF PeerText, TypeOK, OpOK, OpState
<1> QED BY <1>2, <1>3 DEF PeerText, TypeOK, RecOK, FilesOK, ThreadOK

LEMMA TypeEditSource == TypeOK /\ EditSource => TypeOK'
<1> SUFFICES ASSUME TypeOK, EditSource PROVE TypeOK' OBVIOUS
<1>1. PICK n \in 0..Size + 1 : source' = Edited(n) BY DEF EditSource
<1>2. n \in Nat BY SizeAssumption
<1>3. Edited(n) \in Seq(Nat) BY <1>2, IsASeq DEF Edited
<1> QED BY <1>1, <1>3 DEF EditSource, TypeOK, RecOK, FilesOK, ThreadOK, ListenerOK, OpOK

LEMMA TypeRestart ==
    ASSUME TypeOK, NEW d \in Device, Restart(d)
    PROVE  TypeOK'
<1>1. ListenerOK'
  <2>1. EntryOK(d, Idle) BY DEF EntryOK, Idle, ListenerState, ForChunk
  <2> QED BY <2>1 DEF Restart, TypeOK, ListenerOK, EntryOK
<1>2. OpOK'
  BY DEF Restart, TypeOK, OpOK, NoOp, OpState
<1>3. ThreadOK'
  BY OverType DEF Restart, TypeOK, ThreadOK, ThreadState
<1> QED BY <1>1, <1>2, <1>3 DEF Restart, TypeOK, RecOK, FilesOK

LEMMA TypeNext == TypeOK /\ [Next]_vars => TypeOK'
<1> SUFFICES ASSUME TypeOK, [Next]_vars PROVE TypeOK' OBVIOUS
<1>1. CASE UNCHANGED vars
  BY <1>1 DEF vars, TypeOK, RecOK, FilesOK, ThreadOK, ListenerOK, OpOK
<1>2. CASE Next
  BY <1>2, TypeThread, TypeRefuseThread, TypeListener, TypeReply, TypePeerText, TypeOpLoad,
     TypeOpRename, TypeRefuseOp, TypeOpTruncate, TypeOpPersist, TypeOpUnlink, TypeOpSend, TypeEditSource, TypeRestart
     DEF Next, OpStep
<1> QED BY <1>1, <1>2

(* Every reachable state is well formed: records name the file that belongs *)
(* to their device, a listener in the middle of a chunk holds one chunk.    *)
THEOREM TypeCorrect == Spec => []TypeOK
BY TypeInit, TypeNext, PTL DEF Spec

-----------------------------------------------------------------------------
(* The integrity of the received copy *)

(* An empty file has no chunks and is its own only content. *)
LEMMA EmptyFile ==
    Size = 0 => Chunks = 0 /\ Orig = <<>>
<1> SUFFICES ASSUME Size = 0 PROVE Chunks = 0 /\ Orig = <<>> OBVIOUS
<1>1. Chunks = 0
  <2> DEFINE k == ChunkSize
             q == (k - 1) \div k
  <2>1. k \in Nat /\ k > 0 BY ChunkSizeAssumption
  <2>2. Size + k - 1 = k - 1 BY <2>1
  <2> HIDE DEF k
  <2>3. q \in Int /\ k * q <= k - 1 /\ k - 1 < k * q + k
    BY <2>1
  <2> HIDE DEF q
  <2>4. ~(q >= 1) /\ ~(q <= -1)
    BY <2>1, <2>3
  <2> QED BY <2>2, <2>3, <2>4 DEF Chunks, k, q
<1>2. Orig = <<>>
  <2>1. Orig \in Seq(Nat) /\ Len(Orig) = 0
    BY IsASeq DEF Orig
  <2> QED BY <2>1, EmptySeq
<1> QED BY <1>1, <1>2

LEMMA CopyInit == Init => CopyInv
<1> SUFFICES ASSUME Init PROVE CopyInv OBVIOUS
<1>1. OpsSafe BY DEF Init, NoOp, OpsSafe, OpSafe
<1>2. NoChunkOfEmpty BY DEF Init, NoChunkOfEmpty, Over
<1>3. ListenerSafe BY DEF Init, Idle, ListenerSafe, Device
<1> QED BY <1>1, <1>2, <1>3
        DEF Init, CopyInv, IntactCopy, RecordsSettled, Device

-----------------------------------------------------------------------------
(* Steps that leave the receiver's record, files and calls alone. *)

(* A frame handed to the receiver: only an outcome of a call, an offer, a   *)
(* text or, for a file with data, a chunk.                                  *)
LEMMA DeliverSafe ==
    ASSUME TypeOK, ListenerSafe, NEW d \in Device, NEW f \in Frame,
           Sent(d, f),
           d = "receiver" => /\ f.kind = "receipt" => f.state = "Cancelled"
                             /\ f.kind = "chunk" => Size # 0,
           UNCHANGED file
    PROVE  ListenerSafe'
<1>1. CASE UNCHANGED listener
  BY <1>1 DEF ListenerSafe
<1>2. CASE Deliver(d, f)
  <2>1. listener' = [listener EXCEPT ![d] =
                       [pc |-> "handle", frame |-> {f}, held |-> {}]]
    BY <1>2 DEF Deliver, Taken
  <2>2. CASE d = "receiver"
    <3>1. listener'["receiver"] = [pc |-> "handle", frame |-> {f}, held |-> {}]
      BY <2>1, <2>2 DEF TypeOK, ListenerOK, Device
    <3> QED BY <2>2, <3>1 DEF ListenerSafe
  <2>3. CASE d # "receiver"
    <3>1. listener'["receiver"] = listener["receiver"]
      BY <2>1, <2>3 DEF TypeOK, ListenerOK, Device
    <3> QED BY <3>1 DEF ListenerSafe
  <2> QED BY <2>2, <2>3
<1> QED BY <1>1, <1>2 DEF Sent

LEMMA CopyThread == TypeOK /\ CopyInv /\ Thread => CopyInv'
<1> SUFFICES ASSUME TypeOK, CopyInv, Thread PROVE CopyInv' OBVIOUS
<1> USE DEF CopyInv
<1>1. UNCHANGED <<file, op>>
  BY DEF Thread, SendStart, SendOffer, Poll, ReadChunk, SendChunk
<1>2. IntactCopy' /\ OpsSafe'
  BY <1>1 DEF IntactCopy, OpsSafe
<1>3. RecordsSettled'
  <2>1. rec'["receiver"] = rec["receiver"]
    BY DEF Thread, SendStart, SendOffer, Poll, ReadChunk, SendChunk,
           TypeOK, RecOK, Device
  <2> QED BY <2>1 DEF RecordsSettled
<1>4. NoChunkOfEmpty'
  <2> SUFFICES ASSUME Size = 0 PROVE thread'.next = 0 /\ thread'.pc # "chunk"
    BY <1>1 DEF NoChunkOfEmpty
  <2>1. thread.next = 0 /\ thread.next = Chunks /\ thread.pc # "chunk"
    BY EmptyFile DEF NoChunkOfEmpty
  <2> QED BY <2>1 DEF Thread, SendStart, SendOffer, Poll, ReadChunk, SendChunk,
                      Over, TypeOK, ThreadOK
<1>5. ListenerSafe'
  <2>1. CASE SendOffer
    <3>1. Offer \in Frame /\ Offer.kind = "offer" BY DEF Offer, Frame
    <3>2. Sent("receiver", Offer) BY <2>1 DEF SendOffer
    <3> QED BY <1>1, <3>1, <3>2, DeliverSafe DEF Device
  <2>2. CASE SendChunk
    <3> DEFINE c == Chunk(thread.next, thread.buf)
    <3>1. c \in Frame /\ c.kind = "chunk"
      BY DEF Chunk, Frame, TypeOK, ThreadOK
    <3>2. Sent("receiver", c) BY <2>2 DEF SendChunk
    <3>3. Size # 0 BY <2>2 DEF SendChunk, NoChunkOfEmpty
    <3> HIDE DEF c
    <3> QED BY <1>1, <3>1, <3>2, <3>3, DeliverSafe DEF Device
  <2>3. CASE UNCHANGED listener
    BY <1>1, <2>3 DEF ListenerSafe
  <2> QED BY <2>1, <2>2, <2>3 DEF Thread, SendStart, Poll, ReadChunk
<1> QED BY <1>2, <1>3, <1>4, <1>5

LEMMA CopyRefuseThread == TypeOK /\ CopyInv /\ RefuseThread => CopyInv'
<1> SUFFICES ASSUME TypeOK, CopyInv, RefuseThread PROVE CopyInv' OBVIOUS
<1>1. NoChunkOfEmpty'
  BY DEF RefuseThread, CopyInv, NoChunkOfEmpty, Over
<1> QED BY <1>1 DEF RefuseThread, CopyInv, IntactCopy, RecordsSettled, ListenerSafe, OpsSafe

(* A call goes on to a safe state. *)
LEMMA OpEntry ==
    ASSUME TypeOK, CopyInv, NEW u \in UserOps, NEW o, OpSafe(u, o),
           op' = [op EXCEPT ![u] = o]
    PROVE  OpsSafe'
BY DEF TypeOK, OpOK, CopyInv, OpsSafe

LEMMA IdleOp == \A u \in UserOps : OpSafe(u, NoOp)
BY DEF OpSafe, NoOp

LEMMA SendingOp ==
    ASSUME NEW u \in UserOps, u[2] \in {"accept", "decline", "cancel"}
    PROVE  OpSafe(u, Sending)
BY DEF OpSafe, Sending

LEMMA OpAt ==
    ASSUME TypeOK, NEW u \in UserOps, NEW pc
    PROVE  /\ [op[u] EXCEPT !.pc = pc].pc = pc
           /\ [op[u] EXCEPT !.pc = pc].held = op[u].held
BY DEF TypeOK, OpOK

LEMMA CopyPeerText ==
    ASSUME TypeOK, CopyInv, NEW d \in Device, PeerText(d)
    PROVE  CopyInv'
<1>1. Text \in Frame /\ Text.kind = "text" BY DEF Text, Frame
<1>2. Sent(d, Text) BY DEF PeerText, Sent
<1>3. ListenerSafe' BY <1>1, <1>2, DeliverSafe DEF PeerText, CopyInv
<1>4. OpsSafe'
  <2>1. OpSafe(<<d, "peerText">>, [op[<<d, "peerText">>] EXCEPT !.pc = "sent"])
    BY OpAt DEF PeerText, NoOp, OpSafe
  <2> QED BY <2>1, OpEntry DEF PeerText
<1> QED BY <1>3, <1>4 DEF PeerText, CopyInv, IntactCopy, RecordsSettled, NoChunkOfEmpty

LEMMA CopyEditSource == CopyInv /\ EditSource => CopyInv'
BY DEF EditSource, CopyInv, IntactCopy, RecordsSettled, ListenerSafe, OpsSafe,
       NoChunkOfEmpty

-----------------------------------------------------------------------------
(* The receiver's listener. *)

(* The listener's next entry is given; files and record are as they were.   *)
LEMMA ReceiverEntry ==
    ASSUME TypeOK, NEW e,
           listener' = [listener EXCEPT !["receiver"] = e]
    PROVE  listener'["receiver"] = e
BY DEF TypeOK, ListenerOK, Device

LEMMA CopyHandleOffer == TypeOK /\ CopyInv /\ HandleOffer => CopyInv'
<1> SUFFICES ASSUME TypeOK, CopyInv, HandleOffer PROVE CopyInv' OBVIOUS
<1> USE DEF CopyInv, HandleOffer
<1>1. listener'["receiver"] = Idle BY ReceiverEntry
<1>2. ListenerSafe' BY <1>1 DEF ListenerSafe, Idle
<1>3. RecordsSettled'
  BY DEF RecordsSettled, Settled, TypeOK, RecOK, Device
<1>4. file'.part = {<<>>} /\ file'.final = file.final
  BY DEF TypeOK, FilesOK
<1> QED BY <1>2, <1>3, <1>4 DEF IntactCopy, OpsSafe, NoChunkOfEmpty

LEMMA CopyLoadForChunk == TypeOK /\ CopyInv /\ LoadForChunk => CopyInv'
<1> SUFFICES ASSUME TypeOK, CopyInv, LoadForChunk PROVE CopyInv' OBVIOUS
<1> DEFINE L == listener["receiver"]
           running == {r \in rec["receiver"] : r.state = "Transferring"}
           e == [L EXCEPT !.pc = "write", !.held = running]
<1>1. \/ listener'["receiver"] = Idle
      \/ listener'["receiver"] = e
  BY ReceiverEntry DEF LoadForChunk
<1>2. L \in [pc : ListenerState, frame : SUBSET Frame, held : SUBSET RecordOf("receiver")]
  BY DEF TypeOK, ListenerOK, EntryOK, Device
<1>3. \A r \in running : Settled(r) /\ r.path = "part"
  BY ReceiverPaths DEF CopyInv, RecordsSettled, Settled, TypeOK, RecOK, Device
<1>4. e.pc = "write" /\ e.held = running /\ e.frame = L.frame
  BY <1>2
<1> HIDE DEF e, running
<1>5. ListenerSafe'
  BY <1>1, <1>3, <1>4 DEF ListenerSafe, CopyInv, Idle
<1> QED BY <1>5 DEF LoadForChunk, CopyInv, IntactCopy, RecordsSettled, OpsSafe,
                    NoChunkOfEmpty

LEMMA CopyWriteChunk == TypeOK /\ CopyInv /\ WriteChunk => CopyInv'
<1> SUFFICES ASSUME TypeOK, CopyInv, WriteChunk PROVE CopyInv' OBVIOUS
<1> DEFINE L == listener["receiver"]
           e == [L EXCEPT !.pc = "verify"]
<1>1. L \in [pc : ListenerState, frame : SUBSET Frame, held : SUBSET RecordOf("receiver")]
      /\ \A f \in L.frame : f.kind = "chunk"
  BY DEF TypeOK, ListenerOK, EntryOK, Device, WriteChunk, At, ForChunk
<1>2. Size # 0
  BY <1>1 DEF WriteChunk, CopyInv, ListenerSafe
<1>3. \A r \in L.held : r.path = "part"
  BY DEF WriteChunk, At, CopyInv, ListenerSafe
<1>4. file'.final = file.final
  BY <1>3 DEF WriteChunk, TypeOK, FilesOK
<1>5. \/ listener' = [listener EXCEPT !["receiver"] = Idle]
      \/ listener' = [listener EXCEPT !["receiver"] = e]
  BY DEF WriteChunk
<1>6. e.pc = "verify" /\ e.held = L.held /\ e.frame = L.frame
  BY <1>1
<1> HIDE DEF e
<1>7. listener'["receiver"] = Idle \/ listener'["receiver"] = e
  BY <1>5, ReceiverEntry
<1>8. ListenerSafe'
  BY <1>3, <1>6, <1>7 DEF ListenerSafe, CopyInv, Idle
<1> QED BY <1>2, <1>4, <1>8 DEF WriteChunk, CopyInv, IntactCopy, RecordsSettled,
                                OpsSafe, NoChunkOfEmpty

LEMMA CopyVerifyCopy == TypeOK /\ CopyInv /\ VerifyCopy => CopyInv'
<1> SUFFICES ASSUME TypeOK, CopyInv, VerifyCopy PROVE CopyInv' OBVIOUS
<1> DEFINE L == listener["receiver"]
           failed == WithState(L.held, "Failed")
           e == [L EXCEPT !.pc = "rename"]
           g == [L EXCEPT !.pc = "record", !.held = failed]
<1>1. L \in [pc : ListenerState, frame : SUBSET Frame, held : SUBSET RecordOf("receiver")]
  BY DEF TypeOK, ListenerOK, EntryOK, Device
<1>2. \A r \in L.held : r.path = "part"
  BY DEF VerifyCopy, At, CopyInv, ListenerSafe
<1>3. \A r \in failed : r.path = "part"
  BY <1>1, <1>2 DEF WithState, RecordOf
<1>4. PICK r \in L.held :
        listener' = [listener EXCEPT !["receiver"] = IF Matches(file[r.path]) THEN e ELSE g]
  BY DEF VerifyCopy
<1>5. e.pc = "rename" /\ e.held = L.held /\ e.frame = L.frame
  BY <1>1
<1>6. g.pc = "record" /\ g.held = failed /\ g.frame = L.frame
  BY <1>1
<1> HIDE DEF e, g, failed
<1>7. \/ listener'["receiver"] = e /\ Matches(file[r.path])
      \/ listener'["receiver"] = g
  BY <1>4, ReceiverEntry
<1>8. ListenerSafe'
  <2>1. CASE listener'["receiver"] = g
    BY <1>3, <1>6, <2>1 DEF ListenerSafe, CopyInv, Settled
  <2>2. CASE listener'["receiver"] = e /\ Matches(file[r.path])
    <3>1. file' = file /\ file.part = {Orig}
      BY <1>2, <2>2 DEF Matches, VerifyCopy
    <3> QED BY <1>2, <1>5, <2>2, <3>1 DEF ListenerSafe, CopyInv
  <2> QED BY <1>7, <2>1, <2>2
<1> QED BY <1>8 DEF VerifyCopy, CopyInv, IntactCopy, RecordsSettled, OpsSafe,
                    NoChunkOfEmpty

LEMMA CopyRenameCopy == TypeOK /\ CopyInv /\ RenameCopy => CopyInv'
<1> SUFFICES ASSUME TypeOK, CopyInv, RenameCopy PROVE CopyInv' OBVIOUS
<1> DEFINE L == listener["receiver"]
           done == [state |-> "Complete", path |-> "final"]
           e == [L EXCEPT !.pc = "record", !.held = {done}]
<1>1. L \in [pc : ListenerState, frame : SUBSET Frame, held : SUBSET RecordOf("receiver")]
  BY DEF TypeOK, ListenerOK, EntryOK, Device
<1>2. \A r \in L.held : r.path = "part"
  BY DEF RenameCopy, At, CopyInv, ListenerSafe
<1>3. file.part \subseteq {Orig}
  BY DEF RenameCopy, At, CopyInv, ListenerSafe
<1>4. \/ UNCHANGED file
      \/ file' = [file EXCEPT !["part"] = {}, !.final = file["part"]]
  BY <1>2 DEF RenameCopy, Renamed
<1>5. IntactCopy'
  BY <1>3, <1>4 DEF CopyInv, IntactCopy, TypeOK, FilesOK
<1>6. NoChunkOfEmpty'
  BY <1>4 DEF RenameCopy, CopyInv, NoChunkOfEmpty, TypeOK, FilesOK
<1>7. \/ listener' = [listener EXCEPT !["receiver"] = Idle]
      \/ listener' = [listener EXCEPT !["receiver"] = e]
  BY DEF RenameCopy
<1>8. e.pc = "record" /\ e.held = {done} /\ e.frame = L.frame
  BY <1>1
<1> HIDE DEF e
<1>9. listener'["receiver"] = Idle \/ listener'["receiver"] = e
  BY <1>7, ReceiverEntry
<1>10. ListenerSafe'
  BY <1>8, <1>9 DEF ListenerSafe, CopyInv, Idle, Settled
<1> QED BY <1>5, <1>6, <1>10 DEF RenameCopy, CopyInv, RecordsSettled, OpsSafe

-----------------------------------------------------------------------------
(* Receipts and texts, on either device.  What the sender's listener does   *)
(* concerns none of the conjuncts.                                          *)

LEMMA SenderEntry ==
    ASSUME TypeOK, NEW d \in Device, d # "receiver", NEW e,
           listener' = [listener EXCEPT ![d] = e]
    PROVE  listener'["receiver"] = listener["receiver"]
BY DEF TypeOK, ListenerOK, Device

LEMMA ListenerFields ==
    ASSUME TypeOK, NEW d \in Device
    PROVE  /\ listener[d] \in [pc : ListenerState, frame : SUBSET Frame,
                               held : SUBSET RecordOf(d)]
           /\ \A f, g \in listener[d].frame : f = g
BY DEF TypeOK, ListenerOK, EntryOK

(* The listener goes on to store the records held. *)
LEMMA ToRecord ==
    ASSUME TypeOK, CopyInv, NEW d \in Device, NEW held,
           d = "receiver" => \A r \in held : Settled(r),
           listener' = [listener EXCEPT ![d] =
                          [listener[d] EXCEPT !.pc = "record", !.held = held]],
           UNCHANGED file
    PROVE  ListenerSafe'
<1> DEFINE e == [listener[d] EXCEPT !.pc = "record", !.held = held]
<1>1. e.pc = "record" /\ e.held = held /\ e.frame = listener[d].frame
  BY ListenerFields
<1>2. listener' = [listener EXCEPT ![d] = e] OBVIOUS
<1> HIDE DEF e
<1>3. CASE d = "receiver"
  <2>1. listener'["receiver"] = e BY <1>2, <1>3, ReceiverEntry
  <2> QED BY <1>1, <1>3, <2>1 DEF ListenerSafe, CopyInv
<1>4. CASE d # "receiver"
  <2>1. listener'["receiver"] = listener["receiver"] BY <1>2, <1>4, SenderEntry
  <2> QED BY <2>1 DEF ListenerSafe, CopyInv
<1> QED BY <1>3, <1>4

(* The listener is done, or past the point where it touches a record.       *)
LEMMA ToEnd ==
    ASSUME TypeOK, CopyInv, NEW d \in Device,
           \/ listener' = [listener EXCEPT ![d] = Idle]
           \/ \E pc \in {"fill", "unlink"} :
                listener' = [listener EXCEPT ![d] = [listener[d] EXCEPT !.pc = pc]]
           \/ listener' = [listener EXCEPT ![d] =
                             [listener[d] EXCEPT !.pc = "reply", !.held = {}]],
           file'.part = file.part \/ file'.part = {}
    PROVE  ListenerSafe'
<1>1. PICK e : /\ listener' = [listener EXCEPT ![d] = e]
               /\ \/ e = Idle
                  \/ /\ e.pc \in {"fill", "unlink", "reply"}
                     /\ e.frame = listener[d].frame
                     /\ e.held \subseteq listener[d].held
  <2> DEFINE L == listener[d]
  <2>1. L \in [pc : ListenerState, frame : SUBSET Frame, held : SUBSET RecordOf(d)]
    BY ListenerFields
  <2> HIDE DEF L
  <2>2. \A pc \in {"fill", "unlink"} :
          LET g == [L EXCEPT !.pc = pc] IN g.pc = pc /\ g.frame = L.frame /\ g.held = L.held
    BY <2>1
  <2>3. LET g == [L EXCEPT !.pc = "reply", !.held = {}]
        IN  g.pc = "reply" /\ g.frame = L.frame /\ g.held = {}
    BY <2>1
  <2>4. CASE listener' = [listener EXCEPT ![d] = Idle]
    BY <2>4
  <2>5. CASE \E pc \in {"fill", "unlink"} :
               listener' = [listener EXCEPT ![d] = [L EXCEPT !.pc = pc]]
    BY <2>2, <2>5 DEF L
  <2>6. CASE listener' = [listener EXCEPT ![d] = [L EXCEPT !.pc = "reply", !.held = {}]]
    BY <2>3, <2>6 DEF L
  <2> QED BY <2>4, <2>5, <2>6 DEF L
<1>2. CASE d = "receiver"
  <2>1. listener'["receiver"] = e BY <1>1, <1>2, ReceiverEntry
  <2> QED BY <1>1, <1>2, <2>1 DEF ListenerSafe, CopyInv, Idle
<1>3. CASE d # "receiver"
  <2>1. listener'["receiver"] = listener["receiver"] BY <1>1, <1>3, SenderEntry
  <2> QED BY <2>1 DEF ListenerSafe, CopyInv
<1> QED BY <1>2, <1>3

LEMMA CopyLoadForReceipt ==
    ASSUME TypeOK, CopyInv, NEW d \in Device, LoadForReceipt(d)
    PROVE  CopyInv'
<1>1. PICK f \in listener[d].frame :
        /\ f.kind = "receipt"
        /\ \/ listener' = [listener EXCEPT ![d] = Idle]
           \/ listener' = [listener EXCEPT ![d] =
                [listener[d] EXCEPT !.pc = "record",
                             !.held = WithState(rec[d], ReceiptEffect(f.state))]]
  BY DEF LoadForReceipt
<1> DEFINE held == WithState(rec[d], ReceiptEffect(f.state))
<1>2. ASSUME d = "receiver" PROVE \A r \in held : Settled(r)
  <2>1. f.state = "Cancelled"
    BY <1>1, <1>2 DEF CopyInv, ListenerSafe
  <2>2. held = WithState(rec[d], "Cancelled")
    BY <2>1 DEF ReceiptEffect
  <2>3. rec[d] \subseteq RecordOf(d)
    BY DEF TypeOK, RecOK
  <2> QED BY <2>2, <2>3 DEF WithState, Settled, RecordOf
<1>3. UNCHANGED <<rec, file, thread, op>>
  BY DEF LoadForReceipt
<1> HIDE DEF held
<1>4. ListenerSafe'
  <2>1. CASE listener' = [listener EXCEPT ![d] = Idle]
    BY <1>3, <2>1, ToEnd
  <2>2. CASE listener' = [listener EXCEPT ![d] =
                [listener[d] EXCEPT !.pc = "record", !.held = held]]
    BY <1>2, <1>3, <2>2, ToRecord
  <2> QED BY <1>1, <2>1, <2>2 DEF held
<1> QED BY <1>3, <1>4 DEF CopyInv, IntactCopy, RecordsSettled, OpsSafe, NoChunkOfEmpty

LEMMA CopyLoadForText ==
    ASSUME TypeOK, CopyInv, NEW d \in Device, LoadForText(d)
    PROVE  CopyInv'
<1>1. d = "receiver" => \A r \in rec[d] : Settled(r)
  BY DEF CopyInv, RecordsSettled
<1>2. ListenerSafe'
  BY <1>1, ToRecord DEF LoadForText
<1> QED BY <1>2 DEF LoadForText, CopyInv, IntactCopy, RecordsSettled, OpsSafe,
                    NoChunkOfEmpty

LEMMA CopyLoadForAck ==
    ASSUME TypeOK, CopyInv, NEW d \in Device, LoadForAck(d)
    PROVE  CopyInv'
<1>1. d = "receiver" => \A r \in rec[d] : Settled(r)
  BY DEF CopyInv, RecordsSettled
<1>2. ListenerSafe'
  <2>1. \/ listener' = [listener EXCEPT ![d] = Idle]
        \/ listener' = [listener EXCEPT ![d] =
                          [listener[d] EXCEPT !.pc = "record", !.held = rec[d]]]
    BY DEF LoadForAck
  <2>2. UNCHANGED file BY DEF LoadForAck
  <2> QED BY <1>1, <2>1, <2>2, ToRecord, ToEnd
<1> QED BY <1>2 DEF LoadForAck, CopyInv, IntactCopy, RecordsSettled, OpsSafe,
                    NoChunkOfEmpty

(* Both halves of a save that is not atomic. *)
LEMMA SaveSettled ==
    ASSUME TypeOK, CopyInv, NEW d \in Device, NEW S, NEW pc,
           Truncated(d) \/ Filled(d, pc, S),
           d = "receiver" => \A r \in S : Settled(r)
    PROVE  RecordsSettled'
<1>1. PICK T \in {{}, S} : rec' = [rec EXCEPT ![d] = T]
  BY DEF Truncated, Filled
<1>2. CASE d = "receiver"
  <2>1. rec'["receiver"] = T
    BY <1>1, <1>2 DEF TypeOK, RecOK, Device
  <2> QED BY <1>2, <2>1 DEF RecordsSettled
<1>3. CASE d # "receiver"
  <2>1. rec'["receiver"] = rec["receiver"]
    BY <1>1, <1>3 DEF TypeOK, RecOK, Device
  <2> QED BY <2>1 DEF CopyInv, RecordsSettled
<1> QED BY <1>2, <1>3

LEMMA CopyTruncate ==
    ASSUME TypeOK, CopyInv, NEW d \in Device, Truncate(d)
    PROVE  CopyInv'
<1>1. RecordsSettled'
  <2>1. rec'["receiver"] = rec["receiver"] \/ rec'["receiver"] = {}
    BY DEF Truncate, Truncated, TypeOK, RecOK, Device
  <2> QED BY <2>1 DEF CopyInv, RecordsSettled
<1>2. listener' = [listener EXCEPT ![d] = [listener[d] EXCEPT !.pc = "fill"]]
      /\ UNCHANGED file
  BY DEF Truncate
<1>3. ListenerSafe'
  BY <1>2, ToEnd
<1> QED BY <1>1, <1>3 DEF Truncate, CopyInv, IntactCopy, OpsSafe, NoChunkOfEmpty

LEMMA CopyWriteRecord ==
    ASSUME TypeOK, CopyInv, NEW d \in Device, WriteRecord(d)
    PROVE  CopyInv'
<1>1. RecordsSettled'
  BY SaveSettled DEF WriteRecord, CopyInv, ListenerSafe
<1>2. ListenerSafe'
  BY ToEnd DEF WriteRecord
<1> QED BY <1>1, <1>2 DEF WriteRecord, CopyInv, IntactCopy, OpsSafe, NoChunkOfEmpty

(* Removing a file never makes a copy. *)
LEMMA Removal ==
    ASSUME TypeOK, CopyInv, NEW p \in {"part", "final"},
           file' = [file EXCEPT ![p] = {}]
    PROVE  /\ IntactCopy'
           /\ file'.part = file.part \/ file'.part = {}
BY DEF TypeOK, FilesOK, CopyInv, IntactCopy

LEMMA CopyUnlinkAfterReceipt ==
    ASSUME TypeOK, CopyInv, NEW d \in Device, UnlinkAfterReceipt(d)
    PROVE  CopyInv'
<1>1. PICK r \in listener[d].held :
        \/ UNCHANGED file
        \/ r.path # "source" /\ file' = [file EXCEPT ![r.path] = {}]
  BY DEF UnlinkAfterReceipt
<1>2. r.path \in {"source", "part", "final"}
  BY ListenerFields DEF RecordOf, RecordPaths
<1>3. IntactCopy' /\ (file'.part = file.part \/ file'.part = {})
  BY <1>1, <1>2, Removal DEF CopyInv, IntactCopy
<1>4. ListenerSafe'
  BY <1>3, ToEnd DEF UnlinkAfterReceipt
<1> QED BY <1>3, <1>4 DEF UnlinkAfterReceipt, CopyInv, RecordsSettled, OpsSafe,
                          NoChunkOfEmpty

LEMMA CopyReply ==
    ASSUME TypeOK, CopyInv, NEW d \in Device, Reply(d) \/ RefuseReply(d)
    PROVE  CopyInv'
<1>1. \/ listener'["receiver"] \in {Idle, listener["receiver"]}
      \/ /\ d = "sender"
         /\ \E f \in listener[d].frame : listener'["receiver"] = Taken(ReplyTo(f))
  BY DEF Reply, RefuseReply, TypeOK, ListenerOK, Device, Other
<1>2. ListenerSafe'
  <2>1. CASE listener'["receiver"] \in {Idle, listener["receiver"]}
    BY <2>1 DEF Reply, RefuseReply, CopyInv, ListenerSafe, Idle
  <2>2. CASE d = "sender" /\ \E f \in listener[d].frame :
                                listener'["receiver"] = Taken(ReplyTo(f))
    <3>1. PICK f \in listener[d].frame : listener'["receiver"] = Taken(ReplyTo(f))
      BY <2>2
    <3>2. CASE At(d, "reply")
      BY <2>2, <3>1, <3>2, ReplyFrame DEF ListenerSafe, Taken
    <3> QED BY <3>2 DEF Reply, RefuseReply
  <2> QED BY <1>1, <2>1, <2>2
<1> QED BY <1>2 DEF Reply, RefuseReply, CopyInv, IntactCopy, RecordsSettled, OpsSafe,
                    NoChunkOfEmpty

LEMMA CopyListener ==
    ASSUME TypeOK, CopyInv, NEW d \in Device, Listener(d)
    PROVE  CopyInv'
BY CopyHandleOffer, CopyLoadForChunk, CopyWriteChunk, CopyVerifyCopy,
   CopyRenameCopy, CopyReply, CopyLoadForReceipt, CopyLoadForText, CopyLoadForAck,
   CopyTruncate, CopyWriteRecord, CopyUnlinkAfterReceipt
   DEF Listener

-----------------------------------------------------------------------------
(* The calls from the UI. *)

LEMMA CopyOpLoad ==
    ASSUME TypeOK, CopyInv, NEW u \in UserOps, OpLoad(u)
    PROVE  CopyInv'
<1> DEFINE loaded == IF u[2] = "text" THEN rec[u[1]]
                     ELSE {r \in rec[u[1]] : Allowed(u[2], r)}
           to == IF AcceptFlag(u[2]) /\ Size = 0 THEN "rename"
                 ELSE IF u[2] = "decline" /\ ~AcceptFlag(u[2]) THEN "unlink"
                 ELSE "persist"
           o == [held |-> loaded, pc |-> to]
<1>1. op' = [op EXCEPT ![u] = o] /\ UNCHANGED <<rec, file, thread, listener>>
      /\ (u[2] = "text" \/ loaded # {})
  BY DEF OpLoad
<1>2. u[1] = "receiver" => \A r \in loaded : Settled(r)
  BY DEF CopyInv, RecordsSettled
<1>3. ASSUME u[2] \in {"accept", "decline"} PROVE \A r \in loaded : r.path = "part"
  <2>1. u[1] = "receiver" BY <1>3, UserOpsAssumption
  <2>2. \A r \in loaded : r.state = "Offered" /\ r.path \in {"part", "final"}
    BY <1>3, <2>1, ReceiverPaths DEF Allowed, TypeOK, RecOK, Device
  <2> QED BY <1>2, <2>1, <2>2 DEF Settled
<1>4. u[2] \in {"accept", "decline", "cancel", "text"}
  BY <1>1 DEF Allowed
<1>5. /\ to \in {"rename", "unlink", "persist"}
      /\ to = "rename" => u[2] = "accept" /\ Size = 0
      /\ to = "unlink" => u[2] = "decline"
  BY DEF AcceptFlag
<1>6. o.held = loaded /\ o.pc = to OBVIOUS
<1> HIDE DEF loaded, to, o
<1>7. OpSafe(u, o)
  BY <1>2, <1>3, <1>4, <1>5, <1>6 DEF OpSafe
<1>8. OpsSafe' BY <1>1, <1>7, OpEntry
<1> QED BY <1>1, <1>8 DEF CopyInv, IntactCopy, RecordsSettled, ListenerSafe, NoChunkOfEmpty

LEMMA CopyOpRename ==
    ASSUME TypeOK, CopyInv, NEW u \in UserOps, OpRename(u)
    PROVE  CopyInv'
<1> DEFINE done == [state |-> "Complete", path |-> "final"]
           o == [pc |-> "persist", held |-> {done}]
<1>1. u[2] = "accept" /\ Size = 0 /\ \A r \in op[u].held : r.path = "part"
  BY DEF OpRename, CopyInv, OpsSafe, OpSafe
<1>2. \/ /\ UNCHANGED file
         /\ op' = [op EXCEPT ![u] = NoOp]
      \/ /\ file' = [file EXCEPT !["part"] = {}, !.final = file["part"]]
         /\ op' = [op EXCEPT ![u] = o]
  BY <1>1 DEF OpRename, Renamed
<1>3. IntactCopy' /\ file'.part \subseteq {<<>>}
  BY <1>1, <1>2, EmptyFile DEF CopyInv, IntactCopy, NoChunkOfEmpty, TypeOK, FilesOK
<1>4. OpSafe(u, o)
  BY <1>1 DEF OpSafe, Settled
<1>5. OpsSafe'
  BY <1>2, <1>4, IdleOp, OpEntry
<1>6. ListenerSafe'
  BY <1>1, <1>3, EmptyFile DEF OpRename, CopyInv, ListenerSafe
<1> QED BY <1>3, <1>5, <1>6 DEF OpRename, CopyInv, RecordsSettled, NoChunkOfEmpty

LEMMA CopyOpTruncate ==
    ASSUME TypeOK, CopyInv, NEW u \in UserOps, OpTruncate(u)
    PROVE  CopyInv'
<1>1. RecordsSettled'
  <2>1. rec'["receiver"] = rec["receiver"] \/ rec'["receiver"] = {}
    BY OpFields DEF OpTruncate, Truncated, TypeOK, RecOK, Device
  <2> QED BY <2>1 DEF CopyInv, RecordsSettled
<1>2. OpSafe(u, [op[u] EXCEPT !.pc = "fill"])
  BY OpAt DEF OpTruncate, CopyInv, OpsSafe, OpSafe
<1>3. OpsSafe'
  BY <1>2, OpEntry DEF OpTruncate
<1> QED BY <1>1, <1>3 DEF OpTruncate, CopyInv, IntactCopy, ListenerSafe, NoChunkOfEmpty

LEMMA CopyOpPersist ==
    ASSUME TypeOK, CopyInv, NEW u \in UserOps, OpPersist(u)
    PROVE  CopyInv'
<1>1. OpSafe(u, op[u]) /\ op[u].pc \in {"persist", "fill"}
  BY DEF CopyInv, OpsSafe, OpPersist
<1>2. RecordsSettled'
  <2>1. CASE u[1] # "receiver"
    BY <2>1, OpFields, SaveSettled DEF OpPersist
  <2>2. CASE u[1] = "receiver" /\ u[2] = "text"
    BY <1>1, <2>2, OpFields, SaveSettled DEF OpSafe, OpPersist
  <2>3. CASE u[1] = "receiver" /\ u[2] # "text"
    <3> DEFINE s == Decision(u[2])[1]
    <3>1. Filled(u[1], op[u].pc, WithState(op[u].held, s))
      BY <2>3 DEF OpPersist
    <3>2. \A r \in op[u].held : r.path = "final" => s \in {"Complete", "Cancelled"}
      BY <1>1, <2>3 DEF OpSafe, Decision, AcceptFlag
    <3>3. \A r \in op[u].held : r \in RecordOf("receiver")
      BY <2>3, OpFields
    <3> HIDE DEF s
    <3>4. \A r \in WithState(op[u].held, s) : Settled(r)
      BY <3>2, <3>3 DEF WithState, Settled, RecordOf
    <3> QED BY <3>1, <3>4, OpFields, SaveSettled
  <2> QED BY <2>1, <2>2, <2>3
<1>3. OpsSafe'
  <2>1. CASE u[2] = "text"
    BY <2>1, IdleOp, OpEntry DEF OpPersist
  <2>2. CASE u[2] # "text"
    <3>1. \/ op' = [op EXCEPT ![u] = Sending]
          \/ /\ op' = [op EXCEPT ![u] = [op[u] EXCEPT !.pc = "unlink"]]
             /\ u[2] = "cancel"
      BY <2>2 DEF OpPersist
    <3>2. OpSafe(u, Sending)
      BY <1>1, <2>2, SendingOp DEF OpSafe
    <3>3. u[2] = "cancel" => OpSafe(u, [op[u] EXCEPT !.pc = "unlink"])
      BY <1>1, OpAt DEF OpSafe
    <3> QED BY <3>1, <3>2, <3>3, OpEntry
  <2> QED BY <2>1, <2>2
<1> QED BY <1>2, <1>3 DEF OpPersist, CopyInv, IntactCopy, ListenerSafe, NoChunkOfEmpty

LEMMA CopyOpUnlink ==
    ASSUME TypeOK, CopyInv, NEW u \in UserOps, OpUnlink(u)
    PROVE  CopyInv'
<1>1. OpSafe(u, op[u]) /\ op[u].pc = "unlink" /\ u[1] = "receiver"
  BY DEF CopyInv, OpsSafe, OpUnlink, TypeOK, OpOK
<1>2. PICK r \in op[u].held : file' = [file EXCEPT ![r.path] = {}]
  BY DEF OpUnlink
<1>3. r.path \in {"part", "final"}
  BY <1>1, OpFields, ReceiverPaths
<1>4. IntactCopy' /\ (file'.part = file.part \/ file'.part = {})
  BY <1>2, <1>3, Removal
<1>5. OpsSafe'
  <2>1. \/ op' = [op EXCEPT ![u] = Sending]
        \/ /\ op' = [op EXCEPT ![u] = [op[u] EXCEPT !.pc = "persist"]]
           /\ u[2] = "decline"
    BY DEF OpUnlink
  <2>2. OpSafe(u, Sending)
    BY <1>1, SendingOp DEF OpSafe
  <2>3. u[2] = "decline" => OpSafe(u, [op[u] EXCEPT !.pc = "persist"])
    BY <1>1, OpAt DEF OpSafe
  <2> QED BY <2>1, <2>2, <2>3, OpEntry
<1>6. ListenerSafe'
  BY <1>4 DEF OpUnlink, CopyInv, ListenerSafe
<1> QED BY <1>4, <1>5, <1>6 DEF OpUnlink, CopyInv, RecordsSettled, NoChunkOfEmpty

LEMMA CopyOpSend ==
    ASSUME TypeOK, CopyInv, NEW u \in UserOps, OpSend(u)
    PROVE  CopyInv'
<1> DEFINE f == Receipt(Decision(u[2])[2])
<1>1. f \in Frame /\ f.kind = "receipt"
  BY DEF Receipt, Decision, Frame, ReceiptState
<1>2. Other(u[1]) \in Device
  BY DEF Other, Device
<1>3. ASSUME Other(u[1]) = "receiver" PROVE f.state = "Cancelled"
  <2>1. u[2] = "cancel"
    BY <1>3, OpFields DEF Other, Device, OpSend, CopyInv, OpsSafe, OpSafe, AcceptFlag
  <2> QED BY <2>1 DEF Decision, AcceptFlag, Receipt
<1>4. Sent(Other(u[1]), f) BY DEF OpSend
<1> HIDE DEF f
<1>5. ListenerSafe'
  BY <1>1, <1>2, <1>3, <1>4, DeliverSafe DEF OpSend, CopyInv
<1>6. OpsSafe'
  BY IdleOp, OpEntry DEF OpSend
<1> QED BY <1>5, <1>6 DEF OpSend, CopyInv, IntactCopy, RecordsSettled, NoChunkOfEmpty

LEMMA CopyRefuseOp ==
    ASSUME TypeOK, CopyInv, NEW u \in UserOps, RefuseOp(u)
    PROVE  CopyInv'
<1>1. OpsSafe'
  BY IdleOp, OpEntry DEF RefuseOp
<1> QED BY <1>1 DEF RefuseOp, CopyInv, IntactCopy, RecordsSettled, ListenerSafe,
                    NoChunkOfEmpty

LEMMA CopyRestart ==
    ASSUME TypeOK, CopyInv, NEW d \in Device, Restart(d)
    PROVE  CopyInv'
<1>1. ListenerSafe'
  <2>1. listener'["receiver"] \in {Idle, listener["receiver"]}
    BY DEF Restart, TypeOK, ListenerOK, Device
  <2> QED BY <2>1 DEF Restart, CopyInv, ListenerSafe, Idle
<1>2. OpsSafe'
  <2>1. ASSUME NEW u \in UserOps PROVE op'[u] \in {NoOp, op[u]}
    BY DEF Restart
  <2> QED BY <2>1 DEF CopyInv, OpsSafe, OpSafe, NoOp
<1>3. NoChunkOfEmpty'
  BY DEF Restart, CopyInv, NoChunkOfEmpty, TypeOK, ThreadOK, Over
<1> QED BY <1>1, <1>2, <1>3 DEF Restart, CopyInv, IntactCopy, RecordsSettled

LEMMA CopyNext == TypeOK /\ CopyInv /\ [Next]_vars => CopyInv'
<1> SUFFICES ASSUME TypeOK, CopyInv, [Next]_vars PROVE CopyInv' OBVIOUS
<1>1. CASE UNCHANGED vars
  BY <1>1 DEF vars, CopyInv, IntactCopy, RecordsSettled, ListenerSafe, OpsSafe,
              NoChunkOfEmpty
<1>2. CASE Next
  BY <1>2, CopyThread, CopyRefuseThread, CopyListener, CopyReply, CopyRefuseOp, CopyPeerText, CopyOpLoad, CopyOpRename,
     CopyOpTruncate, CopyOpPersist, CopyOpUnlink, CopyOpSend, CopyEditSource, CopyRestart
     DEF Next, OpStep
<1> QED BY <1>1, <1>2

LEMMA CopyInvHolds == Spec => []CopyInv
BY CopyInit, CopyNext, TypeCorrect, PTL DEF Spec

(* Whatever is lost, refused, edited or decided on the way, what appears    *)
(* under downloads has the digest of the offer.                             *)
THEOREM CopyIntact == Spec => []IntactCopy
<1>1. CopyInv => IntactCopy
  BY DEF CopyInv
<1> QED BY <1>1, CopyInvHolds, PTL
=============================================================================
