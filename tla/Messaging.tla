------------------------------ MODULE Messaging ------------------------------
(* Text messages between two devices: the thread of the user who sends       *)
(* (capsi_message_send), the listener that stores a text and acknowledges it *)
(* (capsi_message_start), the workplace deliveries the listener flushes on   *)
(* its tick, and the conversation file both threads of a device write.       *)
(*                                                                           *)
(* A frame has a connection of its own: the client connects, sends its       *)
(* handshake, waits for the other one and writes the frame.  A listener is   *)
(* one thread: while it is a client it accepts nothing.                      *)
(*                                                                           *)
(* Nothing orders the two threads of a device: each loads the conversation,  *)
(* changes its copy and writes it in place.  connect_and_send has no         *)
(* timeout: a connection may be refused, break, or stay silent for ever.     *)
EXTENDS Integers, Sequences

CONSTANTS
    Senders,    \* the devices whose user sends texts
    Flushers,   \* the devices with a workplace delivery to flush
    MaxTexts,   \* how many texts a user sends
    MaxFaults   \* how often the network, the trust list or the disk fails

ASSUME MaxTextsAssumption == MaxTexts \in Nat
ASSUME MaxFaultsAssumption == MaxFaults \in Nat

Device == {"a", "b"}
Other(d) == IF d = "a" THEN "b" ELSE "a"

(* A client is the thread of a device that connects to the other device. *)
Client == Device \X {"user", "listener"}

Text == Device \X (1 .. MaxTexts)
Delivery == Device \X {0}
Frame == {"text", "receipt"} \X (Text \cup Delivery)
NoFrame == <<"none", <<"a", 0>>>>
NoClient == <<"a", "none">>

(* A conversation: the state of the messages it holds *)
DeliveryState == {"none", "sent", "delivered"}
Conversation == [Text -> DeliveryState]
Empty == [m \in Text |-> "none"]

VARIABLES
    file,       \* conversation file of a device
    copy,       \* the conversation a client of the device has loaded
    at,         \* per client: where it is
    frame,      \* per client: what it sends or has to store
    backlog,    \* connections a listener has not accepted
    serving,    \* the client the listener has shaken hands with
    inbox,      \* the frame written to that connection
    texts,      \* how many texts the user has sent
    queued,     \* has the device a delivery to flush?
    faults,     \* how often something has failed
    lost,       \* history: the texts that a failure ended
    spoiled     \* history: what the two threads of a device, or its disk,
                \* have lost of the texts in its file

linkVars == <<backlog, serving, inbox>>
fileVars == <<file, copy, spoiled>>
faultVars == <<faults, lost>>
vars == <<fileVars, at, frame, linkVars, texts, queued, faultVars>>

User(d) == <<d, "user">>
Listener(d) == <<d, "listener">>
Thread(d) == {User(d), Listener(d)}

Init ==
    /\ file = [d \in Device |-> Empty] /\ copy = [c \in Client |-> Empty]
    /\ at = [c \in Client |-> "idle"]
    /\ frame = [c \in Client |-> NoFrame]
    /\ backlog = [d \in Device |-> <<>>]
    /\ serving = [d \in Device |-> NoClient]
    /\ inbox = [d \in Device |-> NoFrame]
    /\ texts = [d \in Device |-> 0]
    /\ queued = [d \in Device |-> d \in Flushers]
    /\ faults = 0 /\ lost = {} /\ spoiled = {}

-----------------------------------------------------------------------------
(* connect_and_send *)

(* The connection is established by the peer's system, the listener need not *)
(* be at accept.                                                             *)
Connect(c) ==
    /\ at[c] = "connect"
    /\ at' = [at EXCEPT ![c] = "waiting"]
    /\ backlog' = [backlog EXCEPT ![Other(c[1])] = Append(@, c)]
    /\ UNCHANGED <<fileVars, frame, serving, inbox, texts, queued, faultVars>>

(* The listener has answered the handshake: the client writes its frame. *)
WriteFrame(c) ==
    LET d == c[1] IN
    /\ at[c] = "waiting" /\ serving[Other(d)] = c
    /\ inbox' = [inbox EXCEPT ![Other(d)] = frame[c]]
    /\ serving' = [serving EXCEPT ![Other(d)] = NoClient]
    /\ at' = [at EXCEPT ![c] = IF c = User(d) THEN "load" ELSE "idle"]
    /\ queued' = [queued EXCEPT ![d] = @ /\ frame[c] # <<"text", <<d, 0>>>>]
    /\ UNCHANGED <<fileVars, frame, backlog, texts, faultVars>>

-----------------------------------------------------------------------------
(* MessageStore *)

(* MessageStore::load.  A conversation that cannot be parsed, because the    *)
(* other thread is just writing it, is skipped: the client has none.         *)
LoadCached(c) ==
    /\ at[c] = "load"
    /\ at' = [at EXCEPT ![c] = "append"]
    /\ UNCHANGED <<fileVars, frame, linkVars, texts, queued, faultVars>>
Load(c) ==
    /\ at[c] = "load"
    /\ copy' = [copy EXCEPT ![c] = file[c[1]]]
    /\ at' = [at EXCEPT ![c] = "append"]
    /\ UNCHANGED <<file, spoiled, frame, linkVars, texts, queued, faultVars>>

(* persist: fs::write truncates the file, then fills it. *)
Save(c, conversation) ==
    /\ copy' = [copy EXCEPT ![c] = conversation]
    /\ file' = [file EXCEPT ![c[1]] = Empty]
    /\ at' = [at EXCEPT ![c] = "write"]
    /\ UNCHANGED <<spoiled, frame, linkVars, texts, queued, faultVars>>

(* The other thread has loaded, or is writing, a copy without this text. *)
Misses(c, m) ==
    \E b \in Thread(c[1]) \ {c} : at[b] \in {"append", "write"} /\ copy[b][m] = "none"

(* What is in the file after the last byte; bytes over those of the other    *)
(* thread may leave something that cannot be parsed.                         *)
Landed(c) == {copy[c]} \cup IF file[c[1]] = Empty THEN {} ELSE {Empty}

(* An append that has returned is followed by the receipt. *)
Saved(c) ==
    LET d == c[1] IN
    /\ at[c] = "write"
    /\ \E landed \in Landed(c) :
         /\ file' = [file EXCEPT ![d] = landed]
         /\ spoiled' = spoiled \cup
               {<<d, m>> : m \in {n \in Text : copy[c][n] # "none"
                                               /\ (landed[n] = "none" \/ Misses(c, n))}}
    /\ at' = [at EXCEPT ![c] = IF c = Listener(d) /\ frame[c][1] = "text" THEN "reply" ELSE "idle"]
    /\ UNCHANGED <<copy, frame, linkVars, texts, queued, faultVars>>

-----------------------------------------------------------------------------
(* capsi_message_send *)

SendText(d) ==
    /\ d \in Senders /\ texts[d] < MaxTexts
    /\ at[User(d)] = "idle"
    /\ texts' = [texts EXCEPT ![d] = @ + 1]
    /\ frame' = [frame EXCEPT ![User(d)] = <<"text", <<d, texts'[d]>>>>]
    /\ at' = [at EXCEPT ![User(d)] = "connect"]
    /\ UNCHANGED <<fileVars, linkVars, queued, faultVars>>

(* MessageStore::append of the text that was sent *)
AppendSent(d) ==
    LET c == User(d) IN
    /\ at[c] = "append"
    /\ Save(c, [copy[c] EXCEPT ![frame[c][2]] = "sent"])

UserThread(d) ==
    LET c == User(d) IN
    Connect(c) \/ WriteFrame(c) \/ Load(c) \/ AppendSent(d) \/ Saved(c)

-----------------------------------------------------------------------------
(* capsi_message_start *)

AcceptWhileReplying(d) ==
    /\ at[Listener(d)] \in {"idle", "waiting"} /\ backlog[d] # <<>>
    /\ serving' = [serving EXCEPT ![d] = Head(backlog[d])]
    /\ backlog' = [backlog EXCEPT ![d] = Tail(@)]
    /\ at' = [at EXCEPT ![Listener(d)] = "reading"]
    /\ UNCHANGED <<fileVars, frame, inbox, texts, queued, faultVars>>
Accept(d) ==
    /\ at[Listener(d)] = "idle" /\ backlog[d] # <<>>
    /\ serving' = [serving EXCEPT ![d] = Head(backlog[d])]
    /\ backlog' = [backlog EXCEPT ![d] = Tail(@)]
    /\ at' = [at EXCEPT ![Listener(d)] = "reading"]
    /\ UNCHANGED <<fileVars, frame, inbox, texts, queued, faultVars>>

(* What a frame is handled with: a workplace message is stored in the        *)
(* workspace, everything else concerns the conversation.                     *)
HandlerForgets(f) == IF f[1] = "text" THEN "reply" ELSE "load"
Handler(f) == IF f[1] = "text" /\ f[2] \in Delivery THEN "reply" ELSE "load"

(* accept_and_read returns, and the sender is trusted. *)
Read(d) ==
    LET c == Listener(d) IN
    /\ at[c] = "reading" /\ inbox[d] # NoFrame
    /\ frame' = [frame EXCEPT ![c] = inbox[d]]
    /\ at' = [at EXCEPT ![c] = Handler(inbox[d])]
    /\ inbox' = [inbox EXCEPT ![d] = NoFrame]
    /\ UNCHANGED <<fileVars, backlog, serving, texts, queued, faultVars>>

(* Message::Text: store it, then acknowledge it *)
AppendReceived(d) ==
    LET c == Listener(d) IN
    /\ at[c] = "append" /\ frame[c][1] = "text"
    /\ Save(c, [copy[c] EXCEPT ![frame[c][2]] = "delivered"])

(* Message::DeliveryReceipt: mark the message, if the conversation has it *)
HandleReceipt(d) ==
    LET c == Listener(d)
        m == frame[c][2]
    IN
    /\ at[c] = "append" /\ frame[c][1] = "receipt"
    /\ IF m \in Text /\ copy[c][m] # "none"
       THEN Save(c, [copy[c] EXCEPT ![m] = "delivered"])
       ELSE /\ at' = [at EXCEPT ![c] = "idle"]
            /\ UNCHANGED <<fileVars, frame, linkVars, texts, queued, faultVars>>

Acknowledge(d) ==
    LET c == Listener(d) IN
    /\ at[c] = "reply"
    /\ frame' = [frame EXCEPT ![c] = <<"receipt", frame[c][2]>>]
    /\ at' = [at EXCEPT ![c] = "connect"]
    /\ UNCHANGED <<fileVars, linkVars, texts, queued, faultVars>>

(* flush_workplace_deliveries, at the head of the loop *)
Flush(d) ==
    LET c == Listener(d) IN
    /\ at[c] = "idle" /\ queued[d]
    /\ frame' = [frame EXCEPT ![c] = <<"text", <<d, 0>>>>]
    /\ at' = [at EXCEPT ![c] = "connect"]
    /\ UNCHANGED <<fileVars, linkVars, texts, queued, faultVars>>

ListenerThread(d) ==
    LET c == Listener(d) IN
    \/ Accept(d) \/ Read(d)
    \/ Load(c) \/ AppendReceived(d) \/ HandleReceipt(d) \/ Saved(c)
    \/ Acknowledge(d) \/ Flush(d)
    \/ Connect(c) \/ WriteFrame(c)

-----------------------------------------------------------------------------
(* Failures.  Each ends what a thread does with one frame; nothing repeats a *)
(* text or a receipt.                                                        *)
Fault == faults < MaxFaults /\ faults' = faults + 1

Loses(f) == lost' = IF f[1] = "text" THEN lost \cup ({f[2]} \cap Text) ELSE lost

(* The peer is not there, or not at this address. *)
Refused(c) ==
    /\ Fault /\ at[c] = "connect"
    /\ at' = [at EXCEPT ![c] = "idle"]
    /\ Loses(frame[c])
    /\ UNCHANGED <<fileVars, frame, linkVars, texts, queued>>

(* The connection breaks in the handshake: both sides see an error. *)
Broken(d) ==
    /\ Fault /\ serving[d] # NoClient
    /\ at' = [at EXCEPT ![serving[d]] = "idle", ![Listener(d)] = "idle"]
    /\ Loses(frame[serving[d]])
    /\ serving' = [serving EXCEPT ![d] = NoClient]
    /\ UNCHANGED <<fileVars, frame, backlog, inbox, texts, queued>>

(* The client has written its frame, but the listener cannot read it, or its *)
(* trust list cannot be read or does not admit the sender.                   *)
Dropped(d) ==
    /\ Fault /\ inbox[d] # NoFrame
    /\ at' = [at EXCEPT ![Listener(d)] = "idle"]
    /\ Loses(inbox[d])
    /\ inbox' = [inbox EXCEPT ![d] = NoFrame]
    /\ UNCHANGED <<fileVars, frame, backlog, serving, texts, queued>>

(* Nothing more is heard of the peer: no read or write has a timeout. *)
Silent(c) ==
    /\ Fault /\ at[c] = "connect"
    /\ at' = [at EXCEPT ![c] = "hung"]
    /\ Loses(frame[c])
    /\ UNCHANGED <<fileVars, frame, linkVars, texts, queued>>
SilentServed(d) ==
    /\ Fault /\ serving[d] # NoClient
    /\ at' = [at EXCEPT ![serving[d]] = "hung", ![Listener(d)] = "hung"]
    /\ Loses(frame[serving[d]])
    /\ serving' = [serving EXCEPT ![d] = NoClient]
    /\ UNCHANGED <<fileVars, frame, backlog, inbox, texts, queued>>

(* The store cannot be loaded, or not be written to the end; the user's      *)
(* text has arrived all the same.                                            *)
StoreFails(c) ==
    LET d == c[1] IN
    /\ Fault /\ at[c] \in {"load", "write"}
    /\ at' = [at EXCEPT ![c] = "idle"]
    /\ IF c = Listener(d) THEN Loses(frame[c]) ELSE lost' = lost
    /\ spoiled' = IF at[c] = "load" THEN spoiled
                  ELSE spoiled \cup {<<d, m>> : m \in {n \in Text : copy[c][n] # "none"}}
    /\ UNCHANGED <<file, copy, frame, linkVars, texts, queued>>

Failure(d) ==
    \/ Broken(d) \/ Dropped(d) \/ SilentServed(d)
    \/ \E c \in Thread(d) : Refused(c) \/ Silent(c) \/ StoreFails(c)

-----------------------------------------------------------------------------
Next == \E d \in Device : SendText(d) \/ UserThread(d) \/ ListenerThread(d) \/ Failure(d)

Spec == Init /\ [][Next]_vars

(* Every thread runs; a user need not send and nothing need fail. *)
FairSpec ==
    /\ Spec
    /\ \A d \in Device : WF_vars(UserThread(d)) /\ WF_vars(ListenerThread(d))

-----------------------------------------------------------------------------
(* Each client has its own connection, and a listener serves the client that *)
(* waits for it.                                                             *)
TypeOK ==
    /\ file \in [Device -> Conversation] /\ copy \in [Client -> Conversation]
    /\ at \in [Client -> {"idle", "connect", "waiting", "hung", "reading",
                           "load", "append", "write", "reply"}]
    /\ frame \in [Client -> Frame \cup {NoFrame}]
    /\ \A d \in Device : \A i \in 1 .. Len(backlog[d]) :
         backlog[d][i][1] = Other(d) /\ at[backlog[d][i]] = "waiting"
    /\ \A d \in Device : serving[d] # NoClient => at[Listener(d)] = "reading"
    /\ inbox \in [Device -> Frame \cup {NoFrame}]
    /\ texts \in [Device -> 0 .. MaxTexts]
    /\ queued \in [Device -> BOOLEAN]
    /\ faults \in 0 .. MaxFaults
    /\ lost \subseteq Text /\ spoiled \subseteq Device \X Text

(* A text is in the file of a device, or in what a thread writes there.  It  *)
(* is excused once a thread has written it while the other thread of the     *)
(* device held a copy without it (lib.rs:755 and 862 load and save without a *)
(* lock), or its bytes were garbled or cut off.                              *)
Kept(d, m) ==
    \/ file[d][m] # "none"
    \/ \E c \in Thread(d) : at[c] = "write" /\ copy[c][m] # "none"
    \/ <<d, m>> \in spoiled

(* message.rs:105-107: a receipt "is emitted after the peer has accepted and *)
(* persisted the message": what the sender sees as delivered, the receiver   *)
(* has, unless its own two threads wrote over each other.                    *)
DeliveredMeansKept ==
    \A m \in Text : file[m[1]][m] = "delivered" => Kept(Other(m[1]), m)

(* The listener of d accepts nothing more: its peer has fallen silent, or it *)
(* is the client of a listener that is held up itself.                       *)
Held(d) ==
    \/ at[Listener(d)] = "hung"
    \/ at[Listener(d)] = "waiting" /\ at[Listener(Other(d))] \in {"hung", "waiting"}

(* A text that a user has sent is in the end kept by the receiver for good,  *)
(* unless a failure ended it, its own connection is silent, or the receiver's *)
(* listener waits for ever: for a silent peer, or the two listeners for each *)
(* other.                                                                    *)
TextsArrive ==
    \A m \in Text :
        m[2] <= texts[m[1]] ~>
            \/ m \in lost
            \/ [](Held(Other(m[1])) \/ Kept(Other(m[1]), m))
=============================================================================
