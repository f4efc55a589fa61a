---------------------------- MODULE MessagingProofs ----------------------------
(* The connections of two devices and what a receipt says, for any number   *)
(* of texts either way and of failures.                                     *)
EXTENDS Messaging, TLAPS, SequenceTheorems

-----------------------------------------------------------------------------
(* TypeOK needs to know more of the connections.  A client that waits is in *)
(* one place only: once in the backlog of the other device's listener, or   *)
(* served by it.  A listener that does not read has an empty inbox and      *)
(* serves nobody.  A user's thread that is not idle has a text of its own.  *)
Place == {"idle", "connect", "waiting", "hung", "reading", "load", "append", "write", "reply"}

Types ==
    /\ file \in [Device -> Conversation] /\ copy \in [Client -> Conversation]
    /\ at \in [Client -> Place]
    /\ frame \in [Client -> Frame \cup {NoFrame}]
    /\ backlog \in [Device -> Seq(Client)]
    /\ serving \in [Device -> Client \cup {NoClient}]
    /\ inbox \in [Device -> Frame \cup {NoFrame}]
    /\ texts \in [Device -> 0 .. MaxTexts]
    /\ queued \in [Device -> BOOLEAN]
    /\ faults \in 0 .. MaxFaults
    /\ lost \subseteq Text /\ spoiled \subseteq Device \X Text

Waits(d, c) == c \in Client /\ c[1] = Other(d) /\ at[c] = "waiting"

BacklogOK(d) ==
    /\ \A i \in 1 .. Len(backlog[d]) : Waits(d, backlog[d][i])
    /\ \A i, j \in 1 .. Len(backlog[d]) : backlog[d][i] = backlog[d][j] => i = j

ServingOK(d) ==
    serving[d] # NoClient =>
        /\ Waits(d, serving[d]) /\ at[Listener(d)] = "reading" /\ inbox[d] = NoFrame
        /\ \A i \in 1 .. Len(backlog[d]) : backlog[d][i] # serving[d]

InboxOK(d) == inbox[d] # NoFrame => at[Listener(d)] = "reading"

OwnText(d, f) == \E n \in 1 .. MaxTexts : f = <<"text", <<d, n>>>>

UserOK(d) ==
    at[User(d)] # "idle" =>
        /\ d \in Senders /\ OwnText(d, frame[User(d)])
        /\ at[User(d)] \in {"connect", "waiting", "hung", "load", "append", "write"}

LinkInv ==
    Types /\ \A d \in Device : BacklogOK(d) /\ ServingOK(d) /\ InboxOK(d) /\ UserOK(d)

-----------------------------------------------------------------------------
(* A text that a device keeps, and that none of its threads can undo without *)
(* its being noted: it is being written, or it is in the file and in every   *)
(* copy that will be written.  Once so, it stays so.                         *)
Firm(d, m) ==
    \/ <<d, m>> \in spoiled
    \/ \E c \in Thread(d) : at[c] = "write" /\ copy[c][m] # "none"
    \/ /\ file[d][m] # "none"
       /\ \A c \in Thread(d) : at[c] \in {"append", "write"} => copy[c][m] # "none"

(* What a frame that reaches the listener of d may say. *)
Arrived(d, f) ==
    \/ f[1] = "text" /\ f[2][1] = Other(d)
    \/ f[1] = "receipt" /\ (f[2] \in Text => f[2][1] = d /\ Firm(Other(d), f[2]))

ListenerFrame(d) ==
    LET c == Listener(d)
        f == frame[c]
        pc == at[c]
    IN
    /\ pc \in {"load", "append", "write", "reply"} => Arrived(d, f)
    /\ pc \in {"load", "append", "write"} /\ f[1] = "text" => f[2] \in Text
    /\ pc = "write" /\ f[1] = "text" => copy[c][f[2]] # "none"
    /\ pc = "reply" => f[1] = "text" /\ (f[2] \in Text => Firm(d, f[2]))
    /\ pc \in {"connect", "waiting"} => Arrived(Other(d), f)

FramesKept ==
    \A d \in Device : ListenerFrame(d) /\ (inbox[d] # NoFrame => Arrived(d, inbox[d]))

(* What a sender shows as delivered, or is about to, its receiver keeps. *)
FilesKept == \A m \in Text : file[m[1]][m] = "delivered" => Firm(Other(m[1]), m)
CopiesKept ==
    \A m \in Text, c \in Client :
        c[1] = m[1] /\ copy[c][m] = "delivered" => Firm(Other(m[1]), m)

KeptInv == FramesKept /\ FilesKept /\ CopiesKept

-----------------------------------------------------------------------------
LEMMA Clients ==
    /\ \A c \in Client : c[1] \in Device /\ (c = User(c[1]) \/ c = Listener(c[1]))
    /\ \A d \in Device : /\ User(d) \in Client /\ User(d)[1] = d
                         /\ Listener(d) \in Client /\ Listener(d)[1] = d
    /\ \A d, e \in Device : /\ User(d) # Listener(e)
                            /\ User(d) = User(e) => d = e
                            /\ Listener(d) = Listener(e) => d = e
    /\ NoClient \notin Client
BY DEF Client, User, Listener, NoClient

LEMMA Others == \A d \in Device : Other(d) \in Device /\ Other(d) # d /\ Other(Other(d)) = d
BY DEF Device, Other

LEMMA Frames ==
    /\ NoFrame \notin Frame
    /\ \A m \in Text \cup Delivery : <<"text", m>> \in Frame /\ <<"receipt", m>> \in Frame
    /\ \A f \in Frame : f[1] \in {"text", "receipt"} /\ f[2] \in Text \cup Delivery
    /\ \A d \in Device : <<d, 0>> \in Delivery
    /\ \A m \in Text : m[1] \in Device /\ m \notin Delivery
    /\ NoFrame[2] \in Delivery
BY DEF NoFrame, Frame, Text, Delivery, Device

(* A text of a user, in the frame of its thread. *)
LEMMA OwnTextIs ==
    ASSUME NEW d \in Device, NEW f, OwnText(d, f)
    PROVE  f \in Frame /\ f[1] = "text" /\ f[2] \in Text /\ f[2][1] = d
BY DEF OwnText, Frame, Text

LEMMA UserBusy ==
    ASSUME LinkInv, NEW d \in Device, at[User(d)] # "idle"
    PROVE  /\ d \in Senders /\ OwnText(d, frame[User(d)])
           /\ frame[User(d)] \in Frame /\ frame[User(d)][1] = "text"
           /\ frame[User(d)][2] \in Text /\ frame[User(d)][2][1] = d
BY OwnTextIs DEF LinkInv, UserOK

LEMMA EmptyIs == Empty \in Conversation /\ \A m \in Text : Empty[m] = "none"
BY DEF Empty, Conversation, DeliveryState

LEMMA LinkInit == Init => LinkInv
<1> SUFFICES ASSUME Init PROVE LinkInv OBVIOUS
<1>1. Types
  <2>1. Empty \in Conversation BY EmptyIs
  <2>2. <<>> \in Seq(Client) BY EmptySeq
  <2> QED BY <2>1, <2>2, MaxTextsAssumption, MaxFaultsAssumption DEF Init, Types, Place
<1>2. \A d \in Device : User(d) \in Client BY Clients
<1>3. \A d \in Device : Len(backlog[d]) = 0 BY EmptySeq DEF Init
<1>4. \A d \in Device : BacklogOK(d) /\ ServingOK(d) /\ InboxOK(d) /\ UserOK(d)
  BY <1>2, <1>3 DEF Init, BacklogOK, ServingOK, InboxOK, UserOK
<1> QED BY <1>1, <1>4 DEF LinkInv

-----------------------------------------------------------------------------
(* The values of the variables *)

LEMMA TypesConversation ==
    ASSUME Types, NEW c \in Client
    PROVE  /\ copy[c] \in Conversation /\ frame[c] \in Frame \cup {NoFrame}
           /\ \A m : \A s \in DeliveryState : [copy[c] EXCEPT ![m] = s] \in Conversation
BY DEF Types, Conversation

LEMMA TypesSendText ==
    ASSUME LinkInv, NEW d \in Device, SendText(d)
    PROVE  Types'
<1>1. texts'[d] = texts[d] + 1 /\ texts[d] + 1 \in 1 .. MaxTexts
  BY MaxTextsAssumption DEF SendText, LinkInv, Types
<1>2. <<d, texts'[d]>> \in Text BY <1>1 DEF Text
<1>3. <<"text", <<d, texts'[d]>>>> \in Frame BY <1>2, Frames
<1>4. texts' \in [Device -> 0 .. MaxTexts]
  BY <1>1, MaxTextsAssumption DEF SendText, LinkInv, Types
<1>5. at' \in [Client -> Place] BY DEF SendText, LinkInv, Types, Place
<1> QED BY <1>3, <1>4, <1>5 DEF SendText, linkVars, fileVars, faultVars, LinkInv, Types

LEMMA TypesSave ==
    ASSUME LinkInv, NEW c \in Client, NEW new \in Conversation, Save(c, new)
    PROVE  Types'
<1>1. c[1] \in Device BY Clients
<1>2. at' \in [Client -> Place] BY DEF Save, LinkInv, Types, Place
<1>3. copy' \in [Client -> Conversation] /\ file' \in [Device -> Conversation]
  BY <1>1, EmptyIs DEF Save, LinkInv, Types
<1> QED BY <1>2, <1>3 DEF Save, linkVars, faultVars, LinkInv, Types

LEMMA TypesClient ==
    ASSUME LinkInv, NEW c \in Client, Connect(c) \/ WriteFrame(c) \/ Load(c) \/ Saved(c)
    PROVE  Types'
<1>1. c[1] \in Device /\ Other(c[1]) \in Device BY Clients, Others
<1>2. CASE Connect(c)
  <2>1. at' \in [Client -> Place] BY <1>2 DEF Connect, LinkInv, Types, Place
  <2>2. Append(backlog[Other(c[1])], c) \in Seq(Client)
    BY <1>1, AppendProperties DEF LinkInv, Types
  <2>3. backlog' \in [Device -> Seq(Client)]
    BY <1>1, <1>2, <2>2 DEF Connect, LinkInv, Types
  <2> QED BY <1>2, <2>1, <2>3 DEF Connect, fileVars, faultVars, LinkInv, Types
<1>4. CASE WriteFrame(c)
  <2>1. at' \in [Client -> Place] BY <1>4 DEF WriteFrame, LinkInv, Types, Place
  <2>3. queued' \in [Device -> BOOLEAN]
    BY <1>1, <1>4 DEF WriteFrame, LinkInv, Types
  <2>4. inbox' \in [Device -> Frame \cup {NoFrame}] /\ serving' \in [Device -> Client \cup {NoClient}]
    BY <1>1, <1>4 DEF WriteFrame, LinkInv, Types
  <2> QED BY <1>4, <2>1, <2>3, <2>4 DEF WriteFrame, fileVars, faultVars, LinkInv, Types
<1>5. CASE Load(c)
  <2>1. at' \in [Client -> Place] BY <1>5 DEF Load, LinkInv, Types, Place
  <2>2. copy' \in [Client -> Conversation]
    BY <1>1, <1>5 DEF Load, LinkInv, Types
  <2> QED BY <1>5, <2>1, <2>2 DEF Load, linkVars, faultVars, LinkInv, Types
<1>6. CASE Saved(c)
  <2>1. at' \in [Client -> Place] BY <1>6 DEF Saved, LinkInv, Types, Place
  <2>2. Landed(c) \subseteq Conversation BY EmptyIs DEF Landed, LinkInv, Types
  <2>3. file' \in [Device -> Conversation]
    BY <1>1, <1>6, <2>2 DEF Saved, LinkInv, Types
  <2>4. spoiled' \subseteq Device \X Text
    BY <1>1, <1>6 DEF Saved, LinkInv, Types
  <2> QED BY <1>6, <2>1, <2>3, <2>4 DEF Saved, linkVars, faultVars, LinkInv, Types
<1> QED BY <1>2, <1>4, <1>5, <1>6

LEMMA TypesFailure ==
    ASSUME LinkInv, NEW d \in Device, Failure(d)
    PROVE  Types'
<1>1. faults' \in 0 .. MaxFaults
  <2>1. Fault BY DEF Failure, Broken, Dropped, SilentServed, Refused, Silent, StoreFails
  <2> QED BY <2>1, MaxFaultsAssumption DEF Fault, LinkInv, Types
<1>2. \A f : Loses(f) => lost' \subseteq Text
  BY DEF Loses, LinkInv, Types
<1>3. Listener(d) \in Client /\ \A c \in Thread(d) : c \in Client /\ c[1] \in Device
  BY Clients DEF Thread
<1>4. CASE Broken(d) \/ SilentServed(d)
  <2>1. at' \in [Client -> Place] BY <1>4 DEF Broken, SilentServed, LinkInv, Types, Place
  <2>2. serving' \in [Device -> Client \cup {NoClient}]
    BY <1>4 DEF Broken, SilentServed, LinkInv, Types
  <2> QED BY <1>1, <1>2, <1>4, <2>1, <2>2 DEF Broken, SilentServed, fileVars, LinkInv, Types
<1>5. CASE Dropped(d)
  <2>1. at' \in [Client -> Place] BY <1>5 DEF Dropped, LinkInv, Types, Place
  <2>2. inbox' \in [Device -> Frame \cup {NoFrame}] BY <1>5 DEF Dropped, LinkInv, Types
  <2> QED BY <1>1, <1>2, <1>5, <2>1, <2>2 DEF Dropped, fileVars, LinkInv, Types
<1>6. ASSUME NEW c \in Thread(d), Refused(c) \/ Silent(c) PROVE Types'
  <2>1. at' \in [Client -> Place] BY <1>6 DEF Refused, Silent, LinkInv, Types, Place
  <2> QED BY <1>1, <1>2, <1>6, <2>1 DEF Refused, Silent, fileVars, linkVars, LinkInv, Types
<1>7. ASSUME NEW c \in Thread(d), StoreFails(c) PROVE Types'
  <2>1. at' \in [Client -> Place] BY <1>7 DEF StoreFails, LinkInv, Types, Place
  <2>2. spoiled' \subseteq Device \X Text
    BY <1>3, <1>7 DEF StoreFails, LinkInv, Types
  <2>3. lost' \subseteq Text BY <1>2, <1>7 DEF StoreFails, LinkInv, Types
  <2> QED BY <1>1, <1>7, <2>1, <2>2, <2>3 DEF StoreFails, linkVars, LinkInv, Types
<1> QED BY <1>4, <1>5, <1>6, <1>7 DEF Failure

(* The three appends write a conversation. *)
LEMMA Appends ==
    ASSUME LinkInv, NEW d \in Device
    PROVE  /\ AppendSent(d) =>
                /\ at[User(d)] = "append"
                /\ \E new \in Conversation :
                     /\ Save(User(d), new)
                     /\ new = [copy[User(d)] EXCEPT ![frame[User(d)][2]] = "sent"]
           /\ AppendReceived(d) =>
                /\ at[Listener(d)] = "append" /\ frame[Listener(d)][1] = "text"
                /\ \E new \in Conversation :
                     /\ Save(Listener(d), new)
                     /\ new = [copy[Listener(d)] EXCEPT ![frame[Listener(d)][2]] = "delivered"]
<1>1. User(d) \in Client /\ Listener(d) \in Client BY Clients
<1> QED BY <1>1, TypesConversation DEF AppendSent, AppendReceived, DeliveryState, LinkInv

(* A receipt marks a text the conversation has, or does nothing. *)
LEMMA Receipts ==
    ASSUME LinkInv, NEW d \in Device, HandleReceipt(d)
    PROVE  /\ at[Listener(d)] = "append" /\ frame[Listener(d)][1] = "receipt"
           /\ \/ \E new \in Conversation :
                    /\ frame[Listener(d)][2] \in Text
                    /\ Save(Listener(d), new)
                    /\ new = [copy[Listener(d)] EXCEPT ![frame[Listener(d)][2]] = "delivered"]
              \/ /\ at' = [at EXCEPT ![Listener(d)] = "idle"]
                 /\ UNCHANGED <<fileVars, frame, linkVars, texts, queued, faultVars>>
<1>1. Listener(d) \in Client BY Clients
<1> QED BY <1>1, TypesConversation DEF HandleReceipt, DeliveryState, LinkInv

LEMMA TypesListener ==
    ASSUME LinkInv, NEW d \in Device,
           Accept(d) \/ Read(d) \/ HandleReceipt(d) \/ Acknowledge(d) \/ Flush(d)
    PROVE  Types'
<1> DEFINE c == Listener(d)
<1>1. c \in Client BY Clients
<1>3. CASE Accept(d)
  <2> DEFINE b == backlog[d]
  <2>1. b \in Seq(Client) /\ b # <<>> BY <1>3 DEF Accept, LinkInv, Types
  <2>2. Head(b) \in Client /\ Tail(b) \in Seq(Client) BY <2>1, HeadTailProperties
  <2> HIDE DEF b
  <2>3. backlog' = [backlog EXCEPT ![d] = Tail(b)] /\ serving' = [serving EXCEPT ![d] = Head(b)]
    BY <1>3 DEF Accept, b
  <2>4. at' \in [Client -> Place] BY <1>3 DEF Accept, LinkInv, Types, Place
  <2> QED BY <1>3, <2>2, <2>3, <2>4 DEF Accept, fileVars, faultVars, LinkInv, Types
<1>4. CASE Read(d)
  <2>1. at' \in [Client -> Place] BY <1>4 DEF Read, Handler, LinkInv, Types, Place
  <2> QED BY <1>1, <1>4, <2>1 DEF Read, fileVars, faultVars, LinkInv, Types
<1>6. CASE HandleReceipt(d)
  <2>1. CASE \E new \in Conversation : Save(c, new) BY <1>1, <2>1, TypesSave
  <2>2. CASE at' = [at EXCEPT ![c] = "idle"]
             /\ UNCHANGED <<fileVars, frame, linkVars, texts, queued, faultVars>>
    <3>1. at' \in [Client -> Place] BY <2>2 DEF LinkInv, Types, Place
    <3> QED BY <2>2, <3>1 DEF fileVars, linkVars, faultVars, LinkInv, Types
  <2> QED BY <1>6, <2>1, <2>2, Receipts
<1>7. CASE Acknowledge(d)
  <2>1. <<"receipt", frame[c][2]>> \in Frame
    BY <1>1, Frames DEF LinkInv, Types
  <2>2. at' \in [Client -> Place] BY <1>7 DEF Acknowledge, LinkInv, Types, Place
  <2> QED BY <1>1, <1>7, <2>1, <2>2 DEF Acknowledge, linkVars, fileVars, faultVars, LinkInv, Types
<1>8. CASE Flush(d)
  <2>1. <<"text", <<d, 0>>>> \in Frame BY Frames
  <2>2. at' \in [Client -> Place] BY <1>8 DEF Flush, LinkInv, Types, Place
  <2> QED BY <1>1, <1>8, <2>1, <2>2 DEF Flush, linkVars, fileVars, faultVars, LinkInv, Types
<1> QED BY <1>3, <1>4, <1>6, <1>7, <1>8

-----------------------------------------------------------------------------
(* The connections *)

(* A thread that neither waits nor reads goes from one place to another. *)
LEMMA LinkAtMoves ==
    ASSUME LinkInv, Types', UNCHANGED linkVars, NEW c \in Client, NEW pc,
           at[c] \notin {"waiting", "reading"}, at' = [at EXCEPT ![c] = pc],
           \A b \in Client \ {c} : frame'[b] = frame[b],
           c = User(c[1]) => UserOK(c[1])'
    PROVE  LinkInv'
<1>1. \A b \in Client : at'[b] = IF b = c THEN pc ELSE at[b]
  BY DEF LinkInv, Types
<1>2. ASSUME NEW d \in Device PROVE (BacklogOK(d) /\ ServingOK(d) /\ InboxOK(d))'
  <2>1. Listener(d) \in Client BY Clients
  <2>2. BacklogOK(d) /\ ServingOK(d) /\ InboxOK(d) BY DEF LinkInv
  <2>3. \A b : Waits(d, b) => Waits(d, b)'
    BY <1>1 DEF Waits
  <2> QED BY <1>1, <2>1, <2>2, <2>3 DEF linkVars, BacklogOK, ServingOK, InboxOK
<1>3. ASSUME NEW d \in Device PROVE UserOK(d)'
  <2>1. CASE c = User(d) BY <2>1, Clients
  <2>2. CASE c # User(d)
    <3>1. User(d) \in Client \ {c} BY <2>2, Clients
    <3> QED BY <1>1, <3>1 DEF LinkInv, UserOK
  <2> QED BY <2>1, <2>2
<1> QED BY <1>2, <1>3 DEF LinkInv

(* The user's thread keeps its text until it is idle. *)
LEMMA LinkUserGoes ==
    ASSUME LinkInv, NEW c \in Client, NEW pc \in {"idle", "connect", "waiting", "hung", "load", "append", "write"},
           at[c] # "idle", at'[c] = pc, frame'[c] = frame[c]
    PROVE  c = User(c[1]) => UserOK(c[1])'
<1>1. c[1] \in Device BY Clients
<1> QED BY <1>1 DEF LinkInv, UserOK

(* The steps of a thread that neither waits nor reads. *)
LEMMA LinkAdvance ==
    ASSUME LinkInv, Types', NEW d \in Device,
           SendText(d) \/ HandleReceipt(d) \/ Acknowledge(d) \/ Flush(d)
    PROVE  LinkInv'
<1> USE Clients
<1>1. CASE SendText(d)
  <2>1. UserOK(d)'
    <3>1. /\ texts'[d] \in 1 .. MaxTexts
          /\ frame'[User(d)] = <<"text", <<d, texts'[d]>>>>
          /\ at'[User(d)] = "connect" /\ d \in Senders
      BY <1>1, MaxTextsAssumption DEF SendText, LinkInv, Types
    <3> QED BY <3>1 DEF UserOK, OwnText
  <2>2. \A b \in Client \ {User(d)} : frame'[b] = frame[b]
    BY <1>1 DEF SendText, LinkInv, Types
  <2> QED BY <1>1, <2>1, <2>2, LinkAtMoves DEF SendText
<1>3. CASE HandleReceipt(d) \/ Acknowledge(d) \/ Flush(d)
  <2>1. PICK pc : at' = [at EXCEPT ![Listener(d)] = pc]
    BY <1>3, Receipts DEF Acknowledge, Flush, Save
  <2>2. at[Listener(d)] \notin {"waiting", "reading"} /\ UNCHANGED linkVars
    BY <1>3, Receipts DEF Acknowledge, Flush, Save
  <2>3. \A b \in Client \ {Listener(d)} : frame'[b] = frame[b]
    BY <1>3, Receipts DEF Acknowledge, Flush, Save, LinkInv, Types
  <2>4. Listener(d) \in Client /\ Listener(d)[1] = d /\ Listener(d) # User(d) OBVIOUS
  <2> QED BY <2>1, <2>2, <2>3, <2>4, LinkAtMoves
<1> QED BY <1>1, <1>3

LEMMA LinkStays ==
    ASSUME LinkInv, Types', NEW c \in Client,
           \/ Refused(c) \/ Silent(c) \/ StoreFails(c) \/ Load(c) \/ Saved(c)
           \/ at[c] = "append" /\ \E new \in Conversation : Save(c, new)
    PROVE  LinkInv'
<1>1. PICK pc \in {"idle", "hung", "append", "write", "reply"} :
        at' = [at EXCEPT ![c] = pc] /\ (pc = "reply" => c = Listener(c[1]))
  BY DEF Refused, Silent, StoreFails, Load, Saved, Save
<1>2. /\ at[c] \notin {"waiting", "reading", "idle"}
      /\ UNCHANGED linkVars /\ UNCHANGED frame
  BY DEF Refused, Silent, StoreFails, Load, Saved, Save
<1>3. at'[c] = pc BY <1>1 DEF LinkInv, Types
<1>4. c = User(c[1]) => UserOK(c[1])'
  <2>1. c = User(c[1]) => pc # "reply" BY <1>1, Clients
  <2> QED BY <1>2, <1>3, <2>1, LinkUserGoes
<1> QED BY <1>1, <1>2, <1>4, LinkAtMoves

(* A client that connects is at the end of the backlog, and nowhere else. *)
LEMMA LinkConnect ==
    ASSUME LinkInv, Types', NEW c \in Client, Connect(c)
    PROVE  LinkInv'
<1> DEFINE e == Other(c[1])
<1>0. PICK b : b = backlog[e] OBVIOUS
<1>1. e \in Device /\ c[1] = Other(e) /\ c[1] \in Device BY Clients, Others
<1>2. /\ \A a \in Client : at'[a] = IF a = c THEN "waiting" ELSE at[a]
      /\ \A d \in Device : backlog'[d] = IF d = e THEN Append(b, c) ELSE backlog[d]
      /\ UNCHANGED <<frame, serving, inbox>> /\ at[c] = "connect"
  BY <1>0 DEF Connect, LinkInv, Types
<1> HIDE DEF e
<1>3. \A d \in Device : \A a : Waits(d, a) => a # c /\ Waits(d, a)'
  BY <1>2 DEF Waits
<1>4. Waits(e, c)' BY <1>1, <1>2 DEF Waits
<1>5. ASSUME NEW d \in Device PROVE (BacklogOK(d) /\ ServingOK(d) /\ InboxOK(d) /\ UserOK(d))'
  <2>1. BacklogOK(d) /\ ServingOK(d) /\ InboxOK(d) /\ UserOK(d) BY DEF LinkInv
  <2>2. UserOK(d)' /\ InboxOK(d)'
    <3>1. User(d) \in Client /\ Listener(d) \in Client BY Clients
    <3> QED BY <1>2, <2>1, <3>1 DEF UserOK, InboxOK
  <2>3. serving'[d] # NoClient =>
          /\ Waits(d, serving[d])' /\ at'[Listener(d)] = "reading" /\ inbox'[d] = NoFrame
          /\ serving[d] # c
    <3>1. Listener(d) \in Client BY Clients
    <3> QED BY <1>2, <1>3, <2>1, <3>1 DEF ServingOK
  <2>4. CASE d # e
    BY <1>2, <1>3, <2>1, <2>2, <2>3, <2>4 DEF BacklogOK, ServingOK
  <2>5. CASE d = e
    <3>0. backlog[d] = b /\ backlog'[d] = Append(b, c) BY <1>0, <1>2, <2>5
    <3>1. b \in Seq(Client) /\ Len(b) \in Nat
      BY <1>0, <1>1, LenProperties DEF LinkInv, Types
    <3>2. /\ Len(backlog'[d]) = Len(b) + 1
          /\ \A i \in 1 .. Len(b) : backlog'[d][i] = b[i]
          /\ backlog'[d][Len(b) + 1] = c
      BY <3>0, <3>1, AppendProperties
    <3>3. /\ \A i \in 1 .. Len(b) : Waits(d, b[i])
          /\ \A i, j \in 1 .. Len(b) : b[i] = b[j] => i = j
      BY <2>1, <3>0 DEF BacklogOK
    <3>4. BacklogOK(d)'
      <4>1. \A i \in 1 .. Len(b) : b[i] # c /\ Waits(d, b[i])'
        BY <1>3, <3>3
      <4>2. Waits(d, c)' BY <1>4, <2>5
      <4>3. \A i \in 1 .. Len(b) + 1 : i \in 1 .. Len(b) \/ i = Len(b) + 1
        BY <3>1
      <4>4. \A i \in 1 .. Len(b) + 1 : Waits(d, backlog[d][i])'
        BY <3>2, <4>1, <4>2, <4>3
      <4>5. \A i, j \in 1 .. Len(b) + 1 : backlog'[d][i] = backlog'[d][j] => i = j
        BY <3>2, <3>3, <4>1, <4>3
      <4> QED BY <3>2, <4>4, <4>5 DEF BacklogOK
    <3>5. ServingOK(d)'
      <4>1. serving'[d] # NoClient => \A i \in 1 .. Len(b) : b[i] # serving'[d]
        BY <1>2, <2>1, <3>0 DEF ServingOK
      <4> QED BY <1>2, <2>3, <3>1, <3>2, <4>1 DEF ServingOK
    <3> QED BY <2>2, <3>4, <3>5
  <2> QED BY <2>4, <2>5
<1> QED BY <1>5 DEF LinkInv

(* The client that is served writes its frame and is gone. *)
LEMMA LinkWriteFrame ==
    ASSUME LinkInv, Types', NEW c \in Client, WriteFrame(c)
    PROVE  LinkInv'
<1> DEFINE e == Other(c[1])
<1>1. e \in Device /\ c[1] = Other(e) /\ c[1] \in Device /\ e # c[1] /\ NoClient \notin Client
  BY Clients, Others
<1>2. PICK pc \in {"load", "idle"} : \A a \in Client : at'[a] = IF a = c THEN pc ELSE at[a]
  BY DEF WriteFrame, LinkInv, Types
<1>3. /\ \A d \in Device : serving'[d] = IF d = e THEN NoClient ELSE serving[d]
      /\ \A d \in Device : inbox'[d] = IF d = e THEN frame[c] ELSE inbox[d]
      /\ UNCHANGED <<frame, backlog>> /\ at[c] = "waiting" /\ serving[e] = c
  BY DEF WriteFrame, LinkInv, Types
<1> HIDE DEF e
<1>4. \A d \in Device : \A a : Waits(d, a) /\ a # c => Waits(d, a)'
  BY <1>2 DEF Waits
<1>5. ASSUME NEW d \in Device PROVE (BacklogOK(d) /\ ServingOK(d) /\ InboxOK(d) /\ UserOK(d))'
  <2>1. BacklogOK(d) /\ ServingOK(d) /\ InboxOK(d) /\ UserOK(d) BY DEF LinkInv
  <2>2. User(d) \in Client /\ Listener(d) \in Client BY Clients
  <2>3. UserOK(d)' BY <1>2, <1>3, <2>1, <2>2 DEF UserOK
  <2>4. d # e => \A a : Waits(d, a) => a # c
    BY <1>1, Others DEF Waits
  <2>5. BacklogOK(d)'
    <3>1. \A i \in 1 .. Len(backlog[d]) : backlog[d][i] # c
      BY <1>1, <1>3, <2>1, <2>4 DEF BacklogOK, ServingOK
    <3> QED BY <1>3, <1>4, <2>1, <3>1 DEF BacklogOK
  <2>6. CASE d = e
    <3>1. Listener(d) # c /\ at[Listener(d)] = "reading"
      BY <1>1, <1>3, <2>1, <2>6 DEF ServingOK
    <3> QED BY <1>2, <1>3, <2>2, <2>3, <2>5, <2>6, <3>1 DEF ServingOK, InboxOK
  <2>7. CASE d # e
    <3>1. InboxOK(d)'
      BY <1>2, <1>3, <2>1, <2>2, <2>7 DEF InboxOK
    <3>2. ServingOK(d)'
      BY <1>2, <1>3, <1>4, <2>1, <2>2, <2>4, <2>7 DEF ServingOK
    <3> QED BY <2>3, <2>5, <3>1, <3>2
  <2> QED BY <2>6, <2>7
<1> QED BY <1>5 DEF LinkInv

(* The first of the backlog is served. *)
LEMMA LinkAccept ==
    ASSUME LinkInv, Types', NEW d \in Device, Accept(d)
    PROVE  LinkInv'
<1> DEFINE c == Listener(d)
<1>0. PICK b : b = backlog[d] OBVIOUS
<1>1. b \in Seq(Client) /\ b # <<>> /\ c \in Client /\ NoClient \notin Client
  BY <1>0, Clients DEF Accept, LinkInv, Types
<1>2. /\ Head(b) = b[1] /\ Len(b) \in Nat /\ Len(b) >= 1
      /\ Len(Tail(b)) = Len(b) - 1
      /\ \A i \in 1 .. Len(Tail(b)) : Tail(b)[i] = b[i + 1]
  BY <1>1, HeadTailProperties, EmptySeq, LenProperties
<1>3. /\ \A a \in Client : at'[a] = IF a = c THEN "reading" ELSE at[a]
      /\ \A g \in Device : backlog'[g] = IF g = d THEN Tail(b) ELSE backlog[g]
      /\ \A g \in Device : serving'[g] = IF g = d THEN Head(b) ELSE serving[g]
      /\ UNCHANGED <<frame, inbox>> /\ at[c] = "idle"
  BY <1>0 DEF Accept, LinkInv, Types
<1>4. \A g \in Device : \A a : Waits(g, a) => Waits(g, a)'
  BY <1>3 DEF Waits
<1>5. ASSUME NEW g \in Device PROVE (BacklogOK(g) /\ ServingOK(g) /\ InboxOK(g) /\ UserOK(g))'
  <2>1. BacklogOK(g) /\ ServingOK(g) /\ InboxOK(g) /\ UserOK(g) BY DEF LinkInv
  <2>2. User(g) \in Client /\ Listener(g) \in Client /\ User(g) # c BY Clients
  <2>3. UserOK(g)' BY <1>3, <2>1, <2>2 DEF UserOK
  <2>4. CASE g # d
    <3>1. Listener(g) # c BY <2>4, Clients
    <3> QED BY <1>3, <1>4, <2>1, <2>2, <2>3, <2>4, <3>1 DEF BacklogOK, ServingOK, InboxOK
  <2>5. CASE g = d
    <3>0. backlog[g] = b /\ backlog'[g] = Tail(b) /\ serving'[g] = b[1]
      BY <1>0, <1>2, <1>3, <2>5
    <3>1. /\ \A i \in 1 .. Len(b) : Waits(g, b[i])
          /\ \A i, j \in 1 .. Len(b) : b[i] = b[j] => i = j
      BY <2>1, <3>0 DEF BacklogOK
    <3>2. BacklogOK(g)'
      <4>1. \A i \in 1 .. Len(Tail(b)) : i + 1 \in 1 .. Len(b) /\ Tail(b)[i] = b[i + 1]
        BY <1>2
      <4>2. \A i \in 1 .. Len(Tail(b)) : Waits(g, Tail(b)[i])'
        BY <1>4, <3>1, <4>1
      <4>3. \A i, j \in 1 .. Len(Tail(b)) : Tail(b)[i] = Tail(b)[j] => i = j
        BY <1>2, <3>1, <4>1
      <4> QED BY <3>0, <4>2, <4>3 DEF BacklogOK
    <3>3. inbox[d] = NoFrame
      BY <1>3, <2>1, <2>5 DEF InboxOK
    <3>4. ServingOK(g)'
      <4>1. 1 \in 1 .. Len(b) BY <1>2
      <4>2. Waits(g, b[1])' BY <1>4, <3>1, <4>1
      <4>3. \A i \in 1 .. Len(Tail(b)) : Tail(b)[i] # b[1]
        BY <1>2, <3>1, <4>1
      <4> QED BY <1>1, <1>3, <2>5, <3>0, <3>3, <4>2, <4>3 DEF ServingOK
    <3> QED BY <1>1, <1>3, <2>3, <2>5, <3>2, <3>3, <3>4 DEF InboxOK
  <2> QED BY <2>4, <2>5
<1> QED BY <1>5 DEF LinkInv

LEMMA LinkRead ==
    ASSUME LinkInv, Types', NEW d \in Device, Read(d) \/ Dropped(d)
    PROVE  LinkInv'
<1> DEFINE c == Listener(d)
<1>1. c \in Client BY Clients
<1>2. PICK pc \in {"load", "reply", "idle"} :
        \A a \in Client : at'[a] = IF a = c THEN pc ELSE at[a]
  BY DEF Read, Dropped, Handler, LinkInv, Types
<1>3. /\ \A g \in Device : inbox'[g] = IF g = d THEN NoFrame ELSE inbox[g]
      /\ \A a \in Client \ {c} : frame'[a] = frame[a]
      /\ UNCHANGED <<backlog, serving>> /\ at[c] = "reading" /\ inbox[d] # NoFrame
  BY DEF Read, Dropped, LinkInv, Types, InboxOK
<1>4. \A g \in Device : \A a : Waits(g, a) => Waits(g, a)'
  BY <1>2, <1>3 DEF Waits
<1>5. ASSUME NEW g \in Device PROVE (BacklogOK(g) /\ ServingOK(g) /\ InboxOK(g) /\ UserOK(g))'
  <2>1. BacklogOK(g) /\ ServingOK(g) /\ InboxOK(g) /\ UserOK(g) BY DEF LinkInv
  <2>2. User(g) \in Client /\ Listener(g) \in Client /\ User(g) # c BY Clients
  <2>3. UserOK(g)' BY <1>2, <1>3, <2>1, <2>2 DEF UserOK
  <2>4. BacklogOK(g)' BY <1>3, <1>4, <2>1 DEF BacklogOK
  <2>5. g # d => Listener(g) # c BY Clients
  <2>6. InboxOK(g)' BY <1>2, <1>3, <2>1, <2>2, <2>5 DEF InboxOK
  <2>7. g = d => serving[g] = NoClient BY <1>3, <2>1 DEF ServingOK
  <2>8. ServingOK(g)' BY <1>2, <1>3, <1>4, <2>1, <2>2, <2>5, <2>7 DEF ServingOK
  <2> QED BY <2>3, <2>4, <2>6, <2>8
<1> QED BY <1>5 DEF LinkInv

(* A connection that breaks or falls silent: both of its ends leave. *)
LEMMA LinkBroken ==
    ASSUME LinkInv, Types', NEW d \in Device, Broken(d) \/ SilentServed(d)
    PROVE  LinkInv'
<1> DEFINE c == serving[d]
           l == Listener(d)
<1>1. /\ Waits(d, c) /\ at[l] = "reading" /\ inbox[d] = NoFrame
      /\ \A i \in 1 .. Len(backlog[d]) : backlog[d][i] # c
      /\ BacklogOK(d)
  BY DEF Broken, SilentServed, LinkInv, ServingOK
<1>2. c \in Client /\ l \in Client /\ c # l /\ c[1] = Other(d) /\ NoClient \notin Client
  BY <1>1, Clients, Others DEF Waits
<1>3. PICK pc \in {"idle", "hung"} :
        \A a \in Client : at'[a] = IF a = c \/ a = l THEN pc ELSE at[a]
  BY <1>2 DEF Broken, SilentServed, LinkInv, Types
<1>4. /\ \A g \in Device : serving'[g] = IF g = d THEN NoClient ELSE serving[g]
      /\ UNCHANGED <<frame, backlog, inbox>>
  BY DEF Broken, SilentServed, LinkInv, Types
<1> HIDE DEF c, l
<1>5. \A g \in Device : \A a : Waits(g, a) /\ a # c => Waits(g, a)'
  BY <1>1, <1>3 DEF Waits
<1>6. ASSUME NEW g \in Device PROVE (BacklogOK(g) /\ ServingOK(g) /\ InboxOK(g) /\ UserOK(g))'
  <2>1. BacklogOK(g) /\ ServingOK(g) /\ InboxOK(g) /\ UserOK(g) BY DEF LinkInv
  <2>2. User(g) \in Client /\ Listener(g) \in Client /\ User(g) # l /\ (g # d => Listener(g) # l)
    BY Clients DEF l
  <2>3. UserOK(g)' BY <1>1, <1>3, <1>4, <2>1, <2>2 DEF UserOK, Waits
  <2>4. g # d => \A a : Waits(g, a) => a # c
    BY <1>2, Others DEF Waits
  <2>5. BacklogOK(g)'
    <3>1. \A i \in 1 .. Len(backlog[g]) : backlog[g][i] # c
      BY <1>1, <2>1, <2>4 DEF BacklogOK
    <3> QED BY <1>4, <1>5, <2>1, <3>1 DEF BacklogOK
  <2>6. CASE g = d
    BY <1>1, <1>3, <1>4, <2>3, <2>5, <2>6 DEF ServingOK, InboxOK
  <2>7. CASE g # d
    <3>1. at[Listener(g)] = "reading" => at'[Listener(g)] = "reading"
      BY <1>1, <1>3, <2>2, <2>7 DEF Waits
    <3>2. InboxOK(g)' BY <1>4, <2>1, <3>1 DEF InboxOK
    <3>3. ServingOK(g)' BY <1>4, <1>5, <2>1, <2>4, <2>7, <3>1 DEF ServingOK
    <3> QED BY <2>3, <2>5, <3>2, <3>3
  <2> QED BY <2>6, <2>7
<1> QED BY <1>6 DEF LinkInv

LEMMA LinkNext == LinkInv /\ [Next]_vars => LinkInv'
<1> SUFFICES ASSUME LinkInv, [Next]_vars PROVE LinkInv' OBVIOUS
<1>1. CASE UNCHANGED vars
  BY <1>1 DEF vars, fileVars, linkVars, faultVars, LinkInv, Types, BacklogOK, ServingOK,
              InboxOK, UserOK, Waits
<1>2. CASE Next
  <2>1. PICK d \in Device : SendText(d) \/ UserThread(d) \/ ListenerThread(d) \/ Failure(d)
    BY <1>2 DEF Next
  <2>2. User(d) \in Client /\ Listener(d) \in Client BY Clients
  <2>3. ASSUME NEW c \in Client, Connect(c) \/ WriteFrame(c) \/ Load(c) \/ Saved(c)
        PROVE  LinkInv'
    BY <2>3, TypesClient, LinkConnect, LinkWriteFrame, LinkStays
  <2>4. CASE AppendSent(d) \/ AppendReceived(d)
    <3>1. PICK c \in Client, new \in Conversation : at[c] = "append" /\ Save(c, new)
      BY <2>2, <2>4, Appends
    <3> QED BY <3>1, TypesSave, LinkStays
  <2>5. CASE Accept(d) \/ Read(d) \/ HandleReceipt(d) \/ Acknowledge(d) \/ Flush(d)
    BY <2>5, TypesListener, LinkAccept, LinkRead, LinkAdvance
  <2>6. CASE SendText(d) BY <2>6, TypesSendText, LinkAdvance
  <2>7. CASE Failure(d)
    <3>1. Types' BY <2>7, TypesFailure
    <3>2. \A c \in Thread(d) : c \in Client BY <2>2 DEF Thread
    <3>3. ASSUME NEW c \in Thread(d), Refused(c) \/ Silent(c) \/ StoreFails(c) PROVE LinkInv'
      BY <3>1, <3>2, <3>3, LinkStays
    <3>4. CASE Broken(d) \/ SilentServed(d) \/ Dropped(d)
      BY <3>1, <3>4, LinkBroken, LinkRead
    <3> QED BY <2>7, <3>3, <3>4 DEF Failure
  <2> QED BY <2>1, <2>2, <2>3, <2>4, <2>5, <2>6, <2>7 DEF UserThread, ListenerThread
<1> QED BY <1>1, <1>2

LEMMA LinkHolds == Spec => []LinkInv
BY LinkInit, LinkNext, PTL DEF Spec

(* Whatever the two users send, a client in a backlog waits for that          *)
(* listener, and a listener that serves somebody reads.                      *)
THEOREM MessagingTypeCorrect == Spec => []TypeOK
<1>1. LinkInv => TypeOK
  BY DEF LinkInv, Types, BacklogOK, ServingOK, Waits, Place, TypeOK
<1> QED BY <1>1, LinkHolds, PTL

-----------------------------------------------------------------------------
(* Receipts *)

LEMMA Threads ==
    /\ \A d \in Device : \A c \in Thread(d) : c \in Client /\ c[1] = d
    /\ \A c \in Client : c[1] \in Device /\ c \in Thread(c[1])
BY Clients DEF Thread

(* Steps that write no file, load none and end no write *)
LEMMA FirmMoves ==
    ASSUME UNCHANGED fileVars,
           \A c \in Client : at'[c] \in {"append", "write"} \/ at[c] = "write" => at'[c] = at[c]
    PROVE  \A d \in Device, m \in Text : Firm(d, m) => Firm(d, m)'
<1>1. \A d \in Device : \A c \in Thread(d) :
        at'[c] \in {"append", "write"} \/ at[c] = "write" => at'[c] = at[c]
  BY Threads
<1> QED BY <1>1 DEF Firm, fileVars

LEMMA FirmLoad ==
    ASSUME LinkInv, NEW c \in Client, Load(c), NEW d \in Device, NEW m \in Text, Firm(d, m)
    PROVE  Firm(d, m)'
<1>1. /\ \A b \in Client : copy'[b] = IF b = c THEN file[c[1]] ELSE copy[b]
      /\ \A b \in Client : at'[b] = IF b = c THEN "append" ELSE at[b]
      /\ at[c] = "load" /\ UNCHANGED <<file, spoiled>>
  BY DEF Load, LinkInv, Types
<1>2. CASE \E b \in Thread(d) : at[b] = "write" /\ copy[b][m] # "none"
  BY <1>1, <1>2, Threads DEF Firm
<1>3. CASE /\ file[d][m] # "none"
           /\ \A b \in Thread(d) : at[b] \in {"append", "write"} => copy[b][m] # "none"
  <2>1. \A b \in Thread(d) : at'[b] \in {"append", "write"} => copy'[b][m] # "none"
    BY <1>1, <1>3, Threads
  <2> QED BY <1>1, <1>3, <2>1 DEF Firm
<1> QED BY <1>1, <1>2, <1>3 DEF Firm

(* A thread begins to write its copy, with one text or one mark more. *)
LEMMA FirmSave ==
    ASSUME LinkInv, NEW c \in Client, at[c] = "append", NEW new \in Conversation, Save(c, new),
           \A n \in Text : copy[c][n] # "none" => new[n] # "none",
           NEW d \in Device, NEW m \in Text, Firm(d, m)
    PROVE  Firm(d, m)'
<1>1. /\ \A b \in Client : copy'[b] = IF b = c THEN new ELSE copy[b]
      /\ \A b \in Client : at'[b] = IF b = c THEN "write" ELSE at[b]
      /\ \A e \in Device : e # c[1] => file'[e] = file[e]
      /\ UNCHANGED spoiled
  BY Threads DEF Save, LinkInv, Types
<1>2. CASE \E b \in Thread(d) : at[b] = "write" /\ copy[b][m] # "none"
  <2>1. PICK b \in Thread(d) : at[b] = "write" /\ copy[b][m] # "none" BY <1>2
  <2>2. b \in Client /\ b # c BY <2>1, Threads
  <2> QED BY <1>1, <2>1, <2>2 DEF Firm
<1>3. CASE /\ file[d][m] # "none"
           /\ \A b \in Thread(d) : at[b] \in {"append", "write"} => copy[b][m] # "none"
  <2>1. CASE c \in Thread(d)
    <3>1. copy'[c][m] # "none" /\ at'[c] = "write" BY <1>1, <1>3, <2>1
    <3> QED BY <2>1, <3>1 DEF Firm
  <2>2. CASE c \notin Thread(d)
    <3>1. d # c[1] /\ \A b \in Thread(d) : b \in Client /\ b # c BY <2>2, Threads
    <3> QED BY <1>1, <1>3, <3>1 DEF Firm
  <2> QED BY <2>1, <2>2
<1> QED BY <1>1, <1>2, <1>3 DEF Firm

LEMMA FirmSaved ==
    ASSUME LinkInv, NEW c \in Client, Saved(c), NEW d \in Device, NEW m \in Text, Firm(d, m)
    PROVE  Firm(d, m)'
<1>0. c[1] \in Device /\ c \in Thread(c[1]) BY Threads
<1>1. PICK landed \in Landed(c), pc \in {"reply", "idle"} :
        /\ file' = [file EXCEPT ![c[1]] = landed]
        /\ spoiled' = spoiled \cup
             {<<c[1], n>> : n \in {k \in Text : copy[c][k] # "none"
                                                /\ (landed[k] = "none" \/ Misses(c, k))}}
        /\ at' = [at EXCEPT ![c] = pc] /\ at[c] = "write" /\ UNCHANGED copy
  BY DEF Saved
<1>2. /\ \A e \in Device : file'[e] = IF e = c[1] THEN landed ELSE file[e]
      /\ \A b \in Client : at'[b] = IF b = c THEN pc ELSE at[b]
      /\ <<d, m>> \in spoiled => <<d, m>> \in spoiled'
  BY <1>1 DEF LinkInv, Types
<1>3. CASE c \notin Thread(d)
  <2>1. d # c[1] /\ \A b \in Thread(d) : b \in Client /\ b # c BY <1>3, Threads
  <2> QED BY <1>1, <1>2, <2>1 DEF Firm
<1>4. CASE c \in Thread(d)
  <2>1. d = c[1] BY <1>4, Threads
  <2>2. CASE copy[c][m] # "none"
    <3>1. CASE landed[m] = "none" \/ Misses(c, m)
      BY <1>1, <2>1, <2>2, <3>1 DEF Firm
    <3>2. CASE landed[m] # "none" /\ ~Misses(c, m)
      <4>1. \A b \in Thread(d) \ {c} : at[b] \in {"append", "write"} => copy[b][m] # "none"
        BY <2>1, <3>2 DEF Misses
      <4>2. \A b \in Thread(d) : at'[b] \in {"append", "write"} => copy'[b][m] # "none"
        BY <1>1, <1>2, <4>1, Threads
      <4>3. file'[d][m] # "none" BY <1>2, <2>1, <3>2
      <4> QED BY <4>2, <4>3 DEF Firm
    <3> QED BY <3>1, <3>2
  <2>3. CASE \E b \in Thread(d) \ {c} : at[b] = "write" /\ copy[b][m] # "none"
    BY <1>1, <1>2, <2>3, Threads DEF Firm
  <2>4. CASE <<d, m>> \in spoiled BY <1>2, <2>4 DEF Firm
  <2> QED BY <1>1, <1>4, <2>2, <2>3, <2>4 DEF Firm
<1> QED BY <1>3, <1>4

LEMMA FirmFailure ==
    ASSUME LinkInv, NEW e \in Device, Failure(e), NEW d \in Device, NEW m \in Text, Firm(d, m)
    PROVE  Firm(d, m)'
<1>1. CASE Broken(e) \/ SilentServed(e) \/ Dropped(e)
  <2>1. UNCHANGED fileVars BY <1>1 DEF Broken, SilentServed, Dropped
  <2>2. \A c \in Client : at'[c] # at[c] =>
          at[c] \in {"waiting", "reading"} /\ at'[c] \in {"idle", "hung"}
    <3>1. at[Listener(e)] = "reading"
      BY <1>1 DEF Broken, SilentServed, Dropped, LinkInv, ServingOK, InboxOK
    <3>2. serving[e] # NoClient => at[serving[e]] = "waiting"
      BY DEF LinkInv, ServingOK, Waits
    <3>3. CASE Dropped(e) BY <3>1, <3>3 DEF Dropped, LinkInv, Types
    <3>4. CASE Broken(e) BY <3>1, <3>2, <3>4 DEF Broken, LinkInv, Types
    <3>5. CASE SilentServed(e) BY <3>1, <3>2, <3>5 DEF SilentServed, LinkInv, Types
    <3> QED BY <1>1, <3>3, <3>4, <3>5
  <2> QED BY <2>1, <2>2, FirmMoves
<1>2. ASSUME NEW c \in Thread(e), Refused(c) \/ Silent(c) PROVE Firm(d, m)'
  <2>1. UNCHANGED fileVars BY <1>2 DEF Refused, Silent
  <2>2. \A b \in Client : at'[b] # at[b] => at[b] = "connect" /\ at'[b] \in {"idle", "hung"}
    BY <1>2 DEF Refused, Silent, LinkInv, Types
  <2> QED BY <2>1, <2>2, FirmMoves
<1>3. ASSUME NEW c \in Thread(e), StoreFails(c) PROVE Firm(d, m)'
  <2>0. c \in Client /\ c[1] = e BY Threads
  <2>1. /\ \A b \in Client : at'[b] = IF b = c THEN "idle" ELSE at[b]
        /\ UNCHANGED <<file, copy>>
        /\ spoiled \subseteq spoiled'
        /\ at[c] = "write" => \A n \in Text : copy[c][n] # "none" => <<e, n>> \in spoiled'
    BY <1>3, <2>0 DEF StoreFails, LinkInv, Types
  <2>2. CASE c \in Thread(d) /\ at[c] = "write" /\ copy[c][m] # "none"
    <3>1. d = e BY <2>0, <2>2, Threads
    <3> QED BY <2>1, <2>2, <3>1 DEF Firm
  <2>3. CASE \E b \in Thread(d) \ {c} : at[b] = "write" /\ copy[b][m] # "none"
    BY <2>1, <2>3, Threads DEF Firm
  <2>4. CASE /\ file[d][m] # "none"
             /\ \A b \in Thread(d) : at[b] \in {"append", "write"} => copy[b][m] # "none"
    <3>1. \A b \in Thread(d) : at'[b] \in {"append", "write"} => copy'[b][m] # "none"
      BY <2>1, <2>4, Threads
    <3> QED BY <2>1, <2>4, <3>1 DEF Firm
  <2> QED BY <2>1, <2>2, <2>3, <2>4 DEF Firm
<1> QED BY <1>1, <1>2, <1>3 DEF Failure

(* The step that writes a copy of its own keeps what the copy had. *)
LEMMA Adds ==
    ASSUME NEW old \in Conversation, NEW m, NEW s \in {"sent", "delivered"}
    PROVE  \A n \in Text : /\ old[n] # "none" => [old EXCEPT ![m] = s][n] # "none"
                           /\ [old EXCEPT ![m] = s][n] = "delivered" =>
                                old[n] = "delivered" \/ (n = m /\ s = "delivered")
                           /\ n = m => [old EXCEPT ![m] = s][n] = s
BY DEF Conversation

(* A text that is kept stays kept, whatever the threads do. *)
LEMMA FirmStays ==
    ASSUME LinkInv, [Next]_vars
    PROVE  \A d \in Device, m \in Text : Firm(d, m) => Firm(d, m)'
<1>1. CASE UNCHANGED vars
  BY <1>1 DEF vars, fileVars, Firm
<1>2. CASE Next
  <2>1. PICK e \in Device : SendText(e) \/ UserThread(e) \/ ListenerThread(e) \/ Failure(e)
    BY <1>2 DEF Next
  <2>2. User(e) \in Client /\ Listener(e) \in Client BY Clients
  <2> SUFFICES ASSUME NEW d \in Device, NEW m \in Text, Firm(d, m) PROVE Firm(d, m)'
    OBVIOUS
  <2>3. ASSUME NEW c \in Client, Connect(c) \/ WriteFrame(c) PROVE Firm(d, m)'
    <3>1. UNCHANGED fileVars BY <2>3 DEF Connect, WriteFrame
    <3>2. \A b \in Client : at'[b] # at[b] =>
            at[b] \in {"connect", "waiting"} /\ at'[b] \in {"waiting", "load", "idle"}
      BY <2>3 DEF Connect, WriteFrame, LinkInv, Types
    <3> QED BY <3>1, <3>2, FirmMoves
  <2>4. CASE SendText(e) \/ Accept(e) \/ Read(e) \/ Acknowledge(e) \/ Flush(e)
    <3>1. UNCHANGED fileVars BY <2>4 DEF SendText, Accept, Read, Acknowledge, Flush
    <3>2. \A b \in Client : at'[b] # at[b] =>
            /\ at[b] \in {"idle", "reading", "reply"}
            /\ at'[b] \in {"connect", "reading", "load", "reply"}
      BY <2>4, <2>2 DEF SendText, Accept, Read, Handler, Acknowledge, Flush, LinkInv, Types
    <3> QED BY <3>1, <3>2, FirmMoves
  <2>5. CASE AppendSent(e) \/ AppendReceived(e) \/ HandleReceipt(e)
    <3>1. ASSUME NEW c \in Client, NEW new \in Conversation, NEW k, NEW s \in {"sent", "delivered"},
                 at[c] = "append", Save(c, new), new = [copy[c] EXCEPT ![k] = s]
          PROVE  Firm(d, m)'
      <4>2. copy[c] \in Conversation BY TypesConversation DEF LinkInv
      <4>3. \A n \in Text : copy[c][n] # "none" => new[n] # "none"
        BY <3>1, <4>2, Adds
      <4> QED BY <3>1, <4>3, FirmSave
    <3>2. CASE at[Listener(e)] = "append" /\ at' = [at EXCEPT ![Listener(e)] = "idle"]
               /\ UNCHANGED fileVars
      <4>1. \A b \in Client : at'[b] # at[b] => at[b] = "append" /\ at'[b] = "idle"
        BY <2>2, <3>2 DEF LinkInv, Types
      <4> QED BY <3>2, <4>1, FirmMoves
    <3>3. CASE AppendSent(e)
      <4>1. PICK new \in Conversation :
              Save(User(e), new) /\ new = [copy[User(e)] EXCEPT ![frame[User(e)][2]] = "sent"]
        BY <3>3, Appends
      <4> QED BY <2>2, <3>1, <3>3, <4>1, Appends
    <3>4. CASE AppendReceived(e)
      <4>1. PICK new \in Conversation :
              /\ Save(Listener(e), new)
              /\ new = [copy[Listener(e)] EXCEPT ![frame[Listener(e)][2]] = "delivered"]
        BY <3>4, Appends
      <4> QED BY <2>2, <3>1, <3>4, <4>1, Appends
    <3>5. CASE HandleReceipt(e)
      <4>1. at[Listener(e)] = "append" BY <3>5, Receipts
      <4>2. ASSUME NEW new \in Conversation, Save(Listener(e), new),
                   new = [copy[Listener(e)] EXCEPT ![frame[Listener(e)][2]] = "delivered"]
            PROVE  Firm(d, m)'
        BY <2>2, <3>1, <4>1, <4>2
      <4> QED BY <3>2, <3>5, <4>1, <4>2, Receipts
    <3> QED BY <2>5, <3>3, <3>4, <3>5
  <2> QED BY <2>1, <2>2, <2>3, <2>4, <2>5, FirmLoad, FirmSaved, FirmFailure
          DEF UserThread, ListenerThread
<1> QED BY <1>1, <1>2
-----------------------------------------------------------------------------
Grow == \A d \in Device, m \in Text : Firm(d, m) => Firm(d, m)'

LEMMA ArrivedStays ==
    ASSUME Grow
    PROVE  \A d \in Device : \A f : Arrived(d, f) => Arrived(d, f)'
BY Others DEF Grow, Arrived

LEMMA KeptInit == Init => KeptInv
<1> SUFFICES ASSUME Init PROVE KeptInv OBVIOUS
<1>1. /\ \A d \in Device : inbox[d] = NoFrame /\ at[Listener(d)] = "idle"
      /\ \A d \in Device, m \in Text : file[d][m] = "none"
      /\ \A c \in Client, m \in Text : copy[c][m] = "none"
  BY Clients, EmptyIs DEF Init
<1>2. \A m \in Text : m[1] \in Device BY Frames
<1> QED BY <1>1, <1>2 DEF KeptInv, FramesKept, ListenerFrame, FilesKept, CopiesKept

(* Nothing new in an inbox, and a listener that has nothing new to say *)
Quiet(d) ==
    \/ UNCHANGED <<at[Listener(d)], frame[Listener(d)], copy[Listener(d)]>>
    \/ at'[Listener(d)] \in {"idle", "hung", "reading"}
    \/ ListenerFrame(d)'

LEMMA FramesGo ==
    ASSUME KeptInv, Grow, \A d \in Device : Quiet(d),
           \A d \in Device :
              inbox'[d] = inbox[d] \/ inbox'[d] = NoFrame \/ Arrived(d, inbox'[d])
    PROVE  FramesKept'
<1> SUFFICES ASSUME NEW d \in Device
             PROVE  (ListenerFrame(d) /\ (inbox[d] # NoFrame => Arrived(d, inbox[d])))'
  BY DEF FramesKept
<1>1. ListenerFrame(d) /\ (inbox[d] # NoFrame => Arrived(d, inbox[d]))
  BY DEF KeptInv, FramesKept
<1>2. \A g \in Device : \A f : Arrived(g, f) => Arrived(g, f)' BY ArrivedStays
<1>3. (inbox[d] # NoFrame => Arrived(d, inbox[d]))'
  BY <1>1, <1>2
<1>4. CASE UNCHANGED <<at[Listener(d)], frame[Listener(d)], copy[Listener(d)]>>
  BY <1>1, <1>2, <1>3, <1>4, Others DEF ListenerFrame, Grow
<1>5. CASE at'[Listener(d)] \in {"idle", "hung", "reading"}
  BY <1>3, <1>5 DEF ListenerFrame
<1> QED BY <1>3, <1>4, <1>5 DEF Quiet

LEMMA FilesGo ==
    ASSUME KeptInv, Grow, UNCHANGED <<file, copy>>
    PROVE  (FilesKept /\ CopiesKept)'
<1>1. \A m \in Text : Other(m[1]) \in Device BY Frames, Others
<1> QED BY <1>1 DEF KeptInv, FilesKept, CopiesKept, Grow

(* Steps after which no listener has more to say than before *)
LEMMA KeptQuiet ==
    ASSUME LinkInv, KeptInv, Grow, NEW d \in Device, NEW c \in Thread(d),
           \/ SendText(d) \/ Accept(d) \/ Broken(d) \/ SilentServed(d) \/ Dropped(d)
           \/ Refused(c) \/ Silent(c) \/ StoreFails(c) \/ (c = User(d) /\ Connect(c))
    PROVE  KeptInv'
<1>1. UNCHANGED <<file, copy>>
  BY DEF SendText, Accept, Broken, SilentServed, Dropped, Refused, Silent, StoreFails, Connect, fileVars
<1>2. \A g \in Device : inbox'[g] = inbox[g] \/ inbox'[g] = NoFrame
  BY DEF SendText, Accept, Broken, SilentServed, Dropped, Refused, Silent, StoreFails, Connect,
         linkVars, LinkInv, Types
<1>3. \A b \in Client : \/ UNCHANGED <<at[b], frame[b]>> \/ b = User(d)
                        \/ at'[b] \in {"idle", "hung", "reading"}
  <2>1. CASE SendText(d) \/ Accept(d) BY <2>1 DEF SendText, Accept, LinkInv, Types
  <2>2. CASE Broken(d) \/ SilentServed(d) \/ Dropped(d)
    BY <2>2 DEF Broken, SilentServed, Dropped, LinkInv, Types
  <2>3. CASE Refused(c) \/ Silent(c) \/ StoreFails(c)
    BY <2>3 DEF Refused, Silent, StoreFails, LinkInv, Types
  <2>4. CASE c = User(d) /\ Connect(c) BY <2>4 DEF Connect, LinkInv, Types
  <2> QED BY <2>1, <2>2, <2>3, <2>4
<1>4. \A g \in Device : Quiet(g)
  BY <1>1, <1>3, Clients DEF Quiet
<1> QED BY <1>1, <1>2, <1>4, FramesGo, FilesGo DEF KeptInv

(* A listener that becomes a client *)
LEMMA KeptClient ==
    ASSUME LinkInv, KeptInv, Grow, NEW d \in Device,
           Connect(Listener(d)) \/ Acknowledge(d) \/ Flush(d)
    PROVE  KeptInv'
<1> DEFINE c == Listener(d)
<1>1. /\ UNCHANGED <<file, copy, inbox>> /\ c \in Client
      /\ \A b \in Client \ {c} : at'[b] = at[b] /\ frame'[b] = frame[b]
      /\ at'[c] \in {"connect", "waiting"}
  BY Clients DEF Connect, Acknowledge, Flush, fileVars, linkVars, LinkInv, Types
<1>2. Arrived(Other(d), frame'[c])
  <2>1. ListenerFrame(d) BY DEF KeptInv, FramesKept
  <2>2. CASE Connect(c)
    BY <2>1, <2>2 DEF Connect, ListenerFrame
  <2>3. CASE Acknowledge(d)
    <3>1. frame'[c] = <<"receipt", frame[c][2]>> /\ at[c] = "reply"
      BY <1>1, <2>3 DEF Acknowledge, LinkInv, Types
    <3> QED BY <2>1, <3>1, Others DEF ListenerFrame, Arrived
  <2>4. CASE Flush(d)
    <3>1. frame'[c] = <<"text", <<d, 0>>>>
      BY <1>1, <2>4 DEF Flush, LinkInv, Types
    <3> QED BY <3>1, Others DEF Arrived
  <2> QED BY <2>2, <2>3, <2>4
<1>3. ListenerFrame(d)' BY <1>1, <1>2, ArrivedStays, Others DEF ListenerFrame
<1>4. \A g \in Device : Quiet(g)
  BY <1>1, <1>3, Clients DEF Quiet
<1> QED BY <1>1, <1>4, FramesGo, FilesGo DEF KeptInv

(* A frame is written to the other listener's inbox. *)
LEMMA KeptWriteFrame ==
    ASSUME LinkInv, KeptInv, Grow, NEW c \in Client, WriteFrame(c)
    PROVE  KeptInv'
<1> DEFINE d == c[1]
           e == Other(d)
<1>1. d \in Device /\ e \in Device /\ Other(e) = d /\ (c = User(d) \/ c = Listener(d))
  BY Clients, Others
<1>2. /\ \A b \in Client : b # c => at'[b] = at[b]
      /\ c = Listener(d) => at'[c] = "idle"
      /\ \A g \in Device : inbox'[g] = IF g = e THEN frame[c] ELSE inbox[g]
      /\ UNCHANGED <<file, copy, frame>> /\ at[c] = "waiting"
  BY <1>1, Clients DEF WriteFrame, fileVars, LinkInv, Types
<1>4. Arrived(e, frame[c])
  <2>1. CASE c = User(d)
    BY <1>1, <1>2, <2>1, UserBusy DEF Arrived
  <2>2. CASE c = Listener(d)
    BY <1>1, <1>2, <2>2 DEF KeptInv, FramesKept, ListenerFrame
  <2> QED BY <1>1, <2>1, <2>2
<1> HIDE DEF d, e
<1>5. \A g \in Device : Quiet(g)
  BY <1>1, <1>2, Clients DEF Quiet
<1> QED BY <1>2, <1>4, <1>5, FramesGo, FilesGo DEF KeptInv

LEMMA KeptRead ==
    ASSUME LinkInv, KeptInv, Grow, NEW d \in Device, Read(d)
    PROVE  KeptInv'
<1> DEFINE c == Listener(d)
<1>1. PICK f : f = inbox[d] OBVIOUS
<1>2. f \in Frame /\ Arrived(d, f) /\ c \in Client
  BY <1>1, Clients DEF Read, LinkInv, Types, KeptInv, FramesKept
<1>3. /\ frame'[c] = f /\ at'[c] = Handler(f)
      /\ \A b \in Client \ {c} : at'[b] = at[b] /\ frame'[b] = frame[b]
      /\ inbox' = [inbox EXCEPT ![d] = NoFrame] /\ UNCHANGED <<file, copy>>
  BY <1>1, <1>2 DEF Read, fileVars, LinkInv, Types
<1>5. ListenerFrame(d)'
  <2>1. \/ at'[c] = "reply" /\ f[1] = "text" /\ f[2] \notin Text
        \/ at'[c] = "load" /\ (f[1] = "text" => f[2] \in Text)
    BY <1>2, <1>3, Frames DEF Handler
  <2>2. Arrived(d, f)' BY <1>2, ArrivedStays
  <2> QED BY <1>3, <2>1, <2>2 DEF ListenerFrame
<1>6. \A g \in Device : Quiet(g)
  BY <1>3, <1>5, Clients DEF Quiet
<1>7. \A g \in Device : inbox'[g] = inbox[g] \/ inbox'[g] = NoFrame
  BY <1>3 DEF LinkInv, Types
<1> QED BY <1>3, <1>6, <1>7, FramesGo, FilesGo DEF KeptInv

LEMMA KeptLoad ==
    ASSUME LinkInv, KeptInv, Grow, NEW c \in Client, Load(c)
    PROVE  KeptInv'
<1> DEFINE d == c[1]
<1>1. d \in Device /\ (c = User(d) \/ c = Listener(d)) BY Clients
<1>2. /\ \A b \in Client : copy'[b] = IF b = c THEN file[d] ELSE copy[b]
      /\ \A b \in Client \ {c} : at'[b] = at[b]
      /\ at[c] = "load" /\ at'[c] = "append" /\ UNCHANGED <<file, frame, inbox>>
  BY DEF Load, linkVars, LinkInv, Types
<1>3. \A g \in Device : Quiet(g)
  <2> SUFFICES ASSUME NEW g \in Device PROVE Quiet(g) OBVIOUS
  <2>1. CASE c # Listener(g) BY <1>2, <2>1, Clients DEF Quiet
  <2>2. CASE c = Listener(g)
    <3>1. ListenerFrame(g) BY DEF KeptInv, FramesKept
    <3>2. Arrived(g, frame[c])' BY <1>2, <2>2, <3>1, ArrivedStays DEF ListenerFrame
    <3> QED BY <1>2, <2>2, <3>1, <3>2 DEF Quiet, ListenerFrame
  <2> QED BY <2>1, <2>2
<1>4. FramesKept' BY <1>2, <1>3, FramesGo
<1>5. (FilesKept /\ CopiesKept)'
  <2>1. \A m \in Text : Other(m[1]) \in Device BY Frames, Others
  <2> QED BY <1>2, <2>1 DEF KeptInv, FilesKept, CopiesKept, Grow
<1> QED BY <1>4, <1>5 DEF KeptInv

(* A thread of d begins to write its copy with m marked as s: a mark         *)
(* "delivered" on a text of its own comes from a receipt.                    *)
LEMMA KeptSave ==
    ASSUME LinkInv, KeptInv, Grow, NEW d \in Device, NEW c \in Thread(d), at[c] = "append",
           NEW m, NEW s \in {"sent", "delivered"}, NEW new \in Conversation,
           new = [copy[c] EXCEPT ![m] = s], Save(c, new),
           m \in Text /\ s = "delivered" /\ m[1] = d => Firm(Other(d), m),
           c = Listener(d) /\ frame[c][1] = "text" => frame[c][2] = m
    PROVE  KeptInv'
<1>0. c \in Client /\ c[1] = d BY Threads
<1>1. /\ \A b \in Client : copy'[b] = IF b = c THEN new ELSE copy[b]
      /\ \A b \in Client : at'[b] = IF b = c THEN "write" ELSE at[b]
      /\ \A e \in Device : file'[e] = IF e = d THEN Empty ELSE file[e]
      /\ UNCHANGED <<frame, inbox>>
  BY <1>0 DEF Save, linkVars, LinkInv, Types
<1>2. copy[c] \in Conversation BY <1>0, TypesConversation DEF LinkInv
<1>3. \A n \in Text : /\ new[n] = "delivered" => copy[c][n] = "delivered" \/ (n = m /\ s = "delivered")
                      /\ n = m => new[n] = s
  BY <1>2, Adds
<1>4. \A g \in Device : Quiet(g)
  <2> SUFFICES ASSUME NEW g \in Device PROVE Quiet(g) OBVIOUS
  <2>1. CASE c # Listener(g) BY <1>1, <2>1, Clients DEF Quiet
  <2>2. CASE c = Listener(g)
    <3>0. g = d BY <1>0, <2>2, Clients
    <3>1. ListenerFrame(g) BY DEF KeptInv, FramesKept
    <3>2. Arrived(g, frame[c])' BY <1>1, <2>2, <3>1, ArrivedStays DEF ListenerFrame
    <3>3. frame[c][1] = "text" => frame[c][2] \in Text /\ copy'[c][frame[c][2]] # "none"
      BY <1>0, <1>1, <1>3, <2>2, <3>0, <3>1 DEF ListenerFrame
    <3>4. ListenerFrame(g)' BY <1>0, <1>1, <2>2, <3>1, <3>2, <3>3 DEF ListenerFrame
    <3> QED BY <3>4 DEF Quiet
  <2> QED BY <2>1, <2>2
<1>5. FramesKept' BY <1>1, <1>4, FramesGo
<1>6. \A n \in Text : Other(n[1]) \in Device BY Frames, Others
<1>7. FilesKept'
  <2> SUFFICES ASSUME NEW n \in Text, file'[n[1]][n] = "delivered"
               PROVE  Firm(Other(n[1]), n)'
    BY DEF FilesKept
  <2>1. file[n[1]][n] = "delivered"
    <3>1. n[1] \in Device BY Frames
    <3>2. n[1] # d
      <4>1. n[1] = d => file'[n[1]][n] = "none" BY <1>1, EmptyIs
      <4> QED BY <4>1
    <3> QED BY <1>1, <3>1, <3>2
  <2> QED BY <1>6, <2>1 DEF KeptInv, FilesKept, Grow
<1>8. CopiesKept'
  <2> SUFFICES ASSUME NEW n \in Text, NEW b \in Client, b[1] = n[1], copy'[b][n] = "delivered"
               PROVE  Firm(Other(n[1]), n)'
    BY DEF CopiesKept
  <2>1. Firm(Other(n[1]), n)
    <3>1. CASE copy[b][n] = "delivered" BY <3>1 DEF KeptInv, CopiesKept
    <3>2. CASE b = c /\ n = m /\ s = "delivered" BY <1>0, <3>2
    <3> QED BY <1>1, <1>3, <3>1, <3>2
  <2> QED BY <1>6, <2>1 DEF Grow
<1> QED BY <1>5, <1>7, <1>8 DEF KeptInv

LEMMA KeptSaved ==
    ASSUME LinkInv, KeptInv, Grow, NEW c \in Client, Saved(c)
    PROVE  KeptInv'
<1> DEFINE d == c[1]
<1>1. d \in Device /\ c \in Thread(d) BY Threads
<1>2. PICK landed \in {copy[c], Empty} : file' = [file EXCEPT ![d] = landed]
  BY DEF Saved, Landed
<1>3. /\ \A e \in Device : file'[e] = IF e = d THEN landed ELSE file[e]
      /\ \A b \in Client \ {c} : at'[b] = at[b]
      /\ at[c] = "write" /\ UNCHANGED <<copy, frame, inbox>>
      /\ at'[c] = IF c = Listener(d) /\ frame[c][1] = "text" THEN "reply" ELSE "idle"
  BY <1>1, <1>2 DEF Saved, linkVars, LinkInv, Types
<1>4. \A g \in Device : Quiet(g)
  <2> SUFFICES ASSUME NEW g \in Device PROVE Quiet(g) OBVIOUS
  <2>1. CASE c # Listener(g) BY <1>3, <2>1, Clients DEF Quiet
  <2>2. CASE c = Listener(g)
    <3>0. g = d BY <2>2, Clients
    <3>1. ListenerFrame(g) BY DEF KeptInv, FramesKept
    <3>2. Arrived(g, frame[c])' BY <1>3, <2>2, <3>1, ArrivedStays DEF ListenerFrame
    <3>3. frame[c][1] = "text" => frame[c][2] \in Text /\ Firm(g, frame[c][2])'
      BY <1>1, <1>3, <2>2, <3>0, <3>1 DEF ListenerFrame, Firm, Grow
    <3> QED BY <1>3, <2>2, <3>0, <3>2, <3>3 DEF Quiet, ListenerFrame
  <2> QED BY <2>1, <2>2
<1>5. FramesKept' BY <1>3, <1>4, FramesGo
<1>6. \A n \in Text : Other(n[1]) \in Device BY Frames, Others
<1>7. (FilesKept /\ CopiesKept)'
  <2>1. \A n \in Text : landed[n] = "delivered" => copy[c][n] = "delivered"
    BY <1>2, EmptyIs
  <2>2. ASSUME NEW n \in Text, file'[n[1]][n] = "delivered" PROVE Firm(Other(n[1]), n)
    BY <1>1, <1>3, <2>1, <2>2, Frames DEF KeptInv, FilesKept, CopiesKept
  <2> QED BY <1>3, <1>6, <2>2 DEF KeptInv, FilesKept, CopiesKept, Grow
<1> QED BY <1>5, <1>7 DEF KeptInv

LEMMA KeptAppend ==
    ASSUME LinkInv, KeptInv, Grow, NEW d \in Device,
           AppendSent(d) \/ AppendReceived(d) \/ HandleReceipt(d)
    PROVE  KeptInv'
<1> DEFINE u == User(d)
           c == Listener(d)
<1>0. u \in Thread(d) /\ c \in Thread(d) /\ u # c /\ c \in Client BY Clients DEF Thread
<1>1. at[c] = "append" => Arrived(d, frame[c]) BY DEF KeptInv, FramesKept, ListenerFrame
<1>2. CASE AppendSent(d)
  <2>1. PICK new \in Conversation : Save(u, new) /\ new = [copy[u] EXCEPT ![frame[u][2]] = "sent"]
    BY <1>2, Appends
  <2>2. at[u] = "append" BY <1>2, Appends
  <2> QED BY <1>0, <2>1, <2>2, KeptSave
<1>3. CASE AppendReceived(d)
  <2>1. PICK new \in Conversation :
          Save(c, new) /\ new = [copy[c] EXCEPT ![frame[c][2]] = "delivered"]
    BY <1>3, Appends
  <2>2. at[c] = "append" /\ frame[c][1] = "text" BY <1>3, Appends
  <2>3. frame[c][2][1] # d BY <1>1, <2>2, Others DEF Arrived
  <2> QED BY <1>0, <2>1, <2>2, <2>3, KeptSave
<1>4. CASE HandleReceipt(d)
  <2>1. at[c] = "append" /\ frame[c][1] = "receipt" BY <1>4, Receipts
  <2>2. ASSUME NEW new \in Conversation, frame[c][2] \in Text, Save(c, new),
               new = [copy[c] EXCEPT ![frame[c][2]] = "delivered"]
        PROVE  KeptInv'
    <3>1. Firm(Other(d), frame[c][2]) BY <1>1, <2>1, <2>2 DEF Arrived
    <3> QED BY <1>0, <2>1, <2>2, <3>1, KeptSave
  <2>3. CASE /\ at' = [at EXCEPT ![c] = "idle"]
             /\ UNCHANGED <<fileVars, frame, linkVars, texts, queued, faultVars>>
    <3>1. \A g \in Device : Quiet(g)
      BY <1>0, <2>3, Clients DEF Quiet, LinkInv, Types, fileVars
    <3> QED BY <2>3, <3>1, FramesGo, FilesGo DEF fileVars, linkVars, KeptInv
  <2> QED BY <1>4, <2>2, <2>3, Receipts
<1> QED BY <1>2, <1>3, <1>4

LEMMA KeptNext == LinkInv /\ KeptInv /\ [Next]_vars => KeptInv'
<1> SUFFICES ASSUME LinkInv, KeptInv, [Next]_vars PROVE KeptInv' OBVIOUS
<1>0. Grow BY FirmStays DEF Grow
<1>1. CASE UNCHANGED vars
  <2>1. UNCHANGED <<file, copy, at, frame, inbox>> BY <1>1 DEF vars, fileVars, linkVars
  <2>2. \A g \in Device : Quiet(g) BY <2>1 DEF Quiet
  <2> QED BY <1>0, <2>1, <2>2, FramesGo, FilesGo DEF KeptInv
<1>2. CASE Next
  <2>1. PICK d \in Device : SendText(d) \/ UserThread(d) \/ ListenerThread(d) \/ Failure(d)
    BY <1>2 DEF Next
  <2>2. /\ User(d) \in Client /\ Listener(d) \in Client
        /\ User(d) \in Thread(d) /\ Listener(d) \in Thread(d)
    BY Clients DEF Thread
  <2>3. CASE SendText(d) \/ UserThread(d)
    BY <1>0, <2>2, <2>3, KeptQuiet, KeptWriteFrame, KeptLoad, KeptAppend, KeptSaved DEF UserThread
  <2>4. CASE ListenerThread(d)
    BY <1>0, <2>2, <2>4, KeptQuiet, KeptClient, KeptWriteFrame, KeptLoad, KeptRead, KeptAppend,
       KeptSaved DEF ListenerThread
  <2>5. CASE Failure(d)
    BY <1>0, <2>2, <2>5, KeptQuiet DEF Failure
  <2> QED BY <2>1, <2>3, <2>4, <2>5
<1> QED BY <1>1, <1>2

(* What a sender shows as delivered its receiver keeps, for any number of    *)
(* texts both ways, whatever fails and however the four threads interleave;  *)
(* the one way to lose it is that the receiver's own two threads write the   *)
(* conversation over each other, or that one of their writes fails.          *)
THEOREM DeliveredIsKept == Spec => []DeliveredMeansKept
<1>1. KeptInv => DeliveredMeansKept
  <2> SUFFICES ASSUME KeptInv, NEW m \in Text, file[m[1]][m] = "delivered"
               PROVE  Kept(Other(m[1]), m)
    BY DEF DeliveredMeansKept
  <2>1. Firm(Other(m[1]), m) BY DEF KeptInv, FilesKept
  <2> QED BY <2>1 DEF Firm, Kept
<1> QED BY <1>1, KeptInit, KeptNext, LinkHolds, PTL DEF Spec
=============================================================================
