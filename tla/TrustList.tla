------------------------------ MODULE TrustList ------------------------------
(* The trust list of one device: trust.json, the discovery loop that records *)
(* the peers it sees in it (capsi_discovery_start), the user's decisions     *)
(* (capsi_trust_accept, capsi_trust_ignore) and the listener that admits     *)
(* messages by it (capsi_message_start).                                     *)
(*                                                                           *)
(* The three threads share the file and no lock.  Each loads the whole list, *)
(* changes its copy and writes the whole list back; a write truncates the    *)
(* file before it fills it.  A reader that cannot parse the file moves it    *)
(* aside and starts an empty list; one that cannot even read it as text, or  *)
(* finds it gone after having seen it, has no list and gives up.             *)
EXTENDS Integers

CONSTANTS
    Peers,          \* the other devices on the network
    Details,        \* what a beacon says of its sender: name, address, port
    NoDetails,      \* no beacon
    MaxDecisions,   \* bound on the user's decisions
    MaxMessages     \* bound on the messages that arrive

ASSUME DetailsAssumption == NoDetails \notin Details
ASSUME MaxDecisionsAssumption == MaxDecisions \in Nat
ASSUME MaxMessagesAssumption == MaxMessages \in Nat

Threads == {"discovery", "user", "listener"}
Callers == {"user", "listener"}
Decisions == {"trusted", "blocked"}
TrustState == Decisions \cup {"pending"}

(* A TrustStore, with an entry for the devices it does not list too *)
KnownDevice == [state : TrustState, details : Details]
Unlisted == [state |-> "unknown", details |-> NoDetails]
Devices == [Peers -> KnownDevice \cup {Unlisted}]
NoDevices == [p \in Peers |-> Unlisted]

(* trust.json: a list, absent, cut off, or overwritten in part by a list of  *)
(* other names; what is overwritten does not parse, or is not even UTF-8     *)
Forms == {"list", "missing", "truncated", "garbled", "undecodable"}

VARIABLES
    file,       \* trust.json: its form
    listed,     \* and the devices it lists
    table,      \* the peers discovery sees, with their details
    pc,         \* per thread: idle, load, read, aside, loaded or write
    store,      \* per thread: its TrustStore
    detached,   \* the threads whose open file has been moved aside
    subject,    \* the device the user decides on, the sender of the message
    decision,   \* the decision the user is having carried out
    decisions, messages,
    asked,      \* history: <<p, d>> when the user has decided d on p
    delivered   \* history: the peers a message was taken from

vars == <<file, listed, table, pc, store, detached, subject, decision, decisions, messages,
          asked, delivered>>

fileVars == <<file, listed, detached>>
discoveryVars == table
userVars == <<decision, decisions, asked>>
listenerVars == <<messages, delivered>>

Init ==
    /\ file = "missing" /\ listed = NoDevices
    /\ table = [p \in Peers |-> NoDetails]
    /\ pc = [t \in Threads |-> "idle"]
    /\ store = [t \in Threads |-> NoDevices]
    /\ detached = {}
    /\ subject \in [Callers -> Peers]
    /\ decision = "trusted"
    /\ decisions = 0 /\ messages = 0
    /\ asked = {} /\ delivered = {}

Goto(t, step) == pc' = [pc EXCEPT ![t] = step]

(* A thread that is done drops its TrustStore *)
Finish(t) ==
    /\ Goto(t, "idle")
    /\ store' = [store EXCEPT ![t] = NoDevices]

-----------------------------------------------------------------------------
(* TrustStore::load *)

Load(t) ==
    /\ pc[t] = "load"
    /\ IF file = "missing" THEN Goto(t, "loaded") ELSE Goto(t, "read")
    /\ UNCHANGED <<fileVars, store, subject, discoveryVars, userVars, listenerVars>>

(* read_to_string and from_str.  What does not parse is to be moved aside; a *)
(* file that is gone by now, or cut off or garbled within a character, is an *)
(* error, upon which the loop skips a round, a call of the user fails and    *)
(* the listener drops the message.                                           *)
Read(t) ==
    /\ pc[t] = "read"
    /\ \/ /\ file = "list"
          /\ store' = [store EXCEPT ![t] = listed]
          /\ Goto(t, "loaded")
       \/ /\ file \in {"truncated", "garbled"}
          /\ Goto(t, "aside")
          /\ UNCHANGED store
       \/ /\ file \in {"missing", "truncated", "undecodable"}
          /\ Finish(t)
    /\ UNCHANGED <<fileVars, subject, discoveryVars, userVars, listenerVars>>

(* The unreadable file is renamed: by now perhaps another one is there, and  *)
(* a thread that is writing it goes on writing the renamed file.             *)
MoveAside(t) ==
    /\ pc[t] = "aside"
    /\ file' = "missing" /\ listed' = NoDevices
    /\ detached' = detached \cup {u \in Threads : pc[u] = "write"}
    /\ store' = [store EXCEPT ![t] = NoDevices]
    /\ Goto(t, "loaded")
    /\ UNCHANGED <<subject, discoveryVars, userVars, listenerVars>>

(* TrustStore::save_if_dirty.  Opening the file truncates it. *)
Save(t, list) ==
    /\ store' = [store EXCEPT ![t] = list]
    /\ file' = "truncated" /\ listed' = NoDevices
    /\ detached' = detached \ {t}
    /\ Goto(t, "write")

(* A file that another thread has filled since is overwritten, and what      *)
(* sticks out at the end, if anything, makes it unreadable.                  *)
Write(t) ==
    /\ pc[t] = "write"
    /\ \/ /\ t \in detached
          /\ UNCHANGED <<file, listed>>
       \/ /\ t \notin detached
          /\ file' = "list" /\ listed' = store[t]
       \/ /\ t \notin detached /\ file # "truncated"
          /\ file' \in {"garbled", "undecodable"} /\ listed' = NoDevices
    /\ detached' = detached \ {t}
    /\ Finish(t)
    /\ UNCHANGED subject

-----------------------------------------------------------------------------
(* The discovery loop.  One round: at most one beacon, then prune ... *)

Without(gone) == [p \in Peers |-> IF p \in gone THEN NoDetails ELSE table[p]]

Receive ==
    /\ pc["discovery"] = "idle"
    /\ \E gone \in SUBSET Peers :
         \/ table' = Without(gone)
         \/ \E p \in Peers \ gone, d \in Details :
              table' = [Without(gone) EXCEPT ![p] = d]
    /\ Goto("discovery", "load")
    /\ UNCHANGED <<fileVars, store, subject, userVars, listenerVars>>

(* ... then observe every peer that is visible *)
ObservedAll(list) ==
    [p \in Peers |->
       IF list[p] = Unlisted THEN [state |-> "pending", details |-> table[p]]
       ELSE [list[p] EXCEPT !.details = table[p]]]
Observed(list) ==
    [p \in Peers |->
       IF table[p] = NoDetails THEN list[p]
       ELSE IF list[p] = Unlisted THEN [state |-> "pending", details |-> table[p]]
       ELSE [list[p] EXCEPT !.details = table[p]]]

DirtyIfMoved(old, new) == \E p \in Peers : old[p] # Unlisted /\ new[p] # old[p]
Dirty(old, new) == \E p \in Peers : new[p] # old[p]

Observe ==
    /\ pc["discovery"] = "loaded"
    /\ LET old == store["discovery"]
           new == Observed(old)
       IN  IF Dirty(old, new)
           THEN Save("discovery", new)
           ELSE Finish("discovery") /\ UNCHANGED fileVars
    /\ UNCHANGED <<subject, discoveryVars, userVars, listenerVars>>

WriteObserved ==
    /\ Write("discovery")
    /\ UNCHANGED <<discoveryVars, userVars, listenerVars>>

Discovery ==
    \/ Receive
    \/ Load("discovery") \/ Read("discovery") \/ MoveAside("discovery")
    \/ Observe
    \/ WriteObserved

-----------------------------------------------------------------------------
(* The user: Accept or Ignore, one at a time *)

Ask ==
    /\ pc["user"] = "idle" /\ decisions < MaxDecisions
    /\ \E p \in Peers, d \in Decisions :
         /\ subject' = [subject EXCEPT !["user"] = p]
         /\ decision' = d
         /\ asked' = asked \cup {<<p, d>>}
    /\ decisions' = decisions + 1
    /\ Goto("user", "load")
    /\ UNCHANGED <<fileVars, store, discoveryVars, listenerVars>>

(* TrustStore::accept, TrustStore::ignore *)
Decide ==
    /\ pc["user"] = "loaded"
    /\ LET p == subject["user"]
           old == store["user"]
       IN  \/ /\ old[p] = Unlisted \/ old[p].state = decision
              /\ Finish("user")
              /\ UNCHANGED fileVars
           \/ /\ old[p] # Unlisted /\ old[p].state # decision
              /\ Save("user", [old EXCEPT ![p].state = decision])
    /\ UNCHANGED <<subject, decision, decisions, asked, discoveryVars, listenerVars>>

WriteDecision ==
    /\ Write("user")
    /\ UNCHANGED <<decision, decisions, asked, discoveryVars, listenerVars>>

User == Load("user") \/ Read("user") \/ MoveAside("user") \/ Decide \/ WriteDecision

-----------------------------------------------------------------------------
(* The listener, after the handshake has named the sender of a message; it   *)
(* stands for every reader, a send of the user reads the list the same way.  *)

Arrive ==
    /\ pc["listener"] = "idle" /\ messages < MaxMessages
    /\ \E p \in Peers : subject' = [subject EXCEPT !["listener"] = p]
    /\ messages' = messages + 1
    /\ Goto("listener", "load")
    /\ UNCHANGED <<fileVars, store, delivered, discoveryVars, userVars>>

AdmitsListed(device) == device # Unlisted
Admits(device) == device.state = "trusted"

Admit ==
    /\ pc["listener"] = "loaded"
    /\ delivered' = IF Admits(store["listener"][subject["listener"]])
                    THEN delivered \cup {subject["listener"]} ELSE delivered
    /\ Finish("listener")
    /\ UNCHANGED <<fileVars, subject, messages, discoveryVars, userVars>>

Listener == Load("listener") \/ Read("listener") \/ MoveAside("listener") \/ Admit

-----------------------------------------------------------------------------
Next == Discovery \/ Ask \/ User \/ Arrive \/ Listener

Spec == Init /\ [][Next]_vars

(* The threads run; beacons, messages and the user are under no obligation. *)
FairSpec ==
    /\ Spec
    /\ WF_vars(Discovery) /\ WF_vars(User) /\ WF_vars(Listener)

-----------------------------------------------------------------------------
(* A list has details of a device exactly when it lists it, and a file that *)
(* a thread is writing is there unless it was moved aside.                  *)
TypeOK ==
    /\ file \in Forms /\ listed \in Devices
    /\ table \in [Peers -> Details \cup {NoDetails}]
    /\ pc \in [Threads -> {"idle", "load", "read", "aside", "loaded", "write"}]
    /\ store \in [Threads -> Devices]
    /\ detached \subseteq {t \in Threads : pc[t] = "write"}
    /\ subject \in [Callers -> Peers]
    /\ decision \in Decisions
    /\ decisions \in 0 .. MaxDecisions /\ messages \in 0 .. MaxMessages
    /\ asked \subseteq Peers \X Decisions
    /\ delivered \subseteq Peers

DecidedIn(list) ==
    \A p \in Peers : list[p].state \in Decisions => <<p, list[p].state>> \in asked

(* Whatever the threads overwrite, lose or move aside, no list they pass to  *)
(* one another holds a decision the user never made, and no message is taken *)
(* from a device the user never accepted.                                    *)
OnlyByConsent ==
    /\ DecidedIn(listed)
    /\ \A t \in Threads : DecidedIn(store[t])
    /\ \A p \in delivered : <<p, "trusted">> \in asked

Lists(p) == listed[p] # Unlisted

(* A peer that stays visible is listed in the file at last, also when the    *)
(* writes of the user overlap the loop's and when the file is moved aside.   *)
(* The exception is a file whose overlapping writes have left something that *)
(* is not text: trust.rs:87 returns the error and nothing moves it aside,    *)
(* although trust.rs:91-92 means to "keep the file aside and begin fresh".   *)
VisibleListed ==
    \A p \in Peers :
        table[p] # NoDetails ~>
            table[p] = NoDetails \/ Lists(p) \/ file = "undecodable"
=============================================================================
