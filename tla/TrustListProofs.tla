--------------------------- MODULE TrustListProofs ---------------------------
(* Whatever the threads that share trust.json overwrite, lose or move aside, *)
(* its lists stay well formed and hold no decision the user never made.      *)
EXTENDS TrustList, TLAPS

(* What makes it inductive: the decision being carried out was asked for. *)
InProgress == pc["user"] # "idle" => <<subject["user"], decision>> \in asked

Inv == TypeOK /\ OnlyByConsent /\ InProgress

-----------------------------------------------------------------------------
(* Lists *)

LEMMA NoDevicesList ==
    /\ NoDevices \in Devices
    /\ DecidedIn(NoDevices)
BY DEF NoDevices, Devices, DecidedIn, Unlisted, Decisions

(* Observing the visible peers makes a list of a list and decides nothing. *)
LEMMA ObservedList ==
    ASSUME TypeOK, NEW list \in Devices
    PROVE  Observed(list) \in Devices
<1> SUFFICES ASSUME NEW p \in Peers
             PROVE  Observed(list)[p] \in KnownDevice \cup {Unlisted}
  BY DEF Observed, Devices
<1>1. list[p] \in KnownDevice \cup {Unlisted} BY DEF Devices
<1>2. table[p] \in Details \cup {NoDetails} BY DEF TypeOK
<1>3. CASE table[p] = NoDetails
  BY <1>1, <1>3 DEF Observed
<1>4. CASE table[p] # NoDetails /\ list[p] = Unlisted
  BY <1>2, <1>4 DEF Observed, KnownDevice, TrustState
<1>5. CASE table[p] # NoDetails /\ list[p] # Unlisted
  <2>1. list[p] \in KnownDevice /\ table[p] \in Details
    BY <1>1, <1>2, <1>5
  <2>2. [list[p] EXCEPT !.details = table[p]] \in KnownDevice
    BY <2>1 DEF KnownDevice
  <2> QED BY <1>5, <2>2 DEF Observed
<1> QED BY <1>3, <1>4, <1>5

LEMMA ObservedDecided ==
    ASSUME TypeOK, NEW list \in Devices, DecidedIn(list)
    PROVE  DecidedIn(Observed(list))
<1> SUFFICES ASSUME NEW p \in Peers, Observed(list)[p].state \in Decisions
             PROVE  <<p, Observed(list)[p].state>> \in asked
  BY DEF DecidedIn
<1>1. list[p] \in KnownDevice \cup {Unlisted} BY DEF Devices
<1>2. CASE table[p] = NoDetails
  BY <1>2 DEF Observed, DecidedIn
<1>3. CASE table[p] # NoDetails /\ list[p] = Unlisted
  BY <1>3 DEF Observed, Decisions
<1>4. CASE table[p] # NoDetails /\ list[p] # Unlisted
  <2>1. list[p] \in KnownDevice BY <1>1, <1>4
  <2>2. Observed(list)[p].state = list[p].state
    BY <1>4, <2>1 DEF Observed, KnownDevice
  <2> QED BY <2>2 DEF DecidedIn
<1> QED BY <1>2, <1>3, <1>4

(* A decision that the user has asked for is the only one it adds. *)
LEMMA DecideList ==
    ASSUME NEW list \in Devices, NEW p \in Peers, NEW d \in Decisions,
           list[p] # Unlisted
    PROVE  [list EXCEPT ![p].state = d] \in Devices
<1>1. list[p] \in KnownDevice BY DEF Devices
<1>2. [list[p] EXCEPT !.state = d] \in KnownDevice
  BY <1>1 DEF KnownDevice, TrustState
<1> QED BY <1>2 DEF Devices

LEMMA DecideDecided ==
    ASSUME NEW list \in Devices, NEW p \in Peers, NEW d \in Decisions,
           list[p] # Unlisted, DecidedIn(list), <<p, d>> \in asked
    PROVE  DecidedIn([list EXCEPT ![p].state = d])
<1> DEFINE new == [list EXCEPT ![p].state = d]
<1>1. list[p] \in KnownDevice BY DEF Devices
<1>2. new[p].state = d BY <1>1 DEF Devices, KnownDevice
<1>3. ASSUME NEW q \in Peers, q # p PROVE new[q] = list[q]
  BY <1>3 DEF Devices
<1> HIDE DEF new
<1>4. DecidedIn(new)
  BY <1>2, <1>3 DEF DecidedIn
<1> QED BY <1>4 DEF new

-----------------------------------------------------------------------------
(* What every step of a thread shares *)

LEMMA GotoType ==
    ASSUME TypeOK, NEW t \in Threads,
           NEW step \in {"idle", "load", "read", "aside", "loaded", "write"}, Goto(t, step)
    PROVE  /\ pc' \in [Threads -> {"idle", "load", "read", "aside", "loaded", "write"}]
           /\ pc'[t] = step
           /\ \A u \in Threads \ {t} : pc'[u] = pc[u]
BY DEF Goto, TypeOK

(* A store is changed to a list that decides nothing new. *)
LEMMA StoreStep ==
    ASSUME Inv, NEW t \in Threads, NEW list \in Devices, DecidedIn(list),
           store' = [store EXCEPT ![t] = list], asked \subseteq asked'
    PROVE  store' \in [Threads -> Devices] /\ \A u \in Threads : DecidedIn(store[u])'
<1>1. store \in [Threads -> Devices] /\ \A u \in Threads : DecidedIn(store[u])
  BY DEF Inv, TypeOK, OnlyByConsent
<1>2. store' \in [Threads -> Devices] BY <1>1
<1>3. ASSUME NEW u \in Threads PROVE DecidedIn(store[u])'
  <2>1. store'[u] = list \/ store'[u] = store[u] BY <1>1
  <2> QED BY <1>1, <2>1 DEF DecidedIn
<1> QED BY <1>2, <1>3

LEMMA LoadStep ==
    ASSUME Inv, NEW t \in Threads, Load(t) \/ Read(t)
    PROVE  Inv'
<1>1. TypeOK /\ OnlyByConsent /\ InProgress BY DEF Inv
<1>2. /\ pc' \in [Threads -> {"idle", "load", "read", "aside", "loaded", "write"}]
      /\ pc[t] # "idle" /\ pc[t] # "write" /\ \A u \in Threads \ {t} : pc'[u] = pc[u]
  BY <1>1, GotoType DEF Load, Read, Finish
<1>3. store' \in [Threads -> Devices] /\ \A u \in Threads : DecidedIn(store[u])'
  <2>1. CASE store' = [store EXCEPT ![t] = listed]
    BY <1>1, <2>1, StoreStep DEF Load, Read, userVars, TypeOK, OnlyByConsent
  <2>2. CASE store' = store
    BY <1>1, <2>2 DEF Load, Read, userVars, TypeOK, OnlyByConsent, DecidedIn
  <2>3. CASE store' = [store EXCEPT ![t] = NoDevices]
    BY <2>3, NoDevicesList, StoreStep DEF Load, Read, userVars
  <2> QED BY <2>1, <2>2, <2>3 DEF Load, Read, Finish
<1>4. UNCHANGED <<fileVars, subject, discoveryVars, userVars, listenerVars>>
  BY DEF Load, Read
<1>5. detached' \subseteq {u \in Threads : pc'[u] = "write"}
  BY <1>1, <1>2, <1>4 DEF TypeOK, fileVars
<1>6. TypeOK'
  BY <1>1, <1>2, <1>3, <1>4, <1>5
  DEF TypeOK, fileVars, discoveryVars, userVars, listenerVars
<1>7. OnlyByConsent'
  BY <1>1, <1>3, <1>4 DEF OnlyByConsent, DecidedIn, fileVars, userVars, listenerVars
<1>8. InProgress'
  BY <1>1, <1>2, <1>4 DEF InProgress, userVars, Threads
<1> QED BY <1>6, <1>7, <1>8 DEF Inv

LEMMA MoveAsideStep ==
    ASSUME Inv, NEW t \in Threads, MoveAside(t)
    PROVE  Inv'
<1>1. TypeOK /\ OnlyByConsent /\ InProgress BY DEF Inv
<1>2. /\ pc' \in [Threads -> {"idle", "load", "read", "aside", "loaded", "write"}]
      /\ pc[t] = "aside" /\ pc'[t] = "loaded" /\ \A u \in Threads \ {t} : pc'[u] = pc[u]
  BY <1>1, GotoType DEF MoveAside
<1>3. store' \in [Threads -> Devices] /\ \A u \in Threads : DecidedIn(store[u])'
  BY NoDevicesList, StoreStep DEF MoveAside, userVars
<1>4. /\ UNCHANGED <<subject, discoveryVars, userVars, listenerVars>>
      /\ file' = "missing" /\ listed' = NoDevices
      /\ detached' = detached \cup {u \in Threads : pc[u] = "write"}
  BY DEF MoveAside
<1>5. detached' \subseteq {u \in Threads : pc'[u] = "write"}
  BY <1>1, <1>2, <1>4 DEF TypeOK
<1>6. TypeOK'
  BY <1>1, <1>2, <1>3, <1>4, <1>5, NoDevicesList
  DEF TypeOK, Forms, discoveryVars, userVars, listenerVars
<1>7. OnlyByConsent'
  BY <1>1, <1>3, <1>4, NoDevicesList DEF OnlyByConsent, DecidedIn, userVars, listenerVars
<1>8. InProgress'
  BY <1>1, <1>2, <1>4 DEF InProgress, userVars, Threads
<1> QED BY <1>6, <1>7, <1>8 DEF Inv

(* A save of a list that decides nothing new. *)
LEMMA SaveStep ==
    ASSUME Inv, NEW t \in Threads, NEW list \in Devices, DecidedIn(list), Save(t, list),
           pc[t] # "idle",
           UNCHANGED <<subject, discoveryVars, userVars, listenerVars>>
    PROVE  Inv'
<1>1. TypeOK /\ OnlyByConsent /\ InProgress BY DEF Inv
<1>2. /\ pc' \in [Threads -> {"idle", "load", "read", "aside", "loaded", "write"}]
      /\ pc'[t] = "write" /\ \A u \in Threads \ {t} : pc'[u] = pc[u]
  BY <1>1, GotoType DEF Save
<1>3. store' \in [Threads -> Devices] /\ \A u \in Threads : DecidedIn(store[u])'
  BY StoreStep DEF Save, userVars
<1>4. file' = "truncated" /\ listed' = NoDevices /\ detached' = detached \ {t}
  BY DEF Save
<1>5. detached' \subseteq {u \in Threads : pc'[u] = "write"}
  BY <1>1, <1>2, <1>4 DEF TypeOK
<1>6. TypeOK'
  BY <1>1, <1>2, <1>3, <1>4, <1>5, NoDevicesList
  DEF TypeOK, Forms, discoveryVars, userVars, listenerVars
<1>7. OnlyByConsent'
  BY <1>1, <1>3, <1>4, NoDevicesList DEF OnlyByConsent, DecidedIn, userVars, listenerVars
<1>8. InProgress'
  BY <1>1, <1>2 DEF InProgress, userVars, Threads
<1> QED BY <1>6, <1>7, <1>8 DEF Inv

(* A thread that finishes leaves its store empty. *)
LEMMA FinishStep ==
    ASSUME Inv, NEW t \in Threads, Finish(t)
    PROVE  /\ pc' \in [Threads -> {"idle", "load", "read", "aside", "loaded", "write"}]
           /\ pc'[t] = "idle" /\ \A u \in Threads \ {t} : pc'[u] = pc[u]
           /\ asked' = asked =>
                store' \in [Threads -> Devices] /\ \A u \in Threads : DecidedIn(store[u])'
BY NoDevicesList, StoreStep, GotoType DEF Inv, Finish

LEMMA WriteStep ==
    ASSUME Inv, NEW t \in Threads, Write(t),
           UNCHANGED <<decision, decisions, asked, discoveryVars, listenerVars>>
    PROVE  Inv'
<1>1. TypeOK /\ OnlyByConsent /\ InProgress BY DEF Inv
<1>2. /\ pc' \in [Threads -> {"idle", "load", "read", "aside", "loaded", "write"}]
      /\ pc'[t] = "idle" /\ \A u \in Threads \ {t} : pc'[u] = pc[u]
  BY FinishStep DEF Write
<1>3. store' \in [Threads -> Devices] /\ \A u \in Threads : DecidedIn(store[u])'
  BY FinishStep DEF Write
<1>4. detached' = detached \ {t} /\ UNCHANGED subject
  BY DEF Write
<1>5. file' \in Forms /\ listed' \in Devices /\ DecidedIn(listed')
  <2>1. store[t] \in Devices /\ DecidedIn(store[t]) BY <1>1 DEF TypeOK, OnlyByConsent
  <2>2. file \in Forms /\ listed \in Devices /\ DecidedIn(listed)
    BY <1>1 DEF TypeOK, OnlyByConsent
  <2>3. \/ file' = file /\ listed' = listed
        \/ file' = "list" /\ listed' = store[t]
        \/ file' \in {"garbled", "undecodable"} /\ listed' = NoDevices
    BY DEF Write
  <2> QED BY <2>1, <2>2, <2>3, NoDevicesList DEF Forms
<1>6. detached' \subseteq {u \in Threads : pc'[u] = "write"}
  BY <1>1, <1>2, <1>4 DEF TypeOK
<1>7. TypeOK'
  BY <1>1, <1>2, <1>3, <1>4, <1>5, <1>6
  DEF TypeOK, discoveryVars, listenerVars
<1>8. OnlyByConsent'
  BY <1>1, <1>3, <1>5 DEF OnlyByConsent, DecidedIn, listenerVars
<1>9. InProgress'
  BY <1>1, <1>2, <1>4 DEF InProgress, Threads
<1> QED BY <1>7, <1>8, <1>9 DEF Inv

-----------------------------------------------------------------------------
(* The steps of each thread *)

LEMMA ReceiveStep == ASSUME Inv, Receive PROVE Inv'
<1>1. TypeOK /\ OnlyByConsent /\ InProgress BY DEF Inv
<1>2. /\ pc' \in [Threads -> {"idle", "load", "read", "aside", "loaded", "write"}]
      /\ pc["discovery"] = "idle" /\ pc'["discovery"] = "load"
      /\ \A u \in Threads \ {"discovery"} : pc'[u] = pc[u]
  BY <1>1, GotoType DEF Receive, Threads
<1>3. UNCHANGED <<fileVars, store, subject, userVars, listenerVars>>
  BY DEF Receive
<1>4. table' \in [Peers -> Details \cup {NoDetails}]
  <2>1. \A gone \in SUBSET Peers : Without(gone) \in [Peers -> Details \cup {NoDetails}]
    BY <1>1 DEF Without, TypeOK
  <2> QED BY <2>1 DEF Receive
<1>5. detached' \subseteq {u \in Threads : pc'[u] = "write"}
  BY <1>1, <1>2, <1>3 DEF TypeOK, fileVars
<1>6. TypeOK'
  BY <1>1, <1>2, <1>3, <1>4, <1>5 DEF TypeOK, fileVars, userVars, listenerVars
<1>7. OnlyByConsent'
  BY <1>1, <1>3 DEF OnlyByConsent, DecidedIn, fileVars, userVars, listenerVars
<1>8. InProgress'
  BY <1>1, <1>2, <1>3 DEF InProgress, userVars, Threads
<1> QED BY <1>6, <1>7, <1>8 DEF Inv

LEMMA ObserveStep == ASSUME Inv, Observe PROVE Inv'
<1> DEFINE old == store["discovery"]
<1>1. TypeOK /\ OnlyByConsent /\ InProgress BY DEF Inv
<1>2. old \in Devices /\ DecidedIn(old)
  BY <1>1 DEF TypeOK, OnlyByConsent, Threads
<1>3. Observed(old) \in Devices /\ DecidedIn(Observed(old))
  BY <1>1, <1>2, ObservedList, ObservedDecided
<1>4. /\ UNCHANGED <<subject, discoveryVars, userVars, listenerVars>>
      /\ pc["discovery"] = "loaded"
      /\ "discovery" \in Threads
  BY DEF Observe, Threads
<1>5. CASE Save("discovery", Observed(old))
  BY <1>3, <1>4, <1>5, SaveStep
<1>6. CASE Finish("discovery") /\ UNCHANGED fileVars
  <2>1. /\ pc' \in [Threads -> {"idle", "load", "read", "aside", "loaded", "write"}]
        /\ pc'["discovery"] = "idle"
        /\ \A u \in Threads \ {"discovery"} : pc'[u] = pc[u]
        /\ store' \in [Threads -> Devices] /\ \A u \in Threads : DecidedIn(store[u])'
    BY <1>4, <1>6, FinishStep DEF userVars
  <2>2. detached' \subseteq {u \in Threads : pc'[u] = "write"}
    BY <1>1, <1>4, <1>6, <2>1 DEF TypeOK, fileVars
  <2>3. TypeOK'
    BY <1>1, <1>4, <1>6, <2>1, <2>2
    DEF TypeOK, fileVars, discoveryVars, userVars, listenerVars
  <2>4. OnlyByConsent'
    BY <1>1, <1>4, <1>6, <2>1 DEF OnlyByConsent, DecidedIn, fileVars, userVars, listenerVars
  <2>5. InProgress'
    BY <1>1, <1>4, <2>1 DEF InProgress, userVars, Threads
  <2> QED BY <2>3, <2>4, <2>5 DEF Inv
<1> QED BY <1>5, <1>6 DEF Observe

LEMMA AskStep == ASSUME Inv, Ask PROVE Inv'
<1>1. TypeOK /\ OnlyByConsent /\ InProgress BY DEF Inv
<1>2. /\ pc' \in [Threads -> {"idle", "load", "read", "aside", "loaded", "write"}]
      /\ pc["user"] = "idle" /\ pc'["user"] = "load"
      /\ \A u \in Threads \ {"user"} : pc'[u] = pc[u]
  BY <1>1, GotoType DEF Ask, Threads
<1>3. /\ UNCHANGED <<fileVars, store, discoveryVars, listenerVars>>
      /\ decisions < MaxDecisions /\ decisions' = decisions + 1
  BY DEF Ask
<1>4. PICK p \in Peers, d \in Decisions :
        /\ subject' = [subject EXCEPT !["user"] = p]
        /\ decision' = d
        /\ asked' = asked \cup {<<p, d>>}
  BY DEF Ask
<1>5. /\ subject' \in [Callers -> Peers] /\ subject'["user"] = p
      /\ asked' \subseteq Peers \X Decisions
  BY <1>1, <1>4 DEF TypeOK, Callers
<1>6. detached' \subseteq {u \in Threads : pc'[u] = "write"}
  BY <1>1, <1>2, <1>3 DEF TypeOK, fileVars
<1>7. TypeOK'
  BY <1>1, <1>2, <1>3, <1>4, <1>5, <1>6, MaxDecisionsAssumption
  DEF TypeOK, fileVars, discoveryVars, listenerVars
<1>8. OnlyByConsent'
  BY <1>1, <1>3, <1>4 DEF OnlyByConsent, DecidedIn, fileVars, listenerVars
<1>9. InProgress'
  BY <1>4, <1>5 DEF InProgress
<1> QED BY <1>7, <1>8, <1>9 DEF Inv

LEMMA DecideStep == ASSUME Inv, Decide PROVE Inv'
<1> DEFINE p == subject["user"]
           old == store["user"]
<1>1. TypeOK /\ OnlyByConsent /\ InProgress BY DEF Inv
<1>2. old \in Devices /\ DecidedIn(old) /\ p \in Peers /\ decision \in Decisions
  BY <1>1 DEF TypeOK, OnlyByConsent, Threads, Callers
<1>3. /\ UNCHANGED <<subject, decision, decisions, asked, discoveryVars, listenerVars>>
      /\ pc["user"] = "loaded" /\ "user" \in Threads
  BY DEF Decide, Threads
<1>4. <<p, decision>> \in asked BY <1>1, <1>3 DEF InProgress
<1>5. CASE old[p] # Unlisted /\ Save("user", [old EXCEPT ![p].state = decision])
  <2>1. /\ [old EXCEPT ![p].state = decision] \in Devices
        /\ DecidedIn([old EXCEPT ![p].state = decision])
    BY <1>2, <1>4, <1>5, DecideList, DecideDecided
  <2> QED BY <1>3, <1>5, <2>1, SaveStep DEF userVars
<1>6. CASE Finish("user") /\ UNCHANGED fileVars
  <2>1. /\ pc' \in [Threads -> {"idle", "load", "read", "aside", "loaded", "write"}]
        /\ pc'["user"] = "idle"
        /\ \A u \in Threads \ {"user"} : pc'[u] = pc[u]
        /\ store' \in [Threads -> Devices] /\ \A u \in Threads : DecidedIn(store[u])'
    BY <1>3, <1>6, FinishStep
  <2>2. detached' \subseteq {u \in Threads : pc'[u] = "write"}
    BY <1>1, <1>3, <1>6, <2>1 DEF TypeOK, fileVars
  <2>3. TypeOK'
    BY <1>1, <1>3, <1>6, <2>1, <2>2
    DEF TypeOK, fileVars, discoveryVars, listenerVars
  <2>4. OnlyByConsent'
    BY <1>1, <1>3, <1>6, <2>1 DEF OnlyByConsent, DecidedIn, fileVars, listenerVars
  <2>5. InProgress'
    BY <2>1 DEF InProgress
  <2> QED BY <2>3, <2>4, <2>5 DEF Inv
<1> QED BY <1>5, <1>6 DEF Decide

LEMMA ArriveStep == ASSUME Inv, Arrive PROVE Inv'
<1>1. TypeOK /\ OnlyByConsent /\ InProgress BY DEF Inv
<1>2. /\ pc' \in [Threads -> {"idle", "load", "read", "aside", "loaded", "write"}]
      /\ pc["listener"] = "idle" /\ pc'["listener"] = "load"
      /\ \A u \in Threads \ {"listener"} : pc'[u] = pc[u]
  BY <1>1, GotoType DEF Arrive, Threads
<1>3. /\ UNCHANGED <<fileVars, store, delivered, discoveryVars, userVars>>
      /\ messages < MaxMessages /\ messages' = messages + 1
  BY DEF Arrive
<1>4. subject' \in [Callers -> Peers] /\ subject'["user"] = subject["user"]
  BY <1>1 DEF Arrive, TypeOK, Callers
<1>5. detached' \subseteq {u \in Threads : pc'[u] = "write"}
  BY <1>1, <1>2, <1>3 DEF TypeOK, fileVars
<1>6. TypeOK'
  BY <1>1, <1>2, <1>3, <1>4, <1>5, MaxMessagesAssumption
  DEF TypeOK, fileVars, discoveryVars, userVars
<1>7. OnlyByConsent'
  BY <1>1, <1>3 DEF OnlyByConsent, DecidedIn, fileVars, userVars
<1>8. InProgress'
  BY <1>1, <1>2, <1>3, <1>4 DEF InProgress, userVars, Threads
<1> QED BY <1>6, <1>7, <1>8 DEF Inv

LEMMA AdmitStep == ASSUME Inv, Admit PROVE Inv'
<1>1. TypeOK /\ OnlyByConsent /\ InProgress BY DEF Inv
<1>2. "listener" \in Threads /\ Finish("listener")
      /\ UNCHANGED <<fileVars, subject, messages, discoveryVars, userVars>>
  BY DEF Admit, Threads
<1>3. /\ pc' \in [Threads -> {"idle", "load", "read", "aside", "loaded", "write"}]
      /\ pc["listener"] = "loaded" /\ pc'["listener"] = "idle"
      /\ \A u \in Threads \ {"listener"} : pc'[u] = pc[u]
      /\ store' \in [Threads -> Devices] /\ \A u \in Threads : DecidedIn(store[u])'
  BY <1>2, FinishStep DEF Admit, userVars
<1>4. delivered' \subseteq Peers /\ \A q \in delivered' : <<q, "trusted">> \in asked
  <2> DEFINE q == subject["listener"]
  <2>1. /\ q \in Peers /\ DecidedIn(store["listener"])
        /\ delivered \subseteq Peers /\ \A r \in delivered : <<r, "trusted">> \in asked
    BY <1>1 DEF TypeOK, OnlyByConsent, Threads, Callers
  <2>2. Admits(store["listener"][q]) => <<q, "trusted">> \in asked
    BY <2>1 DEF Admits, DecidedIn, Decisions
  <2> QED BY <2>1, <2>2 DEF Admit
<1>5. detached' \subseteq {u \in Threads : pc'[u] = "write"}
  BY <1>1, <1>2, <1>3 DEF TypeOK, fileVars
<1>6. TypeOK'
  BY <1>1, <1>2, <1>3, <1>4, <1>5
  DEF TypeOK, fileVars, discoveryVars, userVars
<1>7. OnlyByConsent'
  BY <1>1, <1>2, <1>3, <1>4 DEF OnlyByConsent, DecidedIn, fileVars, userVars
<1>8. InProgress'
  BY <1>1, <1>2, <1>3 DEF InProgress, userVars, Threads
<1> QED BY <1>6, <1>7, <1>8 DEF Inv

-----------------------------------------------------------------------------

LEMMA InvInit == Init => Inv
<1> SUFFICES ASSUME Init PROVE Inv OBVIOUS
<1>1. TypeOK
  BY NoDevicesList, MaxDecisionsAssumption, MaxMessagesAssumption
  DEF Init, TypeOK, Forms, Decisions
<1>2. OnlyByConsent
  BY NoDevicesList DEF Init, OnlyByConsent
<1>3. InProgress BY DEF Init, InProgress, Threads
<1> QED BY <1>1, <1>2, <1>3 DEF Inv

LEMMA InvNext == Inv /\ [Next]_vars => Inv'
<1> SUFFICES ASSUME Inv, [Next]_vars PROVE Inv' OBVIOUS
<1>1. CASE Discovery
  <2>1. CASE Load("discovery") \/ Read("discovery") \/ MoveAside("discovery")
    BY <2>1, LoadStep, MoveAsideStep DEF Threads
  <2>2. CASE WriteObserved
    BY <2>2, WriteStep DEF WriteObserved, userVars, Threads
  <2> QED BY <1>1, <2>1, <2>2, ReceiveStep, ObserveStep DEF Discovery
<1>2. CASE User
  <2>1. CASE Load("user") \/ Read("user") \/ MoveAside("user")
    BY <2>1, LoadStep, MoveAsideStep DEF Threads
  <2>2. CASE WriteDecision
    BY <2>2, WriteStep DEF WriteDecision, Threads
  <2> QED BY <1>2, <2>1, <2>2, DecideStep DEF User
<1>3. CASE Listener
  <2>1. CASE Load("listener") \/ Read("listener") \/ MoveAside("listener")
    BY <2>1, LoadStep, MoveAsideStep DEF Threads
  <2> QED BY <1>3, <2>1, AdmitStep DEF Listener
<1>4. CASE UNCHANGED vars
  BY <1>4 DEF vars, Inv, TypeOK, OnlyByConsent, InProgress, DecidedIn
<1> QED BY <1>1, <1>2, <1>3, <1>4, AskStep, ArriveStep DEF Next

LEMMA Invariance == Spec => []Inv
BY InvInit, InvNext, PTL DEF Spec

(* The lists in the file and in the threads are well formed, and a thread    *)
(* whose file was moved aside is still writing it.                           *)
THEOREM TrustTypeCorrect == Spec => []TypeOK
BY Invariance, PTL DEF Inv

(* No list holds a decision the user never made and no message is taken from *)
(* a device the user never accepted, for any number of peers and decisions.  *)
THEOREM ConsentRequired == Spec => []OnlyByConsent
BY Invariance, PTL DEF Inv
=============================================================================
