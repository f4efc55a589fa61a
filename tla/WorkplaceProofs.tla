--------------------------- MODULE WorkplaceProofs ---------------------------
(* What holds of the replicas of a workplace for any number of devices and  *)
(* groups, any roles in use and however long the users go on.               *)
EXTENDS Workplace, TLAPS

-----------------------------------------------------------------------------
(* The inductive invariant: what is true of a state in a file, in a call and *)
(* at a listener.                                                            *)

Entry ==
    [pc : {"load"}, frame : Frame]
      \cup [pc : {"save"}, copy : Workspace, base : SUBSET Workspace]
CallRecord ==
    [by : Devices, pc : {"save", "send"}, base : SUBSET Workspace, copy : Workspace,
     to : SUBSET Devices, frame : Frame]

(* The roles of a state are the owner's, or were given by who may. *)
Rightful(roles) ==
    \A d \in Devices :
        /\ roles[d] = "Owner" <=> d = Owner
        /\ roles[d] # NoRole => \E a \in Devices :
             /\ <<a, d, roles[d]>> \in granted
             /\ a = Owner \/ (roles[d] # "Admin" /\ <<Owner, a, "Admin">> \in granted)

(* Only members are in groups. *)
MembersOnly(s) == \A g \in s.made : s.groups[g] \subseteq Members(s)

Good(s) == s \in Workspace /\ s.stamp <= clock /\ MembersOnly(s) /\ Rightful(s.roles)

ReplicaOK(d, r) == Good(r) /\ d \in Members(r)

CallOK(c) ==
    /\ c \in CallRecord
    /\ Good(c.copy)
    /\ c.by \in Members(c.copy) /\ c.by \notin c.to
    /\ c.frame.from = c.by
    /\ c.frame.kind # "text" => c.frame.state = c.copy
    /\ c.frame.kind = "sync" => c.to \subseteq Members(c.copy)
    /\ c.frame.kind = "tombstone" => c.by = Owner

LoadOK(d, f) ==
    /\ f.from # d
    /\ f.kind # "text" => Good(f.state)
    /\ f.kind = "sync" => d \in Members(f.state)
    /\ f.kind = "tombstone" => f.from = Owner
EntryOK(d, l) ==
    /\ l \in Entry
    /\ l.pc = "load" => LoadOK(d, l.frame)
    /\ l.pc = "save" => Good(l.copy) /\ d \in Members(l.copy)

Inv ==
    /\ clock \in Nat
    /\ replica = [d \in Devices |-> replica[d]]
    /\ listener = [d \in Devices |-> listener[d]]
    /\ \A d \in Devices :
         /\ \A r, s \in replica[d] : r = s
         /\ \A l, k \in listener[d] : l = k
         /\ \A r \in replica[d] : ReplicaOK(d, r)
         /\ \A l \in listener[d] : EntryOK(d, l)
    /\ \A c \in calls : CallOK(c)

-----------------------------------------------------------------------------
(* Fields of the records *)

LEMMA WorkspaceFields ==
    ASSUME NEW s \in Workspace
    PROVE  /\ s.stamp \in Nat /\ s.made \subseteq Groups /\ s.texts \subseteq Text
           /\ s.roles \in [Devices -> Role \cup {NoRole}]
           /\ s.groups \in [Groups -> SUBSET Devices]
BY DEF Workspace

LEMMA TouchedFields ==
    ASSUME NEW s \in Workspace, clock \in Nat
    PROVE  /\ Touched(s) \in Workspace
           /\ Touched(s).stamp = clock + 1
           /\ Touched(s).roles = s.roles /\ Touched(s).made = s.made
           /\ Touched(s).groups = s.groups /\ Touched(s).texts = s.texts
BY DEF Workspace, Touched

(* What is good stays good as time passes and roles are given. *)
LEMMA GoodStays ==
    ASSUME clock \in Nat, clock' \in Nat, clock <= clock', granted \subseteq granted'
    PROVE  /\ \A s : Good(s) => Good(s)'
           /\ \A d, r : ReplicaOK(d, r) => ReplicaOK(d, r)'
           /\ \A c : CallOK(c) => CallOK(c)'
           /\ \A d, l : EntryOK(d, l) => EntryOK(d, l)'
<1>1. \A s : Good(s) => Good(s)'
  BY WorkspaceFields DEF Good, Rightful
<1>2. \A d, r : ReplicaOK(d, r) => ReplicaOK(d, r)'
  BY <1>1 DEF ReplicaOK
<1>3. \A c : CallOK(c) => CallOK(c)'
  BY <1>1 DEF CallOK
<1>4. \A d, l : EntryOK(d, l) => EntryOK(d, l)'
  BY <1>1 DEF EntryOK, LoadOK
<1> QED BY <1>1, <1>2, <1>3, <1>4

-----------------------------------------------------------------------------
(* What a user's call begins with, whichever it is *)

Gives(d, r, x, role) ==
    /\ role \in Given /\ x # Owner
    /\ <<d, x, role>> \in granted'
    /\ d = Owner \/ (role # "Admin" /\ r.roles[d] = "Admin")

Fresh(d, kind, r, copy, to, frame) ==
    /\ copy \in Workspace /\ MembersOnly(copy) /\ copy.stamp = clock + 1
    /\ granted \subseteq granted'
    /\ \A x \in Devices :
         copy.roles[x] = r.roles[x] \/ Gives(d, r, x, copy.roles[x])
    /\ to \subseteq Devices /\ d \notin to
    /\ frame \in Frame /\ frame.from = d
    /\ kind = "text" <=> frame.kind = "text"
    /\ kind = "delete" <=> frame.kind = "tombstone"
    /\ kind # "text" => frame.state = copy /\ to \subseteq Members(copy)
    /\ kind \in {"delete", "invite"} => d = Owner
    /\ kind \notin {"text", "invite"} => to = Members(copy) \ {d}
    /\ kind # "invite" => Members(copy) = Members(r)
    /\ kind # "text" /\ r.texts = {} /\ WellFormed(r) => copy.texts = {} /\ WellFormed(copy)

Begins(d, kind, r, copy, pc, to, frame) ==
    /\ Begin(d, kind, r, copy, pc, to, frame)
    /\ Fresh(d, kind, r, copy, to, frame)

Begun(d) ==
    \E kind \in Kinds, r \in replica[d], copy \in Workspace, pc \in {"save", "send"},
       to \in SUBSET Devices, frame \in Frame :
        Begins(d, kind, r, copy, pc, to, frame)

(* A state and what a call sends of it *)
LEMMA SyncFrame ==
    ASSUME NEW d \in Devices, NEW s \in Workspace,
           NEW kind \in {"sync", "tombstone"}
    PROVE  [kind |-> kind, from |-> d, state |-> s] \in Frame
BY DEF Frame

LEMMA ReplicaFields ==
    ASSUME Inv, NEW d \in Devices, NEW r \in replica[d]
    PROVE  /\ r \in Workspace
           /\ r.stamp \in Nat /\ r.stamp <= clock
           /\ d \in Members(r)
           /\ MembersOnly(r) /\ Rightful(r.roles)
BY WorkspaceFields DEF Inv, ReplicaOK, Good

(* The calls that send the changed state to others who are members of it    *)
LEMMA Publishes ==
    ASSUME Inv, NEW d \in Devices, NEW kind \in Kinds, NEW r \in replica[d],
           NEW changed \in Workspace, MembersOnly(changed), NEW to \in SUBSET Devices,
           kind \notin {"text", "delete"}, kind = "invite" => d = Owner,
           Publish(d, kind, r, changed, to),
           to \subseteq Members(changed) \ {d},
           kind # "invite" => to = Members(changed) \ {d} /\ Members(changed) = Members(r),
           granted \subseteq granted',
           \A x \in Devices :
             changed.roles[x] = r.roles[x] \/ Gives(d, r, x, changed.roles[x]),
           r.texts = {} /\ WellFormed(r) => changed.texts = {} /\ WellFormed(changed)
    PROVE  Begun(d)
<1> DEFINE copy == Touched(changed)
           frame == [kind |-> "sync", from |-> d, state |-> copy]
<1>1. clock \in Nat BY DEF Inv
<1>2. /\ copy \in Workspace /\ copy.stamp = clock + 1
      /\ copy.roles = changed.roles /\ copy.made = changed.made
      /\ copy.groups = changed.groups /\ copy.texts = changed.texts
  BY <1>1, TouchedFields
<1>3. frame \in Frame /\ frame.kind = "sync" /\ frame.from = d /\ frame.state = copy
  BY <1>2, SyncFrame
<1>4. Begin(d, kind, r, copy, "save", to, frame)
  BY DEF Publish
<1>5. Members(copy) = Members(changed)
  BY <1>2 DEF Members
<1>6. WellFormed(changed) /\ changed.texts = {} => WellFormed(copy)
  BY <1>2, <1>5 DEF WellFormed
<1>0. MembersOnly(copy)
  BY <1>2, <1>5 DEF MembersOnly
<1> HIDE DEF copy, frame
<1>7. Fresh(d, kind, r, copy, to, frame)
  BY <1>0, <1>2, <1>3, <1>5, <1>6 DEF Fresh
<1>8. Begins(d, kind, r, copy, "save", to, frame)
  BY <1>4, <1>7 DEF Begins
<1> QED BY <1>2, <1>3, <1>8 DEF Begun

LEMMA BeginRole ==
    ASSUME Inv, NEW d \in Devices, SetMemberRole(d)
    PROVE  Begun(d)
<1>1. PICK r \in replica[d], x \in Devices \ {Owner}, role \in Given :
        /\ {role, r.roles[x]} \subseteq CanAssign(r.roles[d])
        /\ Mutate(d, "role", r, [r EXCEPT !.roles[x] = role])
        /\ granted' = granted \cup {<<d, x, role>>}
  BY DEF SetMemberRole
<1> DEFINE changed == [r EXCEPT !.roles[x] = role]
<1>2. r \in Workspace BY ReplicaFields
<1>3. /\ changed \in Workspace
      /\ changed.roles = [r.roles EXCEPT ![x] = role]
      /\ changed.made = r.made /\ changed.groups = r.groups /\ changed.texts = r.texts
  BY <1>2 DEF Workspace, Role
<1>4. Mutate(d, "role", r, changed) BY <1>1
<1> HIDE DEF changed
<1>5. "role" \in Kinds BY <1>4 DEF Mutate, Publish, Begin
<1>6. /\ r.roles[x] \in Given
      /\ d = Owner \/ (role # "Admin" /\ r.roles[d] = "Admin")
  <2>1. Rightful(r.roles) BY ReplicaFields
  <2>2. r.roles[d] = "Owner" \/ r.roles[d] = "Admin"
    BY <1>1 DEF CanAssign
  <2> QED BY <1>1, <2>1, <2>2 DEF CanAssign, Rightful
<1>7. NoRole \notin Given BY GivenAssumption DEF NoRole
<1>8. Members(changed) = Members(r)
  BY <1>2, <1>3, <1>6, <1>7, WorkspaceFields DEF Members
<1>9. \A y \in Devices : changed.roles[y] = r.roles[y] \/ Gives(d, r, y, changed.roles[y])
  BY <1>1, <1>2, <1>3, <1>6, WorkspaceFields DEF Gives
<1>10. WellFormed(r) => WellFormed(changed)
  BY <1>3, <1>8 DEF WellFormed
<1>14. MembersOnly(changed)
  BY <1>3, <1>8, ReplicaFields DEF MembersOnly
<1>11. Recipients(changed, d) = Members(changed) \ {d} BY DEF Recipients
<1>12. Publish(d, "role", r, changed, Recipients(changed, d)) BY <1>4 DEF Mutate
<1>13. Members(changed) \subseteq Devices BY DEF Members
<1>15. granted \subseteq granted' BY <1>1
<1> QED BY <1>3, <1>5, <1>8, <1>9, <1>10, <1>11, <1>12, <1>13, <1>14, <1>15, Publishes

Regroups(r, s) ==
    /\ s \in Workspace /\ MembersOnly(s)
    /\ s.roles = r.roles /\ s.texts = r.texts

LEMMA CreatedFields ==
    ASSUME NEW r \in Workspace, NEW d \in Members(r), NEW g \in Groups, MembersOnly(r)
    PROVE  Regroups(r, Created(r, d, g))
<1> DEFINE s == Created(r, d, g)
<1>1. d \in Devices BY DEF Members
<1>2. /\ s \in Workspace /\ s.roles = r.roles /\ s.texts = r.texts
      /\ s.made = r.made \cup {g} /\ s.groups = [r.groups EXCEPT ![g] = {d}]
  BY <1>1 DEF Workspace, Created
<1> HIDE DEF s
<1>3. MembersOnly(s)
  BY <1>2, WorkspaceFields DEF MembersOnly, Members
<1> QED BY <1>2, <1>3 DEF Regroups, s

LEMMA AddedFields ==
    ASSUME NEW r \in Workspace, NEW x \in Members(r), NEW g \in Groups, MembersOnly(r)
    PROVE  Regroups(r, Added(r, x, g))
<1> DEFINE s == Added(r, x, g)
<1>1. x \in Devices BY DEF Members
<1>2. /\ s \in Workspace /\ s.roles = r.roles /\ s.texts = r.texts
      /\ s.made = r.made /\ s.groups = [r.groups EXCEPT ![g] = @ \cup {x}]
  BY <1>1 DEF Workspace, Added
<1> HIDE DEF s
<1>3. MembersOnly(s)
  BY <1>2, WorkspaceFields DEF MembersOnly, Members
<1> QED BY <1>2, <1>3 DEF Regroups, s

LEMMA RemovedFields ==
    ASSUME NEW r \in Workspace, NEW x, NEW g \in Groups, MembersOnly(r)
    PROVE  Regroups(r, Removed(r, x, g)) /\ Removed(r, x, g).made = r.made
<1> DEFINE s == Removed(r, x, g)
<1>1. /\ s \in Workspace /\ s.roles = r.roles /\ s.texts = r.texts
      /\ s.made = r.made /\ s.groups = [r.groups EXCEPT ![g] = @ \ {x}]
  BY DEF Workspace, Removed
<1> HIDE DEF s
<1>2. MembersOnly(s)
  BY <1>1, WorkspaceFields DEF MembersOnly, Members
<1> QED BY <1>1, <1>2 DEF Regroups, s

LEMMA RegroupedFields ==
    ASSUME NEW r \in Workspace, NEW d \in Members(r), NEW s \in Regrouped(r, d),
           MembersOnly(r)
    PROVE  Regroups(r, s)
<1>0. r.made \subseteq Groups /\ \A g \in r.made : r.groups[g] \subseteq Members(r)
  BY WorkspaceFields DEF MembersOnly
<1>1. ASSUME NEW g \in Groups \ r.made, s = Created(r, d, g) PROVE Regroups(r, s)
  BY <1>1, CreatedFields
<1>2. ASSUME NEW x \in Members(r), NEW g \in r.made, s = Added(r, x, g) PROVE Regroups(r, s)
  BY <1>0, <1>2, AddedFields
<1>3. ASSUME NEW g \in r.made, NEW x \in r.groups[g], s = Removed(r, x, g)
      PROVE  Regroups(r, s)
  BY <1>0, <1>3, RemovedFields
<1>4. ASSUME NEW g \in r.made, NEW x \in r.groups[g], NEW h \in r.made \ {g},
             s = Moved(r, x, g, h)
      PROVE  Regroups(r, s)
  <2> DEFINE t == Removed(r, x, g)
  <2>1. Regroups(r, t) BY <1>0, RemovedFields
  <2> HIDE DEF t
  <2>2. x \in Members(t) BY <1>0, <2>1 DEF Regroups, Members
  <2>3. Regroups(t, Added(t, x, h)) BY <1>0, <2>1, <2>2, AddedFields DEF Regroups
  <2> QED BY <1>4, <2>1, <2>3 DEF Regroups, Moved, t
<1> QED BY <1>1, <1>2, <1>3, <1>4 DEF Regrouped

LEMMA BeginGroups ==
    ASSUME Inv, NEW d \in Devices, ChangeGroups(d)
    PROVE  Begun(d)
<1>1. PICK r \in replica[d] :
        \E changed \in Regrouped(r, d) : Mutate(d, "groups", r, changed)
  BY DEF ChangeGroups
<1>2. PICK changed \in Regrouped(r, d) : Mutate(d, "groups", r, changed)
  BY <1>1
<1>3. r \in Workspace /\ d \in Members(r) /\ Members(r) \subseteq Devices
  BY ReplicaFields DEF Members
<1>4. Regroups(r, changed)
  BY <1>3, ReplicaFields, RegroupedFields
<1>5. Members(changed) = Members(r)
  BY <1>4 DEF Regroups, Members
<1>6. r.texts = {} /\ WellFormed(r) => changed.texts = {} /\ WellFormed(changed)
  BY <1>4 DEF Regroups, MembersOnly, WellFormed
<1>7. Publish(d, "groups", r, changed, Members(changed) \ {d})
  BY <1>2 DEF Mutate, Recipients
<1>8. "groups" \in Kinds BY <1>7 DEF Publish, Begin
<1>9. granted \subseteq granted' BY DEF ChangeGroups
<1> QED BY <1>3, <1>4, <1>5, <1>6, <1>7, <1>8, <1>9, Publishes DEF Regroups

LEMMA BeginRename ==
    ASSUME Inv, NEW d \in Devices, Rename(d)
    PROVE  Begun(d)
<1>1. PICK r \in replica[d] : /\ Publish(d, "rename", r, r, Members(r) \ {d})
                               /\ UNCHANGED granted
  BY DEF Rename, Mutate, Recipients
<1>2. r \in Workspace /\ Members(r) \subseteq Devices
  BY ReplicaFields DEF Members
<1>3. "rename" \in Kinds BY <1>1 DEF Publish, Begin
<1> QED BY <1>1, <1>2, <1>3, ReplicaFields, Publishes

LEMMA BeginInvite ==
    ASSUME Inv, NEW d \in Devices, Invite(d)
    PROVE  Begun(d)
<1>1. PICK r \in replica[d], x \in Devices \ {d} :
        /\ d = Owner
        /\ IF x \in Members(r)
           THEN /\ Publish(d, "invite", r, r, {x})
                /\ UNCHANGED granted
           ELSE /\ Publish(d, "invite", r, [r EXCEPT !.roles[x] = "Member"], {x})
                /\ granted' = granted \cup {<<d, x, "Member">>}
  BY DEF Invite
<1>2. r \in Workspace BY ReplicaFields
<1>3. CASE x \in Members(r)
  <2>1. "invite" \in Kinds BY <1>1, <1>3 DEF Publish, Begin
  <2> QED BY <1>1, <1>2, <1>3, <2>1, ReplicaFields, Publishes
<1>4. CASE x \notin Members(r)
  <2> DEFINE changed == [r EXCEPT !.roles[x] = "Member"]
  <2>1. "invite" \in Kinds /\ "Member" \in Given
    BY <1>1, <1>4, GivenAssumption DEF Publish, Begin
  <2>2. /\ changed \in Workspace
        /\ changed.roles = [r.roles EXCEPT ![x] = "Member"]
        /\ changed.made = r.made /\ changed.groups = r.groups /\ changed.texts = r.texts
    BY <1>2, <2>1 DEF Workspace, Role
  <2>3. Publish(d, "invite", r, changed, {x})
    BY <1>1, <1>4
  <2> HIDE DEF changed
  <2>4. x \in Members(changed) /\ Members(r) \subseteq Members(changed)
    BY <1>2, <2>2, WorkspaceFields DEF Members, NoRole
  <2>5. \A y \in Devices : changed.roles[y] = r.roles[y] \/ Gives(d, r, y, changed.roles[y])
    BY <1>1, <1>2, <1>4, <2>1, <2>2, WorkspaceFields DEF Gives
  <2>6. r.texts = {} /\ WellFormed(r) => changed.texts = {} /\ WellFormed(changed)
    BY <2>2, <2>4 DEF WellFormed
  <2>7. {x} \subseteq Members(changed) \ {d} /\ {x} \in SUBSET Devices
    BY <2>4
  <2>8. d = Owner BY <1>1
  <2>11. granted \subseteq granted' BY <1>1, <1>4
  <2>9. changed \in Workspace /\ MembersOnly(changed)
    BY <2>2, <2>4, ReplicaFields DEF MembersOnly
  <2>10. "invite" \in Kinds BY <2>1
  <2> QED BY <2>3, <2>5, <2>6, <2>7, <2>8, <2>9, <2>10, <2>11, Publishes
<1> QED BY <1>3, <1>4

LEMMA BeginMessage ==
    ASSUME Inv, NEW d \in Devices, SendMessage(d)
    PROVE  Begun(d)
<1>1. PICK r \in replica[d], g \in Groups :
        Begin(d, "text", r, Touched([r EXCEPT !.texts = @ \cup {<<d, g>>}]),
              "send", r.groups[g] \ {d}, [kind |-> "text", from |-> d, group |-> g])
        /\ UNCHANGED granted
  BY DEF SendMessage
<1> DEFINE changed == [r EXCEPT !.texts = @ \cup {<<d, g>>}]
           copy == Touched(changed)
           to == r.groups[g] \ {d}
           frame == [kind |-> "text", from |-> d, group |-> g]
<1>2. r \in Workspace /\ clock \in Nat BY ReplicaFields DEF Inv
<1>3. /\ changed \in Workspace /\ changed.roles = r.roles
      /\ changed.made = r.made /\ changed.groups = r.groups
  BY <1>2 DEF Workspace, Text
<1> HIDE DEF changed
<1>4. /\ copy \in Workspace /\ copy.stamp = clock + 1 /\ copy.roles = r.roles
      /\ MembersOnly(copy)
  BY <1>2, <1>3, ReplicaFields, TouchedFields DEF MembersOnly, Members
<1>5. frame \in Frame /\ frame.kind = "text" /\ frame.from = d
  BY DEF Frame
<1>6. Begin(d, "text", r, copy, "send", to, frame)
  BY <1>1 DEF changed
<1>7. to \subseteq Devices /\ d \notin to
  BY <1>2, WorkspaceFields
<1>8. "text" \in Kinds BY <1>6 DEF Begin
<1> HIDE DEF copy, to, frame
<1>9. Fresh(d, "text", r, copy, to, frame)
  BY <1>1, <1>4, <1>5, <1>7 DEF Fresh, Members
<1>10. Begins(d, "text", r, copy, "send", to, frame)
  BY <1>6, <1>9 DEF Begins
<1> QED BY <1>4, <1>5, <1>7, <1>8, <1>10 DEF Begun

LEMMA BeginDelete ==
    ASSUME Inv, NEW d \in Devices, Delete(d)
    PROVE  Begun(d)
<1>1. PICK r \in replica[d] :
        /\ d = Owner
        /\ Begin(d, "delete", r, Touched(r), "send", Recipients(r, d),
                 [kind |-> "tombstone", from |-> d, state |-> Touched(r)])
        /\ UNCHANGED granted
  BY DEF Delete, MayDelete
<1> DEFINE copy == Touched(r)
           to == Recipients(r, d)
           frame == [kind |-> "tombstone", from |-> d, state |-> copy]
<1>2. r \in Workspace /\ clock \in Nat BY ReplicaFields DEF Inv
<1>3. /\ copy \in Workspace /\ copy.stamp = clock + 1
      /\ copy.roles = r.roles /\ copy.made = r.made
      /\ copy.groups = r.groups /\ copy.texts = r.texts
  BY <1>2, TouchedFields
<1> HIDE DEF copy
<1>4. frame \in Frame /\ frame.kind = "tombstone" /\ frame.from = d /\ frame.state = copy
  BY <1>3, SyncFrame
<1>5. Members(copy) = Members(r) /\ to = Members(copy) \ {d} /\ to \subseteq Devices
  BY <1>3 DEF Members, Recipients
<1>6. Begin(d, "delete", r, copy, "send", to, frame)
  BY <1>1 DEF copy
<1>7. "delete" \in Kinds BY <1>6 DEF Begin
<1>8. r.texts = {} /\ WellFormed(r) => copy.texts = {} /\ WellFormed(copy)
  BY <1>3, <1>5 DEF WellFormed
<1> HIDE DEF to, frame
<1>9. Fresh(d, "delete", r, copy, to, frame)
  <2>1. MembersOnly(copy) BY <1>3, <1>5, ReplicaFields DEF MembersOnly
  <2> QED BY <1>1, <1>3, <1>4, <1>5, <1>8, <2>1 DEF Fresh
<1>10. Begins(d, "delete", r, copy, "send", to, frame)
  BY <1>6, <1>9 DEF Begins
<1> QED BY <1>3, <1>4, <1>5, <1>7, <1>10 DEF Begun

LEMMA UserBegins ==
    ASSUME Inv, NEW d \in Devices, User(d)
    PROVE  Begun(d)
BY BeginRole, BeginGroups, BeginRename, BeginInvite, BeginMessage, BeginDelete DEF User

-----------------------------------------------------------------------------
(* The invariant holds initially and is kept by every step. *)

LEMMA InvInit == Init => Inv
<1> SUFFICES ASSUME Init PROVE Inv OBVIOUS
<1>1. PICK roles \in [Devices -> Role \cup {NoRole}], made \in SUBSET Groups :
        /\ \A d \in Devices : roles[d] = "Owner" <=> d = Owner
        /\ replica = [d \in Devices |-> {r \in {Base(roles, made)} : d \in Members(r)}]
        /\ granted = {<<Owner, d, roles[d]>> : d \in Members(Base(roles, made))}
  BY DEF Init
<1> DEFINE s == Base(roles, made)
<1>2. /\ s \in Workspace /\ s.stamp = 0 /\ s.roles = roles /\ s.made = made
      /\ \A g \in made : s.groups[g] = {d \in Devices : roles[d] # NoRole}
  BY DEF Base, Workspace
<1>3. Members(s) = {d \in Devices : roles[d] # NoRole}
  BY <1>2 DEF Members
<1>4. Rightful(roles)
  <2> SUFFICES ASSUME NEW d \in Devices, roles[d] # NoRole
               PROVE  <<Owner, d, roles[d]>> \in granted
    BY <1>1, OwnerAssumption DEF Rightful
  <2> QED BY <1>1, <1>3
<1>5. clock = 0 BY DEF Init
<1>6. Good(s)
  BY <1>2, <1>3, <1>4, <1>5 DEF Good, MembersOnly
<1>7. /\ replica = [d \in Devices |-> replica[d]]
      /\ \A d \in Devices : \A r \in replica[d] : r = s /\ d \in Members(s)
  BY <1>1
<1> HIDE DEF s
<1>8. listener = [d \in Devices |-> {}] /\ calls = {} BY DEF Init
<1> QED BY <1>5, <1>6, <1>7, <1>8 DEF Inv, ReplicaOK

LEMMA InvBegin ==
    ASSUME Inv, NEW d \in Devices, Begun(d)
    PROVE  Inv'
<1>1. PICK kind \in Kinds, r \in replica[d], copy \in Workspace, pc \in {"save", "send"},
          to \in SUBSET Devices, frame \in Frame :
        Begins(d, kind, r, copy, pc, to, frame)
  BY DEF Begun
<1> DEFINE c == [by |-> d, pc |-> pc, base |-> {r}, copy |-> copy, to |-> to, frame |-> frame]
<1>2. /\ clock' = clock + 1 /\ calls' = calls \cup {c}
      /\ UNCHANGED <<replica, listener>>
      /\ Fresh(d, kind, r, copy, to, frame)
  BY <1>1 DEF Begins, Begin
<1>3. clock \in Nat /\ clock' \in Nat /\ clock <= clock'
  BY <1>2 DEF Inv
<1>4. /\ \A e, s : ReplicaOK(e, s) => ReplicaOK(e, s)'
      /\ \A e : CallOK(e) => CallOK(e)'
      /\ \A e, l : EntryOK(e, l) => EntryOK(e, l)'
  BY <1>2, <1>3, GoodStays DEF Fresh
<1>5. Good(copy)' /\ d \in Members(copy)
  <2>1. Rightful(r.roles) /\ d \in Members(r)
    BY ReplicaFields
  <2>2. copy.roles \in [Devices -> Role \cup {NoRole}]
    BY WorkspaceFields
  <2>3. \A x \in Devices : copy.roles[x] = r.roles[x] \/ Gives(d, r, x, copy.roles[x])
    BY <1>2 DEF Fresh
  <2>4. granted \subseteq granted'
    BY <1>2 DEF Fresh
  <2>5. Rightful(copy.roles)'
    <3> SUFFICES ASSUME NEW x \in Devices
                 PROVE  /\ copy.roles[x] = "Owner" <=> x = Owner
                        /\ copy.roles[x] # NoRole => \E a \in Devices :
                             /\ <<a, x, copy.roles[x]>> \in granted'
                             /\ a = Owner \/ ( /\ copy.roles[x] # "Admin"
                                               /\ <<Owner, a, "Admin">> \in granted' )
      BY DEF Rightful
    <3>1. CASE copy.roles[x] = r.roles[x]
      <4> DEFINE Gave(a, new) ==
            /\ <<a, x, r.roles[x]>> \in new
            /\ a = Owner \/ (r.roles[x] # "Admin" /\ <<Owner, a, "Admin">> \in new)
      <4>1. /\ r.roles[x] = "Owner" <=> x = Owner
            /\ r.roles[x] # NoRole => \E a \in Devices : Gave(a, granted)
        BY <2>1 DEF Rightful
      <4>2. \A a : Gave(a, granted) => Gave(a, granted')
        BY <2>4
      <4> HIDE DEF Gave
      <4>3. r.roles[x] # NoRole => \E a \in Devices : Gave(a, granted')
        BY <4>1, <4>2
      <4> QED BY <3>1, <4>1, <4>3 DEF Gave
    <3>2. CASE Gives(d, r, x, copy.roles[x])
      <4>1. copy.roles[x] # "Owner" /\ x # Owner
        BY <3>2, GivenAssumption DEF Gives
      <4>2. d = Owner \/ <<Owner, d, "Admin">> \in granted
        <5> SUFFICES ASSUME d # Owner, r.roles[d] = "Admin"
                     PROVE  <<Owner, d, "Admin">> \in granted
          BY <3>2 DEF Gives
        <5> QED BY <2>1 DEF Rightful, NoRole
      <4>3. /\ <<d, x, copy.roles[x]>> \in granted'
            /\ d = Owner \/ ( /\ copy.roles[x] # "Admin"
                              /\ <<Owner, d, "Admin">> \in granted' )
        BY <2>4, <3>2, <4>2 DEF Gives
      <4> QED BY <4>1, <4>3
    <3> QED BY <2>3, <3>1, <3>2
  <2>6. d \in Members(copy)
    BY <2>1, <2>2, <2>3, GivenAssumption DEF Members, Gives, NoRole
  <2> QED BY <1>2, <1>3, <2>5, <2>6 DEF Good, Fresh, MembersOnly, Members
<1>6. CallOK(c)'
  <2>1. c \in CallRecord
    BY <1>3, ReplicaFields DEF CallRecord
  <2> QED BY <1>2, <1>5, <2>1 DEF CallOK, Fresh, Frame
<1> HIDE DEF c
<1> QED BY <1>2, <1>3, <1>4, <1>6 DEF Inv

LEMMA InvSave ==
    ASSUME Inv, NEW c \in calls, Save(c)
    PROVE  Inv'
<1>1. CallOK(c) BY DEF Inv
<1>2. /\ c \in CallRecord /\ c.by \in Devices
      /\ ReplicaOK(c.by, c.copy)
  BY <1>1 DEF CallOK, CallRecord, ReplicaOK
<1>3. /\ UNCHANGED <<clock, listener, granted>>
      /\ replica' = [replica EXCEPT ![c.by] = {c.copy}]
      /\ calls' \subseteq calls \cup {[c EXCEPT !.pc = "send"]}
  BY DEF Save, End, Continue
<1>4. CallOK([c EXCEPT !.pc = "send"])
  BY <1>1 DEF CallOK, CallRecord
<1>5. /\ \A e, s : ReplicaOK(e, s) => ReplicaOK(e, s)'
      /\ \A e : CallOK(e) => CallOK(e)'
      /\ \A e, l : EntryOK(e, l) => EntryOK(e, l)'
  BY <1>3, GoodStays DEF Inv
<1>6. \A d \in Devices : replica'[d] = IF d = c.by THEN {c.copy} ELSE replica[d]
  BY <1>2, <1>3 DEF Inv
<1>7. replica' = [d \in Devices |-> replica'[d]]
  BY <1>3 DEF Inv
<1>8. \A d \in Devices : /\ \A r, s \in replica'[d] : r = s
                         /\ \A r \in replica'[d] : ReplicaOK(d, r)'
  BY <1>2, <1>5, <1>6 DEF Inv
<1> QED BY <1>3, <1>4, <1>5, <1>7, <1>8 DEF Inv

LEMMA InvSend ==
    ASSUME Inv, NEW c \in calls, Send(c)
    PROVE  Inv'
<1>1. CallOK(c) BY DEF Inv
<1>2. PICK e \in c.to :
        /\ \/ /\ listener[e] = {}
              /\ listener' = [listener EXCEPT ![e] = {[pc |-> "load", frame |-> c.frame]}]
              /\ UNCHANGED missed
           \/ UNCHANGED listener
        /\ Continue(c, [c EXCEPT !.to = @ \ {e}])
  BY DEF Send
<1>3. UNCHANGED <<clock, replica, granted>>
  BY DEF Send
<1>4. CallOK([c EXCEPT !.to = @ \ {e}])
  BY <1>1 DEF CallOK, CallRecord
<1>5. /\ \A d, s : ReplicaOK(d, s) => ReplicaOK(d, s)'
      /\ \A d : CallOK(d) => CallOK(d)'
      /\ \A d, l : EntryOK(d, l) => EntryOK(d, l)'
  BY <1>3, GoodStays DEF Inv
<1>6. e \in Devices /\ e # c.by /\ c \in CallRecord
  BY <1>1, <1>2 DEF CallOK, CallRecord
<1> DEFINE l == [pc |-> "load", frame |-> c.frame]
<1>7. EntryOK(e, l)
  <2>1. l \in Entry /\ l.pc = "load" /\ l.frame = c.frame
    BY <1>6 DEF Entry, CallRecord
  <2> HIDE DEF l
  <2>2. LoadOK(e, c.frame)
    BY <1>1, <1>2, <1>6 DEF LoadOK, CallOK
  <2> QED BY <2>1, <2>2 DEF EntryOK
<1> HIDE DEF l
<1>8. /\ listener' = [d \in Devices |-> listener'[d]]
      /\ \A d \in Devices : /\ \A k, m \in listener'[d] : k = m
                            /\ \A k \in listener'[d] : EntryOK(d, k)'
  <2>1. CASE UNCHANGED listener
    BY <1>5, <2>1 DEF Inv
  <2>2. CASE listener' = [listener EXCEPT ![e] = {l}]
    BY <1>5, <1>6, <1>7, <2>2 DEF Inv
  <2> QED BY <1>2, <2>1, <2>2 DEF l
<1>9. \A d \in calls' : CallOK(d)'
  BY <1>2, <1>4, <1>5 DEF Inv, Continue
<1> QED BY <1>3, <1>5, <1>8, <1>9 DEF Inv

LEMMA InvSent ==
    ASSUME Inv, NEW c \in calls, Sent(c)
    PROVE  Inv'
<1>1. CallOK(c) BY DEF Inv
<1>2. c \in CallRecord /\ c.by \in Devices /\ c.frame.kind \in {"sync", "text", "tombstone"}
  BY <1>1 DEF CallOK, CallRecord, Frame
<1>3. UNCHANGED <<clock, listener, granted>>
  BY DEF Sent, historyVars
<1>4. /\ calls' \subseteq calls \cup {[c EXCEPT !.pc = "save"]}
      /\ replica' = replica \/ replica' = [replica EXCEPT ![c.by] = {}]
  BY <1>2 DEF Sent, End, Continue
<1>5. CallOK([c EXCEPT !.pc = "save"])
  BY <1>1 DEF CallOK, CallRecord
<1>6. /\ \A e, s : ReplicaOK(e, s) => ReplicaOK(e, s)'
      /\ \A e : CallOK(e) => CallOK(e)'
      /\ \A e, l : EntryOK(e, l) => EntryOK(e, l)'
  BY <1>3, GoodStays DEF Inv
<1>7. /\ replica' = [d \in Devices |-> replica'[d]]
      /\ \A d \in Devices : replica'[d] \subseteq replica[d]
  BY <1>4 DEF Inv
<1>8. \A e \in calls' : CallOK(e)'
  BY <1>4, <1>5, <1>6 DEF Inv
<1> QED BY <1>3, <1>6, <1>7, <1>8 DEF Inv

(* A device takes over a state it is a member of. *)
LEMMA AppliedFields ==
    ASSUME Inv, NEW d \in Devices, NEW f, LoadOK(d, f), f.kind = "sync",
           NEW copy \in Applied(d, f.state, f.from)
    PROVE  Good(copy) /\ d \in Members(copy) /\ (copy = f.state \/ copy \in replica[d])
<1>1. copy = f.state \/ copy \in replica[d]
  BY DEF Applied
<1>2. ASSUME copy \in replica[d] PROVE Good(copy) /\ d \in Members(copy)
  BY <1>2 DEF Inv, ReplicaOK
<1>3. ASSUME copy = f.state PROVE Good(copy) /\ d \in Members(copy)
  BY <1>3 DEF LoadOK
<1> QED BY <1>1, <1>2, <1>3

(* What a handler leaves of a state to be written *)
LEMMA HeldFields ==
    ASSUME Inv, NEW d \in Devices, NEW copies, Hold(d, copies, replica[d]),
           \A r, s \in copies : r = s,
           \A r \in copies : Good(r)' /\ d \in Members(r),
           clock' \in Nat, clock <= clock', UNCHANGED <<granted, replica, calls>>
    PROVE  Inv'
<1>1. /\ \A e, s : ReplicaOK(e, s) => ReplicaOK(e, s)'
      /\ \A e : CallOK(e) => CallOK(e)'
      /\ \A e, l : EntryOK(e, l) => EntryOK(e, l)'
  BY GoodStays DEF Inv
<1> DEFINE entry(r) == [pc |-> "save", copy |-> r, base |-> replica[d]]
<1>2. ASSUME NEW r \in copies, NEW k, k = entry(r) PROVE EntryOK(d, k)'
  <2>1. r \in Workspace BY DEF Good
  <2>2. replica[d] \subseteq Workspace BY ReplicaFields
  <2>3. k \in Entry BY <1>2, <2>1, <2>2 DEF Entry
  <2> QED BY <1>2, <2>3 DEF EntryOK
<1>3. listener' = [listener EXCEPT ![d] = {entry(r) : r \in copies}]
  BY DEF Hold
<1> HIDE DEF entry
<1>4. \A e \in Devices : listener'[e] = IF e = d THEN {entry(r) : r \in copies} ELSE listener[e]
  BY <1>3 DEF Inv
<1>5. listener' = [e \in Devices |-> listener'[e]]
  BY <1>3 DEF Inv
<1>6. \A e \in Devices : /\ \A k, m \in listener'[e] : k = m
                         /\ \A k \in listener'[e] : EntryOK(e, k)'
  <2> SUFFICES ASSUME NEW e \in Devices
               PROVE  /\ \A k, m \in listener'[e] : k = m
                      /\ \A k \in listener'[e] : EntryOK(e, k)'
    OBVIOUS
  <2>1. CASE e = d
    <3>1. listener'[e] = {entry(r) : r \in copies} BY <1>4, <2>1
    <3> QED BY <1>2, <2>1, <3>1
  <2>2. CASE e # d
    BY <1>1, <1>4, <2>2 DEF Inv
  <2> QED BY <2>1, <2>2
<1> QED BY <1>1, <1>5, <1>6 DEF Inv

LEMMA InvHandle ==
    ASSUME Inv, NEW d \in Devices, Handle(d)
    PROVE  Inv'
<1>1. PICK l \in listener[d] :
        /\ l.pc = "load"
        /\ HandleSync(d, l.frame) \/ HandleTombstone(d, l.frame) \/ HandleText(d, l.frame)
        /\ UNCHANGED <<calls, historyVars>>
  BY DEF Handle
<1>2. /\ l \in Entry /\ LoadOK(d, l.frame) /\ clock \in Nat /\ UNCHANGED <<calls, granted>>
  BY <1>1 DEF Inv, EntryOK, historyVars
<1>3. CASE HandleSync(d, l.frame)
  <2> DEFINE copies == Applied(d, l.frame.state, l.frame.from)
  <2>1. Hold(d, copies, replica[d]) /\ UNCHANGED <<replica, clock>> /\ l.frame.kind = "sync"
    BY <1>3 DEF HandleSync
  <2>2. \A r, s \in copies : r = s
    BY DEF Applied, Inv
  <2>3. \A r \in copies : Good(r) /\ d \in Members(r)
    BY <1>2, <2>1, AppliedFields
  <2> HIDE DEF copies
  <2>4. \A r \in copies : Good(r)'
    BY <1>2, <2>1, <2>3, GoodStays
  <2> QED BY <1>2, <2>1, <2>2, <2>3, <2>4, HeldFields
<1>4. CASE HandleTombstone(d, l.frame)
  <2>1. /\ replica' = replica \/ replica' = [replica EXCEPT ![d] = {}]
        /\ listener' = [listener EXCEPT ![d] = {}]
        /\ UNCHANGED clock
    BY <1>4 DEF HandleTombstone, Idle, Inv
  <2>2. /\ \A e, s : ReplicaOK(e, s) => ReplicaOK(e, s)'
        /\ \A e : CallOK(e) => CallOK(e)'
        /\ \A e, k : EntryOK(e, k) => EntryOK(e, k)'
    BY <1>2, <2>1, GoodStays
  <2>3. /\ replica' = [e \in Devices |-> replica'[e]]
        /\ \A e \in Devices : replica'[e] \subseteq replica[e]
    BY <2>1 DEF Inv
  <2>4. /\ listener' = [e \in Devices |-> listener'[e]]
        /\ \A e \in Devices : listener'[e] \subseteq listener[e]
    BY <2>1 DEF Inv
  <2> QED BY <1>2, <2>1, <2>2, <2>3, <2>4 DEF Inv
<1>5. CASE HandleText(d, l.frame)
  <2> DEFINE copies == Received(replica[d], l.frame.from, l.frame.group)
             text(r) == [r EXCEPT !.texts = @ \cup {<<l.frame.from, l.frame.group>>}]
  <2>1. /\ Hold(d, copies, replica[d]) /\ UNCHANGED replica /\ clock' = clock + 1
        /\ l.frame.kind = "text"
    BY <1>5 DEF HandleText
  <2>2. \A r, s \in copies : r = s
    <3> SUFFICES ASSUME NEW r \in copies, NEW s \in copies PROVE r = s OBVIOUS
    <3>1. PICK x \in replica[d] : r = Touched(text(x)) BY DEF Received
    <3>2. PICK y \in replica[d] : s = Touched(text(y)) BY DEF Received
    <3>3. x = y BY DEF Inv
    <3> QED BY <3>1, <3>2, <3>3
  <2>3. ASSUME NEW s \in copies PROVE Good(s)' /\ d \in Members(s)
    <3>1. PICK r \in replica[d] : s = Touched(text(r))
      BY DEF Received
    <3>2. <<l.frame.from, l.frame.group>> \in Text
      BY <1>2, <2>1, <1>1 DEF Entry, Frame, Text
    <3>3. /\ text(r) \in Workspace /\ text(r).roles = r.roles
          /\ text(r).made = r.made /\ text(r).groups = r.groups
      BY <3>2, ReplicaFields DEF Workspace
    <3> HIDE DEF text
    <3>4. /\ s \in Workspace /\ s.stamp = clock + 1
          /\ s.roles = r.roles /\ s.made = r.made /\ s.groups = r.groups
      BY <1>2, <3>1, <3>3, TouchedFields
    <3>5. MembersOnly(s) /\ Rightful(s.roles) /\ d \in Members(s)
      BY <3>4, ReplicaFields DEF MembersOnly, Members
    <3> QED BY <1>2, <2>1, <3>4, <3>5 DEF Good, Rightful, MembersOnly, Members
  <2> HIDE DEF copies
  <2> QED BY <1>2, <2>1, <2>2, <2>3, HeldFields
<1> QED BY <1>1, <1>3, <1>4, <1>5

LEMMA InvStore ==
    ASSUME Inv, NEW d \in Devices, Store(d)
    PROVE  Inv'
<1>1. PICK l \in listener[d] :
        /\ l.pc = "save"
        /\ replica' = [replica EXCEPT ![d] = {l.copy}]
        /\ Idle(d)
        /\ UNCHANGED <<clock, calls, granted>>
  BY DEF Store
<1>2. ReplicaOK(d, l.copy)
  BY <1>1 DEF Inv, EntryOK, ReplicaOK
<1>3. /\ \A e, s : ReplicaOK(e, s) => ReplicaOK(e, s)'
      /\ \A e : CallOK(e) => CallOK(e)'
      /\ \A e, k : EntryOK(e, k) => EntryOK(e, k)'
  BY <1>1, GoodStays DEF Inv
<1>4. /\ replica' = [e \in Devices |-> replica'[e]]
      /\ \A e \in Devices : replica'[e] = IF e = d THEN {l.copy} ELSE replica[e]
  BY <1>1 DEF Inv
<1>5. /\ listener' = [e \in Devices |-> listener'[e]]
      /\ \A e \in Devices : listener'[e] \subseteq listener[e]
  BY <1>1 DEF Inv, Idle
<1> QED BY <1>1, <1>2, <1>3, <1>4, <1>5 DEF Inv

LEMMA InvNext == Inv /\ [Next]_vars => Inv'
<1> SUFFICES ASSUME Inv, [Next]_vars PROVE Inv' OBVIOUS
<1>1. ASSUME NEW c \in calls, Save(c) \/ Send(c) \/ Sent(c) PROVE Inv'
  BY <1>1, InvSave, InvSend, InvSent
<1>2. ASSUME NEW d \in Devices, User(d) PROVE Inv'
  BY <1>2, UserBegins, InvBegin
<1>3. ASSUME NEW d \in Devices, Handle(d) \/ Store(d) PROVE Inv'
  BY <1>3, InvHandle, InvStore
<1>4. CASE UNCHANGED vars
  BY <1>4, GoodStays DEF vars, Inv
<1> QED BY <1>1, <1>2, <1>3, <1>4 DEF Next, Call

LEMMA InvHolds == Spec => []Inv
BY InvInit, InvNext, PTL DEF Spec

-----------------------------------------------------------------------------
(* What follows from the invariant *)

(* Wherever a state is *)
LEMMA AllGood ==
    ASSUME Inv
    PROVE  \A s \in States : Good(s)
<1> SUFFICES ASSUME NEW s \in States PROVE Good(s)
  OBVIOUS
<1>1. ASSUME NEW d \in Devices, s \in replica[d] PROVE Good(s)
  BY <1>1 DEF Inv, ReplicaOK
<1>2. ASSUME NEW c \in calls, s = c.copy PROVE Good(s)
  BY <1>2 DEF Inv, CallOK
<1>3. ASSUME NEW c \in Published, s = c.frame.state PROVE Good(s)
  BY <1>3 DEF Inv, CallOK, Published
<1>4. ASSUME NEW d \in Devices, NEW l \in Handled(d), s = l.frame.state PROVE Good(s)
  BY <1>4 DEF Inv, EntryOK, LoadOK, Handled
<1>5. ASSUME NEW d \in Devices, NEW l \in Held(d), s = l.copy PROVE Good(s)
  BY <1>5 DEF Inv, EntryOK, Held
<1> QED BY <1>1, <1>2, <1>3, <1>4, <1>5 DEF States, CallStates

(* Every file, message and copy is a workspace no newer than the clock, a    *)
(* device has at most one of each, no call sends to its own device, and only *)
(* the owner's sends a tombstone.                                            *)
THEOREM WorkplaceTypeCorrect == Spec => []TypeOK
<1>1. Inv => TypeOK
  <2> SUFFICES ASSUME Inv PROVE TypeOK OBVIOUS
  <2>1. \A s \in States : s \in Workspace /\ s.stamp <= clock
    BY AllGood DEF Good
  <2>2. \A c \in calls : /\ c.by \in Devices /\ c.to \subseteq Devices \ {c.by}
                         /\ c.frame \in Frame
                         /\ c.frame.kind = "tombstone" => c.by = Owner
    BY DEF Inv, CallOK, CallRecord
  <2> QED BY <2>1, <2>2 DEF TypeOK, Inv
<1> QED BY <1>1, InvHolds, PTL

(* However stale the states that the members send one another, and whichever *)
(* writes undo one another, nobody is shown with a role that was not given   *)
(* to it by one who might give it, and the owner is always the owner.        *)
THEOREM NoRightMadeUp == Spec => []RolesGranted
<1>1. Inv => RolesGranted
  <2> SUFFICES ASSUME Inv, NEW s \in States PROVE Rightful(s.roles)
    BY DEF RolesGranted, Rightful, Members
  <2> QED BY AllGood DEF Good
<1> QED BY <1>1, InvHolds, PTL

(* No file is on a device it does not have as a member, although the merge   *)
(* does not look for that (workplace.rs:212-306): a state is sent to members *)
(* of it only.                                                               *)
THEOREM NoFileOfOthers == Spec => []HoldersBelong
<1>1. Inv => HoldersBelong
  BY DEF Inv, ReplicaOK, HoldersBelong
<1> QED BY <1>1, InvHolds, PTL

-----------------------------------------------------------------------------
(* What the steps of calls and listeners leave of frames and copies *)

SameCall(j, k) == j.by = k.by /\ j.frame = k.frame /\ j.copy = k.copy
Loads(e, k) == listener[e] = {} /\ listener'[e] = {[pc |-> "load", frame |-> k.frame]}

LEMMA CallStep ==
    ASSUME Inv, NEW c \in calls, Save(c) \/ Send(c) \/ Sent(c)
    PROVE  /\ \A j \in calls' : \E k \in calls : SameCall(j, k)
           /\ \A k \in calls : \A e \in k.to :
                \/ k.frame.kind = "text"
                \/ \E j \in calls' : SameCall(j, k) /\ e \in j.to
                \/ Loads(e, k)
                \/ k.copy.stamp \in missed'
           /\ \A e \in Devices :
                \/ listener'[e] = listener[e]
                \/ \E k \in calls : e \in k.to /\ Loads(e, k)
           /\ \A e \in Devices :
                \/ replica'[e] = replica[e]
                \/ \E k \in calls : k.by = e /\ replica'[e] \subseteq {k.copy}
           /\ missed \subseteq missed' /\ UNCHANGED <<clock, newest, did>>
<1>1. /\ c \in CallRecord /\ c.by \in Devices /\ c.to \subseteq Devices
      /\ c.frame.kind \in {"sync", "text", "tombstone"}
  BY DEF Inv, CallOK, CallRecord, Frame
<1>2. CASE Save(c)
  <2> DEFINE j == [c EXCEPT !.pc = "send"]
  <2>1. SameCall(j, c) /\ j.to = c.to
    BY <1>1 DEF CallRecord, SameCall
  <2>2. calls' = IF c.frame.kind = "text" THEN calls \ {c} ELSE (calls \ {c}) \cup {j}
    BY <1>2 DEF Save, End, Continue
  <2>3. /\ UNCHANGED <<listener, clock, missed, newest, did>>
        /\ \A e \in Devices : replica'[e] = IF e = c.by THEN {c.copy} ELSE replica[e]
    BY <1>2 DEF Save, Inv
  <2> HIDE DEF j
  <2>4. \A i \in calls' : \E k \in calls : SameCall(i, k)
    BY <2>1, <2>2 DEF SameCall
  <2>5. \A k \in calls : k.frame.kind # "text" => \E i \in calls' : SameCall(i, k) /\ i.to = k.to
    BY <2>1, <2>2 DEF SameCall
  <2> QED BY <2>3, <2>4, <2>5
<1>3. CASE Send(c)
  <2>1. PICK e \in c.to :
          /\ \/ /\ listener[e] = {}
                /\ listener' = [listener EXCEPT ![e] = {[pc |-> "load", frame |-> c.frame]}]
                /\ UNCHANGED missed
             \/ /\ missed' = missed \cup {c.copy.stamp}
                /\ UNCHANGED listener
          /\ Continue(c, [c EXCEPT !.to = @ \ {e}])
    BY <1>3 DEF Send
  <2> DEFINE j == [c EXCEPT !.to = @ \ {e}]
  <2>2. SameCall(j, c) /\ j.to = c.to \ {e}
    BY <1>1 DEF CallRecord, SameCall
  <2>3. calls' = (calls \ {c}) \cup {j}
    BY <2>1 DEF Continue
  <2>4. UNCHANGED <<replica, clock, newest, did>>
    BY <1>3 DEF Send
  <2>5. /\ missed \subseteq missed'
        /\ UNCHANGED listener => c.copy.stamp \in missed' \/ Loads(e, c)
        /\ listener' # listener => Loads(e, c)
        /\ \A d \in Devices \ {e} : listener'[d] = listener[d]
    BY <1>1, <2>1 DEF Loads, Inv
  <2> HIDE DEF j
  <2>6. \A i \in calls' : \E k \in calls : SameCall(i, k)
    BY <2>2, <2>3 DEF SameCall
  <2>7. \A k \in calls : \E i \in calls' : SameCall(i, k) /\ k.to \subseteq i.to \cup {e}
                                           /\ (k # c => i = k)
    BY <2>2, <2>3 DEF SameCall
  <2>8. ASSUME NEW k \in calls, NEW d \in k.to
        PROVE  \/ \E i \in calls' : SameCall(i, k) /\ d \in i.to
               \/ Loads(d, k)
               \/ k.copy.stamp \in missed'
    BY <2>5, <2>7
  <2>9. \A d \in Devices : \/ listener'[d] = listener[d]
                           \/ \E k \in calls : d \in k.to /\ Loads(d, k)
    BY <2>5
  <2> QED BY <2>4, <2>5, <2>6, <2>8, <2>9
<1>4. CASE Sent(c)
  <2> DEFINE j == [c EXCEPT !.pc = "save"]
  <2>1. SameCall(j, c) BY <1>1 DEF CallRecord, SameCall
  <2>2. /\ calls' \subseteq calls \cup {j} /\ calls \subseteq calls' \cup {c}
        /\ c.to = {}
        /\ replica' = replica \/ replica' = [replica EXCEPT ![c.by] = {}]
        /\ UNCHANGED <<clock, listener, missed, newest, did>>
    BY <1>1, <1>4 DEF Sent, End, Continue, historyVars
  <2> HIDE DEF j
  <2>3. \A i \in calls' : \E k \in calls : SameCall(i, k)
    BY <2>1, <2>2 DEF SameCall
  <2>4. \A k \in calls : \A e \in k.to : \E i \in calls' : SameCall(i, k) /\ e \in i.to
    BY <2>2 DEF SameCall
  <2>5. \A e \in Devices : \/ replica'[e] = replica[e]
                           \/ e = c.by /\ replica'[e] \subseteq {c.copy}
    BY <2>2 DEF Inv
  <2> QED BY <2>2, <2>3, <2>4, <2>5
<1> QED BY <1>2, <1>3, <1>4

HandledAt(d, f) ==
    \/ /\ f.kind = "sync" /\ replica'[d] = replica[d]
       /\ listener'[d] = {[pc |-> "save", copy |-> s, base |-> replica[d]] :
                            s \in Applied(d, f.state, f.from)}
    \/ f.kind = "tombstone" /\ replica'[d] = {} /\ listener'[d] = {}
    \/ /\ f.kind = "text" /\ replica'[d] = replica[d]
       /\ \A l \in listener'[d] :
            /\ l.pc = "save"
            /\ \E r \in replica[d] : l.copy.roles = r.roles

LEMMA ReceivedRoles ==
    ASSUME Inv, NEW d \in Devices, NEW from \in Devices, NEW g \in Groups,
           NEW s \in Received(replica[d], from, g)
    PROVE  \E r \in replica[d] : s.roles = r.roles
<1> DEFINE text(r) == [r EXCEPT !.texts = @ \cup {<<from, g>>}]
<1>1. PICK r \in replica[d] : s = Touched(text(r))
  BY DEF Received
<1>2. text(r) \in Workspace /\ text(r).roles = r.roles
  BY ReplicaFields DEF Workspace, Text
<1> HIDE DEF text
<1>3. s.roles = r.roles
  BY <1>1, <1>2, TouchedFields DEF Inv
<1> QED BY <1>3

LEMMA HandleStep ==
    ASSUME Inv, NEW d \in Devices, Handle(d)
    PROVE  /\ \E l \in listener[d] : l.pc = "load" /\ HandledAt(d, l.frame)
           /\ \A e \in Devices \ {d} : replica'[e] = replica[e] /\ listener'[e] = listener[e]
           /\ UNCHANGED <<calls, historyVars>>
<1>1. PICK l \in listener[d] :
        /\ l.pc = "load"
        /\ HandleSync(d, l.frame) \/ HandleTombstone(d, l.frame) \/ HandleText(d, l.frame)
        /\ UNCHANGED <<calls, historyVars>>
  BY DEF Handle
<1>2. l \in Entry /\ LoadOK(d, l.frame)
  BY <1>1 DEF Inv, EntryOK
<1>3. CASE HandleSync(d, l.frame)
  <2>1. HandledAt(d, l.frame)
    BY <1>3 DEF HandleSync, Hold, HandledAt, Inv
  <2>2. \A e \in Devices \ {d} : replica'[e] = replica[e] /\ listener'[e] = listener[e]
    BY <1>3 DEF HandleSync, Hold, Inv
  <2> QED BY <1>1, <2>1, <2>2
<1>4. CASE HandleTombstone(d, l.frame)
  BY <1>1, <1>2, <1>4 DEF HandleTombstone, Idle, HandledAt, LoadOK, Inv
<1>5. CASE HandleText(d, l.frame)
  <2> DEFINE copies == Received(replica[d], l.frame.from, l.frame.group)
  <2>1. /\ l.frame.kind = "text" /\ replica' = replica
        /\ listener' = [listener EXCEPT ![d] =
             {[pc |-> "save", copy |-> s, base |-> replica[d]] : s \in copies}]
    BY <1>5 DEF HandleText, Hold
  <2>2. l.frame.from \in Devices /\ l.frame.group \in Groups
    BY <1>1, <1>2, <2>1 DEF Entry, Frame
  <2>3. \A s \in copies : \E r \in replica[d] : s.roles = r.roles
    BY <2>2, ReceivedRoles
  <2> HIDE DEF copies
  <2>4. listener'[d] = {[pc |-> "save", copy |-> s, base |-> replica[d]] : s \in copies}
    BY <2>1 DEF Inv
  <2>5. HandledAt(d, l.frame)
    BY <2>1, <2>3, <2>4 DEF HandledAt
  <2>6. \A e \in Devices \ {d} : listener'[e] = listener[e]
    BY <2>1 DEF Inv
  <2> QED BY <1>1, <2>1, <2>5, <2>6
<1> QED BY <1>1, <1>3, <1>4, <1>5

LEMMA StoreStep ==
    ASSUME Inv, NEW d \in Devices, Store(d)
    PROVE  /\ \E l \in listener[d] : l.pc = "save" /\ replica'[d] = {l.copy}
           /\ listener'[d] = {}
           /\ \A e \in Devices \ {d} : replica'[e] = replica[e] /\ listener'[e] = listener[e]
           /\ UNCHANGED <<clock, calls, missed, newest, did>>
BY DEF Inv, Store, Idle

-----------------------------------------------------------------------------
(* Demotion.  What the owner's listener is about to write has no admin that  *)
(* the file it was computed from had not, and it never starts from no file,  *)
(* as only the owner's own state is joined.                                  *)

AdminsWithin(s, base) ==
    /\ base # {}
    /\ \A r \in base, x \in Devices : s.roles[x] = "Admin" => r.roles[x] = "Admin"
Ruled(r) == \A x \in Devices : r.roles[x] = "Admin" => ruling[x] = "Admin"

DemotionInv ==
    /\ \A l \in listener[Owner] : l.pc = "save" => AdminsWithin(l.copy, l.base)
    /\ ~overlapped => \A r \in replica[Owner] : Ruled(r)

LEMMA DemotionUser ==
    ASSUME Inv, DemotionInv, NEW d \in Devices, User(d)
    PROVE  DemotionInv'
<1>1. Begun(d) BY UserBegins
<1>2. UNCHANGED <<replica, listener, overlapped, ruling>>
  BY <1>1 DEF Begun, Begins, Begin
<1> QED BY <1>2 DEF DemotionInv, AdminsWithin, Ruled

LEMMA DemotionCall ==
    ASSUME Inv, DemotionInv, NEW c \in calls, Save(c) \/ Send(c) \/ Sent(c)
    PROVE  DemotionInv'
<1>1. c \in CallRecord /\ c.frame.kind \in {"sync", "text", "tombstone"}
  BY DEF Inv, CallOK, CallRecord, Frame
<1>2. CASE Save(c)
  <2>1. /\ UNCHANGED listener
        /\ replica' = [replica EXCEPT ![c.by] = {c.copy}]
        /\ overlapped' = (overlapped \/ Overlaps(c.by, c.base))
        /\ ruling' = IF c.by = Owner THEN c.copy.roles ELSE ruling
    BY <1>2 DEF Save
  <2>2. \A r \in replica'[Owner] :
          IF c.by = Owner THEN r.roles = ruling' ELSE r \in replica[Owner] /\ UNCHANGED ruling
    BY <2>1, OwnerAssumption DEF Inv
  <2>3. overlapped => overlapped' BY <2>1
  <2> QED BY <2>1, <2>2, <2>3 DEF DemotionInv, AdminsWithin, Ruled
<1>3. CASE Send(c)
  <2>1. /\ UNCHANGED <<replica, overlapped, ruling>>
        /\ \A l \in listener'[Owner] : l \in listener[Owner] \/ l.pc = "load"
    BY <1>3, OwnerAssumption DEF Send, Inv
  <2>2. \A l \in listener'[Owner] : l.pc = "save" => l \in listener[Owner]
    BY <2>1
  <2> QED BY <2>1, <2>2 DEF DemotionInv, AdminsWithin, Ruled
<1>4. CASE Sent(c)
  <2>1. /\ UNCHANGED <<listener, overlapped, ruling>>
        /\ replica' = replica \/ replica' = [replica EXCEPT ![c.by] = {}]
    BY <1>1, <1>4 DEF Sent, historyVars
  <2>2. replica'[Owner] \subseteq replica[Owner]
    BY <2>1, OwnerAssumption DEF Inv
  <2> QED BY <2>1, <2>2 DEF DemotionInv, AdminsWithin, Ruled
<1> QED BY <1>2, <1>3, <1>4

(* A state the owner's listener takes over makes nobody an admin. *)
LEMMA OwnerApplies ==
    ASSUME Inv, NEW f, LoadOK(Owner, f), f.kind = "sync",
           NEW s \in Applied(Owner, f.state, f.from)
    PROVE  AdminsWithin(s, replica[Owner])
<1>1. f.from # Owner BY DEF LoadOK
<1>2. PICK r \in replica[Owner] : s = r \/ Accepts(r, s, f.from)
  BY <1>1 DEF Applied, Joins
<1>3. \A x \in replica[Owner] : x = r
  BY <1>2, OwnerAssumption DEF Inv
<1>4. Rightful(r.roles) /\ Rightful(s.roles)
  BY ReplicaFields, AppliedFields, OwnerAssumption DEF Good
<1>5. \A x \in Devices : s.roles[x] = "Admin" => r.roles[x] = "Admin"
  <2>1. CASE s = r BY <2>1
  <2>2. CASE Accepts(r, s, f.from)
    <3>1. f.from \in Devices /\ r.roles[f.from] # "Owner"
      BY <1>1, <1>4, <2>2 DEF Accepts, Privileged, Rightful
    <3>2. Privileged(s) \subseteq Privileged(r)
      BY <2>2, <3>1 DEF Accepts, WithinSubset
    <3> QED BY <1>4, <3>2 DEF Privileged, Rightful
  <2> QED BY <1>2, <2>1, <2>2
<1> QED BY <1>3, <1>5 DEF AdminsWithin

LEMMA DemotionHandle ==
    ASSUME Inv, DemotionInv, NEW d \in Devices, Handle(d)
    PROVE  DemotionInv'
<1>1. PICK l \in listener[d] :
        /\ l.pc = "load"
        /\ HandleSync(d, l.frame) \/ HandleTombstone(d, l.frame) \/ HandleText(d, l.frame)
        /\ UNCHANGED <<calls, historyVars>>
  BY DEF Handle
<1>2. /\ LoadOK(d, l.frame) /\ UNCHANGED <<overlapped, ruling>>
  BY <1>1 DEF Inv, EntryOK, historyVars
<1>3. CASE d # Owner
  <2>1. replica'[Owner] = replica[Owner] /\ listener'[Owner] = listener[Owner]
    BY <1>1, <1>3, OwnerAssumption
       DEF HandleSync, HandleTombstone, HandleText, Hold, Idle, Inv
  <2> QED BY <1>2, <2>1 DEF DemotionInv, AdminsWithin, Ruled
<1>4. CASE d = Owner
  <2>1. CASE HandleSync(d, l.frame)
    <3>1. /\ UNCHANGED replica /\ l.frame.kind = "sync"
          /\ \A k \in listener'[Owner] :
               k.copy \in Applied(Owner, l.frame.state, l.frame.from) /\ k.base = replica[Owner]
      BY <1>4, <2>1 DEF HandleSync, Hold, Inv
    <3>2. \A k \in listener'[Owner] : AdminsWithin(k.copy, k.base)
      BY <1>2, <1>4, <3>1, OwnerApplies
    <3> QED BY <1>2, <3>1, <3>2 DEF DemotionInv, AdminsWithin, Ruled
  <2>2. CASE HandleTombstone(d, l.frame)
    <3>1. replica'[Owner] \subseteq replica[Owner] /\ listener'[Owner] = {}
      BY <1>4, <2>2 DEF HandleTombstone, Idle, Inv
    <3> QED BY <1>2, <3>1 DEF DemotionInv, Ruled
  <2>3. CASE HandleText(d, l.frame)
    <3> DEFINE copies == Received(replica[d], l.frame.from, l.frame.group)
    <3>1. /\ UNCHANGED replica /\ l.frame.kind = "text"
          /\ \A k \in listener'[Owner] : k.copy \in copies /\ k.base = replica[Owner]
      BY <1>4, <2>3 DEF HandleText, Hold, Inv
    <3>2. ASSUME NEW s \in copies PROVE AdminsWithin(s, replica[Owner])
      <4> DEFINE text(r) == [r EXCEPT !.texts = @ \cup {<<l.frame.from, l.frame.group>>}]
      <4>1. PICK r \in replica[d] : s = Touched(text(r))
        BY DEF Received
      <4>2. text(r).roles = r.roles
        BY ReplicaFields DEF Workspace
      <4> HIDE DEF text
      <4>3. s.roles = r.roles
        <5>1. \A t : Touched(t) = [t EXCEPT !.stamp = clock + 1] BY DEF Touched
        <5>2. text(r) \in Workspace
          <6>1. r \in Workspace BY ReplicaFields
          <6>2. <<l.frame.from, l.frame.group>> \in Text
            BY <1>1, <3>1 DEF Inv, EntryOK, Entry, Frame, Text
          <6> QED BY <6>1, <6>2 DEF text, Workspace
        <5> QED BY <4>1, <4>2, <5>2, TouchedFields DEF Inv
      <4> QED BY <1>4, <4>1, <4>3 DEF AdminsWithin, Inv
    <3> HIDE DEF copies
    <3> QED BY <1>2, <3>1, <3>2 DEF DemotionInv, AdminsWithin, Ruled
  <2> QED BY <1>1, <2>1, <2>2, <2>3
<1> QED BY <1>3, <1>4

LEMMA DemotionStore ==
    ASSUME Inv, DemotionInv, NEW d \in Devices, Store(d)
    PROVE  DemotionInv'
<1>1. PICK l \in listener[d] :
        /\ l.pc = "save"
        /\ replica' = [replica EXCEPT ![d] = {l.copy}]
        /\ overlapped' = (overlapped \/ Overlaps(d, l.base))
        /\ listener' = [listener EXCEPT ![d] = {}]
        /\ UNCHANGED ruling
  BY DEF Store, Idle
<1>2. CASE d # Owner
  <2>1. /\ replica'[Owner] = replica[Owner] /\ listener'[Owner] = listener[Owner]
        /\ overlapped => overlapped'
    BY <1>1, <1>2, OwnerAssumption DEF Inv
  <2> QED BY <1>1, <2>1 DEF DemotionInv, AdminsWithin, Ruled
<1>3. CASE d = Owner
  <2>1. replica'[Owner] = {l.copy} /\ listener'[Owner] = {}
    BY <1>1, <1>3 DEF Inv
  <2>2. AdminsWithin(l.copy, l.base)
    BY <1>1, <1>3 DEF DemotionInv
  <2>3. ~overlapped' => ~overlapped /\ replica[Owner] = l.base
    BY <1>1, <1>3 DEF Overlaps
  <2>4. ~overlapped' => Ruled(l.copy)
    BY <2>2, <2>3 DEF DemotionInv, AdminsWithin, Ruled
  <2> QED BY <1>1, <2>1, <2>4 DEF DemotionInv, Ruled
<1> QED BY <1>2, <1>3

(* Unless two writes of the owner's device have undone one another, whoever  *)
(* is an admin in the owner's file was one in what the owner saved last: the *)
(* states of an admin that has not heard of a demotion do not undo it.       *)
THEOREM DemotionKept == Spec => []DemotionHolds
<1>1. Init => DemotionInv
  <2> SUFFICES ASSUME Init PROVE DemotionInv OBVIOUS
  <2>1. PICK roles \in [Devices -> Role \cup {NoRole}], made \in SUBSET Groups :
          /\ replica = [d \in Devices |-> {r \in {Base(roles, made)} : d \in Members(r)}]
          /\ ruling = roles
    BY DEF Init
  <2>2. \A r \in replica[Owner] : r.roles = ruling
    BY <2>1, OwnerAssumption DEF Base
  <2>3. listener[Owner] = {} BY OwnerAssumption DEF Init
  <2> QED BY <2>2, <2>3 DEF DemotionInv, Ruled
<1>2. Inv /\ DemotionInv /\ [Next]_vars => DemotionInv'
  <2> SUFFICES ASSUME Inv, DemotionInv, [Next]_vars PROVE DemotionInv' OBVIOUS
  <2>1. ASSUME NEW c \in calls, Save(c) \/ Send(c) \/ Sent(c) PROVE DemotionInv'
    BY <2>1, DemotionCall
  <2>2. ASSUME NEW d \in Devices, User(d) \/ Handle(d) \/ Store(d) PROVE DemotionInv'
    BY <2>2, DemotionUser, DemotionHandle, DemotionStore
  <2>3. CASE UNCHANGED vars
    BY <2>3 DEF vars, DemotionInv, AdminsWithin, Ruled
  <2> QED BY <2>1, <2>2, <2>3 DEF Next, Call
<1>3. DemotionInv => DemotionHolds
  BY DEF DemotionInv, DemotionHolds, Ruled
<1> QED BY <1>1, <1>2, <1>3, InvHolds, PTL DEF Spec

-----------------------------------------------------------------------------
(* Deletion.  While the owner does nothing but delete, every state anywhere  *)
(* has the same members M, so that the tombstone goes to whoever may hold    *)
(* one, and no frame comes from the owner but the tombstone.                 *)

Active == {x[1] : x \in did}
OnlyDeletes == {x \in did : x[1] = Owner} \subseteq {<<Owner, "delete">>}

Everywhere(M) ==
    /\ \A c \in calls : Members(c.copy) = M
    /\ \A d \in Devices :
         /\ \A r \in replica[d] : Members(r) = M
         /\ \A l \in listener[d] :
              /\ l.pc = "load" /\ l.frame.kind = "sync" => Members(l.frame.state) = M
              /\ l.pc = "save" => Members(l.copy) = M

Gone(d) == replica[d] = {} /\ \A l \in listener[d] : l.pc # "save"
Coming(d) ==
    \/ \E c \in calls : c.frame.kind = "tombstone" /\ d \in c.to
    \/ \E l \in listener[d] : l.pc = "load" /\ l.frame.kind = "tombstone"

DeletionInv ==
    /\ \A c \in calls : c.by \in Active
    /\ OnlyDeletes =>
         /\ \A c \in calls : c.by = Owner => c.frame.kind = "tombstone"
         /\ \A d \in Devices : \A l \in listener[d] :
              l.pc = "load" /\ l.frame.from = Owner => l.frame.kind = "tombstone"
         /\ \E M \in SUBSET Devices : Everywhere(M)
         /\ <<Owner, "delete">> \in did /\ missed = {} =>
              \A d \in Devices \ Active : Gone(d) \/ Coming(d)

LEMMA DeletionInit == Init => DeletionInv
<1> SUFFICES ASSUME Init PROVE DeletionInv OBVIOUS
<1>1. PICK roles \in [Devices -> Role \cup {NoRole}], made \in SUBSET Groups :
        replica = [d \in Devices |-> {r \in {Base(roles, made)} : d \in Members(r)}]
  BY DEF Init
<1>2. /\ calls = {} /\ did = {} /\ \A d \in Devices : listener[d] = {}
  BY DEF Init
<1>3. \A d \in Devices : \A r \in replica[d] : r = Base(roles, made)
  BY <1>1
<1>4. Everywhere(Members(Base(roles, made)))
  BY <1>2, <1>3 DEF Everywhere
<1>5. Members(Base(roles, made)) \in SUBSET Devices
  BY DEF Members
<1> QED BY <1>2, <1>4, <1>5 DEF DeletionInv

LEMMA DeletionUser ==
    ASSUME Inv, DeletionInv, NEW d \in Devices, User(d)
    PROVE  DeletionInv'
<1>1. PICK kind \in Kinds, r \in replica[d], copy \in Workspace, pc \in {"save", "send"},
          to \in SUBSET Devices, frame \in Frame :
        Begins(d, kind, r, copy, pc, to, frame)
  BY UserBegins DEF Begun
<1> DEFINE c == [by |-> d, pc |-> pc, base |-> {r}, copy |-> copy, to |-> to, frame |-> frame]
<1>2. /\ calls' = calls \cup {c} /\ did' = did \cup {<<d, kind>>}
      /\ UNCHANGED <<replica, listener, missed>>
      /\ Fresh(d, kind, r, copy, to, frame)
  BY <1>1 DEF Begins, Begin
<1>3. Active \subseteq Active' /\ d \in Active'
  <2>1. did \subseteq did' /\ <<d, kind>> \in did' /\ <<d, kind>>[1] = d
    BY <1>2
  <2>2. Active' = {x[1] : x \in did'}
    BY DEF Active
  <2> QED BY <2>1, <2>2 DEF Active
<1>4. c.by = d /\ c.copy = copy /\ c.to = to /\ c.frame = frame
  OBVIOUS
<1> HIDE DEF c
<1>5. \A e \in calls' : e.by \in Active'
  BY <1>2, <1>3, <1>4 DEF DeletionInv
<1> SUFFICES ASSUME OnlyDeletes'
             PROVE  /\ \A k \in calls' : k.by = Owner => k.frame.kind = "tombstone"
                    /\ \E M \in SUBSET Devices : Everywhere(M)'
                    /\ <<Owner, "delete">> \in did' /\ missed' = {} =>
                         \A e \in Devices \ Active' : Gone(e)' \/ Coming(e)'
                    /\ OnlyDeletes
  BY <1>2, <1>5 DEF DeletionInv, Everywhere
<1>6. OnlyDeletes /\ (d = Owner => kind = "delete")
  <2>1. did \subseteq did' /\ <<d, kind>> \in did' /\ <<d, kind>>[1] = d
    BY <1>2
  <2>2. {x \in did' : x[1] = Owner} \subseteq {<<Owner, "delete">>}
    BY DEF OnlyDeletes
  <2>3. d = Owner => <<d, kind>> = <<Owner, "delete">>
    BY <2>1, <2>2
  <2> QED BY <2>1, <2>2, <2>3 DEF OnlyDeletes
<1>7. \A k \in calls' : k.by = Owner => k.frame.kind = "tombstone"
  BY <1>2, <1>4, <1>6 DEF DeletionInv, Fresh
<1>8. PICK M \in SUBSET Devices : Everywhere(M)
  BY <1>6 DEF DeletionInv
<1>9. Members(copy) = M
  BY <1>2, <1>6, <1>8 DEF Everywhere, Fresh
<1>10. Everywhere(M)'
  BY <1>2, <1>4, <1>8, <1>9 DEF Everywhere, Members
<1>11. ASSUME <<Owner, "delete">> \in did', missed' = {}, NEW e \in Devices \ Active'
       PROVE  Gone(e)' \/ Coming(e)'
  <2>1. CASE <<Owner, "delete">> \in did
    <3>1. Gone(e) \/ Coming(e)
      BY <1>2, <1>3, <1>6, <1>11, <2>1 DEF DeletionInv
    <3> QED BY <1>2, <3>1 DEF Gone, Coming
  <2>2. CASE <<Owner, "delete">> \notin did
    <3>1. d = Owner /\ kind = "delete"
      BY <1>2, <1>11, <2>2
    <3>2. to = M \ {Owner} /\ frame.kind = "tombstone" /\ e # Owner
      BY <1>2, <1>3, <1>9, <3>1 DEF Fresh
    <3>3. CASE e \in M
      <4>1. c \in calls' /\ c.frame.kind = "tombstone" /\ e \in c.to
        BY <1>2, <1>4, <3>2, <3>3
      <4> QED BY <4>1 DEF Coming
    <3>4. CASE e \notin M
      <4>1. replica[e] = {} /\ \A l \in listener[e] : l.pc # "save"
        BY <1>8, <3>4 DEF Everywhere, Inv, ReplicaOK, EntryOK
      <4> QED BY <1>2, <4>1 DEF Gone
    <3> QED BY <3>3, <3>4
  <2> QED BY <2>1, <2>2
<1> QED BY <1>6, <1>7, <1>10, <1>11

LEMMA DeletionCall ==
    ASSUME Inv, DeletionInv, NEW c \in calls, Save(c) \/ Send(c) \/ Sent(c)
    PROVE  DeletionInv'
<1>1. /\ \A j \in calls' : \E k \in calls : SameCall(j, k)
      /\ \A k \in calls : \A e \in k.to :
           \/ k.frame.kind = "text"
           \/ \E j \in calls' : SameCall(j, k) /\ e \in j.to
           \/ Loads(e, k)
           \/ k.copy.stamp \in missed'
      /\ \A e \in Devices :
           \/ listener'[e] = listener[e]
           \/ \E k \in calls : e \in k.to /\ Loads(e, k)
      /\ \A e \in Devices :
           \/ replica'[e] = replica[e]
           \/ \E k \in calls : k.by = e /\ replica'[e] \subseteq {k.copy}
      /\ missed \subseteq missed' /\ UNCHANGED did
  BY CallStep
<1>2. Active' = Active /\ OnlyDeletes' = OnlyDeletes
  BY <1>1 DEF Active, OnlyDeletes
<1>3. \A k \in calls' : k.by \in Active'
  BY <1>1, <1>2 DEF DeletionInv, SameCall
<1>4. ASSUME OnlyDeletes
      PROVE  /\ \A k \in calls' : k.by = Owner => k.frame.kind = "tombstone"
             /\ \A d \in Devices : \A l \in listener'[d] :
                  l.pc = "load" /\ l.frame.from = Owner => l.frame.kind = "tombstone"
  <2>1. \A k \in calls : k.frame.from = k.by
    BY DEF Inv, CallOK
  <2> QED BY <1>1, <1>4, <2>1 DEF DeletionInv, SameCall, Loads
<1>5. ASSUME OnlyDeletes PROVE \E M \in SUBSET Devices : Everywhere(M)'
  <2>1. PICK M \in SUBSET Devices : Everywhere(M)
    BY <1>5 DEF DeletionInv
  <2>2. \A k \in calls : Members(k.copy) = M /\ (k.frame.kind = "sync" => k.frame.state = k.copy)
    BY <2>1 DEF Everywhere, Inv, CallOK
  <2>3. \A k \in calls' : Members(k.copy) = M
    BY <1>1, <2>2 DEF SameCall
  <2>4. ASSUME NEW d \in Devices
        PROVE  /\ \A r \in replica'[d] : Members(r) = M
               /\ \A l \in listener'[d] :
                    /\ l.pc = "load" /\ l.frame.kind = "sync" => Members(l.frame.state) = M
                    /\ l.pc = "save" => Members(l.copy) = M
    <3>1. \A r \in replica'[d] : Members(r) = M
      BY <1>1, <2>1, <2>2 DEF Everywhere
    <3>2. CASE listener'[d] = listener[d]
      BY <2>1, <3>1, <3>2 DEF Everywhere
    <3>3. ASSUME NEW k \in calls, Loads(d, k)
          PROVE  \A l \in listener'[d] : l.pc = "load" /\ l.frame = k.frame
      BY <3>3 DEF Loads
    <3> QED BY <1>1, <2>2, <3>1, <3>2, <3>3
  <2>5. Everywhere(M)'
    BY <2>3, <2>4 DEF Everywhere, Members
  <2> QED BY <2>5
<1>6. ASSUME OnlyDeletes, <<Owner, "delete">> \in did, missed' = {}, NEW e \in Devices \ Active
      PROVE  Gone(e)' \/ Coming(e)'
  <2>1. replica'[e] = replica[e]
    BY <1>1 DEF DeletionInv
  <2>2. Gone(e) \/ Coming(e)
    BY <1>1, <1>6 DEF DeletionInv
  <2>3. CASE Gone(e)
    BY <1>1, <2>1, <2>3 DEF Gone, Loads
  <2>4. ASSUME NEW k \in calls, k.frame.kind = "tombstone", e \in k.to
        PROVE  Coming(e)'
    <3>1. \/ \E j \in calls' : SameCall(j, k) /\ e \in j.to
          \/ Loads(e, k)
      BY <1>1, <1>6, <2>4
    <3>2. CASE \E j \in calls' : SameCall(j, k) /\ e \in j.to
      BY <2>4, <3>2 DEF Coming, SameCall
    <3>3. CASE Loads(e, k)
      <4>1. PICK l \in listener'[e] : l.pc = "load" /\ l.frame = k.frame
        BY <3>3 DEF Loads
      <4> QED BY <2>4, <4>1 DEF Coming
    <3> QED BY <3>1, <3>2, <3>3
  <2>5. ASSUME NEW l \in listener[e], l.pc = "load", l.frame.kind = "tombstone"
        PROVE  Coming(e)'
    <3>1. listener'[e] = listener[e]
      BY <1>1 DEF Loads
    <3> QED BY <2>5, <3>1 DEF Coming
  <2> QED BY <2>2, <2>3, <2>4, <2>5 DEF Coming
<1> QED BY <1>1, <1>2, <1>3, <1>4, <1>5, <1>6 DEF DeletionInv

(* The listener takes over a state it was sent, or keeps what it has. *)
LEMMA HandledMembers ==
    ASSUME Inv, NEW M, Everywhere(M), NEW d \in Devices, NEW l \in listener[d],
           l.pc = "load", HandledAt(d, l.frame)
    PROVE  /\ \A r \in replica'[d] : r \in replica[d]
           /\ \A k \in listener'[d] : k.pc = "save" /\ Members(k.copy) = M
<1>1. LoadOK(d, l.frame) BY DEF Inv, EntryOK
<1>2. CASE l.frame.kind = "sync"
  <2>1. /\ replica'[d] = replica[d]
        /\ \A k \in listener'[d] :
             k.pc = "save" /\ k.copy \in Applied(d, l.frame.state, l.frame.from)
    BY <1>2 DEF HandledAt
  <2>2. \A k \in listener'[d] : k.copy = l.frame.state \/ k.copy \in replica[d]
    BY <1>1, <1>2, <2>1, AppliedFields
  <2> QED BY <1>2, <2>1, <2>2 DEF Everywhere
<1>3. CASE l.frame.kind # "sync"
  BY <1>3 DEF HandledAt, Everywhere, Members
<1> QED BY <1>2, <1>3

LEMMA DeletionListener ==
    ASSUME Inv, DeletionInv, NEW d \in Devices, Handle(d) \/ Store(d)
    PROVE  DeletionInv'
<1>1. /\ \A e \in Devices \ {d} : replica'[e] = replica[e] /\ listener'[e] = listener[e]
      /\ UNCHANGED <<calls, did, missed>>
  BY HandleStep, StoreStep DEF historyVars
<1>2. \/ \E l \in listener[d] : l.pc = "load" /\ HandledAt(d, l.frame)
      \/ \E l \in listener[d] : /\ l.pc = "save" /\ replica'[d] = {l.copy}
                                /\ listener'[d] = {}
  BY HandleStep, StoreStep
<1>3. PICK l \in listener[d] :
        \/ l.pc = "load" /\ HandledAt(d, l.frame)
        \/ l.pc = "save" /\ replica'[d] = {l.copy} /\ listener'[d] = {}
  BY <1>2
<1>4. /\ \A k \in listener[d] : k = l
      /\ l.pc = "load" => l.frame.kind \in {"sync", "text", "tombstone"}
  BY <1>3 DEF Inv, EntryOK, Entry, Frame
<1>5. \A k \in listener'[d] : k.pc = "save"
  BY <1>3, <1>4 DEF HandledAt
<1>6. Active' = Active /\ OnlyDeletes' = OnlyDeletes
  BY <1>1 DEF Active, OnlyDeletes
<1> SUFFICES ASSUME OnlyDeletes
             PROVE  /\ \E M \in SUBSET Devices : Everywhere(M)'
                    /\ <<Owner, "delete">> \in did /\ missed = {} =>
                         \A e \in Devices \ Active : Gone(e)' \/ Coming(e)'
  BY <1>1, <1>5, <1>6 DEF DeletionInv
<1>7. \E M \in SUBSET Devices : Everywhere(M)'
  <2>1. PICK M \in SUBSET Devices : Everywhere(M)
    BY DEF DeletionInv
  <2>2. /\ \A r \in replica'[d] : Members(r) = M
        /\ \A k \in listener'[d] : Members(k.copy) = M
    <3>1. CASE l.pc = "load"
      BY <1>3, <2>1, <3>1, HandledMembers DEF Everywhere
    <3>2. CASE l.pc = "save"
      BY <1>3, <2>1, <3>2 DEF Everywhere
    <3> QED BY <1>3, <3>1, <3>2
  <2>3. Everywhere(M)'
    BY <1>1, <1>5, <2>1, <2>2 DEF Everywhere, Members
  <2> QED BY <2>3
<1>8. ASSUME <<Owner, "delete">> \in did, missed = {}, NEW e \in Devices \ Active
      PROVE  Gone(e)' \/ Coming(e)'
  <2>1. Gone(e) \/ Coming(e)
    BY <1>8 DEF DeletionInv
  <2>2. CASE e # d
    BY <1>1, <2>1, <2>2 DEF Gone, Coming
  <2>3. CASE e = d /\ l.pc = "save"
    <3>1. ~Gone(e) /\ \E c \in calls : c.frame.kind = "tombstone" /\ e \in c.to
      BY <1>4, <2>1, <2>3 DEF Gone, Coming
    <3> QED BY <1>1, <3>1 DEF Coming
  <2>4. CASE e = d /\ l.pc = "load"
    <3>1. CASE \E c \in calls : c.frame.kind = "tombstone" /\ e \in c.to
      BY <1>1, <3>1 DEF Coming
    <3>2. CASE l.frame.kind = "tombstone"
      BY <1>3, <2>4, <3>2 DEF HandledAt, Gone
    <3>3. CASE Gone(e) /\ l.frame.kind # "tombstone"
      <4>1. l.frame.from # Owner
        BY <2>4, <3>3 DEF DeletionInv
      <4>2. Applied(d, l.frame.state, l.frame.from) = {}
        BY <2>4, <3>3, <4>1 DEF Applied, Joins, Gone
      <4> QED BY <1>3, <2>4, <3>3, <4>2 DEF HandledAt, Gone
    <3> QED BY <1>4, <2>1, <2>4, <3>1, <3>2, <3>3 DEF Coming
  <2> QED BY <1>3, <2>2, <2>3, <2>4
<1> QED BY <1>7, <1>8

(* When the owner does nothing but delete the workplace and the tombstone    *)
(* is not lost, it is gone, once all is handled, from the device of everyone *)
(* that has changed nothing himself: no state of an admin brings it back.    *)
THEOREM DeletionKept == Spec => []DeletionHolds
<1>1. Inv /\ DeletionInv /\ [Next]_vars => DeletionInv'
  <2> SUFFICES ASSUME Inv, DeletionInv, [Next]_vars PROVE DeletionInv' OBVIOUS
  <2>1. ASSUME NEW c \in calls, Save(c) \/ Send(c) \/ Sent(c) PROVE DeletionInv'
    BY <2>1, DeletionCall
  <2>2. ASSUME NEW d \in Devices, User(d) \/ Handle(d) \/ Store(d) PROVE DeletionInv'
    BY <2>2, DeletionUser, DeletionListener
  <2>3. CASE UNCHANGED vars
    BY <2>3 DEF vars, DeletionInv, Active, OnlyDeletes, Everywhere, Members, Gone, Coming
  <2> QED BY <2>1, <2>2, <2>3 DEF Next, Call
<1>2. DeletionInv => DeletionHolds
  BY DEF DeletionInv, DeletionHolds, Quiet, OnlyDeletes, Active, Gone, Coming
<1> QED BY <1>1, <1>2, DeletionInit, InvHolds, PTL DEF Spec

-----------------------------------------------------------------------------
(* Agreement.  While only the owner changes the workplace and nobody writes, *)
(* every state anywhere is the newest or older, and the newest is on its way *)
(* to a member or with it.                                                   *)

OwnersCalls == {"role", "groups", "rename", "invite"}
OnlyOwner == did \subseteq {Owner} \X OwnersCalls

Behind(s, n) == s.texts = {} /\ (s = n \/ s.stamp < n.stamp)
AllBehind(n) ==
    /\ \A c \in calls : Behind(c.copy, n)
    /\ \A d \in Devices :
         /\ \A r \in replica[d] : Behind(r, n)
         /\ \A l \in listener[d] :
              /\ l.pc = "load" => Behind(l.frame.state, n)
              /\ l.pc = "save" => Behind(l.copy, n)

OnWay(d, n) ==
    \/ \E c \in calls : c.copy = n /\ d \in c.to
    \/ \E l \in listener[d] :
         \/ l.pc = "load" /\ l.frame.state = n
         \/ l.pc = "save" /\ l.copy = n
Reached(d, n) == replica[d] = {n} /\ \A l \in listener[d] : l.pc = "save" => l.copy = n

NewestInv(n) ==
    /\ n.state \in Workspace /\ n.state.stamp <= clock
    /\ AllBehind(n.state)
    /\ n.kind # "invite" /\ n.state.stamp \notin missed =>
         \A d \in Members(n.state) \ {Owner} : OnWay(d, n.state) \/ Reached(d, n.state)

AgreementInv ==
    OnlyOwner =>
      /\ \A c \in calls : c.by = Owner /\ c.frame.kind = "sync" /\ c.copy.texts = {}
      /\ \A d \in Devices :
           /\ \A r \in replica[d] : r.texts = {}
           /\ \A l \in listener[d] :
                /\ l.pc = "load" => /\ l.frame.kind = "sync" /\ l.frame.from = Owner
                                    /\ l.frame.state.texts = {}
                /\ l.pc = "save" => l.copy.texts = {}
      /\ \A n \in newest : NewestInv(n)

LEMMA AgreementInit == Init => AgreementInv
<1> SUFFICES ASSUME Init PROVE AgreementInv OBVIOUS
<1>1. \A d \in Devices : \A r \in replica[d] : r.texts = {}
  <2>1. PICK roles \in [Devices -> Role \cup {NoRole}], made \in SUBSET Groups :
          replica = [d \in Devices |-> {r \in {Base(roles, made)} : d \in Members(r)}]
    BY DEF Init
  <2>2. Base(roles, made).texts = {} BY DEF Base
  <2> QED BY <2>1, <2>2
<1> QED BY <1>1 DEF Init, AgreementInv

LEMMA AgreementUser ==
    ASSUME Inv, AgreementInv, NEW d \in Devices, User(d)
    PROVE  AgreementInv'
<1>1. PICK kind \in Kinds, r \in replica[d], copy \in Workspace, pc \in {"save", "send"},
          to \in SUBSET Devices, frame \in Frame :
        Begins(d, kind, r, copy, pc, to, frame)
  BY UserBegins DEF Begun
<1> DEFINE c == [by |-> d, pc |-> pc, base |-> {r}, copy |-> copy, to |-> to, frame |-> frame]
           n == [kind |-> kind, state |-> copy]
<1>2. /\ calls' = calls \cup {c} /\ did' = did \cup {<<d, kind>>} /\ clock' = clock + 1
      /\ newest' = IF d = Owner /\ frame.kind = "sync" THEN {n} ELSE newest
      /\ UNCHANGED <<replica, listener, missed>>
      /\ Fresh(d, kind, r, copy, to, frame)
  BY <1>1 DEF Begins, Begin
<1>3. c.by = d /\ c.copy = copy /\ c.to = to /\ c.frame = frame /\ n.kind = kind /\ n.state = copy
  OBVIOUS
<1> HIDE DEF c, n
<1> SUFFICES ASSUME OnlyOwner'
             PROVE  AgreementInv'
  BY DEF AgreementInv
<1>4. OnlyOwner /\ d = Owner /\ kind \in OwnersCalls
  BY <1>2 DEF OnlyOwner
<1>5. frame.kind = "sync" /\ to = to \ {d} /\ (kind # "invite" => to = Members(copy) \ {Owner})
  BY <1>2, <1>4 DEF Fresh, OwnersCalls, Frame
<1>6. r.texts = {} /\ WellFormed(r)
  BY <1>4, ReplicaFields DEF AgreementInv, WellFormed, MembersOnly
<1>7. copy.texts = {} /\ copy.stamp = clock + 1 /\ clock \in Nat
  BY <1>2, <1>4, <1>6 DEF Fresh, OwnersCalls, Inv
<1>8. newest' = {n} BY <1>2, <1>4, <1>5
<1>9. \A s : Good(s) => s.stamp < copy.stamp
  BY <1>7, WorkspaceFields DEF Good
<1>10. AllBehind(copy)'
  <2>1. \A k \in calls : Behind(k.copy, copy)
    BY <1>4, <1>9 DEF AgreementInv, Behind, Inv, CallOK
  <2>2. \A e \in Devices : \A s \in replica[e] : Behind(s, copy)
    BY <1>4, <1>9 DEF AgreementInv, Behind, Inv, ReplicaOK
  <2>3. \A e \in Devices : \A l \in listener[e] :
          /\ l.pc = "load" => Behind(l.frame.state, copy)
          /\ l.pc = "save" => Behind(l.copy, copy)
    BY <1>4, <1>9 DEF AgreementInv, Behind, Inv, EntryOK, LoadOK
  <2>4. Behind(c.copy, copy)
    BY <1>3, <1>7 DEF Behind
  <2> QED BY <1>2, <2>1, <2>2, <2>3, <2>4 DEF AllBehind, Behind
<1>11. ASSUME kind # "invite", NEW e \in Members(copy) \ {Owner}
       PROVE  OnWay(e, copy)'
  <2>1. c \in calls' /\ c.copy = copy /\ e \in c.to
    BY <1>2, <1>3, <1>5, <1>11
  <2> QED BY <2>1 DEF OnWay
<1>12. NewestInv(n)'
  BY <1>2, <1>3, <1>7, <1>10, <1>11 DEF NewestInv, Members, AllBehind, Behind, OnWay
<1>13. \A k \in calls' : k.by = Owner /\ k.frame.kind = "sync" /\ k.copy.texts = {}
  BY <1>2, <1>3, <1>4, <1>5, <1>7 DEF AgreementInv
<1> QED BY <1>2, <1>4, <1>8, <1>12, <1>13 DEF AgreementInv

LEMMA AgreementCall ==
    ASSUME Inv, AgreementInv, NEW c \in calls, Save(c) \/ Send(c) \/ Sent(c)
    PROVE  AgreementInv'
<1>1. /\ \A j \in calls' : \E k \in calls : SameCall(j, k)
      /\ \A k \in calls : \A e \in k.to :
           \/ k.frame.kind = "text"
           \/ \E j \in calls' : SameCall(j, k) /\ e \in j.to
           \/ Loads(e, k)
           \/ k.copy.stamp \in missed'
      /\ \A e \in Devices :
           \/ listener'[e] = listener[e]
           \/ \E k \in calls : e \in k.to /\ Loads(e, k)
      /\ \A e \in Devices :
           \/ replica'[e] = replica[e]
           \/ \E k \in calls : k.by = e /\ replica'[e] \subseteq {k.copy}
      /\ missed \subseteq missed' /\ UNCHANGED <<clock, newest, did>>
  BY CallStep
<1> SUFFICES ASSUME OnlyOwner PROVE AgreementInv'
  BY <1>1 DEF AgreementInv, OnlyOwner
<1>2. \A k \in calls : /\ k.by = Owner /\ k.frame.kind = "sync" /\ k.copy.texts = {}
                       /\ k.frame.from = Owner /\ k.frame.state = k.copy
  BY DEF AgreementInv, Inv, CallOK
<1>3. \A k \in calls' : k.by = Owner /\ k.frame.kind = "sync" /\ k.copy.texts = {}
  BY <1>1, <1>2 DEF SameCall
<1>4. ASSUME NEW d \in Devices
      PROVE  /\ \A r \in replica'[d] : r.texts = {}
             /\ \A l \in listener'[d] :
                  /\ l.pc = "load" => /\ l.frame.kind = "sync" /\ l.frame.from = Owner
                                      /\ l.frame.state.texts = {}
                  /\ l.pc = "save" => l.copy.texts = {}
  <2>1. \A r \in replica'[d] : r.texts = {}
    BY <1>1, <1>2 DEF AgreementInv
  <2>2. CASE listener'[d] = listener[d]
    BY <2>1, <2>2 DEF AgreementInv
  <2>3. ASSUME NEW k \in calls, Loads(d, k)
        PROVE  \A l \in listener'[d] : l.pc = "load" /\ l.frame = k.frame
    BY <2>3 DEF Loads
  <2> QED BY <1>1, <1>2, <2>1, <2>2, <2>3
<1>5. ASSUME NEW n \in newest PROVE NewestInv(n)'
  <2>1. NewestInv(n) BY DEF AgreementInv
  <2>2. n.state \in Workspace /\ n.state.stamp <= clock' /\ AllBehind(n.state)
    BY <1>1, <2>1 DEF NewestInv
  <2>3. AllBehind(n.state)'
    <3>1. \A k \in calls' : Behind(k.copy, n.state)
      BY <1>1, <2>2 DEF AllBehind, SameCall
    <3>2. ASSUME NEW d \in Devices
          PROVE  /\ \A r \in replica'[d] : Behind(r, n.state)
                 /\ \A l \in listener'[d] :
                      /\ l.pc = "load" => Behind(l.frame.state, n.state)
                      /\ l.pc = "save" => Behind(l.copy, n.state)
      <4>1. \A r \in replica'[d] : Behind(r, n.state)
        BY <1>1, <2>2 DEF AllBehind
      <4>2. CASE listener'[d] = listener[d]
        BY <2>2, <4>1, <4>2 DEF AllBehind
      <4>3. ASSUME NEW k \in calls, Loads(d, k)
            PROVE  \A l \in listener'[d] : l.pc = "load" /\ l.frame.state = k.copy
        BY <1>2, <4>3 DEF Loads
      <4> QED BY <1>1, <2>2, <4>1, <4>2, <4>3 DEF AllBehind
    <3> QED BY <3>1, <3>2 DEF AllBehind, Behind
  <2>4. ASSUME n.kind # "invite", n.state.stamp \notin missed',
               NEW d \in Members(n.state) \ {Owner}
        PROVE  OnWay(d, n.state)' \/ Reached(d, n.state)'
    <3>1. OnWay(d, n.state) \/ Reached(d, n.state)
      BY <1>1, <2>1, <2>4 DEF NewestInv
    <3>2. d \in Devices BY DEF Members
    <3>3. replica'[d] = replica[d]
      BY <1>1, <1>2, <3>2
    <3>4. CASE Reached(d, n.state)
      BY <1>1, <3>2, <3>3, <3>4 DEF Reached, Loads
    <3>5. ASSUME NEW k \in calls, k.copy = n.state, d \in k.to
          PROVE  OnWay(d, n.state)'
      <4>1. (\E j \in calls' : SameCall(j, k) /\ d \in j.to) \/ Loads(d, k)
        BY <1>1, <1>2, <2>4, <3>5
      <4>2. CASE \E j \in calls' : SameCall(j, k) /\ d \in j.to
        BY <3>5, <4>2 DEF OnWay, SameCall
      <4>3. CASE Loads(d, k)
        <5>1. PICK l \in listener'[d] : l.pc = "load" /\ l.frame = k.frame
          BY <4>3 DEF Loads
        <5> QED BY <1>2, <3>5, <5>1 DEF OnWay
      <4> QED BY <4>1, <4>2, <4>3
    <3>6. ASSUME NEW l \in listener[d],
                 \/ l.pc = "load" /\ l.frame.state = n.state
                 \/ l.pc = "save" /\ l.copy = n.state
          PROVE  OnWay(d, n.state)'
      <4>1. listener'[d] = listener[d]
        BY <1>1, <3>2 DEF Loads
      <4> QED BY <3>6, <4>1 DEF OnWay
    <3> QED BY <3>1, <3>4, <3>5, <3>6 DEF OnWay
  <2> QED BY <1>1, <2>2, <2>3, <2>4 DEF NewestInv, Members
<1> QED BY <1>1, <1>3, <1>4, <1>5 DEF AgreementInv

(* A member takes over the newest state, and nothing in place of it. *)
LEMMA TakesNewest ==
    ASSUME Inv, NEW n \in Workspace, NEW d \in Members(n), d # Owner,
           NEW f, LoadOK(d, f), f.kind = "sync", f.from = Owner,
           f.state = n \/ replica[d] = {n},
           Behind(f.state, n), \A r \in replica[d] : Behind(r, n)
    PROVE  Applied(d, f.state, f.from) = {n}
<1>1. f.state \in Workspace /\ MembersOnly(f.state) /\ Rightful(f.state.roles) /\ f.state.texts = {}
  BY DEF LoadOK, Good, Behind
<1>2. WellFormed(f.state)
  BY <1>1 DEF WellFormed, MembersOnly
<1>3. d \in Devices BY DEF Members
<1>4. ASSUME NEW r \in replica[d]
      PROVE  Accepts(r, f.state, Owner)
  <2>1. Rightful(r.roles) BY <1>3, ReplicaFields
  <2> QED BY <1>2, <2>1, OwnerAssumption DEF Accepts, Privileged, Rightful
<1>5. CASE replica[d] = {}
  BY <1>5 DEF Applied, Joins
<1>6. CASE replica[d] # {}
  <2>1. PICK r \in replica[d] : replica[d] = {r}
    BY <1>3, <1>6 DEF Inv
  <2>2. Applied(d, f.state, f.from) =
          IF Older(f.state, r) THEN {r} ELSE {t \in {f.state} : Accepts(r, f.state, Owner)}
    BY <2>1 DEF Applied
  <2>3. Applied(d, f.state, f.from) = IF Older(f.state, r) THEN {r} ELSE {f.state}
    BY <1>4, <2>2
  <2>4. n.stamp \in Nat /\ r.stamp \in Nat /\ f.state.stamp \in Nat
    BY <1>1, <1>3, ReplicaFields, WorkspaceFields
  <2>5. CASE f.state = n
    <3>1. ~Older(n, r)
      BY <2>1, <2>4 DEF Behind, Older
    <3> QED BY <2>3, <2>5, <3>1
  <2>6. CASE r = n
    <3>1. Older(f.state, n) \/ f.state = n
      BY DEF Behind, Older
    <3> QED BY <2>3, <2>6, <3>1
  <2> QED BY <2>1, <2>5, <2>6
<1> QED BY <1>5, <1>6

LEMMA AgreementListener ==
    ASSUME Inv, AgreementInv, NEW d \in Devices, Handle(d) \/ Store(d)
    PROVE  AgreementInv'
<1>1. /\ \A e \in Devices \ {d} : replica'[e] = replica[e] /\ listener'[e] = listener[e]
      /\ UNCHANGED <<calls, did, missed, newest>>
  BY HandleStep, StoreStep DEF historyVars
<1>2. clock <= clock' /\ clock \in Nat /\ clock' \in Nat
  BY InvHandle, InvStore DEF Inv, Handle, HandleSync, HandleTombstone, HandleText, Store
<1>3. \/ \E l \in listener[d] : l.pc = "load" /\ HandledAt(d, l.frame)
      \/ \E l \in listener[d] : /\ l.pc = "save" /\ replica'[d] = {l.copy}
                                /\ listener'[d] = {}
  BY HandleStep, StoreStep
<1>4. PICK l \in listener[d] :
        \/ l.pc = "load" /\ HandledAt(d, l.frame)
        \/ l.pc = "save" /\ replica'[d] = {l.copy} /\ listener'[d] = {}
  BY <1>3
<1>5. listener[d] = {l} BY DEF Inv
<1> SUFFICES ASSUME OnlyOwner PROVE AgreementInv'
  BY <1>1 DEF AgreementInv, OnlyOwner
<1>6. CASE l.pc = "load"
  <2>1. LoadOK(d, l.frame) BY <1>6 DEF Inv, EntryOK
  <2>2. l.frame.kind = "sync" /\ l.frame.from = Owner /\ l.frame.state.texts = {}
    BY <1>6 DEF AgreementInv
  <2>3. /\ replica'[d] = replica[d]
        /\ listener'[d] = {[pc |-> "save", copy |-> s, base |-> replica[d]] :
                             s \in Applied(d, l.frame.state, l.frame.from)}
    BY <1>4, <1>6, <2>2 DEF HandledAt
  <2>4. \A k \in listener'[d] :
          k.pc = "save" /\ (k.copy = l.frame.state \/ k.copy \in replica[d])
    BY <2>1, <2>2, <2>3, AppliedFields
  <2>5. ASSUME NEW n \in newest PROVE NewestInv(n)'
    <3>1. NewestInv(n) BY DEF AgreementInv
    <3>2. /\ n.state \in Workspace /\ n.state.stamp \in Nat
          /\ n.state.stamp <= clock' /\ AllBehind(n.state)
      BY <1>2, <3>1, WorkspaceFields DEF NewestInv
    <3>3. AllBehind(n.state)'
      BY <1>1, <1>6, <2>3, <2>4, <3>2 DEF AllBehind, Behind
    <3>4. ASSUME n.kind # "invite", n.state.stamp \notin missed,
                 NEW e \in Members(n.state) \ {Owner}
          PROVE  OnWay(e, n.state)' \/ Reached(e, n.state)'
      <4>1. OnWay(e, n.state) \/ Reached(e, n.state)
        BY <3>1, <3>4 DEF NewestInv
      <4>2. CASE e # d
        <5>1. replica'[e] = replica[e] /\ listener'[e] = listener[e] /\ calls' = calls
          BY <1>1, <4>2 DEF Members
        <5> QED BY <4>1, <5>1 DEF OnWay, Reached
      <4>3. CASE e = d
        <5>1. CASE \E c \in calls : c.copy = n.state /\ d \in c.to
          BY <1>1, <4>3, <5>1 DEF OnWay
        <5>2. CASE l.frame.state = n.state \/ replica[d] = {n.state}
          <6>1. Applied(d, l.frame.state, l.frame.from) = {n.state}
            BY <1>6, <2>1, <2>2, <3>2, <4>3, <5>2, TakesNewest DEF AllBehind
          <6>2. listener'[d] = {[pc |-> "save", copy |-> n.state, base |-> replica[d]]}
            BY <2>3, <6>1
          <6>3. PICK k \in listener'[d] : k.pc = "save" /\ k.copy = n.state
            BY <6>2
          <6> QED BY <4>3, <6>3 DEF OnWay
        <5> QED BY <1>5, <1>6, <4>1, <4>3, <5>1, <5>2 DEF OnWay, Reached
      <4> QED BY <4>2, <4>3
    <3> QED BY <1>1, <3>2, <3>3, <3>4 DEF NewestInv, Members
  <2> QED BY <1>1, <1>6, <2>2, <2>3, <2>4, <2>5 DEF AgreementInv
<1>7. CASE l.pc = "save"
  <2>1. replica'[d] = {l.copy} /\ listener'[d] = {} /\ l.copy.texts = {}
    BY <1>4, <1>7 DEF AgreementInv
  <2>2. ASSUME NEW n \in newest PROVE NewestInv(n)'
    <3>1. NewestInv(n) BY DEF AgreementInv
    <3>2. /\ n.state \in Workspace /\ n.state.stamp \in Nat
          /\ n.state.stamp <= clock' /\ AllBehind(n.state)
      BY <1>2, <3>1, WorkspaceFields DEF NewestInv
    <3>3. AllBehind(n.state)'
      BY <1>1, <1>7, <2>1, <3>2 DEF AllBehind, Behind
    <3>4. ASSUME n.kind # "invite", n.state.stamp \notin missed,
                 NEW e \in Members(n.state) \ {Owner}
          PROVE  OnWay(e, n.state)' \/ Reached(e, n.state)'
      <4>1. OnWay(e, n.state) \/ Reached(e, n.state)
        BY <3>1, <3>4 DEF NewestInv
      <4>2. CASE e # d
        <5>1. replica'[e] = replica[e] /\ listener'[e] = listener[e] /\ calls' = calls
          BY <1>1, <4>2 DEF Members
        <5> QED BY <4>1, <5>1 DEF OnWay, Reached
      <4>3. CASE e = d
        <5>1. CASE \E c \in calls : c.copy = n.state /\ d \in c.to
          BY <1>1, <4>3, <5>1 DEF OnWay
        <5>2. CASE l.copy = n.state
          BY <2>1, <4>3, <5>2 DEF Reached
        <5> QED BY <1>5, <1>7, <4>1, <4>3, <5>1, <5>2 DEF OnWay, Reached
      <4> QED BY <4>2, <4>3
    <3> QED BY <1>1, <3>2, <3>3, <3>4 DEF NewestInv, Members
  <2> QED BY <1>1, <2>1, <2>2 DEF AgreementInv
<1> QED BY <1>4, <1>6, <1>7

(* While only the owner changes the workplace and nobody writes in it, all   *)
(* members that the owner's last change has reached hold that very state     *)
(* once all is handled, in whatever order the states came, whichever were    *)
(* lost before and however the owner's calls overlapped.                     *)
THEOREM MembersFollow == Spec => []MembersAgree
<1>1. Inv /\ AgreementInv /\ [Next]_vars => AgreementInv'
  <2> SUFFICES ASSUME Inv, AgreementInv, [Next]_vars PROVE AgreementInv' OBVIOUS
  <2>1. ASSUME NEW c \in calls, Save(c) \/ Send(c) \/ Sent(c) PROVE AgreementInv'
    BY <2>1, AgreementCall
  <2>2. ASSUME NEW d \in Devices, User(d) \/ Handle(d) \/ Store(d) PROVE AgreementInv'
    BY <2>2, AgreementUser, AgreementListener
  <2>3. CASE UNCHANGED vars
    BY <2>3 DEF vars, AgreementInv, OnlyOwner, NewestInv, AllBehind, Behind, OnWay, Reached, Members
  <2> QED BY <2>1, <2>2, <2>3 DEF Next, Call
<1>2. AgreementInv => MembersAgree
  BY DEF AgreementInv, OnlyOwner, OwnersCalls, NewestInv, OnWay, Reached, MembersAgree, Quiet, Members
<1> QED BY <1>1, <1>2, AgreementInit, InvHolds, PTL DEF Spec
=============================================================================
