------------------------------ MODULE Workplace ------------------------------
(* The workplace: every member device keeps a replica in workspace.json,     *)
(* changes it on its user's call and sends the whole state to the others     *)
(* (workplace_mutate, sync_state_to_members), whose listeners take it over   *)
(* or refuse it (apply_network_state, from_network_state).                   *)
(*                                                                           *)
(* A call and the listener of a device load the file, change their copy and  *)
(* write it back, with no lock; a call that sends a text keeps its copy over *)
(* the sends.  Calls of one user overlap, each runs on an isolate.           *)
(*                                                                           *)
(* The devices trust one another; those that are not members may be invited. *)
(* Clocks agree and no two changes fall into one millisecond.  Who is in a   *)
(* department is left out, as no exported call puts anybody there.  What     *)
(* broadcasts and the queue of texts do is in WorkplaceDelivery.             *)
(* "At most one" is a set.                                                   *)
EXTENDS Integers

CONSTANTS
    Devices,    \* the devices of the members and of those to be invited
    Owner,      \* the device that created the workplace
    Groups,     \* group ids
    Given,      \* the roles in use besides the owner's
    Kinds,      \* what the users do: "role", "groups", "rename", "invite", "text",
                \* "delete"
    Faults,     \* "offline" if a send may fail
    MaxClock    \* bound on the calls

ASSUME OwnerAssumption == Owner \in Devices
ASSUME GivenAssumption ==
    /\ Given \subseteq {"Admin", "Manager", "Member"}
    /\ "invite" \in Kinds => "Member" \in Given
ASSUME MaxClockAssumption == MaxClock \in Nat

(* A replica, as far as the merge looks at it.  made: the groups there are;  *)
(* texts: who has written in which group.                                    *)
Role == {"Owner"} \cup Given
NoRole == "none"    \* of a device that is not a member
Text == Devices \X Groups
Workspace ==
    [stamp : Nat, roles : [Devices -> Role \cup {NoRole}], made : SUBSET Groups,
     groups : [Groups -> SUBSET Devices], texts : SUBSET Text]

Frame ==
    [kind : {"sync", "tombstone"}, from : Devices, state : Workspace]
      \cup [kind : {"text"}, from : Devices, group : Groups]

VARIABLES
    replica,    \* workspace.json of a device: at most one
    clock,      \* milliseconds
    calls,      \* the users' calls in progress
    listener,   \* per device: the frame being handled, at most one
    missed,     \* history: the stamps of what a send of has failed
    newest,     \* history: the state the owner has sent last, and the kind of call
    overlapped, \* history: has a write of the owner's device undone another?
    did,        \* history: <<d, k>> when the user of d has made a call of kind k
    granted,    \* history: <<a, d, r>> when a has given d the role r
    ruling      \* history: the roles in what the owner's calls saved last

vars == <<replica, clock, calls, listener, missed, newest, overlapped, did, granted, ruling>>
historyVars == <<missed, newest, overlapped, did, granted, ruling>>

Members(r) == {d \in Devices : r.roles[d] # NoRole}

Base(roles, made) ==
    LET members == {d \in Devices : roles[d] # NoRole} IN
    [stamp |-> 0, roles |-> roles, made |-> made, texts |-> {},
     groups |-> [g \in Groups |-> IF g \in made THEN members ELSE {}]]

(* The workplace has been created, perhaps with groups of all members, and   *)
(* synchronised.                                                             *)
Init ==
    /\ \E roles \in [Devices -> Role \cup {NoRole}], made \in SUBSET Groups :
         /\ \A d \in Devices : roles[d] = "Owner" <=> d = Owner
         /\ replica = [d \in Devices |-> {r \in {Base(roles, made)} : d \in Members(r)}]
         /\ granted = {<<Owner, d, roles[d]>> : d \in Members(Base(roles, made))}
         /\ ruling = roles
    /\ clock = 0
    /\ calls = {}
    /\ listener = [d \in Devices |-> {}]
    /\ missed = {} /\ newest = {} /\ overlapped = FALSE
    /\ did = {}

-----------------------------------------------------------------------------
(* The users' calls *)

(* Role::can_assign, Workspace::permissions_for *)
CanAssignPeers(role) ==
    CASE role = "Owner" -> Given
      [] role = "Admin" -> Given
      [] OTHER -> {}
CanAssign(role) ==
    CASE role = "Owner" -> Given
      [] role = "Admin" -> Given \ {"Admin"}
      [] OTHER -> {}
ManageGroups == {"Owner", "Admin", "Manager"}

Touched(r) == [r EXCEPT !.stamp = clock + 1]

(* A call has loaded r and holds a copy of it. *)
Begin(d, kind, r, copy, pc, to, frame) ==
    /\ kind \in Kinds /\ clock < MaxClock
    /\ clock' = clock + 1
    /\ calls' = calls \cup {[by |-> d, pc |-> pc, base |-> {r}, copy |-> copy,
                             to |-> to, frame |-> frame]}
    /\ did' = did \cup {<<d, kind>>}
    /\ newest' = IF d = Owner /\ frame.kind = "sync" THEN {[kind |-> kind, state |-> copy]}
                 ELSE newest
    /\ UNCHANGED <<replica, listener, missed, overlapped, ruling>>

(* change, touch, save, then send the state *)
Publish(d, kind, r, changed, to) ==
    LET copy == Touched(changed)
    IN  Begin(d, kind, r, copy, "save", to, [kind |-> "sync", from |-> d, state |-> copy])

(* sync_state_to_members *)
AllTrusted(r, d) == Devices \ {d}
Recipients(r, d) == Members(r) \ {d}

(* workplace_mutate_path *)
Mutate(d, kind, r, changed) == Publish(d, kind, r, changed, Recipients(changed, d))

SetMemberRole(d) ==
    \E r \in replica[d], x \in Devices \ {Owner}, role \in Given :
        /\ {role, r.roles[x]} \subseteq CanAssign(r.roles[d])
        /\ Mutate(d, "role", r, [r EXCEPT !.roles[x] = role])
        /\ granted' = granted \cup {<<d, x, role>>}

(* A new group has its creator in it; a member is added, removed or moved.   *)
Created(r, d, g) == [r EXCEPT !.made = @ \cup {g}, !.groups[g] = {d}]
Added(r, x, g) == [r EXCEPT !.groups[g] = @ \cup {x}]
Removed(r, x, g) == [r EXCEPT !.groups[g] = @ \ {x}]
Moved(r, x, g, h) == Added(Removed(r, x, g), x, h)

Regrouped(r, d) ==
    {Created(r, d, g) : g \in Groups \ r.made}
      \cup {Added(r, x, g) : x \in Members(r), g \in r.made}
      \cup (UNION {{Removed(r, x, g) : x \in r.groups[g]} : g \in r.made})
      \cup (UNION {{Moved(r, x, g, h) : x \in r.groups[g], h \in r.made \ {g}} : g \in r.made})

ChangeGroups(d) ==
    \E r \in replica[d] :
        /\ r.roles[d] \in ManageGroups
        /\ \E changed \in Regrouped(r, d) : Mutate(d, "groups", r, changed)
        /\ UNCHANGED granted

(* Only the owner renames; an admin may create a department.  The merge does *)
(* not look at either.                                                       *)
Rename(d) ==
    \E r \in replica[d] :
        /\ r.roles[d] \in {"Owner", "Admin"}
        /\ Mutate(d, "rename", r, r)
        /\ UNCHANGED granted

(* capsi_trust_accept on the owner's device: the accepted one becomes a      *)
(* member, if it is not one, and only it is sent the state.                  *)
Invite(d) ==
    \E r \in replica[d], x \in Devices \ {d} :
        /\ d = Owner
        /\ IF x \in Members(r)
           THEN /\ Publish(d, "invite", r, r, {x})
                /\ UNCHANGED granted
           ELSE /\ Publish(d, "invite", r, [r EXCEPT !.roles[x] = "Member"], {x})
                /\ granted' = granted \cup {<<d, x, "Member">>}

(* capsi_workplace_send_message: the text goes to the group, then the copy   *)
(* is saved.                                                                 *)
SendMessage(d) ==
    \E r \in replica[d], g \in Groups :
        /\ d \in r.groups[g]
        /\ Begin(d, "text", r, Touched([r EXCEPT !.texts = @ \cup {<<d, g>>}]),
                 "send", r.groups[g] \ {d}, [kind |-> "text", from |-> d, group |-> g])
        /\ UNCHANGED granted

AdminDeletes(r, d) == r.roles[d] \in {"Owner", "Admin"}
MayDelete(r, d) == d = Owner

(* capsi_workplace_delete: tell the others, then remove the file *)
Delete(d) ==
    \E r \in replica[d] :
        /\ MayDelete(r, d)
        /\ Begin(d, "delete", r, Touched(r), "send", Recipients(r, d),
                 [kind |-> "tombstone", from |-> d, state |-> Touched(r)])
        /\ UNCHANGED granted

User(d) ==
    \/ SetMemberRole(d) \/ ChangeGroups(d) \/ Rename(d) \/ Invite(d)
    \/ SendMessage(d) \/ Delete(d)

Continue(c, next) == calls' = (calls \ {c}) \cup {next}
End(c) == calls' = calls \ {c}

(* A write of d that was computed from base *)
Overlaps(d, base) == d = Owner /\ replica[d] # base

Save(c) ==
    /\ c.pc = "save"
    /\ replica' = [replica EXCEPT ![c.by] = {c.copy}]
    /\ overlapped' = (overlapped \/ Overlaps(c.by, c.base))
    /\ ruling' = IF c.by = Owner THEN c.copy.roles ELSE ruling
    /\ IF c.frame.kind = "text" THEN End(c) ELSE Continue(c, [c EXCEPT !.pc = "send"])
    /\ UNCHANGED <<clock, listener, missed, newest, did, granted>>

(* connect_and_send, to one after the other *)
Send(c) ==
    /\ c.pc = "send"
    /\ \E e \in c.to :
         /\ \/ /\ listener[e] = {}
               /\ listener' = [listener EXCEPT ![e] = {[pc |-> "load", frame |-> c.frame]}]
               /\ UNCHANGED missed
            \/ /\ "offline" \in Faults
               /\ missed' = missed \cup {c.copy.stamp}
               /\ UNCHANGED listener
         /\ Continue(c, [c EXCEPT !.to = @ \ {e}])
    /\ UNCHANGED <<replica, clock, newest, overlapped, did, granted, ruling>>

Sent(c) ==
    /\ c.pc = "send" /\ c.to = {}
    /\ CASE c.frame.kind = "sync" -> End(c) /\ UNCHANGED replica
         [] c.frame.kind = "text" -> Continue(c, [c EXCEPT !.pc = "save"]) /\ UNCHANGED replica
         [] c.frame.kind = "tombstone" -> End(c) /\ replica' = [replica EXCEPT ![c.by] = {}]
    /\ UNCHANGED <<clock, listener, historyVars>>

Call == \E c \in calls : Save(c) \/ Send(c) \/ Sent(c)

-----------------------------------------------------------------------------
(* The listener *)

Privileged(r) == {d \in Devices : r.roles[d] \in {"Owner", "Admin"}}

(* Groups have members only, and the senders of texts are in their groups. *)
WellFormed(s) ==
    /\ \A g \in s.made : s.groups[g] \subseteq Members(s)
    /\ \A t \in s.texts : t[1] \in s.groups[t[2]]

AnyPrivileged(r, s) == TRUE
WithinSubset(r, s) == Privileged(s) \subseteq Privileged(r)

(* Workspace::apply_network_state of a state that is not older *)
Accepts(r, s, actor) ==
    /\ actor \in Privileged(r)
    /\ WellFormed(s)
    /\ r.roles[actor] # "Owner" =>
         WithinSubset(r, s) /\ s.roles[actor] = r.roles[actor]

NeverOlder(s, r) == FALSE
Older(s, r) == s.stamp < r.stamp

(* from_network_state, of a device that has no workplace *)
JoinsAnyone(d, s, actor) == d \in Members(s)
Joins(d, s, actor) == actor = Owner /\ d \in Members(s)

(* What the handler of a state makes of the file: a copy to write, or none.  *)
(* An older state is dropped, and the copy written all the same.             *)
Applied(d, s, actor) ==
    LET file == replica[d] IN
    IF file = {} THEN {t \in {s} : Joins(d, t, actor)}
    ELSE UNION {IF Older(s, r) THEN {r} ELSE {t \in {s} : Accepts(r, s, actor)} : r \in file}

(* The handler of a text: its sender must be a member of the group. *)
Received(file, from, group) ==
    {Touched([r EXCEPT !.texts = @ \cup {<<from, group>>}]) :
       r \in {x \in file : from \in x.groups[group]}}

Idle(d) == listener' = [listener EXCEPT ![d] = {}]
Hold(d, copies, base) ==
    listener' = [listener EXCEPT ![d] =
                   {[pc |-> "save", copy |-> copy, base |-> base] : copy \in copies}]

HandleSync(d, f) ==
    /\ f.kind = "sync"
    /\ Hold(d, Applied(d, f.state, f.from), replica[d])
    /\ UNCHANGED <<replica, clock>>

HandleTombstone(d, f) ==
    /\ f.kind = "tombstone"
    /\ replica' = [replica EXCEPT ![d] = IF f.from = Owner THEN {} ELSE @]
    /\ Idle(d)
    /\ UNCHANGED clock

HandleText(d, f) ==
    /\ f.kind = "text"
    /\ Hold(d, Received(replica[d], f.from, f.group), replica[d])
    /\ clock' = clock + 1
    /\ UNCHANGED replica

Handle(d) ==
    \E l \in listener[d] :
        /\ l.pc = "load"
        /\ HandleSync(d, l.frame) \/ HandleTombstone(d, l.frame) \/ HandleText(d, l.frame)
        /\ UNCHANGED <<calls, historyVars>>

Store(d) ==
    \E l \in listener[d] :
        /\ l.pc = "save"
        /\ replica' = [replica EXCEPT ![d] = {l.copy}]
        /\ overlapped' = (overlapped \/ Overlaps(d, l.base))
        /\ Idle(d)
        /\ UNCHANGED <<clock, calls, missed, newest, did, granted, ruling>>

-----------------------------------------------------------------------------
Next == Call \/ \E d \in Devices : User(d) \/ Handle(d) \/ Store(d)

Spec == Init /\ [][Next]_vars

-----------------------------------------------------------------------------
(* The states the program passes around: in files, calls and listeners *)
CallStates == {c.copy : c \in calls}
Published == {c \in calls : c.frame.kind # "text"}
Handled(d) == {l \in listener[d] : l.pc = "load" /\ l.frame.kind # "text"}
Held(d) == {l \in listener[d] : l.pc = "save"}
States ==
    (UNION {replica[d] : d \in Devices})
      \cup CallStates \cup {c.frame.state : c \in Published}
      \cup (UNION {{l.frame.state : l \in Handled(d)} : d \in Devices})
      \cup (UNION {{l.copy : l \in Held(d)} : d \in Devices})

TypeOK ==
    /\ clock \in Nat
    /\ \A s \in States : s \in Workspace /\ s.stamp <= clock
    /\ \A d \in Devices : \A r, s \in replica[d] : r = s
    /\ \A d \in Devices : \A l, k \in listener[d] : l = k
    /\ \A c \in calls : c.by \in Devices /\ c.to \subseteq Devices \ {c.by} /\ c.frame \in Frame
    /\ \A c \in calls : c.frame.kind = "tombstone" => c.by = Owner

(* Ownership never moves, and every other role a device is shown with in any *)
(* file or message was given to it by the owner, who alone invites, or by an *)
(* admin the owner had made, an admin's only by the owner: no interleaving   *)
(* of stale states makes up a right.                                         *)
RolesGranted ==
    \A s \in States : \A d \in Devices :
        /\ s.roles[d] = "Owner" <=> d = Owner
        /\ d \in Members(s) => \E a \in Devices :
             /\ <<a, d, s.roles[d]>> \in granted
             /\ a = Owner \/ (s.roles[d] # "Admin" /\ <<Owner, a, "Admin">> \in granted)

Quiet == calls = {} /\ \A d \in Devices : listener[d] = {}

(* lib.rs:251-254: what a member has missed, its invitation too, is made up  *)
(* for by "the next workplace mutation".  While only the owner changes the   *)
(* workplace, by calls that may overlap, all members end with the state of   *)
(* its last mutation if that reached them, in whatever order the states came *)
(* and whichever were lost before.                                           *)
MembersAgree ==
    Quiet /\ did \subseteq {Owner} \X {"role", "groups", "rename", "invite"} =>
        \A n \in newest : n.kind # "invite" /\ n.state.stamp \notin missed =>
            \A d \in Members(n.state) \ {Owner} : replica[d] = {n.state}

(* Who has a file of the workplace is a member in it, although a state that  *)
(* drops the receiver is not refused (workplace.rs:212-306): of a state that *)
(* an admin sends without having heard of a new member, that one never hears.*)
HoldersBelong ==
    \A d \in Devices : \A r \in replica[d] : d \in Members(r)

(* Unless two writes of the owner's device have overlapped, nobody is an     *)
(* admin there who was not in what the owner saved last: an admin that still *)
(* has an old state does not bring back one the owner has demoted.           *)
DemotionHolds ==
    ~overlapped =>
        \A r \in replica[Owner], d \in Devices :
            r.roles[d] = "Admin" => ruling[d] = "Admin"

(* workplace.rs:189-191: "a stale live sync cannot resurrect" a deleted      *)
(* workplace.  It is gone from every device that the tombstone has reached   *)
(* and whose user changed nothing, whatever states of the admins arrive      *)
(* after it; unless the owner made another call meanwhile.                   *)
DeletionHolds ==
    Quiet /\ missed = {} /\ {x \in did : x[1] = Owner} = {<<Owner, "delete">>} =>
        \A d \in Devices \ {x[1] : x \in did} : replica[d] = {}

(* lib.rs:251-254: "the next workplace mutation can synchronize the member   *)
(* again": a member that gets a state of the owner, and has no newer one,    *)
(* takes it over.                                                            *)
OwnerIsFollowed ==
    \A d \in Devices \ {Owner} : \A l \in Handled(d), r \in replica[d] :
        l.frame.kind = "sync" /\ l.frame.from = Owner /\ ~Older(l.frame.state, r) =>
            Accepts(r, l.frame.state, Owner)
=============================================================================
