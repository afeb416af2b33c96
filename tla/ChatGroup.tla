------------------------------ MODULE ChatGroup ------------------------------
(***************************************************************************)
(* The members of one group room (apps/chat): its owner, admins and        *)
(* members, and the audit trail of their changes.  Every membership        *)
(* operation of ChatService locks the room; the settings form does not: it *)
(* reads the room, checks, and saves the whole row it read.                *)
(***************************************************************************)
EXTENDS Naturals, FiniteSets

CONSTANTS
  Users,
  Limits,       \* the values of max_participants owners ask for
  PlatformCap,  \* CHAT_GROUP_MAX_PARTICIPANTS
  MaxForms      \* bound: settings forms under way together

ASSUME GroupAssumption ==
  /\ IsFiniteSet(Users) /\ Limits \subseteq Nat /\ PlatformCap \in Nat
  /\ MaxForms \in Nat

VARIABLES
  role,    \* role[u]: u's ChatParticipant row
  room,    \* the ChatRoom
  edit,    \* edit[u]: u's settings form, between its reads and its save
  trail    \* trail[u]: u's role, replayed from the ChatMembershipEvents

groupVars == <<role, room, edit, trail>>

Role == {"none", "owner", "admin", "member"}
RoomStatus == {"absent", "active", "archived"}
RoomRow == [status: RoomStatus, limit: Nat]
(* "read": the room is read; "checked": so are the role and the limit.     *)
EditState == [at: {"idle", "read", "checked"}, copy: RoomRow, limit: Nat]

NoRoom == [status |-> "absent", limit |-> 0]
Idle == [at |-> "idle", copy |-> NoRoom, limit |-> 0]

GroupTypeOK ==
  /\ role \in [Users -> Role]
  /\ room \in RoomRow
  /\ edit \in [Users -> EditState]
  /\ trail \in [Users -> Role]

GroupInit ==
  /\ role = [u \in Users |-> "none"]
  /\ room = NoRoom
  /\ edit = [u \in Users |-> Idle]
  /\ trail = [u \in Users |-> "none"]

Members == {u \in Users : role[u] # "none"}
Owners == {u \in Users : role[u] = "owner"}
EffectiveLimit == IF room.limit <= PlatformCap THEN room.limit ELSE PlatformCap

----------------------------------------------------------------------------
(* The membership events; an event of a transfer names the new owner only. *)
Added(u, r) == [trail EXCEPT ![u] = r]
Removed(u) == [trail EXCEPT ![u] = "none"]
Transferred(u) ==
  [v \in Users |->
     IF v = u THEN "owner" ELSE IF trail[v] = "owner" THEN "admin" ELSE trail[v]]

----------------------------------------------------------------------------
(* Members are invited after the group is created.                         *)
ValidRoom(others, limit) == others = {} /\ limit >= 2 /\ limit <= PlatformCap

CreateGroup(u, others, limit) ==
  LET first == [v \in Users |-> IF v = u THEN "owner"
                                ELSE IF v \in others THEN "member" ELSE "none"]
  IN /\ room.status = "absent"
     /\ ValidRoom(others, limit)
     /\ Cardinality(others \cup {u}) <= limit
     /\ room' = [status |-> "active", limit |-> limit]
     /\ role' = first /\ trail' = first
     /\ UNCHANGED edit

AddMember(actor, u, r) ==
  /\ room.status = "active"
  /\ r \in {"admin", "member"}
  /\ \/ role[actor] = "owner"
     \/ role[actor] = "admin" /\ r = "member"
  /\ role[u] = "none"
  /\ Cardinality(Members) < EffectiveLimit
  /\ role' = [role EXCEPT ![u] = r]
  /\ trail' = Added(u, r)
  /\ UNCHANGED <<room, edit>>

RemoveMember(actor, u) ==
  /\ room.status = "active"
  /\ role[u] \in {"admin", "member"}
  /\ \/ role[actor] = "owner"
     \/ role[actor] = "admin" /\ role[u] = "member"
  /\ role' = [role EXCEPT ![u] = "none"]
  /\ trail' = Removed(u)
  /\ UNCHANGED <<room, edit>>

ChangeRole(actor, u, r) ==
  /\ room.status = "active"
  /\ role[actor] = "owner"
  /\ r \in {"admin", "member"}
  /\ role[u] \in {"admin", "member"} \ {r}
  /\ role' = [role EXCEPT ![u] = r]
  /\ trail' = Added(u, r)
  /\ UNCHANGED <<room, edit>>

TransferOwnership(actor, u) ==
  /\ room.status = "active"
  /\ role[actor] = "owner"
  /\ role[u] \notin {"none", "owner"}
  /\ role' = [role EXCEPT ![actor] = "admin", ![u] = "owner"]
  /\ trail' = Transferred(u)
  /\ UNCHANGED <<room, edit>>

(* Fault: the owner leaves like anybody else, and the room lives on.       *)
LeaveAnyhow(u) ==
  /\ room.status = "active"
  /\ role[u] # "none"
  /\ role' = [role EXCEPT ![u] = "none"]
  /\ trail' = Removed(u)
  /\ UNCHANGED <<room, edit>>

(* The owner leaves last, and the room is archived. *)
Leave(u) ==
  /\ room.status = "active"
  /\ role[u] # "none"
  /\ role[u] = "owner" => Cardinality(Members) = 1
  /\ role' = [role EXCEPT ![u] = "none"]
  /\ trail' = Removed(u)
  /\ room' = IF role[u] = "owner" THEN [room EXCEPT !.status = "archived"] ELSE room
  /\ UNCHANGED edit

Archive(u) ==
  /\ room.status = "active"
  /\ role[u] = "owner"
  /\ room' = [room EXCEPT !.status = "archived"]
  /\ UNCHANGED <<role, edit, trail>>

----------------------------------------------------------------------------
(* The settings form *)

(* limit = 0: max_participants is not in the form. *)
OpenSettings(u, limit) ==
  /\ edit[u].at = "idle"
  /\ Cardinality({v \in Users : edit[v].at # "idle"}) < MaxForms
  /\ role[u] # "none"
  /\ edit' = [edit EXCEPT ![u] = [at |-> "read", copy |-> room, limit |-> limit]]
  /\ UNCHANGED <<role, room, trail>>

CheckSettings(u) ==
  LET limit == edit[u].limit
      accepted == IF limit = 0 THEN role[u] \in {"owner", "admin"}
                  ELSE /\ role[u] = "owner"
                       /\ limit >= 2 /\ limit >= Cardinality(Members)
                       /\ limit <= PlatformCap
  IN /\ edit[u].at = "read"
     /\ edit' = [edit EXCEPT ![u] = IF accepted THEN [@ EXCEPT !.at = "checked"]
                                    ELSE Idle]
     /\ UNCHANGED <<role, room, trail>>

(* The whole row that was read is written, its status included. *)
SaveSettings(u) ==
  LET copy == edit[u].copy
  IN /\ edit[u].at = "checked"
     /\ room' = [status |-> copy.status,
                 limit |-> IF edit[u].limit = 0 THEN copy.limit ELSE edit[u].limit]
     /\ edit' = [edit EXCEPT ![u] = Idle]
     /\ UNCHANGED <<role, trail>>

----------------------------------------------------------------------------
Membership(a) ==
  \/ \E others \in SUBSET Users, limit \in Limits : CreateGroup(a, others, limit)
  \/ \E u \in Users :
       \/ \E r \in {"admin", "member"} : AddMember(a, u, r) \/ ChangeRole(a, u, r)
       \/ RemoveMember(a, u) \/ TransferOwnership(a, u)
  \/ Leave(a) \/ Archive(a)

Settings(a) ==
  \/ \E limit \in Limits \cup {0} : OpenSettings(a, limit)
  \/ CheckSettings(a) \/ SaveSettings(a)

GroupNext == \E a \in Users : Membership(a) \/ Settings(a)

GroupSpec == GroupInit /\ [][GroupNext]_groupVars
----------------------------------------------------------------------------
(* A room that has members has exactly one owner, and the audit trail      *)
(* names the same one and the same roles.  This survives transfers, the    *)
(* owner's leaving, and a form that writes an old status back: an archived *)
(* room that becomes active again still has its owner, or nobody.          *)
OneOwnerOnRecord ==
  /\ Members # {} => Cardinality(Owners) = 1
  /\ trail = role
=============================================================================
