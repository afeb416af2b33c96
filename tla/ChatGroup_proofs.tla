--------------------------- MODULE ChatGroup_proofs -------------------------
(***************************************************************************)
(* Proofs about the members of a chat group, for every set of users, every *)
(* platform cap and any number of settings forms, and about one message of *)
(* a room, for any readers, attempts and texts.  The two share no variable. *)
(***************************************************************************)
EXTENDS ChatGroup, ChatMessages, FiniteSetTheorems, TLAPS

(* Owned says without cardinalities what OneOwnerOnRecord counts.          *)
Owned ==
  (\E u \in Users : role[u] # "none") =>
    \E o \in Users : /\ role[o] = "owner"
                     /\ \A u \in Users : role[u] = "owner" => u = o

GroupInv == GroupTypeOK /\ Owned /\ trail = role

LEMMA OwnedIsCounted ==
  ASSUME GroupInv PROVE OneOwnerOnRecord
<1>1. CASE Members = {}
  BY <1>1 DEF GroupInv, OneOwnerOnRecord
<1>2. CASE Members # {}
  <2>1. PICK o \in Users : /\ role[o] = "owner"
                           /\ \A u \in Users : role[u] = "owner" => u = o
    BY <1>2 DEF GroupInv, Owned, Members
  <2>2. Owners = {o}
    BY <2>1 DEF Owners
  <2>. QED BY <2>2, FS_Singleton DEF GroupInv, OneOwnerOnRecord
<1>. QED BY <1>1, <1>2

----------------------------------------------------------------------------
(* The membership operations, each with its audit event *)

LEMMA CreateKeeps ==
  ASSUME GroupInv, NEW u \in Users, NEW others \in SUBSET Users,
         NEW limit \in Limits, CreateGroup(u, others, limit)
  PROVE  GroupInv'
<1>. USE DEF GroupInv
<1>1. limit \in Nat
  BY GroupAssumption
<1>2. GroupTypeOK'
  BY <1>1 DEF CreateGroup, GroupTypeOK, Role, RoomRow, RoomStatus
<1>3. Owned' /\ (trail = role)'
  BY DEF CreateGroup, Owned
<1>. QED BY <1>2, <1>3

LEMMA AddKeeps ==
  ASSUME GroupInv, NEW a \in Users, NEW u \in Users, NEW r \in {"admin", "member"},
         AddMember(a, u, r)
  PROVE  GroupInv'
<1>. USE DEF GroupInv
<1>1. GroupTypeOK'
  BY DEF AddMember, GroupTypeOK, Role, Added
<1>2. Owned'
  BY DEF AddMember, GroupTypeOK, Owned
<1>3. (trail = role)'
  BY DEF AddMember, GroupTypeOK, Added
<1>. QED BY <1>1, <1>2, <1>3

LEMMA RemoveKeeps ==
  ASSUME GroupInv, NEW a \in Users, NEW u \in Users, RemoveMember(a, u)
  PROVE  GroupInv'
<1>. USE DEF GroupInv
<1>1. GroupTypeOK'
  BY DEF RemoveMember, GroupTypeOK, Role, Removed
<1>2. Owned'
  BY DEF RemoveMember, GroupTypeOK, Owned
<1>3. (trail = role)'
  BY DEF RemoveMember, GroupTypeOK, Removed
<1>. QED BY <1>1, <1>2, <1>3

LEMMA ChangeKeeps ==
  ASSUME GroupInv, NEW a \in Users, NEW u \in Users, NEW r \in {"admin", "member"},
         ChangeRole(a, u, r)
  PROVE  GroupInv'
<1>. USE DEF GroupInv
<1>1. GroupTypeOK'
  BY DEF ChangeRole, GroupTypeOK, Role, Added
<1>2. Owned'
  BY DEF ChangeRole, GroupTypeOK, Owned
<1>3. (trail = role)'
  BY DEF ChangeRole, GroupTypeOK, Added
<1>. QED BY <1>1, <1>2, <1>3

(* The event of a transfer names the new owner only: that it demotes the   *)
(* right one takes that there was no other.                                *)
LEMMA TransferKeeps ==
  ASSUME GroupInv, NEW a \in Users, NEW u \in Users, TransferOwnership(a, u)
  PROVE  GroupInv'
<1>. USE DEF GroupInv
<1>1. GroupTypeOK'
  BY DEF TransferOwnership, GroupTypeOK, Role, Transferred
<1>2. \A v \in Users : role[v] = "owner" => v = a
  BY DEF TransferOwnership, GroupTypeOK, Owned
<1>3. a # u
  BY DEF TransferOwnership
<1>4. \A v \in Users :
        role'[v] = IF v = u THEN "owner" ELSE IF v = a THEN "admin" ELSE role[v]
  BY <1>3 DEF TransferOwnership, GroupTypeOK
<1>5. Owned'
  BY <1>2, <1>4 DEF Owned
<1>6. \A v \in Users : trail'[v] = role'[v]
  BY <1>2, <1>3, <1>4 DEF TransferOwnership, Transferred, GroupTypeOK
<1>7. (trail = role)'
  BY <1>1, <1>6 DEF GroupTypeOK
<1>. QED BY <1>1, <1>5, <1>7

LEMMA LeaveKeeps ==
  ASSUME GroupInv, NEW u \in Users, Leave(u)
  PROVE  GroupInv'
<1>. USE DEF GroupInv
<1>1. GroupTypeOK'
  BY DEF Leave, GroupTypeOK, Role, Removed, RoomRow, RoomStatus
<1>2. (trail = role)'
  BY DEF Leave, GroupTypeOK, Removed
<1>3. Owned'
  <2>1. CASE role[u] # "owner"
    BY <2>1 DEF Leave, GroupTypeOK, Owned
  <2>2. CASE role[u] = "owner"
    <3>1. IsFiniteSet(Members)
      BY GroupAssumption, FS_Subset DEF Members
    <3>2. u \in Members /\ Cardinality(Members) = 1
      BY <2>2 DEF Leave, Members
    <3>3. \A v \in Users : role[v] # "none" => v = u
      BY <3>1, <3>2, FS_Singleton DEF Members
    <3>. QED BY <3>3 DEF Leave, GroupTypeOK, Owned
  <2>. QED BY <2>1, <2>2
<1>. QED BY <1>1, <1>2, <1>3

(* The room's status and limit change without its members. *)
LEMMA SettingsKeep ==
  ASSUME GroupInv, NEW u \in Users,
         \/ Archive(u) \/ CheckSettings(u) \/ SaveSettings(u)
         \/ \E limit \in Limits \cup {0} : OpenSettings(u, limit)
  PROVE  GroupInv'
<1>. USE DEF GroupInv
<1>1. UNCHANGED <<role, trail>>
  BY DEF Archive, CheckSettings, SaveSettings, OpenSettings
<1>2. Owned' /\ (trail = role)'
  BY <1>1 DEF Owned
<1>3. edit[u] \in EditState /\ Idle \in EditState /\ \A l \in Limits : l \in Nat
  BY GroupAssumption DEF GroupTypeOK, Idle, NoRoom, EditState, RoomRow, RoomStatus
<1>4. CASE Archive(u)
  BY <1>1, <1>2, <1>4 DEF Archive, GroupTypeOK, RoomRow, RoomStatus
<1>5. CASE CheckSettings(u)
  <2>1. [edit[u] EXCEPT !.at = "checked"] \in EditState
    BY <1>3 DEF EditState
  <2>2. edit' \in [Users -> EditState]
    BY <1>3, <1>5, <2>1 DEF CheckSettings, GroupTypeOK
  <2>. QED BY <1>1, <1>2, <1>5, <2>2 DEF CheckSettings, GroupTypeOK
<1>6. CASE SaveSettings(u)
  <2>1. room' \in RoomRow
    BY <1>3, <1>6 DEF SaveSettings, EditState, RoomRow
  <2>2. edit' \in [Users -> EditState]
    BY <1>3, <1>6 DEF SaveSettings, GroupTypeOK
  <2>. QED BY <1>1, <1>2, <2>1, <2>2 DEF GroupTypeOK
<1>7. ASSUME NEW limit \in Limits \cup {0}, OpenSettings(u, limit)
      PROVE  GroupTypeOK'
  <2>1. [at |-> "read", copy |-> room, limit |-> limit] \in EditState
    BY <1>3 DEF EditState, GroupTypeOK
  <2>2. edit' \in [Users -> EditState]
    BY <1>7, <2>1 DEF OpenSettings, GroupTypeOK
  <2>. QED BY <1>1, <1>7, <2>2 DEF OpenSettings, GroupTypeOK
<1>. QED BY <1>2, <1>4, <1>5, <1>6, <1>7

----------------------------------------------------------------------------
LEMMA GroupStarts == GroupInit => GroupInv
BY DEF GroupInit, GroupInv, GroupTypeOK, Owned, Role, RoomRow, RoomStatus, NoRoom,
       Idle, EditState

LEMMA GroupStep == GroupInv /\ [GroupNext]_groupVars => GroupInv'
<1> SUFFICES ASSUME GroupInv, [GroupNext]_groupVars PROVE GroupInv'
  OBVIOUS
<1>1. CASE UNCHANGED groupVars
  BY <1>1 DEF GroupInv, GroupTypeOK, Owned, groupVars
<1>2. ASSUME NEW a \in Users, Membership(a) PROVE GroupInv'
  BY <1>2, CreateKeeps, AddKeeps, RemoveKeeps, ChangeKeeps, TransferKeeps, LeaveKeeps,
     SettingsKeep DEF Membership
<1>3. ASSUME NEW a \in Users, Settings(a) PROVE GroupInv'
  BY <1>3, SettingsKeep DEF Settings
<1>. QED BY <1>1, <1>2, <1>3 DEF GroupNext

(* Roles, the room and the forms keep their types. *)
THEOREM GroupTypes == GroupSpec => []GroupTypeOK
<1>1. GroupInv => GroupTypeOK
  BY DEF GroupInv
<1>. QED BY <1>1, GroupStarts, GroupStep, PTL DEF GroupSpec

(* However members are added, removed, promoted, made owner and leave, and *)
(* whatever room an old settings form writes back: a group with members    *)
(* has one owner, and the audit trail has the same roles.                  *)
THEOREM OneOwnerAlways == GroupSpec => []OneOwnerOnRecord
BY GroupStarts, GroupStep, OwnedIsCounted, PTL DEF GroupSpec
----------------------------------------------------------------------------
(* One message (ChatMessages)                                              *)

(* The client_id has one row: an attempt inserts into none, and a form     *)
(* that finds its row removed makes it the only one.                       *)
MessageInv == MessageTypeOK /\ rows <= 1

LEMMA MessageStarts == MessageInit => MessageInv
<1> SUFFICES ASSUME MessageInit PROVE MessageInv
  OBVIOUS
<1>1. FirstText \in Texts
  BY MessageAssumption DEF FirstText
<1>2. NoMessage \in MessageRow /\ NoDraft \in DraftState
  BY <1>1 DEF NoMessage, NoDraft, MessageRow, DraftState
<1>3. /\ [r \in Requests |-> "none"] \in [Requests -> SendState]
      /\ [u \in Everyone |-> "none"] \in [Everyone -> ReceiptState]
  BY DEF SendState, ReceiptState
<1>4. rows = 0 /\ rows \in Nat /\ rows <= 1 /\ mishaps \in Nat
  BY DEF MessageInit
<1>. QED BY <1>2, <1>3, <1>4 DEF MessageInit, MessageInv, MessageTypeOK

(* What a step of an attempt, a reader or a writer does to the row.        *)
RowMoves ==
  \/ UNCHANGED <<rows, message>>
  \/ rows = 0 /\ rows' = 1 /\ message' \in MessageRow
  \/ /\ rows' = rows /\ message' \in MessageRow
     /\ message.deleted => message'.deleted
  \/ rows > 0 /\ rows' = rows - 1 /\ message' \in MessageRow

LEMMA AttemptsKeep ==
  ASSUME MessageInv, NEW r \in Requests,
         RefuseUpload(r) \/ Look(r) \/ Attempt(r) \/ AttemptFails(r)
  PROVE  MessageInv' /\ RowMoves
<1>. USE DEF MessageInv, MessageTypeOK, attemptVars, roomVars, Sends, Mishap
<1>1. NewMessage \in MessageRow
  BY MessageAssumption DEF NewMessage, NoMessage, FirstText, MessageRow
<1>2. CASE RefuseUpload(r) \/ Look(r)
  BY <1>2 DEF RefuseUpload, Look, SendState, RowMoves
<1>3. CASE Store(r)
  BY <1>1, <1>3 DEF Store, SendState, RowMoves
<1>4. CASE NotifyOthers(r)
  BY <1>4 DEF NotifyOthers, SendState, RowMoves
<1>5. CASE Answer(r)
  BY <1>5 DEF Answer, SendState, RowMoves
<1>6. CASE AttemptFails(r)
  <2>1. mishaps' \in Nat
    BY <1>6, MessageAssumption DEF AttemptFails
  <2>2. send' \in [Requests -> SendState]
    BY <1>6 DEF AttemptFails, SendState
  <2>. QED BY <1>6, <2>1, <2>2 DEF AttemptFails, RowMoves
<1>. QED BY <1>2, <1>3, <1>4, <1>5, <1>6 DEF Attempt

LEMMA ReadersKeep ==
  ASSUME MessageInv, NEW u \in Everyone,
         \/ RoomMessages(u) \/ MarkMessageAsRead(u) \/ HandleMarkAsRead(u)
         \/ MarkRoomRead(u) \/ UpdateReadStatus(u) \/ Destroy(u) \/ LoseMember(u)
  PROVE  MessageInv' /\ RowMoves
<1>. USE DEF MessageInv, MessageTypeOK, attemptVars, roomVars, Receives, Mishap
<1>1. ASSUME NEW s \in {"delivered", "read"}
      PROVE  /\ [message EXCEPT !.status = s] \in MessageRow
             /\ [message EXCEPT !.status = s].deleted = message.deleted
  BY DEF MessageRow
<1>2. CASE RoomMessages(u)
  BY <1>1, <1>2 DEF RoomMessages, Fetch, MarkAsDelivered, ReceiptState, RowMoves
<1>3. CASE RecordRead(u)
  BY <1>3 DEF RecordRead, Recorded, ReceiptState, RowMoves
<1>4. CASE UpdateReadStatus(u)
  <2>1. receipt' \in [Everyone -> ReceiptState]
    BY <1>4 DEF UpdateReadStatus, ReceiptState
  <2>2. message' = message \/ message' = [message EXCEPT !.status = "read"]
    BY <1>4 DEF UpdateReadStatus
  <2>3. UNCHANGED <<attemptVars, roomVars, rows, reads, draft, mishaps>>
    BY <1>4 DEF UpdateReadStatus
  <2>. QED BY <1>1, <2>1, <2>2, <2>3 DEF RowMoves
<1>5. CASE Destroy(u)
  <2>1. NoMessage \in MessageRow /\ NoDraft \in DraftState
    BY MessageAssumption DEF NoMessage, NoDraft, FirstText, MessageRow, DraftState
  <2>2. [draft EXCEPT !.step = "orphan"] \in DraftState
    BY DEF DraftState
  <2>3. rows > 0 /\ rows' = rows - 1 /\ message' \in MessageRow /\ draft' \in DraftState
    BY <1>5, <2>1, <2>2 DEF Destroy, Shown
  <2>. QED BY <1>5, <2>3 DEF Destroy, ReceiptState, RowMoves
<1>6. CASE LoseMember(u)
  BY <1>6 DEF LoseMember, RowMoves
<1>. QED BY <1>2, <1>3, <1>4, <1>5, <1>6 DEF MarkMessageAsRead, HandleMarkAsRead, MarkRoomRead

LEMMA WritersKeep ==
  ASSUME MessageInv,
         \/ \E u \in Everyone, text \in Texts : OpenForm(u, text)
         \/ \E text \in Texts : Edit(text)
         \/ EditMessage \/ SaveForm \/ SoftDelete \/ ArchiveRoom
  PROVE  MessageInv' /\ (RowMoves \/ SaveForm)
<1>. USE DEF MessageInv, MessageTypeOK, attemptVars, roomVars, Mishap
<1>1. NoDraft \in DraftState
  BY MessageAssumption DEF NoMessage, NoDraft, FirstText, MessageRow, DraftState
<1>2. ASSUME NEW step \in {"edit", "form"}, NEW text \in Texts, Drafts(step, text)
      PROVE  /\ draft' \in DraftState
             /\ UNCHANGED <<attemptVars, roomVars, rows, message, reads, receipt>>
  BY <1>2 DEF Drafts, DraftState, MessageRow
<1>3. ASSUME NEW u \in Everyone, NEW text \in Texts, OpenForm(u, text)
      PROVE  MessageInv' /\ RowMoves
  BY <1>2, <1>3 DEF OpenForm, RowMoves
<1>4. ASSUME NEW text \in Texts, Edit(text)
      PROVE  MessageInv' /\ RowMoves
  BY <1>2, <1>4 DEF Edit, RowMoves
<1>5. CASE EditMessage
  <2>1. /\ message' \in MessageRow /\ message'.deleted = message.deleted
        /\ draft' \in DraftState
    BY <1>1, <1>5 DEF EditMessage, MessageRow, DraftState
  <2>. QED BY <1>5, <2>1 DEF EditMessage, RowMoves
<1>6. CASE SaveForm
  <2>1. message' \in MessageRow /\ draft' \in DraftState /\ rows' \in Nat /\ rows' <= 1
    BY <1>1, <1>6 DEF SaveForm, DraftState
  <2>. QED BY <1>6, <2>1 DEF SaveForm
<1>7. CASE SoftDelete
  <2>1. message' \in MessageRow /\ message'.deleted
    BY <1>7 DEF SoftDelete, MessageRow
  <2>. QED BY <1>7, <2>1 DEF SoftDelete, RowMoves
<1>8. CASE ArchiveRoom
  BY <1>8 DEF ArchiveRoom, RowMoves
<1>. QED BY <1>3, <1>4, <1>5, <1>6, <1>7, <1>8

LEMMA MessageStep ==
  ASSUME MessageInv, [MessageNext]_messageVars
  PROVE  MessageInv' /\ (RowMoves \/ SaveForm)
<1>1. CASE UNCHANGED messageVars
  BY <1>1 DEF messageVars, attemptVars, roomVars, MessageInv, MessageTypeOK, RowMoves
<1>2. CASE MessageNext
  BY <1>2, AttemptsKeep, ReadersKeep, WritersKeep DEF MessageNext
<1>. QED BY <1>1, <1>2

(* However many attempts of the client are under way together, and         *)
(* whatever is removed and saved again meanwhile, its client_id has one    *)
(* row at most (uniq_chat_sender_client_message).                          *)
THEOREM OneRowAlways == MessageSpec => [](MessageTypeOK /\ rows <= 1)
<1>1. MessageInv => MessageTypeOK /\ rows <= 1
  BY DEF MessageInv
<1>2. MessageInv /\ [MessageNext]_messageVars => MessageInv'
  BY MessageStep
<1>. QED BY <1>1, <1>2, MessageStarts, PTL DEF MessageSpec

(* A deleted message is not undone by an edit, a receipt or a retry that   *)
(* had read it before: only by the form that writes the whole row.         *)
THEOREM DeletedAlwaysStays == MessageSpec => DeletedStays
<1>1. MessageInv /\ [MessageNext]_messageVars => MessageInv'
  BY MessageStep
<1>2. MessageInv /\ [MessageNext]_messageVars =>
        [(rows > 0 /\ message.deleted /\ rows' > 0 /\ ~message'.deleted) => SaveForm]_messageVars
  <2> SUFFICES ASSUME MessageInv, [MessageNext]_messageVars,
                      rows > 0, message.deleted, rows' > 0, ~message'.deleted
               PROVE  SaveForm
    OBVIOUS
  <2>1. rows = 1
    BY DEF MessageInv, MessageTypeOK
  <2>2. ~RowMoves
    BY <2>1 DEF RowMoves
  <2>. QED BY <2>2, MessageStep
<1>. QED BY <1>1, <1>2, MessageStarts, PTL DEF MessageSpec, DeletedStays
=============================================================================
