----------------------------- MODULE ChatMessages -----------------------------
(***************************************************************************)
(* One message of a chat room (apps/chat): its sender's client sends it    *)
(* with a client_id, and sends it again for as long as it has no answer;   *)
(* the others fetch it, read it, and may delete it.  It is edited by its   *)
(* sender, and by the general form of ModelViewSet, which writes the whole *)
(* row (of its fields only the text is kept here).  Any request may die    *)
(* between two of its statements, or its answer be lost.                   *)
(***************************************************************************)
EXTENDS Naturals, FiniteSets

CONSTANTS
  Readers,     \* the other participants
  Sender,
  Requests,    \* attempts of the client that may be under way together
  Texts,       \* what the message may say
  MaxMishaps   \* bound: deaths, lost answers, push exceptions, removals and forms

ASSUME MessageAssumption ==
  /\ IsFiniteSet(Readers) /\ Sender \notin Readers /\ MaxMishaps \in Nat
  /\ Texts # {}

VARIABLES
  file,          \* the file the client attaches, see FileKind
  participants,  \* the room's participants
  active,        \* the room's status is active
  rows,          \* how many rows carry the sender and the client_id
  message,       \* the row
  reads,         \* the users with a ChatMessageRead of it
  send,          \* send[r]: where attempt r is
  receipt,       \* receipt[u]: where u's fetching or reading of it is
  draft,         \* an edit or a form, between its reads and its write
  answered,      \* the client has its answer
  mishaps

attemptVars == <<send, answered, file>>
roomVars == <<participants, active>>
messageVars == <<attemptVars, roomVars, rows, message, reads, receipt, draft,
                 mishaps>>

Everyone == Readers \cup {Sender}
(* A text, or a file that is accepted, too large for the socket, or of a   *)
(* type that is not allowed.                                               *)
FileKind == {"fit", "large", "foreign"}
MessageRow == [status: {"none", "sent", "delivered", "read"},
               deleted: BOOLEAN, text: Texts]
(* "looked": the checks passed and no row was found; "found": one was;     *)
(* "stored": committed, with the notifications to send; "notified": those  *)
(* are sent.                                                               *)
SendState == {"none", "looked", "found", "stored", "notified"}
(* "fetched": get_messages read the message as sent; "recorded": the read  *)
(* record is there, the message's own status is not updated.               *)
ReceiptState == {"none", "fetched", "recorded"}
(* "edit": an edit has read the row; "form": a form has; "orphan": the row *)
(* that the form read is removed.                                          *)
DraftState == [step: {"none", "edit", "form", "orphan"}, copy: MessageRow]

FirstText == CHOOSE t \in Texts : TRUE
NoMessage == [status |-> "none", deleted |-> FALSE, text |-> FirstText]
NewMessage == [NoMessage EXCEPT !.status = "sent"]
NoDraft == [step |-> "none", copy |-> NoMessage]

MessageTypeOK ==
  /\ file \in FileKind
  /\ participants \subseteq Everyone /\ active \in BOOLEAN
  /\ rows \in Nat /\ message \in MessageRow /\ reads \subseteq Everyone
  /\ send \in [Requests -> SendState]
  /\ receipt \in [Everyone -> ReceiptState]
  /\ draft \in DraftState
  /\ answered \in BOOLEAN /\ mishaps \in Nat

MessageInit ==
  /\ file \in FileKind
  /\ participants = Everyone /\ active = TRUE
  /\ rows = 0 /\ message = NoMessage /\ reads = {}
  /\ send = [r \in Requests |-> "none"]
  /\ receipt = [u \in Everyone |-> "none"]
  /\ draft = NoDraft
  /\ answered = FALSE /\ mishaps = 0

Sends(r, step) == send' = [send EXCEPT ![r] = step]
Receives(u, step) == receipt' = [receipt EXCEPT ![u] = step]
Mishap == mishaps < MaxMishaps /\ mishaps' = mishaps + 1
Shown == rows > 0 /\ ~message.deleted
Unread(u) == u \in participants /\ u # Sender /\ Shown /\ u \notin reads

----------------------------------------------------------------------------
(* send_message *)

(* Fault: nobody asks whether the message is there already. *)
LookOnlyAtRoom(r) ==
  /\ ~answered /\ send[r] = "none" /\ file \notin {"large", "foreign"}
  /\ Sender \in participants /\ active
  /\ Sends(r, "looked")
  /\ UNCHANGED <<file, roomVars, rows, message, reads, receipt, draft,
                 answered, mishaps>>

(* process_file_upload: the client is told that its file is invalid. *)
RefuseUpload(r) ==
  /\ ~answered /\ send[r] = "none" /\ file = "large"
  /\ Sender \in participants
  /\ answered' = TRUE
  /\ UNCHANGED <<send, file, roomVars, rows, message, reads, receipt, draft,
                 mishaps>>

(* The type is looked at after the checks below: the client hears the same *)
(* as when it lost the race for the row.                                   *)
FileAllowed == file # "foreign"

(* Membership, the room's status, and a message with the same client_id,   *)
(* deleted or not.  An attempt that fails a check is refused.              *)
Look(r) ==
  /\ ~answered /\ send[r] = "none" /\ file # "large"
  /\ Sender \in participants /\ active
  /\ rows > 0 \/ FileAllowed
  /\ Sends(r, IF rows > 0 THEN "found" ELSE "looked")
  /\ UNCHANGED <<file, roomVars, rows, message, reads, receipt, draft,
                 answered, mishaps>>

(* The insert of the second of two attempts breaks uniq_chat_sender_       *)
(* client_message, and the client is told that it was rejected.            *)
Store(r) ==
  /\ send[r] = "looked"
  /\ IF rows > 0
     THEN Sends(r, "none") /\ UNCHANGED <<rows, message>>
     ELSE Sends(r, "stored") /\ rows' = 1 /\ message' = NewMessage
  /\ UNCHANGED <<file, roomVars, reads, receipt, draft, answered, mishaps>>

NotifyOthers(r) ==
  /\ send[r] = "stored"
  /\ Sends(r, "notified")
  /\ UNCHANGED <<file, roomVars, rows, message, reads, receipt, draft,
                 answered, mishaps>>

Answer(r) ==
  /\ send[r] \in {"found", "notified"}
  /\ Sends(r, "none")
  /\ answered' = TRUE
  /\ UNCHANGED <<file, roomVars, rows, message, reads, receipt, draft, mishaps>>

(* The attempt dies, its notification raises, or its answer gets lost. *)
AttemptFails(r) ==
  /\ send[r] # "none"
  /\ Mishap
  /\ Sends(r, "none")
  /\ UNCHANGED <<file, roomVars, rows, message, reads, receipt, draft, answered>>

----------------------------------------------------------------------------
(* The readers *)

(* get_messages marks as delivered what its copy says was sent. *)
Fetch(u) ==
  /\ u \in participants \ {Sender}
  /\ Shown /\ message.status = "sent" /\ receipt[u] = "none"
  /\ Receives(u, "fetched")
  /\ UNCHANGED <<attemptVars, roomVars, rows, message, reads, draft, mishaps>>

MarkAsDelivered(u) ==
  /\ receipt[u] = "fetched"
  /\ message' = IF rows > 0 THEN [message EXCEPT !.status = "delivered"] ELSE message
  /\ Receives(u, "none")
  /\ UNCHANGED <<attemptVars, roomVars, rows, reads, draft, mishaps>>

(* One row per message and user, however often it is written. *)
Recorded(u) == reads' = reads \cup {u} /\ Receives(u, "recorded")

RecordRead(u) ==
  /\ u \in participants /\ receipt[u] = "none"
  /\ Recorded(u)
  /\ UNCHANGED <<attemptVars, roomVars, rows, message, draft, mishaps>>

(* The sender may mark its own message, too. *)
MarkMessageAsRead(u) == Shown /\ RecordRead(u)

(* The socket marks a deleted message as well. *)
HandleMarkAsRead(u) == rows > 0 /\ RecordRead(u)

MarkRoomRead(u) == Unread(u) /\ RecordRead(u)

(* All records count, those of the sender and of former members as well. *)
UpdateReadStatus(u) ==
  /\ receipt[u] = "recorded"
  /\ message' = IF rows > 0 /\ Cardinality(reads) + 1 >= Cardinality(participants)
                THEN [message EXCEPT !.status = "read"] ELSE message
  /\ Receives(u, "none")
  /\ UNCHANGED <<attemptVars, roomVars, rows, reads, draft, mishaps>>

SoftDelete ==
  /\ Sender \in participants /\ Shown
  /\ message' = [message EXCEPT !.deleted = TRUE]
  /\ UNCHANGED <<attemptVars, roomVars, rows, reads, receipt, draft, mishaps>>

(* ModelViewSet.destroy, open to every participant.  Who was about to mark *)
(* or to edit the row fails.                                               *)
Destroy(u) ==
  /\ u \in participants /\ Shown
  /\ Mishap
  /\ rows' = rows - 1
  /\ message' = IF rows = 1 THEN NoMessage ELSE message
  /\ reads' = IF rows = 1 THEN {} ELSE reads
  /\ receipt' = [v \in Everyone |-> "none"]
  /\ draft' = IF draft.step \in {"form", "orphan"}
              THEN [draft EXCEPT !.step = "orphan"] ELSE NoDraft
  /\ UNCHANGED <<attemptVars, roomVars>>

----------------------------------------------------------------------------
(* The writers.  Bound: one edit or form at a time. *)

Drafts(step, text) ==
  /\ Shown /\ draft.step = "none"
  /\ draft' = [step |-> step, copy |-> [message EXCEPT !.text = text]]
  /\ UNCHANGED <<attemptVars, roomVars, rows, message, reads, receipt>>

Edit(text) ==
  Sender \in participants /\ Drafts("edit", text) /\ UNCHANGED mishaps

(* Fault: the row is written as it was read. *)
EditWholeMessage ==
  /\ draft.step = "edit"
  /\ message' = draft.copy
  /\ draft' = NoDraft
  /\ UNCHANGED <<attemptVars, roomVars, rows, reads, receipt, mishaps>>

EditMessage ==
  /\ draft.step = "edit"
  /\ message' = [message EXCEPT !.text = draft.copy.text]
  /\ draft' = NoDraft
  /\ UNCHANGED <<attemptVars, roomVars, rows, reads, receipt, mishaps>>

OpenForm(u, text) == u \in participants /\ Drafts("form", text) /\ Mishap

(* A row that was removed is inserted again, unless the client's next      *)
(* attempt has stored another one.                                         *)
SaveForm ==
  /\ draft.step \in {"form", "orphan"}
  /\ IF draft.step = "form" \/ rows = 0
     THEN message' = draft.copy /\ rows' = 1
     ELSE UNCHANGED <<message, rows>>
  /\ draft' = NoDraft
  /\ UNCHANGED <<attemptVars, roomVars, reads, receipt, mishaps>>

----------------------------------------------------------------------------
(* The room, see ChatGroup *)

LoseMember(u) ==
  /\ u \in participants
  /\ participants' = participants \ {u}
  /\ UNCHANGED <<attemptVars, active, rows, message, reads, receipt, draft, mishaps>>

ArchiveRoom ==
  /\ active
  /\ active' = FALSE
  /\ UNCHANGED <<attemptVars, participants, rows, message, reads, receipt, draft,
                 mishaps>>

----------------------------------------------------------------------------
Attempt(r) == Store(r) \/ NotifyOthers(r) \/ Answer(r)

RoomMessages(u) == Fetch(u) \/ MarkAsDelivered(u)

MessageNext ==
  \/ \E r \in Requests : RefuseUpload(r) \/ Look(r) \/ Attempt(r) \/ AttemptFails(r)
  \/ \E u \in Everyone :
       \/ RoomMessages(u) \/ MarkMessageAsRead(u) \/ HandleMarkAsRead(u)
       \/ MarkRoomRead(u)
       \/ UpdateReadStatus(u) \/ Destroy(u) \/ LoseMember(u)
       \/ \E text \in Texts : OpenForm(u, text)
  \/ \E text \in Texts : Edit(text)
  \/ EditMessage \/ SaveForm \/ SoftDelete \/ ArchiveRoom

MessageSpec == MessageInit /\ [][MessageNext]_messageVars
----------------------------------------------------------------------------
(* A client that tries until its message is accepted hears so in the end,  *)
(* unless its user is removed, the room archived or the type of its file   *)
(* not allowed: an attempt that lost the race for the row, or whose answer *)
(* was lost, does not shut it out.                                         *)
AnsweredEventually ==
  <>(answered \/ Sender \notin participants \/ ~active \/ ~FileAllowed)

(* A message that its sender deleted comes back only by a whole-row form,  *)
(* or as another row after its removal: no rewrite, receipt or retry that had *)
(* read it before the deletion undoes it.                                  *)
DeletedStays ==
  [][(rows > 0 /\ message.deleted /\ rows' > 0 /\ ~message'.deleted) => SaveForm]_messageVars
=============================================================================
