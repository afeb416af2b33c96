---------------------------- MODULE SupportTickets ----------------------------
(***************************************************************************)
(* One support ticket and its room (apps/chat): its customer opens it,     *)
(* edits and deletes it, staff assign it to anybody, and those who are let *)
(* in talk over sockets, and resolve and close it.  An edit reads the row  *)
(* and writes all of it back; an assignment writes the ticket and the      *)
(* room's participant in two transactions; a socket is let in once, and    *)
(* what comes through it is looked at by a ticket read anew.  The room's   *)
(* messages are also rows of the API, which its participants may put.      *)
(***************************************************************************)
EXTENDS FiniteSets

CONSTANTS
  People, Customer, Staff,
  Edits,   \* requests to edit the ticket
  Unassigned

ASSUME TicketAssumption ==
  /\ Customer \in People /\ Staff \subseteq People \ {Customer} /\ Unassigned \notin People

VARIABLES
  ticket,     \* the SupportTicket row, its time stamps left out
  members,    \* the participants of its room
  socket,     \* who is connected (SupportConsumer)
  assigning,  \* assigning[s]: the agent s has written into the ticket
  edit,       \* the edits that have read the row
  judging,    \* a change of the status passed its check
  message,    \* one of its messages, with the history of who wrote it
  appointed,  \* history: whom staff began to assign it to
  answered    \* history: of whom they were told that he is assigned

ticketVars ==
  <<ticket, members, socket, assigning, edit, judging, message, appointed, answered>>

(* What is neither new, nor resolved, nor closed is "in_progress".         *)
TicketStatus == {"open", "in_progress", "resolved", "closed"}
TicketRow ==
  [there: BOOLEAN, status: TicketStatus, assignee: People \cup {Unassigned}]
(* by: who wrote it, under his own name when it was "sent", under any name *)
(* when it was "put"; "moved": put there from another room, by whomever.   *)
MessageRow == [how: {"none", "sent", "put", "moved"}, by: People \cup {Unassigned}]
NoMessage == [how |-> "none", by |-> Unassigned]
NoTicket == [there |-> FALSE, status |-> "open", assignee |-> Unassigned]

TicketTypeOK ==
  /\ ticket \in TicketRow
  /\ members \subseteq People /\ socket \subseteq People
  /\ assigning \in [Staff -> People \cup {Unassigned}]
  /\ edit \subseteq Edits /\ judging \in BOOLEAN
  /\ message \in MessageRow /\ appointed \subseteq People /\ answered \subseteq appointed

TicketInit ==
  /\ ticket = NoTicket
  /\ members = {}
  /\ socket = {}
  /\ assigning = [s \in Staff |-> Unassigned]
  /\ edit = {} /\ judging = FALSE
  /\ message = NoMessage /\ appointed = {} /\ answered = {}

----------------------------------------------------------------------------
(* create_support_ticket: room, ticket and participant in one transaction  *)
OpenTicket ==
  /\ ~ticket.there /\ members = {}
  /\ ticket' = [NoTicket EXCEPT !.there = TRUE]
  /\ members' = {Customer}
  /\ UNCHANGED <<socket, assigning, edit, judging, message, appointed, answered>>

(* The room, its participants and its messages stay.                       *)
DeleteTicket ==
  /\ ticket.there
  /\ ticket' = NoTicket
  /\ UNCHANGED <<members, socket, assigning, edit, judging, message, appointed, answered>>

(* The customer's or the staff's.                                          *)
BeginEdit(e) ==
  /\ ticket.there /\ e \notin edit
  /\ edit' = edit \cup {e}
  /\ UNCHANGED <<ticket, members, socket, assigning, judging, message, appointed, answered>>

(* All of the row is written, the assignee and the status as asked for or  *)
(* as they were read, whatever others wrote since; a row that was deleted  *)
(* is inserted again.  The room does not hear of it.                       *)
EndEdit(e, status, assignee) ==
  /\ e \in edit
  /\ ticket' = [there |-> TRUE, status |-> status, assignee |-> assignee]
  /\ edit' = edit \ {e}
  /\ UNCHANGED <<members, socket, assigning, judging, message, appointed, answered>>

----------------------------------------------------------------------------
(* assign_ticket *)

WriteAssignee(s, agent) ==
  /\ ticket.there /\ assigning[s] = Unassigned
  /\ ticket' = [ticket EXCEPT !.assignee = agent, !.status = "in_progress"]
  /\ assigning' = [assigning EXCEPT ![s] = agent]
  /\ appointed' = appointed \cup {agent}
  /\ UNCHANGED <<members, socket, edit, judging, message, answered>>

AdmitAssignee(s) ==
  /\ assigning[s] # Unassigned
  /\ members' = members \cup {assigning[s]}
  /\ answered' = answered \cup {assigning[s]}
  /\ assigning' = [assigning EXCEPT ![s] = Unassigned]
  /\ UNCHANGED <<ticket, socket, edit, judging, message, appointed>>

(* Assigned, and not able to answer until it is assigned again.            *)
AssignmentDies(s) ==
  /\ assigning[s] # Unassigned
  /\ assigning' = [assigning EXCEPT ![s] = Unassigned]
  /\ UNCHANGED <<ticket, members, socket, edit, judging, message, appointed, answered>>

----------------------------------------------------------------------------
(* SupportConsumer *)

MayUpdate(p) == ticket.there /\ (p \in Staff \/ ticket.assignee = p)
HasAccess(p) == MayUpdate(p) \/ (ticket.there /\ p = Customer)

(* Whoever is let in stays in.                                             *)
Connect(p) ==
  /\ p \notin socket
  /\ HasAccess(p)
  /\ socket' = socket \cup {p}
  /\ UNCHANGED <<ticket, members, assigning, edit, judging, message, appointed, answered>>

Disconnect(p) ==
  /\ p \in socket
  /\ socket' = socket \ {p}
  /\ UNCHANGED <<ticket, members, assigning, edit, judging, message, appointed, answered>>

Tells(p) ==
  /\ message = NoMessage
  /\ message' = [how |-> "sent", by |-> p]
  /\ UNCHANGED <<ticket, members, socket, assigning, edit, judging, appointed, answered>>

(* Fault: who was let in may speak. *)
SayIfLetIn(p) == p \in socket /\ ticket.there /\ Tells(p)

(* send_message refuses whoever is no participant, and he is not told.     *)
Say(p) == p \in socket /\ ticket.there /\ p \in members /\ Tells(p)

(* A participant posts to the room, with no look at the ticket.            *)
PostMessage(p) == p \in members /\ Tells(p)

(* Any participant puts any message of the room, and its sender with it.   *)
PutMessage(p) ==
  /\ message # NoMessage /\ p \in members
  /\ message' = [how |-> "put", by |-> p]
  /\ UNCHANGED <<ticket, members, socket, assigning, edit, judging, appointed, answered>>

(* Somebody puts a message of another room into this one.                  *)
MoveIn ==
  /\ message = NoMessage /\ members # {}
  /\ message' = [how |-> "moved", by |-> Unassigned]
  /\ UNCHANGED <<ticket, members, socket, assigning, edit, judging, appointed, answered>>

(* Any participant deletes it, or puts it into another room.               *)
RemoveMessage(p) ==
  /\ message # NoMessage /\ p \in members
  /\ message' = NoMessage
  /\ UNCHANGED <<ticket, members, socket, assigning, edit, judging, appointed, answered>>

(* From a socket, or the resolve and close of the API.                     *)
BeginJudging(p) ==
  /\ MayUpdate(p) /\ ~judging
  /\ judging' = TRUE
  /\ UNCHANGED <<ticket, members, socket, assigning, edit, message, appointed, answered>>

(* Over a socket any word is written; a row that is gone is not.           *)
EndJudging(status) ==
  /\ judging
  /\ judging' = FALSE
  /\ ticket' = IF ticket.there THEN [ticket EXCEPT !.status = status] ELSE ticket
  /\ UNCHANGED <<members, socket, assigning, edit, message, appointed, answered>>

TicketNext ==
  \/ OpenTicket \/ DeleteTicket \/ MoveIn
  \/ \E e \in Edits :
       \/ BeginEdit(e)
       \/ \E status \in TicketStatus, p \in People \cup {Unassigned} : EndEdit(e, status, p)
  \/ \E s \in Staff :
       \/ \E p \in People : WriteAssignee(s, p)
       \/ AdmitAssignee(s) \/ AssignmentDies(s)
  \/ \E p \in People :
       \/ Connect(p) \/ Disconnect(p) \/ BeginJudging(p)
       \/ Say(p) \/ PostMessage(p) \/ PutMessage(p) \/ RemoveMessage(p)
  \/ \E status \in TicketStatus : EndJudging(status)

TicketSpec == TicketInit /\ [][TicketNext]_ticketVars

----------------------------------------------------------------------------
(* Properties *)

(* However assignments, edits and sockets cross each other, what is in a   *)
(* ticket's room was sent by its customer or by people to whom staff       *)
(* assigned it, or put by one of them under whatever name, or moved there  *)
(* from another room; and of whomever staff were told that it is assigned  *)
(* to him, he can answer (assign_ticket, SupportConsumer,                  *)
(* ChatService.send_message, ChatMessageViewSet).                          *)
AnswersAreAppointed ==
  /\ message.how \in {"sent", "put"} => message.by \in {Customer} \cup appointed
  /\ answered \subseteq members
=============================================================================
