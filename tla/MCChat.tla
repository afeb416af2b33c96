------------------------------- MODULE MCChat -------------------------------
(***************************************************************************)
(* The group, the sockets and the messages share no variable: a behaviour  *)
(* of this module moves one of them, and the others stay as they begin.    *)
(* A message is either sent by attempts that race and never drafted again  *)
(* ("messages"), or drafted again after attempts one by one ("drafts").    *)
(***************************************************************************)
EXTENDS ChatGroup, ChatSockets, ChatMessages

CONSTANTS s1, s2, s3, u1

(* Three sockets of one user. *)
MCUserOf == [s \in {s1, s2, s3} |-> u1]

VARIABLE part   \* the part that moves

vars == <<part, groupVars, socketVars, messageVars>>

Init ==
  /\ part \in {"group", "sockets", "messages", "drafts"}
  /\ GroupInit /\ SocketInit /\ MessageInit
  /\ part # "messages" => file = "fit"

Next ==
  \/ part = "group" /\ GroupNext /\ UNCHANGED <<part, socketVars, messageVars>>
  \/ part = "sockets" /\ SocketNext /\ UNCHANGED <<part, groupVars, messageVars>>
  \/ /\ part \in {"messages", "drafts"}
     /\ MessageNext /\ UNCHANGED <<part, groupVars, socketVars>>
     /\ part = "messages" => draft' = draft
     /\ part = "drafts" => \E r \in Requests : \A q \in Requests \ {r} : send'[q] = "none"

OfSockets(A) == part = "sockets" /\ A /\ UNCHANGED <<part, groupVars, messageVars>>
OfMessages(A) == part = "messages" /\ A /\ UNCHANGED <<part, groupVars, socketVars>>

(* A consumer runs on, its client sends frames (pings) while it is open,   *)
(* and a key that nobody touches expires.                                  *)
SocketFairness ==
  /\ \A s \in Sockets : WF_vars(OfSockets(Handler(s))) /\ WF_vars(OfSockets(Frame(s)))
  /\ \A u \in Clients : WF_vars(OfSockets(~AtWork(u) /\ KeyExpires(u)))

(* A request runs on, and the client tries again while it is not answered. *)
MessageFairness ==
  \A r \in Requests :
    /\ WF_vars(OfMessages(Attempt(r)))
    /\ WF_vars(OfMessages(Look(r) \/ RefuseUpload(r)))

Spec == Init /\ [][Next]_vars /\ SocketFairness /\ MessageFairness

(* AnsweredEventually and DeletedStays of ChatMessages. *)
MessagesAnswered == (part = "messages" => AnsweredEventually) /\ DeletedStays
=============================================================================
