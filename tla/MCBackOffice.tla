--------------------------- MODULE MCBackOffice -----------------------------
(***************************************************************************)
(* What runs behind a store's page beside its orders: the sending of paid  *)
(* campaigns and the desk that prepares them, the people who keep the      *)
(* store, support tickets, push notifications, the throttle and the        *)
(* tickets of sockets, the daily figures and the training of models.  They *)
(* share no variable: a behaviour of this module moves one of them, and    *)
(* the others stay as they begin.                                          *)
(***************************************************************************)
EXTENDS SmsCampaigns, Colleagues, SupportTickets,
  NotificationRouting, SocketTickets, Analytics, TLC

CONSTANTS c1, c2, u1, u2, g1, o1, a1, i1, i2

(* Both campaigns are one customer's, who can afford one of them unless    *)
(* the other customer sends the rest.                                      *)
MCOwner == [c \in Campaigns |-> u1]
MCCost == [c \in Campaigns |-> 2]
MCOpening == [u \in Users |-> IF u = u1 THEN 3 ELSE 1]

(* Quiet from the last hour of the day to the first of the next. *)
MCAddresseeOf == [n \in Pushes |-> u1]
MCWriterOf == [e \in Adjustments |-> u1]
MCHabits == {[from |-> Clock - 1, to |-> 0]}

(* The first caller is a user behind the second's address. *)
MCCountersOf == [c \in Callers |-> IF c \in Askers THEN Counters ELSE {i2}]
MCLimit == [i \in Counters |-> IF i = i1 THEN 1 ELSE 2]

MCGoodOf == [o \in Sales |-> g1]
MCSellerOf == [o \in Sales |-> a1]

Alike == Permutations(Copies)

VARIABLE part   \* the part that moves

parts == <<part, vars, deskVars, colleagueVars, ticketVars, routingVars,
           ticketingVars, metricVars, trainingVars>>
Parts == {"campaigns", "desk", "colleagues", "tickets", "routing", "sockets",
          "metrics", "training"}

BackOfficeInit ==
  /\ part \in Parts
  /\ Init /\ DeskInit /\ ColleaguesInit /\ TicketInit
  /\ RoutingInit /\ TicketingInit /\ MetricsInit /\ TrainingInit

(* An editor may do what a manager may (WRITE_ROLES). *)
TwoRoles == /\ membership'.role # "editor" /\ deciding'.role # "editor"
            /\ word' # "editor"

(* No step reads the status of a ticket. *)
TwoStatuses == ticket'.status \in {"open", "in_progress"}

BackOfficeNext ==
  /\ part' = part
  /\ part # "campaigns" => UNCHANGED vars
  /\ part # "desk" => UNCHANGED deskVars
  /\ part # "colleagues" => UNCHANGED colleagueVars
  /\ part # "tickets" => UNCHANGED ticketVars
  /\ part # "routing" => UNCHANGED routingVars
  /\ part # "sockets" => UNCHANGED ticketingVars
  /\ part # "metrics" => UNCHANGED metricVars
  /\ part # "training" => UNCHANGED trainingVars
  /\ \/ part = "campaigns" /\ Next
     \/ part = "desk" /\ DeskNext
     \/ part = "colleagues" /\ ColleaguesNext /\ TwoRoles
     \/ part = "tickets" /\ TicketNext /\ TwoStatuses
     \/ part = "routing" /\ RoutingNext
     \/ part = "sockets" /\ TicketingNext
     \/ part = "metrics" /\ MetricsNext
     \/ part = "training" /\ TrainingNext

BackOfficeSpec == BackOfficeInit /\ [][BackOfficeNext]_parts

CampaignsSpec ==
  /\ BackOfficeInit /\ part = "campaigns"
  /\ [][BackOfficeNext]_parts /\ WorkersRun
=============================================================================
