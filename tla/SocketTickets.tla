---------------------------- MODULE SocketTickets ----------------------------
(***************************************************************************)
(* How a client gets onto a socket (apps/core): its requests pass the      *)
(* throttle, one of them is answered with a ticket, and a connection that  *)
(* presents the ticket is its user's.  The counters of the throttle and    *)
(* the tickets are keys of a Redis that may be out of reach, and whose     *)
(* answer may be lost after it did what it was asked.                      *)
(***************************************************************************)
EXTENDS Integers, FiniteSets, Sequences

CONSTANTS
  Callers,      \* a user or a number, with the address it calls from
  Counters,     \* the identities that are counted
  CountersOf,   \* CountersOf[c]: those of the caller's scope
  Limit,        \* Limit[i]: how many requests of i a window admits
  WindowTime,   \* its length
  Askers,       \* those that ask for tickets: users
  Rooms,
  Tickets, Connections,
  LifeTime,     \* ASOUD_WS_TICKET_TTL_SECONDS
  LastMoment,   \* bound on the clock
  MaxOutages,   \* bound on outages and lost answers
  Absent

ASSUME TicketingAssumption ==
  /\ CountersOf \in [Callers -> SUBSET Counters]
  /\ Limit \in [Counters -> Nat \ {0}] /\ WindowTime \in Nat \ {0} /\ LifeTime \in Nat \ {0}
  /\ Askers \subseteq Callers
  /\ LastMoment \in Nat /\ MaxOutages \in Nat /\ Absent \notin Askers \cup Tickets

VARIABLES
  now,
  reachable,   \* Redis is
  outages,
  counter,     \* counter[i]: the key of i
  charged,     \* charged[i]: when requests were counted for i, one after another
  admitted,     \* admitted[p]: who may open the room p
  usable,      \* the users that are active
  ask,         \* ask[c]: the request for a ticket under way
  issued,      \* issued[t]: the ticket t, as it was issued
  stored,      \* the tickets that are keys of Redis
  conn         \* conn[k]: a connection

throttleVars == <<counter, charged>>
accessVars == <<admitted, usable>>
askVars == <<ask, issued, stored>>
ticketingVars == <<now, reachable, outages, throttleVars, accessVars,
                   askVars, conn>>

Moments == 0..LastMoment
Counter == [count: Nat, since: Moments, ends: Nat]
Ticket == [user: Askers \cup {Absent}, room: Rooms \cup {Absent}, ends: Nat]
(* "passed" the throttle; "checked": is a member. *)
AskState == [at: {"idle", "passed", "checked"}, room: Rooms \cup {Absent}]
(* "taken": the ticket is consumed, its user is not looked up yet. *)
ConnState == [at: {"none", "taken", "open", "anonymous"}, room: Rooms \cup {Absent},
              by: Tickets \cup {Absent}, when: Moments]

NotCounted == [count |-> 0, since |-> 0, ends |-> 0]
NotIssued == [user |-> Absent, room |-> Absent, ends |-> 0]
Asleep == [at |-> "idle", room |-> Absent]
NoConn == [at |-> "none", room |-> Absent, by |-> Absent, when |-> 0]

TicketingTypeOK ==
  /\ now \in Moments /\ reachable \in BOOLEAN /\ outages \in Nat
  /\ counter \in [Counters -> Counter]
  /\ charged \in [Counters -> Seq(Moments)]
  /\ admitted \in [Rooms -> SUBSET Askers] /\ usable \subseteq Askers
  /\ ask \in [Askers -> AskState]
  /\ issued \in [Tickets -> Ticket] /\ stored \subseteq Tickets
  /\ conn \in [Connections -> ConnState]

TicketingInit ==
  /\ now = 0 /\ reachable = TRUE /\ outages = 0
  /\ counter = [i \in Counters |-> NotCounted]
  /\ charged = [i \in Counters |-> <<>>]
  /\ admitted = [p \in Rooms |-> Askers] /\ usable = Askers
  /\ ask = [c \in Askers |-> Asleep]
  /\ issued = [t \in Tickets |-> NotIssued] /\ stored = {}
  /\ conn = [k \in Connections |-> NoConn]

----------------------------------------------------------------------------
(* The throttle *)

Alive(i) == counter[i].ends > now
CountOf(i) == IF Alive(i) THEN counter[i].count ELSE 0
(* Fault: the counter is looked at as if the limit were one higher. *)
OverLimitByOne(c) == \E i \in CountersOf[c] : CountOf(i) > Limit[i]

OverLimit(c) == \E i \in CountersOf[c] : CountOf(i) >= Limit[i]

(* TTL rounds: in its last half second a key seems to have none, and the   *)
(* request that is counted then starts its time again.                     *)
EndOf(i, rounds) ==
  IF ~Alive(i) \/ (rounds /\ counter[i].ends = now + 1) THEN now + WindowTime
  ELSE counter[i].ends

Incremented(i, rounds) ==
  [count |-> CountOf(i) + 1,
   since |-> IF Alive(i) THEN counter[i].since ELSE now,
   ends |-> EndOf(i, rounds)]

(* Fault: each identity is counted by itself, whatever the others say. *)
ChargeEach(c, rounds) ==
  LET fits == {i \in CountersOf[c] : CountOf(i) < Limit[i]}
  IN /\ counter' = [i \in Counters |-> IF i \in fits THEN Incremented(i, rounds)
                                       ELSE counter[i]]
     /\ charged' = [i \in Counters |->
                      IF i \in CountersOf[c] /\ fits = CountersOf[c]
                      THEN Append(charged[i], now) ELSE charged[i]]

(* One script looks at all identities of a request and counts them all, or *)
(* none.                                                                   *)
Charge(c, rounds) ==
  IF OverLimit(c) THEN UNCHANGED throttleVars
  ELSE /\ counter' = [i \in Counters |-> IF i \in CountersOf[c]
                                         THEN Incremented(i, rounds) ELSE counter[i]]
       /\ charged' = [i \in Counters |-> IF i \in CountersOf[c]
                                         THEN Append(charged[i], now) ELSE charged[i]]

Starts(c, room) ==
  IF c \in Askers
  THEN ask' = [ask EXCEPT ![c] = [at |-> "passed", room |-> room]]
  ELSE UNCHANGED ask

AllowRequest(c, room, rounds) ==
  /\ c \in Askers => ask[c].at = "idle"
  /\ reachable
  /\ Charge(c, rounds)
  /\ IF OverLimit(c) THEN UNCHANGED ask ELSE Starts(c, room)
  /\ UNCHANGED <<now, reachable, outages, accessVars, issued, stored, conn>>

(* The request is counted, and refused all the same: its scope is closed   *)
(* without Redis.  An open scope lets it through, which changes nothing.   *)
CountedInVain(c, rounds) ==
  /\ reachable /\ ~OverLimit(c)
  /\ outages < MaxOutages /\ outages' = outages + 1
  /\ Charge(c, rounds)
  /\ UNCHANGED <<now, reachable, accessVars, askVars, conn>>

----------------------------------------------------------------------------
(* The ticket *)

CheckMembership(c) ==
  /\ ask[c].at = "passed"
  /\ ask' = [ask EXCEPT ![c] = IF c \in admitted[ask[c].room] THEN [@ EXCEPT !.at = "checked"]
                               ELSE Asleep]
  /\ UNCHANGED <<now, reachable, outages, throttleVars, accessVars, issued, stored, conn>>

(* SET NX; a ticket whose answer is lost is as good as never stored:       *)
(* nobody has it.                                                          *)
Issue(c, t, lost) ==
  /\ ask[c].at = "checked" /\ reachable
  /\ issued[t] = NotIssued
  /\ lost => outages < MaxOutages
  /\ outages' = IF lost THEN outages + 1 ELSE outages
  /\ issued' = [issued EXCEPT ![t] =
                  [user |-> c, room |-> ask[c].room, ends |-> now + LifeTime]]
  /\ stored' = IF lost THEN stored ELSE stored \cup {t}
  /\ ask' = [ask EXCEPT ![c] = Asleep]
  /\ UNCHANGED <<now, reachable, throttleVars, accessVars, conn>>

(* 503 *)
IssueFails(c) ==
  /\ ask[c].at = "checked" /\ ~reachable
  /\ ask' = [ask EXCEPT ![c] = Asleep]
  /\ UNCHANGED <<now, reachable, outages, throttleVars, accessVars, issued, stored, conn>>

----------------------------------------------------------------------------
(* The connection *)

Usable(t) == t \in stored /\ issued[t].ends > now

Connects(k, state) == conn' = [conn EXCEPT ![k] = state]

(* Fault: the script reads the key and lets it expire. *)
TakeAndKeep(t) == UNCHANGED stored

Take(t) == stored' = stored \ {t}

(* The ticket is gone even if it was issued for another room, or if the    *)
(* answer is lost.                                                         *)
PresentTicket(k, t, room, lost) ==
  /\ conn[k].at = "none" /\ reachable
  /\ issued[t] # NotIssued /\ (lost => outages < MaxOutages)
  /\ outages' = IF lost THEN outages + 1 ELSE outages
  /\ Take(t)
  /\ Connects(k, [at |-> IF ~lost /\ Usable(t) /\ issued[t].room = room
                         THEN "taken" ELSE "anonymous",
                  room |-> room, by |-> t, when |-> now])
  /\ UNCHANGED <<now, reachable, throttleVars, accessVars, ask, issued>>

(* The user is looked up by another statement. *)
LookUpUser(k) ==
  /\ conn[k].at = "taken"
  /\ Connects(k, [conn[k] EXCEPT !.at = IF issued[conn[k].by].user \in usable
                                        THEN "open" ELSE "anonymous"])
  /\ UNCHANGED <<now, reachable, outages, throttleVars, accessVars, askVars>>

----------------------------------------------------------------------------
TimePasses ==
  /\ now < LastMoment
  /\ now' = now + 1
  /\ UNCHANGED <<reachable, outages, throttleVars, accessVars, askVars, conn>>

Outage ==
  /\ reachable => outages < MaxOutages
  /\ outages' = IF reachable THEN outages + 1 ELSE outages
  /\ reachable' = ~reachable
  /\ UNCHANGED <<now, throttleVars, accessVars, askVars, conn>>

LeaveRoom(c, p) ==
  /\ c \in admitted[p]
  /\ admitted' = [admitted EXCEPT ![p] = @ \ {c}]
  /\ UNCHANGED <<now, reachable, outages, throttleVars, usable, askVars, conn>>

Deactivate(c) ==
  /\ c \in usable
  /\ usable' = usable \ {c}
  /\ UNCHANGED <<now, reachable, outages, throttleVars, admitted, askVars, conn>>

TicketingNext ==
  \/ \E c \in Callers, p \in Rooms, rounds \in BOOLEAN : AllowRequest(c, p, rounds)
  \/ \E c \in Callers, rounds \in BOOLEAN : CountedInVain(c, rounds)
  \/ \E c \in Askers :
       \/ CheckMembership(c) \/ IssueFails(c) \/ Deactivate(c)
       \/ \E t \in Tickets, lost \in BOOLEAN : Issue(c, t, lost)
       \/ \E p \in Rooms : LeaveRoom(c, p)
  \/ \E k \in Connections :
       \/ LookUpUser(k)
       \/ \E t \in Tickets, p \in Rooms, lost \in BOOLEAN : PresentTicket(k, t, p, lost)
  \/ TimePasses \/ Outage

TicketingSpec == TicketingInit /\ [][TicketingNext]_ticketingVars
----------------------------------------------------------------------------
ChargedSince(i, m) == Cardinality({k \in DOMAIN charged[i] : charged[i][k] >= m})

(* A request that one identity refuses costs the others nothing, so that   *)
(* each counter holds what was let through since its window began (or was  *)
(* refused when the answer was lost).  Windows follow one another without  *)
(* overlap, however their ends are rounded: in any stretch of a window's   *)
(* length less than twice the limit goes through.                          *)
CountersAgree ==
  \A i \in Counters :
    /\ CountOf(i) <= Limit[i]
    /\ Alive(i) => CountOf(i) = ChargedSince(i, counter[i].since)
    /\ ChargedSince(i, now + 1 - WindowTime) < 2 * Limit[i]

(* A ticket is worth one socket: of its user, in its room, within its      *)
(* time.  Two connections that present it together, an outage or a lost    *)
(* answer make no second one.                                              *)
TicketsOpenOnce ==
  \A t \in Tickets :
    LET sockets == {k \in Connections : conn[k].by = t /\ conn[k].at \in {"taken", "open"}}
    IN /\ Cardinality(sockets) <= 1
       /\ \A k \in sockets : conn[k].room = issued[t].room /\ conn[k].when < issued[t].ends

AccessIsRationed == CountersAgree /\ TicketsOpenOnce
=============================================================================
