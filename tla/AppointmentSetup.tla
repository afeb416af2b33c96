-------------------------- MODULE AppointmentSetup --------------------------
(***************************************************************************)
(* What a store offers for appointments (apps/reserve/views/owner,         *)
(* apps/market/views/market_schedule.py): services, the specialists who    *)
(* give them, the legacy fixed times, opening hours and days off, changed  *)
(* by their keepers while customers book.  A booking takes the locks of    *)
(* its specialist and its service one after the other; a keeper's change   *)
(* holds the lock of the row it checks, and waits for it.                  *)
(*                                                                         *)
(* One user keeps all the stores.  The forms of the staff, which check     *)
(* nothing, are left out; what a row may be booked for, by whom and how    *)
(* often is the module Reservations'.                                      *)
(***************************************************************************)
EXTENDS Naturals, FiniteSets

CONSTANTS
  Shops, ShopServices, ShopSpecialists, FixedTimes, Visits,
  ShopOf,   \* ShopOf[s]: the store of service s, which never changes
  Days,
  Hours,    \* intervals are pairs of these
  Nobody    \* no specialist, no fixed time, no store

ASSUME SetupAssumption ==
  /\ ShopOf \in [ShopServices -> Shops] /\ Hours \subseteq Nat
  /\ ShopServices # {} /\ Days # {} /\ \E i, j \in Hours : i < j
  /\ Nobody \notin ShopSpecialists \cup FixedTimes \cup Shops

VARIABLES
  service,     \* service[s]: the Service row
  specialist,  \* specialist[p]: the Specialist row and its services
  fixed,       \* fixed[t]: the ReserveTime row
  visit,       \* visit[v]: the Reservation row, which is never deleted
  attempt,     \* attempt[v]: the transaction that creates v
  hours,       \* hours[m]: the MarketSchedule rows of store m
  closed       \* the days off of stores, and of specialists

setupVars == <<service, specialist, fixed, visit, attempt, hours, closed>>

Interval == {i \in Hours \X Hours : i[1] < i[2]}
ServiceState == {"none", "active", "inactive", "deleted"}
SpecialistRow == [state: ServiceState, offers: SUBSET ShopServices, shop: Shops \cup {Nobody}]
FixedRow == [there: BOOLEAN, service: ShopServices, day: Days, at: Interval]
VisitRow == [made: BOOLEAN, service: ShopServices, specialist: ShopSpecialists \cup {Nobody},
             time: FixedTimes \cup {Nobody}, day: Days, at: Interval]

(* A booking holds its specialist's row, then its service's, and has then  *)
(* found what it asked for on offer.                                       *)
BookingStep == {"none", "asked", "specialist", "checked"}

SetupTypeOK ==
  /\ service \in [ShopServices -> ServiceState]
  /\ specialist \in [ShopSpecialists -> SpecialistRow]
  /\ fixed \in [FixedTimes -> FixedRow]
  /\ visit \in [Visits -> VisitRow]
  /\ attempt \in [Visits -> BookingStep]
  /\ hours \in [Shops -> SUBSET (Days \X Interval)]
  /\ closed \subseteq (Shops \cup ShopSpecialists) \X Days

NoVisit == [made |-> FALSE, service |-> CHOOSE s \in ShopServices : TRUE,
            specialist |-> Nobody, time |-> Nobody,
            day |-> CHOOSE d \in Days : TRUE, at |-> CHOOSE i \in Interval : TRUE]

SetupInit ==
  /\ service = [s \in ShopServices |-> "none"]
  /\ specialist = [p \in ShopSpecialists |-> [state |-> "none", offers |-> {}, shop |-> Nobody]]
  /\ fixed = [t \in FixedTimes |-> [there |-> FALSE, service |-> NoVisit.service,
                                    day |-> NoVisit.day, at |-> NoVisit.at]]
  /\ visit = [v \in Visits |-> NoVisit]
  /\ attempt = [v \in Visits |-> "none"]
  /\ hours = [m \in Shops |-> {}]
  /\ closed = {}

Live(state) == state \in {"active", "inactive"}
Overlap(i, j) == i[1] < j[2] /\ j[1] < i[2]

----------------------------------------------------------------------------
(* Who holds what *)

SpecialistFree(p) ==
  \A v \in Visits : attempt[v] \in {"specialist", "checked"} => visit[v].specialist # p

ServiceFree(s) ==
  \A v \in Visits : attempt[v] = "checked" => visit[v].service # s

Booked(s) == \E v \in Visits : visit[v].made /\ visit[v].service = s

----------------------------------------------------------------------------
(* The keeper's services and specialists *)

SaveService(s, state) ==
  /\ service[s] # "deleted" /\ ServiceFree(s)
  /\ service' = [service EXCEPT ![s] = state]
  /\ UNCHANGED <<specialist, fixed, visit, attempt, hours, closed>>

(* The rows that name it go with it: no longer offered by anybody, and     *)
(* without its fixed times.                                                *)
DeleteService(s) ==
  /\ Live(service[s]) /\ ServiceFree(s)
  /\ ~Booked(s)
  /\ service' = [service EXCEPT ![s] = "deleted"]
  /\ specialist' = [p \in ShopSpecialists |-> [specialist[p] EXCEPT !.offers = @ \ {s}]]
  /\ fixed' = [t \in FixedTimes |->
       IF fixed[t].service = s THEN [fixed[t] EXCEPT !.there = FALSE] ELSE fixed[t]]
  /\ UNCHANGED <<visit, attempt, hours, closed>>

(* All of one store, and all there when they are written; a row for one    *)
(* that was not offered before waits for its service.                      *)
Offerable(S, offered) ==
  /\ S # {} /\ \A s \in S : Live(service[s])
  /\ \A s \in S \ offered : ServiceFree(s)
  /\ \A r, s \in S : ShopOf[r] = ShopOf[s]

OfferedBy(state, S) ==
  [state |-> state, offers |-> S, shop |-> ShopOf[CHOOSE s \in S : TRUE]]

CreateSpecialist(p, S) ==
  /\ specialist[p].state = "none"
  /\ Offerable(S, {})
  /\ \E state \in {"active", "inactive"} :
       specialist' = [specialist EXCEPT ![p] = OfferedBy(state, S)]
  /\ UNCHANGED <<service, fixed, visit, attempt, hours, closed>>

(* Of one whose only service was deleted the keeper has lost hold.         *)
Kept(p) == Live(specialist[p].state) /\ specialist[p].offers # {}

BookedWith(p) == {visit[v].service : v \in {w \in Visits :
                    visit[w].made /\ visit[w].specialist = p}}

(* Fault: the specialist is read without its lock. *)
UpdateSpecialistUnlocked(p, state, S) ==
  /\ Kept(p)
  /\ \/ S = specialist[p].offers
     \/ (Offerable(S, specialist[p].offers) /\ BookedWith(p) \subseteq S)
  /\ specialist' = [specialist EXCEPT ![p] = OfferedBy(state, S)]
  /\ UNCHANGED <<service, fixed, visit, attempt, hours, closed>>

(* What has been booked with him he goes on offering.                      *)
UpdateSpecialist(p, state, S) ==
  /\ Kept(p) /\ SpecialistFree(p)
  /\ \/ S = specialist[p].offers
     \/ (Offerable(S, specialist[p].offers) /\ BookedWith(p) \subseteq S)
  /\ specialist' = [specialist EXCEPT ![p] = OfferedBy(state, S)]
  /\ UNCHANGED <<service, fixed, visit, attempt, hours, closed>>

DeleteSpecialist(p) ==
  /\ Kept(p) /\ SpecialistFree(p)
  /\ BookedWith(p) = {}
  /\ specialist' = [specialist EXCEPT ![p] =
                      [state |-> "deleted", offers |-> {}, shop |-> Nobody]]
  /\ closed' = {c \in closed : c[1] # p}
  /\ UNCHANGED <<service, fixed, visit, attempt, hours>>

----------------------------------------------------------------------------
(* Fixed times, hours and days off *)

Taken(t) == \E v \in Visits : visit[v].made /\ visit[v].time = t

(* One row for each service and day, unless an update moves a row to the   *)
(* day of another: then either is taken for that day.                      *)
CreateFixed(t, s, day, at) ==
  /\ Live(service[s]) /\ ServiceFree(s)
  /\ IF \E u \in FixedTimes : /\ fixed[u].there /\ fixed[u].service = s
                              /\ fixed[u].day = day
     THEN /\ fixed[t].there /\ fixed[t].service = s /\ fixed[t].day = day
          /\ ~Taken(t)
     ELSE ~fixed[t].there /\ ~Taken(t)
  /\ fixed' = [fixed EXCEPT ![t] = [there |-> TRUE, service |-> s, day |-> day, at |-> at]]
  /\ UNCHANGED <<service, specialist, visit, attempt, hours, closed>>

UpdateFixed(t, day, at) ==
  /\ fixed[t].there /\ ServiceFree(fixed[t].service)
  /\ ~Taken(t)
  /\ fixed' = [fixed EXCEPT ![t] = [@ EXCEPT !.day = day, !.at = at]]
  /\ UNCHANGED <<service, specialist, visit, attempt, hours, closed>>

DeleteFixed(t) ==
  /\ fixed[t].there /\ ServiceFree(fixed[t].service)
  /\ ~Taken(t)
  /\ fixed' = [fixed EXCEPT ![t].there = FALSE]
  /\ UNCHANGED <<service, specialist, visit, attempt, hours, closed>>

(* Fault: an interval that begins before the others clashes with none. *)
ClashesAtItsStart(H, day, at) ==
  \E h \in H : h[1] = day /\ h[2][1] <= at[1] /\ at[1] < h[2][2]

ClashesWith(H, day, at) == \E h \in H : h[1] = day /\ Overlap(h[2], at)

SetHours(m, H) ==
  /\ hours' = [hours EXCEPT ![m] = H]
  /\ UNCHANGED <<service, specialist, fixed, visit, attempt, closed>>

AddHours(m, day, at) ==
  /\ ~ClashesWith(hours[m], day, at)
  /\ SetHours(m, hours[m] \cup {<<day, at>>})

UpdateHours(m, old, day, at) ==
  /\ old \in hours[m]
  /\ ~ClashesWith(hours[m] \ {old}, day, at)
  /\ SetHours(m, (hours[m] \ {old}) \cup {<<day, at>>})

DeleteHours(m, old) == old \in hours[m] /\ SetHours(m, hours[m] \ {old})

(* At most two intervals a day, by their index.                            *)
ReplaceHours(m, H) ==
  /\ \A h \in H : /\ ~ClashesWith(H \ {h}, h[1], h[2])
                  /\ Cardinality({g \in H : g[1] = h[1]}) <= 2
  /\ SetHours(m, H)

CloseDay(who, day) ==
  /\ who \in ShopSpecialists => Live(specialist[who].state)
  /\ closed' = closed \cup {<<who, day>>}
  /\ UNCHANGED <<service, specialist, fixed, visit, attempt, hours>>

OpenDay(who, day) ==
  /\ closed' = closed \ {<<who, day>>}
  /\ UNCHANGED <<service, specialist, fixed, visit, attempt, hours>>

----------------------------------------------------------------------------
(* A customer books: by the hours of the store, or a fixed time *)

AskFor(v, s, p, t, day, at) ==
  /\ attempt[v] = "none" /\ ~visit[v].made
  /\ Live(specialist[p].state)
  /\ t = Nobody => service[s] = "active"
  /\ t # Nobody => fixed[t].there /\ fixed[t].service = s
  /\ visit' = [visit EXCEPT ![v] = [made |-> FALSE, service |-> s, specialist |-> p,
                                    time |-> t, day |-> day, at |-> at]]
  /\ attempt' = [attempt EXCEPT ![v] = "asked"]
  /\ UNCHANGED <<service, specialist, fixed, hours, closed>>

LockSpecialist(v) ==
  LET p == visit[v].specialist
      s == visit[v].service
  IN /\ attempt[v] = "asked" /\ SpecialistFree(p)
     /\ IF visit[v].time = Nobody
        THEN specialist[p].state = "active" /\ specialist[p].shop = ShopOf[s]
        ELSE Live(specialist[p].state)
     /\ attempt' = [attempt EXCEPT ![v] = "specialist"]
     /\ UNCHANGED <<service, specialist, fixed, visit, hours, closed>>

OnOffer(v) ==
  LET r == visit[v]
      open(who) == <<who, r.day>> \notin closed
  IN /\ service[r.service] = "active"
     /\ r.service \in specialist[r.specialist].offers
     /\ open(ShopOf[r.service]) /\ open(r.specialist)
     /\ \E h \in hours[ShopOf[r.service]] :
          h[1] = r.day /\ h[2][1] <= r.at[1] /\ r.at[2] <= h[2][2]

FixedOnOffer(v) ==
  LET r == visit[v]
  IN /\ Live(service[r.service])
     /\ fixed[r.time].there /\ fixed[r.time].service = r.service
     /\ r.service \in specialist[r.specialist].offers

LockService(v) ==
  LET t == visit[v].time
  IN /\ attempt[v] = "specialist" /\ ServiceFree(visit[v].service)
     /\ IF t = Nobody THEN OnOffer(v) ELSE FixedOnOffer(v)
     /\ visit' = IF t = Nobody THEN visit
                 ELSE [visit EXCEPT ![v] = [@ EXCEPT !.day = fixed[t].day, !.at = fixed[t].at]]
     /\ attempt' = [attempt EXCEPT ![v] = "checked"]
     /\ UNCHANGED <<service, specialist, fixed, hours, closed>>

MakeVisit(v) ==
  /\ attempt[v] = "checked"
  /\ visit' = [visit EXCEPT ![v].made = TRUE]
  /\ attempt' = [attempt EXCEPT ![v] = "none"]
  /\ UNCHANGED <<service, specialist, fixed, hours, closed>>

(* Refused on the way, or the process died.                                *)
GiveUp(v) ==
  /\ attempt[v] # "none"
  /\ visit' = [visit EXCEPT ![v] = NoVisit]
  /\ attempt' = [attempt EXCEPT ![v] = "none"]
  /\ UNCHANGED <<service, specialist, fixed, hours, closed>>

SetupNext ==
  \/ \E s \in ShopServices : \/ DeleteService(s)
                         \/ \E state \in {"active", "inactive"} : SaveService(s, state)
  \/ \E p \in ShopSpecialists :
       \/ DeleteSpecialist(p)
       \/ \E S \in SUBSET ShopServices :
            \/ CreateSpecialist(p, S)
            \/ \E state \in {"active", "inactive"} : UpdateSpecialist(p, state, S)
  \/ \E t \in FixedTimes : \/ DeleteFixed(t)
                           \/ \E day \in Days, at \in Interval :
                                \/ UpdateFixed(t, day, at)
                                \/ \E s \in ShopServices : CreateFixed(t, s, day, at)
  \/ \E m \in Shops :
       \/ \E day \in Days, at \in Interval :
            \/ AddHours(m, day, at)
            \/ \E old \in hours[m] : UpdateHours(m, old, day, at)
       \/ \E old \in hours[m] : DeleteHours(m, old)
       \/ \E H \in SUBSET (Days \X Interval) : ReplaceHours(m, H)
  \/ \E who \in Shops \cup ShopSpecialists, day \in Days :
       CloseDay(who, day) \/ OpenDay(who, day)
  \/ \E v \in Visits :
       \/ LockSpecialist(v) \/ LockService(v) \/ MakeVisit(v) \/ GiveUp(v)
       \/ \E s \in ShopServices, p \in ShopSpecialists, t \in FixedTimes \cup {Nobody},
             day \in Days, at \in Interval : AskFor(v, s, p, t, day, at)

SetupSpec == SetupInit /\ [][SetupNext]_setupVars

----------------------------------------------------------------------------
(* Properties *)

(* What was booked stands, however the keeper's changes fall between the   *)
(* statements of the booking: the service is there, the specialist is      *)
(* there, of the same store, and offers it still, and the fixed time is    *)
(* when it was (ServiceDeleteView, SpecialistUpdateView,                   *)
(* ReserveTimeUpdateView, hold_reservation, ReservationCreateView).        *)
BookingsStand ==
  \A v \in Visits :
    LET r == visit[v]
    IN r.made =>
         /\ Live(service[r.service])
         /\ Live(specialist[r.specialist].state)
         /\ r.service \in specialist[r.specialist].offers
         /\ specialist[r.specialist].shop = ShopOf[r.service]
         /\ r.time # Nobody =>
              fixed[r.time] = [there |-> TRUE, service |-> r.service,
                               day |-> r.day, at |-> r.at]

(* However a store's week is added to, edited and replaced, no two of its  *)
(* intervals overlap (market_schedule.py).                                 *)
HoursApart ==
  \A m \in Shops : \A g, h \in hours[m] : g # h => g[1] # h[1] \/ ~Overlap(g[2], h[2])
(* A store's setup stands under what was booked, and its week is in order  *)
(* (the owner's views of reserve, market_schedule.py).                     *)
SetupStands == BookingsStand /\ HoursApart
=============================================================================
