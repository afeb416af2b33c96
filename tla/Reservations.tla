---------------------------- MODULE Reservations ---------------------------
(***************************************************************************)
(* Appointments: the Reservation rows of apps/reserve/models.py, booked,   *)
(* moved, cancelled and decided on by apps/reserve/services.py,            *)
(* apps/reserve/lifecycle.py and the views of apps/reserve, with the       *)
(* refunds of cancelled appointments to their customers' wallets.          *)
(*                                                                         *)
(* Opening hours, days off and the specialists' services only narrow the   *)
(* slots on offer, never what is counted against the capacity: any slot of *)
(* Starts may be on offer here.  Rows of the legacy fixed time table       *)
(* (Reservation.reserve) have no start, occupy no slot and cannot be paid  *)
(* for; they are left out.                                                 *)
(***************************************************************************)
EXTENDS Integers, FiniteSets

CONSTANTS
  Bookings,     \* identities of reservation rows
  Customers,
  Client,       \* Client[r]: the customer whose row r is
  Services,
  Specialists,
  Length,       \* Length[s]: duration of service s
  Capacity,     \* Capacity[s]: customers a specialist may have at once
  Fee,          \* Fee[s]: amount due when booking s, 0 = free
  AsksOwner,    \* AsksOwner[s]: does the owner confirm bookings of s?
  Notice,       \* Notice[s]: how long before the start changes are refused
  Starts,       \* bound: the start times of slots
  HoldTime,     \* how long an unpaid booking is held (HOLD_MINUTES)
  Horizon       \* bound: the last instant looked at

ASSUME ReservationAssumption ==
  /\ IsFiniteSet(Bookings)
  /\ Client \in [Bookings -> Customers]
  /\ Length \in [Services -> Nat \ {0}]
  /\ Capacity \in [Services -> Nat \ {0}]
  /\ Fee \in [Services -> Nat]
  /\ AsksOwner \in [Services -> BOOLEAN]
  /\ Notice \in [Services -> Nat]
  /\ Starts \subseteq Nat
  /\ HoldTime \in Nat \ {0} /\ Horizon \in Nat

VARIABLES
  booking,  \* booking[r]: the reservation row r
  credit,   \* credit[u]: what u's wallet has been refunded
  now       \* the clock

bookingVars == <<booking, credit, now>>

BookingStatus == {"absent", "held", "asked", "confirmed", "completed",
                  "cancelled", "noshow", "expired"}
Active == {"held", "asked", "confirmed"}

(* "until" is the end of the hold of an unpaid booking. *)
BookingRow == [status: BookingStatus, service: Services, specialist: Specialists,
               start: Starts, paid: BOOLEAN, until: Nat, refunded: BOOLEAN]

NoBooking == [status |-> "absent", service |-> CHOOSE s \in Services : TRUE,
              specialist |-> CHOOSE p \in Specialists : TRUE,
              start |-> CHOOSE t \in Starts : TRUE,
              paid |-> FALSE, until |-> 0, refunded |-> FALSE]

ReservationTypeOK ==
  /\ booking \in [Bookings -> BookingRow]
  /\ credit \in [Customers -> Nat]
  /\ now \in 0..Horizon

ReservationInit ==
  /\ booking = [r \in Bookings |-> NoBooking]
  /\ credit = [u \in Customers |-> 0]
  /\ now = 0

----------------------------------------------------------------------------
(* expire_stale_holds: an unpaid hold that has run out *)
Stale(r) == booking[r].status = "held" /\ ~booking[r].paid /\ booking[r].until <= now

Swept == [r \in Bookings |->
            IF Stale(r) THEN [booking[r] EXCEPT !.status = "expired"] ELSE booking[r]]

End(r) == booking[r].start + Length[booking[r].service]

(* Fault: only bookings of the same slot occupy it. *)
OccupiedSameStart(s, p, t, bk) ==
  {r \in Bookings : /\ bk[r].status \in Active /\ bk[r].specialist = p
                    /\ bk[r].start = t}

(* available_slots: the bookings of specialist p that overlap service s at *)
(* time t, whatever service they are for.                                  *)
Occupied(s, p, t, bk) ==
  {r \in Bookings : /\ bk[r].status \in Active /\ bk[r].specialist = p
                    /\ bk[r].start < t + Length[s] /\ End(r) > t}

Available(s, p, t, others) ==
  /\ t > now
  /\ Cardinality(Occupied(s, p, t, Swept) \cap others) < Capacity[s]

(* A slot listing, or a move that is refused after its sweep. *)
SweepHolds ==
  /\ \E r \in Bookings : Stale(r)
  /\ booking' = Swept
  /\ UNCHANGED <<credit, now>>

Settled(s) == IF AsksOwner[s] THEN "asked" ELSE "confirmed"

(* hold_reservation, under the specialist's row lock *)
Hold(r, s, p, t) ==
  /\ booking[r].status = "absent"
  /\ Available(s, p, t, Bookings)
  /\ booking' = [Swept EXCEPT ![r] =
       [status |-> IF Fee[s] > 0 THEN "held" ELSE Settled(s),
        service |-> s, specialist |-> p, start |-> t, paid |-> Fee[s] = 0,
        until |-> IF Fee[s] > 0 THEN now + HoldTime ELSE 0, refunded |-> FALSE]]
  /\ UNCHANGED <<credit, now>>

(* ReservationRescheduleView: the row's lock, then the specialist's *)
Reschedule(r, t) ==
  LET s == booking[r].service
  IN /\ booking[r].status \in {"asked", "confirmed"}
     /\ booking[r].start > now + Notice[s]
     /\ Available(s, booking[r].specialist, t, Bookings \ {r})
     /\ booking' = [Swept EXCEPT ![r].start = t, ![r].status = Settled(s)]
     /\ UNCHANGED <<credit, now>>

(* refund_paid_reservation *)
Refundable(r) ==
  booking[r].paid /\ Fee[booking[r].service] > 0 /\ ~booking[r].refunded

(* Fault: the refund does not look at whether anything was paid. *)
CancelWithFee(r) ==
  /\ booking' = [booking EXCEPT ![r].status = "cancelled", ![r].refunded = TRUE]
  /\ credit' = [credit EXCEPT ![Client[r]] = @ + Fee[booking[r].service]]
  /\ UNCHANGED now

CancelWithRefund(r) ==
  /\ booking' = [booking EXCEPT ![r].status = "cancelled",
                                ![r].refunded = @ \/ Refundable(r)]
  /\ credit' = IF Refundable(r)
               THEN [credit EXCEPT ![Client[r]] = @ + Fee[booking[r].service]]
               ELSE credit
  /\ UNCHANGED now

(* ReservationCancelView: a held booking may be given up at any time. *)
ClientCancels(r) ==
  /\ booking[r].status \in Active
  /\ \/ booking[r].status = "held"
     \/ booking[r].start > now + Notice[booking[r].service]
  /\ CancelWithRefund(r)

(* ReservationStatusView *)
OwnerConfirms(r) ==
  /\ booking[r].status = "asked"
  /\ booking' = [booking EXCEPT ![r].status = "confirmed"]
  /\ UNCHANGED <<credit, now>>

OwnerCancels(r) ==
  /\ booking[r].status \in {"asked", "confirmed"}
  /\ CancelWithRefund(r)

OwnerCloses(r, status) ==
  /\ booking[r].status = "confirmed"
  /\ status \in {"completed", "noshow"}
  /\ booking' = [booking EXCEPT ![r].status = status]
  /\ UNCHANGED <<credit, now>>

Tick ==
  /\ now < Horizon
  /\ now' = now + 1
  /\ UNCHANGED <<booking, credit>>

ReservationNext ==
  \/ SweepHolds \/ Tick
  \/ \E r \in Bookings :
       \/ ClientCancels(r) \/ OwnerConfirms(r) \/ OwnerCancels(r)
       \/ \E t \in Starts : Reschedule(r, t)
       \/ \E status \in {"completed", "noshow"} : OwnerCloses(r, status)
       \/ \E s \in Services, p \in Specialists, t \in Starts : Hold(r, s, p, t)
=============================================================================
