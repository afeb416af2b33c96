------------------------- MODULE Reservation_proofs -------------------------
(***************************************************************************)
(* Proofs about what the visitors of a store do, for every set of          *)
(* bookings, services, specialists, payments and visitors.                 *)
(***************************************************************************)
EXTENDS ReservationPayment, AppointmentSetup, Storefront, FiniteSetTheorems,
        WellFoundedInduction, TLAPS

----------------------------------------------------------------------------
(* Rows of bookings and payments *)

SomeRow(r) == booking[r] \in BookingRow /\ booking[r].status # "absent"

RowsOK ==
  /\ booking \in [Bookings -> BookingRow \cup {NoBooking}]
  /\ credit \in [Customers -> Nat]
  /\ now \in Nat
  /\ GatewayTypeOK

(* A row a sweep may touch: it stays, or is a hold nobody paid that ends.  *)
Swept1(x) ==
  \/ booking'[x] = booking[x]
  \/ /\ booking[x].status = "held" /\ ~booking[x].paid
     /\ booking'[x] = [booking[x] EXCEPT !.status = "expired"]

LEMMA RowTypes ==
  ASSUME RowsOK, NEW r \in Bookings
  PROVE  booking[r].status # "absent" => booking[r] \in BookingRow
BY DEF RowsOK, NoBooking

LEMMA SweptRows ==
  ASSUME RowsOK
  PROVE  /\ Swept \in [Bookings -> BookingRow \cup {NoBooking}]
         /\ \A x \in Bookings :
              \/ Swept[x] = booking[x]
              \/ /\ booking[x].status = "held" /\ ~booking[x].paid
                 /\ Swept[x] = [booking[x] EXCEPT !.status = "expired"]
<1>1. ASSUME NEW x \in Bookings, booking[x].status = "held"
      PROVE  [booking[x] EXCEPT !.status = "expired"] \in BookingRow
  BY <1>1, RowTypes DEF BookingRow, BookingStatus
<1>2. \A x \in Bookings :
        Swept[x] = IF Stale(x) THEN [booking[x] EXCEPT !.status = "expired"]
                   ELSE booking[x]
  BY DEF Swept
<1>3. \A x \in Bookings :
        \/ Swept[x] = booking[x]
        \/ /\ booking[x].status = "held" /\ ~booking[x].paid
           /\ Swept[x] = [booking[x] EXCEPT !.status = "expired"]
  BY <1>2 DEF Stale
<1>4. \A x \in Bookings : Swept[x] \in BookingRow \cup {NoBooking}
  BY <1>1, <1>3 DEF RowsOK
<1>. QED BY <1>3, <1>4 DEF Swept

----------------------------------------------------------------------------
(* What a step does to a booking.  All but one row are at most swept; that *)
(* row is booked, moved, decided on, given back or paid for.               *)

AsSwept(r) == \A x \in Bookings \ {r} : booking'[x] = Swept[x]

Reserved(r, s, p, t) ==
  /\ booking[r].status = "absent" /\ AsSwept(r)
  /\ Available(s, p, t, Bookings)
  /\ booking'[r].service = s /\ booking'[r].specialist = p /\ booking'[r].start = t
  /\ ~booking'[r].refunded
  /\ IF Fee[s] > 0 THEN booking'[r].status = "held" /\ ~booking'[r].paid
     ELSE booking'[r].status = Settled(s) /\ booking'[r].paid

Moved(r, t) ==
  /\ booking[r].status \in {"asked", "confirmed"} /\ AsSwept(r)
  /\ Available(booking[r].service, booking[r].specialist, t, Bookings \ {r})
  /\ booking'[r] = [booking[r] EXCEPT !.start = t,
                                      !.status = Settled(booking[r].service)]

Decided(r) ==
  /\ booking[r].status \in {"asked", "confirmed"}
  /\ \E st \in {"confirmed", "completed", "noshow"} :
       booking'[r] = [booking[r] EXCEPT !.status = st]

GivenBack(r) ==
  /\ booking[r].status \in Active
  /\ booking'[r].status = "cancelled"
  /\ booking'[r].service = booking[r].service /\ booking'[r].paid = booking[r].paid
  /\ CancelWithRefund(r)

PaidFor(r) ==
  /\ booking[r].status = "held" /\ ~booking[r].paid
  /\ booking'[r].status = Settled(booking[r].service) /\ booking'[r].paid
  /\ booking'[r].service = booking[r].service
  /\ booking'[r].specialist = booking[r].specialist
  /\ booking'[r].start = booking[r].start
  /\ booking'[r].refunded = booking[r].refunded

OthersSwept(r) == \A x \in Bookings \ {r} : Swept1(x)
AllSwept == \A x \in Bookings : Swept1(x)

BookingMoves ==
  \/ AllSwept /\ credit' = credit
  \/ \E r \in Bookings :
       /\ OthersSwept(r)
       /\ \/ GivenBack(r)
          \/ /\ credit' = credit
             /\ \/ \E s \in Services, p \in Specialists, t \in Starts : Reserved(r, s, p, t)
                \/ \E t \in Starts : Moved(r, t)
                \/ Decided(r)

LEMMA SettledActive ==
  ASSUME NEW s
  PROVE  Settled(s) \in {"asked", "confirmed"}
BY DEF Settled

LEMMA ReservationMoves ==
  ASSUME RowsOK, ReservationNext
  PROVE  /\ BookingMoves
         /\ booking' \in [Bookings -> BookingRow \cup {NoBooking}]
         /\ credit' \in [Customers -> Nat] /\ now' \in Nat
<1> DEFINE Rows == [Bookings -> BookingRow \cup {NoBooking}]
<1> USE DEF RowsOK
<1>1. CASE SweepHolds
  <2>1. booking' = Swept /\ credit' = credit /\ now' = now
    BY <1>1 DEF SweepHolds
  <2>2. AllSwept
    BY <2>1, SweptRows DEF AllSwept, Swept1
  <2>. QED BY <2>1, <2>2, SweptRows DEF BookingMoves
<1>2. CASE Tick
  BY <1>2 DEF Tick, BookingMoves, AllSwept, Swept1
<1>3. ASSUME NEW r \in Bookings, NEW row \in BookingRow, NEW bk \in Rows,
             bk = booking \/ bk = Swept, booking' = [bk EXCEPT ![r] = row]
      PROVE  /\ booking' \in Rows /\ booking'[r] = row /\ OthersSwept(r)
             /\ bk = Swept => AsSwept(r)
  BY <1>3, SweptRows DEF OthersSwept, Swept1, AsSwept
<1>4. ASSUME NEW r \in Bookings, NEW s \in Services, NEW p \in Specialists,
             NEW t \in Starts, Hold(r, s, p, t)
      PROVE  /\ booking' \in Rows /\ OthersSwept(r) /\ Reserved(r, s, p, t)
             /\ credit' = credit /\ now' = now
  <2> DEFINE row == [status |-> IF Fee[s] > 0 THEN "held" ELSE Settled(s),
                     service |-> s, specialist |-> p, start |-> t, paid |-> Fee[s] = 0,
                     until |-> IF Fee[s] > 0 THEN now + HoldTime ELSE 0,
                     refunded |-> FALSE]
  <2>1. Fee[s] \in Nat /\ HoldTime \in Nat
    BY ReservationAssumption
  <2>2. row \in BookingRow
    BY <2>1, SettledActive DEF BookingRow, BookingStatus
  <2>3. /\ booking' = [Swept EXCEPT ![r] = row] /\ credit' = credit /\ now' = now
        /\ booking[r].status = "absent" /\ Available(s, p, t, Bookings)
    BY <1>4 DEF Hold
  <2>4. /\ row.service = s /\ row.specialist = p /\ row.start = t /\ ~row.refunded
        /\ row.status = IF Fee[s] > 0 THEN "held" ELSE Settled(s)
    OBVIOUS
  <2>6. row.paid = (Fee[s] = 0)
    BY Zenon
  <2>7. IF Fee[s] > 0 THEN row.status = "held" /\ ~row.paid
        ELSE row.status = Settled(s) /\ row.paid
    <3>. HIDE DEF row
    <3>1. Fee[s] > 0 <=> ~(Fee[s] = 0)
      BY <2>1
    <3>. QED BY <2>4, <2>6, <3>1, Zenon
  <2>. HIDE DEF row
  <2>5. booking' \in Rows /\ booking'[r] = row /\ OthersSwept(r) /\ AsSwept(r)
    BY <1>3, <2>2, <2>3, SweptRows
  <2>. QED BY <2>3, <2>4, <2>5, <2>7 DEF Reserved
<1>5. ASSUME NEW r \in Bookings, NEW t \in Starts, Reschedule(r, t)
      PROVE  /\ booking' \in Rows /\ OthersSwept(r) /\ Moved(r, t)
             /\ credit' = credit /\ now' = now
  <2> DEFINE row == [booking[r] EXCEPT !.start = t,
                                       !.status = Settled(booking[r].service)]
  <2>1. /\ booking[r].status \in {"asked", "confirmed"}
        /\ Available(booking[r].service, booking[r].specialist, t, Bookings \ {r})
        /\ credit' = credit /\ now' = now
    BY <1>5 DEF Reschedule
  <2>2. booking[r] \in BookingRow /\ Swept[r] = booking[r]
    BY <2>1, RowTypes DEF Swept, Stale
  <2>3. row \in BookingRow
    BY <2>2, SettledActive DEF BookingRow, BookingStatus
  <2>4. booking' = [Swept EXCEPT ![r] = row]
    <3>1. booking' = [Swept EXCEPT ![r].start = t, ![r].status = Settled(booking[r].service)]
      BY <1>5 DEF Reschedule
    <3>. QED BY <2>2, <3>1, SweptRows
  <2>5. booking' \in Rows /\ booking'[r] = row /\ OthersSwept(r) /\ AsSwept(r)
    <3>. HIDE DEF row
    <3>. QED BY <1>3, <2>3, <2>4, SweptRows
  <2>. QED BY <2>1, <2>5 DEF Moved
<1>6. ASSUME NEW r \in Bookings, NEW st \in {"confirmed", "completed", "noshow"},
             booking[r].status \in {"asked", "confirmed"},
             booking' = [booking EXCEPT ![r].status = st]
      PROVE  booking' \in Rows /\ OthersSwept(r) /\ Decided(r)
  <2> DEFINE row == [booking[r] EXCEPT !.status = st]
  <2>1. row \in BookingRow
    BY <1>6, RowTypes DEF BookingRow, BookingStatus
  <2>2. booking' = [booking EXCEPT ![r] = row]
    BY <1>6
  <2>3. booking' \in Rows /\ booking'[r] = row /\ OthersSwept(r)
    <3>. HIDE DEF row
    <3>. QED BY <1>3, <2>1, <2>2
  <2>. QED BY <1>6, <2>3 DEF Decided
<1>7. ASSUME NEW r \in Bookings, booking[r].status \in Active, CancelWithRefund(r)
      PROVE  /\ booking' \in Rows /\ OthersSwept(r) /\ GivenBack(r)
             /\ credit' \in [Customers -> Nat] /\ now' = now
  <2> DEFINE back == booking[r].refunded \/ Refundable(r)
             row == [booking[r] EXCEPT !.status = "cancelled", !.refunded = back]
  <2>1. booking[r] \in BookingRow
    BY <1>7, RowTypes DEF Active
  <2>2. row \in BookingRow
    BY <2>1 DEF BookingRow, BookingStatus, Refundable
  <2>3. booking' = [booking EXCEPT ![r] = row]
    BY <1>7 DEF CancelWithRefund
  <2>4. /\ row.status = "cancelled" /\ row.service = booking[r].service
        /\ row.paid = booking[r].paid
    BY <2>1 DEF BookingRow
  <2>5. booking' \in Rows /\ booking'[r] = row /\ OthersSwept(r)
    <3>. HIDE DEF row
    <3>. QED BY <1>3, <2>2, <2>3
  <2>6. credit' \in [Customers -> Nat]
    <3>1. Fee[booking[r].service] \in Nat
      BY <2>1, ReservationAssumption DEF BookingRow
    <3>2. Client[r] \in Customers
      BY ReservationAssumption
    <3>3. credit' = credit \/ credit' = [credit EXCEPT ![Client[r]] = @ + Fee[booking[r].service]]
      BY <1>7 DEF CancelWithRefund
    <3>. QED BY <3>1, <3>2, <3>3
  <2>7. now' = now
    BY <1>7 DEF CancelWithRefund
  <2>. HIDE DEF row
  <2>. QED BY <1>7, <2>4, <2>5, <2>6, <2>7 DEF GivenBack
<1>8. ASSUME NEW r \in Bookings, ClientCancels(r) \/ OwnerCancels(r)
      PROVE  booking[r].status \in Active /\ CancelWithRefund(r)
  BY <1>8 DEF ClientCancels, OwnerCancels, Active
<1>9. ASSUME NEW r \in Bookings,
             OwnerConfirms(r) \/ \E status \in {"completed", "noshow"} : OwnerCloses(r, status)
      PROVE  /\ \E st \in {"confirmed", "completed", "noshow"} :
                  booking' = [booking EXCEPT ![r].status = st]
             /\ booking[r].status \in {"asked", "confirmed"}
             /\ credit' = credit /\ now' = now
  BY <1>9 DEF OwnerConfirms, OwnerCloses
<1>. QED BY <1>1, <1>2, <1>4, <1>5, <1>6, <1>7, <1>8, <1>9 DEF ReservationNext, BookingMoves

(* The steps of payments, seen from the bookings *)

(* A payment of row y is what moves, if any does; its row keeps what it is *)
(* for, unless it is new.                                                  *)
SessionMoves(y) ==
  /\ \A z \in Payments \ {y} :
       /\ payment'[z].status = payment[z].status
       /\ payment'[z].target = payment[z].target
       /\ payment'[z].amount = payment[z].amount
  /\ payment'[y].target = payment[y].target /\ payment'[y].amount = payment[y].amount

SessionsStay ==
  \A z \in Payments :
    /\ payment'[z].status = payment[z].status
    /\ payment'[z].target = payment[z].target
    /\ payment'[z].amount = payment[z].amount

PaidStep(y) ==
  LET r == payment[y].target
  IN /\ payment[y].status = "pending" /\ payment'[y].status = "complete"
     /\ SessionMoves(y) /\ credit' = credit
     /\ IF r \in Bookings THEN PaidFor(r) /\ OthersSwept(r) ELSE booking' = booking

EndedStep(y) ==
  /\ payment[y].status = "pending" /\ payment'[y].status \in {"failed", "canceled"}
  /\ SessionMoves(y) /\ credit' = credit /\ AllSwept

StartStep(y, r) ==
  /\ payment[y].status = "absent" /\ payment'[y].status = "pending"
  /\ payment'[y].target = r /\ payment'[y].amount = Fee[booking[r].service]
  /\ \A z \in Payments \ {y} : payment'[z] = payment[z]
  /\ booking' = booking /\ credit' = credit /\ booking[r].status = "held"

Step ==
  \/ BookingMoves /\ payment' = payment
  \/ booking' = booking /\ credit' = credit /\ SessionsStay
  \/ \E y \in Payments : PaidStep(y) \/ EndedStep(y) \/ \E r \in Bookings : StartStep(y, r)

LEMMA NextSteps ==
  ASSUME RowsOK, Next
  PROVE  RowsOK' /\ Step
<1> DEFINE Rows == [Bookings -> BookingRow \cup {NoBooking}]
<1>0. GatewayTypeOK /\ booking \in Rows /\ credit \in [Customers -> Nat] /\ now \in Nat
  BY DEF RowsOK
<1>1. CASE ReservationNext /\ UNCHANGED gatewayVars
  <2>1. payment' = payment /\ GatewayTypeOK'
    BY <1>0, <1>1 DEF gatewayVars, GatewayTypeOK
  <2>. QED BY <1>1, <2>1, ReservationMoves DEF RowsOK, Step
<1>2. ASSUME NEW y \in Payments, NEW r \in Bookings, StartPayment(y, r)
      PROVE  RowsOK' /\ StartStep(y, r)
  <2>1. /\ CreatePayment(y, r, Fee[booking[r].service])
        /\ booking' = booking /\ credit' = credit /\ now' = now
        /\ booking[r].status = "held"
    BY <1>2 DEF StartPayment, PayableHold, bookingVars
  <2>2. booking[r].service \in Services
    BY <2>1, RowTypes DEF BookingRow
  <2>3. GatewayTypeOK'
    BY <1>0, <2>1, <2>2, GatewayTypes, AppointmentAssumption
  <2>4. StartStep(y, r)
    BY <1>0, <2>1 DEF StartStep, CreatePayment, GatewayTypeOK
  <2>. QED BY <1>0, <2>1, <2>3, <2>4 DEF RowsOK
<1>3. ASSUME NEW y \in Payments, PaymentCompleted(y)
      PROVE  RowsOK' /\ PaidStep(y)
  <2> DEFINE r == payment[y].target
             row == [booking[r] EXCEPT !.paid = TRUE, !.until = 0,
                                       !.status = Settled(booking[r].service)]
  <2>1. /\ VerifyPaid(y) /\ credit' = credit /\ now' = now
        /\ booking[r].status = "held" /\ ~booking[r].paid
        /\ booking' = [booking EXCEPT ![r].paid = TRUE, ![r].until = 0,
                                      ![r].status = Settled(booking[r].service)]
    BY <1>3 DEF PaymentCompleted, Settle
  <2>2. GatewayTypeOK'
    BY <1>0, <2>1, GatewayTypes
  <2>3. /\ payment[y].status = "pending" /\ payment'[y].status = "complete"
        /\ SessionMoves(y)
    BY <1>0, <2>1 DEF VerifyPaid, Verifiable, SessionMoves, GatewayTypeOK, PaymentRow
  <2>. HIDE DEF r
  <2>4. CASE r \in Bookings
    <3>1. booking' = [booking EXCEPT ![r] = row]
      BY <2>1
    <3>2. booking[r] \in BookingRow
      BY <2>1, <2>4, RowTypes
    <3>3. row \in BookingRow
      BY <3>2, SettledActive DEF BookingRow, BookingStatus
    <3>4. /\ row.status = Settled(booking[r].service) /\ row.paid
          /\ row.service = booking[r].service /\ row.start = booking[r].start
          /\ row.specialist = booking[r].specialist
          /\ row.refunded = booking[r].refunded
      BY <3>2 DEF BookingRow
    <3>. HIDE DEF row
    <3>5. booking' \in Rows /\ booking'[r] = row /\ OthersSwept(r)
      BY <1>0, <2>4, <3>1, <3>3 DEF OthersSwept, Swept1
    <3>6. PaidFor(r)
      BY <2>1, <3>4, <3>5 DEF PaidFor
    <3>. QED BY <1>0, <2>1, <2>2, <2>3, <3>5, <3>6 DEF RowsOK, PaidStep, r
  <2>5. CASE r \notin Bookings
    <3>1. booking' = booking
      BY <1>0, <2>1, <2>5
    <3>. QED BY <1>0, <2>1, <2>2, <2>3, <2>5, <3>1 DEF RowsOK, PaidStep, r
  <2>. QED BY <2>4, <2>5
<1>4. ASSUME NEW y \in Payments, PaymentEnded(y)
      PROVE  RowsOK' /\ EndedStep(y)
  <2> DEFINE r == payment[y].target
             row == [booking[r] EXCEPT !.status = "expired"]
  <2>1. /\ AbandonPayment(y) \/ VerifyRejected(y) \/ CallbackCancels(y)
        /\ EndHold(r)
    BY <1>4 DEF PaymentEnded
  <2>2. GatewayTypeOK'
    BY <1>0, <2>1, GatewayTypes
  <2>3. /\ payment[y].status = "pending" /\ payment'[y].status \in {"failed", "canceled"}
        /\ SessionMoves(y)
    BY <1>0, <2>1 DEF AbandonPayment, VerifyRejected, CallbackCancels, Verifiable,
                      SessionMoves, GatewayTypeOK, PaymentRow
  <2>. HIDE DEF r
  <2>4. /\ credit' = credit /\ now' = now
        /\ \/ booking' = booking
           \/ /\ booking[r].status = "held" /\ ~booking[r].paid
              /\ booking' = [booking EXCEPT ![r].status = "expired"]
    BY <2>1 DEF EndHold
  <2>5. CASE booking' = booking
    <3>1. AllSwept
      BY <2>5 DEF AllSwept, Swept1
    <3>. QED BY <1>0, <2>2, <2>3, <2>4, <2>5, <3>1 DEF RowsOK, EndedStep
  <2>6. CASE /\ r \in Bookings /\ booking[r].status = "held" /\ ~booking[r].paid
             /\ booking' = [booking EXCEPT ![r].status = "expired"]
    <3>1. booking' = [booking EXCEPT ![r] = row]
      BY <2>6
    <3>2. row \in BookingRow
      BY <2>6, RowTypes DEF BookingRow, BookingStatus
    <3>3. AllSwept
      BY <1>0, <2>6, <3>1 DEF AllSwept, Swept1
    <3>. HIDE DEF row
    <3>4. booking' \in Rows
      BY <1>0, <2>6, <3>1, <3>2
    <3>. QED BY <1>0, <2>2, <2>3, <2>4, <3>3, <3>4 DEF RowsOK, EndedStep
  <2>7. CASE r \notin Bookings
    <3>1. booking' = booking
      BY <1>0, <2>4, <2>7
    <3>. QED BY <2>5, <3>1
  <2>. QED BY <2>4, <2>5, <2>6, <2>7
<1>5. ASSUME NEW y \in Payments, GatewayStep(y), UNCHANGED bookingVars
      PROVE  RowsOK' /\ booking' = booking /\ credit' = credit /\ SessionsStay
  <2>1. GatewayTypeOK'
    BY <1>0, <1>5, GatewayTypes
  <2>2. SessionsStay
    BY <1>0, <1>5
       DEF SessionsStay, GatewayStep, ProviderOpens, ProviderAnswers, ProviderFails,
           StoreAuthority, Crash, CustomerPays, CustomerCancels, SessionExpires,
           VerifyInterrupted, GatewayTypeOK, PaymentRow
  <2>. QED BY <1>0, <1>5, <2>1, <2>2 DEF RowsOK, bookingVars
<1>. QED BY <1>1, <1>2, <1>3, <1>4, <1>5 DEF Next, Step

----------------------------------------------------------------------------
(* No specialist is overbooked.  The invariant is stronger than the        *)
(* property so that it survives a customer leaving: of any customers a     *)
(* specialist serves at once, the service of one allows them all (it was   *)
(* booked, or moved there, last).                                          *)

EachGroupFits ==
  \A p \in Specialists, t \in Starts :
    \A S \in SUBSET Serving(p, t) :
      S # {} => \E r \in S : Cardinality(S) <= Capacity[booking[r].service]

(* A booking that is served after a step was, there and then, before it.   *)
Stays(x) ==
  booking'[x].status \in Active =>
    /\ booking[x].status \in Active
    /\ booking'[x].service = booking[x].service
    /\ booking'[x].specialist = booking[x].specialist
    /\ booking'[x].start = booking[x].start

(* A booking newly placed where there was room beside the others.          *)
Fitted(r) ==
  /\ booking'[r].service \in Services /\ booking'[r].start \in Starts
  /\ Available(booking'[r].service, booking'[r].specialist, booking'[r].start,
               Bookings \ {r})
  /\ AsSwept(r)

LEMMA OccupiedFinite ==
  ASSUME NEW s, NEW p, NEW t, NEW bk, NEW others
  PROVE  IsFiniteSet(Occupied(s, p, t, bk) \cap others)
<1>1. Occupied(s, p, t, bk) \cap others \in SUBSET Bookings
  BY DEF Occupied
<1>. QED BY <1>1, FS_Subset, ReservationAssumption

LEMMA FittedGroup ==
  ASSUME RowsOK, NEW r \in Bookings, Fitted(r), \A x \in Bookings \ {r} : Stays(x),
         NEW p \in Specialists, NEW u \in Starts,
         NEW S \in SUBSET (Serving(p, u)'), r \in S
  PROVE  Cardinality(S) <= Capacity[booking'[r].service]
<1> DEFINE s == booking'[r].service
           t == booking'[r].start
           room == Occupied(s, p, t, Swept) \cap (Bookings \ {r})
<1>1. s \in Services /\ t \in Nat /\ u \in Nat /\ Length[s] \in Nat
      /\ Capacity[s] \in Nat
  BY ReservationAssumption DEF Fitted
<1>2. booking'[r].specialist = p /\ t <= u /\ u < t + Length[s]
  BY DEF Serving, End
<1>3. ASSUME NEW x \in S \ {r}
      PROVE  x \in room
  <2>1. /\ x \in Bookings \ {r} /\ booking'[x].status \in Active
        /\ booking'[x].specialist = p
        /\ booking'[x].start <= u
        /\ u < booking'[x].start + Length[booking'[x].service]
    BY DEF Serving, End
  <2>2. booking'[x] = Swept[x]
    BY <2>1 DEF Fitted, AsSwept
  <2>3. /\ booking[x].status \in Active /\ booking'[x].service = booking[x].service
        /\ booking'[x].start = booking[x].start
    BY <2>1 DEF Stays
  <2>4. booking[x] \in BookingRow
    BY <2>1, <2>3, RowTypes DEF Active
  <2>5. booking[x].start \in Nat /\ Length[booking[x].service] \in Nat
    BY <2>4, ReservationAssumption DEF BookingRow
  <2>6. Swept[x].start < t + Length[s] /\ End(x) > t
    BY <1>1, <1>2, <2>1, <2>2, <2>3, <2>5 DEF End
  <2>. QED BY <2>1, <2>2, <2>6 DEF Occupied
<1>4. Cardinality(room) < Capacity[s] /\ IsFiniteSet(room) /\ Cardinality(room) \in Nat
  BY <1>2, OccupiedFinite, FS_CardinalityType DEF Fitted, Available
<1>. HIDE DEF room, s, t
<1>5. S \ {r} \subseteq room
  BY <1>3
<1>6. /\ IsFiniteSet(S \ {r}) /\ Cardinality(S \ {r}) <= Cardinality(room)
      /\ Cardinality(S \ {r}) \in Nat
  BY <1>4, <1>5, FS_Subset, FS_CardinalityType
<1>7. Cardinality(S) = Cardinality(S \ {r}) + 1
  <2>1. S = (S \ {r}) \cup {r} /\ r \notin S \ {r}
    OBVIOUS
  <2>. QED BY <1>6, <2>1, FS_AddElement
<1>8. Cardinality(S) <= Capacity[s]
  BY <1>1, <1>4, <1>6, <1>7
<1>. QED BY <1>8 DEF s

LEMMA GroupsStep ==
  ASSUME RowsOK, EachGroupFits, NEW r \in Bookings,
         \A x \in Bookings \ {r} : Stays(x), Stays(r) \/ Fitted(r)
  PROVE  EachGroupFits'
<1> SUFFICES ASSUME NEW p \in Specialists, NEW u \in Starts,
                    NEW S \in SUBSET (Serving(p, u)'), S # {}
             PROVE  \E x \in S : Cardinality(S) <= Capacity[booking'[x].service]
  BY DEF EachGroupFits
<1>1. CASE \A x \in S : Stays(x)
  <2>1. \A x \in S : x \in Bookings /\ booking'[x].status \in Active
    BY DEF Serving
  <2>2. S \in SUBSET Serving(p, u)
    BY <1>1, <2>1 DEF Serving, Stays, End
  <2>3. PICK x \in S : Cardinality(S) <= Capacity[booking[x].service]
    BY <2>2 DEF EachGroupFits
  <2>4. booking'[x].service = booking[x].service
    BY <1>1, <2>1 DEF Stays
  <2>. QED BY <2>3, <2>4
<1>2. CASE ~ \A x \in S : Stays(x)
  <2>1. S \subseteq Bookings
    BY DEF Serving
  <2>2. r \in S /\ Fitted(r)
    BY <1>2, <2>1
  <2>3. Cardinality(S) <= Capacity[booking'[r].service]
    BY <2>2, FittedGroup
  <2>. QED BY <2>2, <2>3
<1>. QED BY <1>1, <1>2

LEMMA GroupsKept ==
  ASSUME EachGroupFits, \A x \in Bookings : Stays(x)
  PROVE  EachGroupFits'
<1> SUFFICES ASSUME NEW p \in Specialists, NEW u \in Starts,
                    NEW S \in SUBSET (Serving(p, u)'), S # {}
             PROVE  \E x \in S : Cardinality(S) <= Capacity[booking'[x].service]
  BY DEF EachGroupFits
<1>1. \A x \in S : x \in Bookings /\ booking'[x].status \in Active
  BY DEF Serving
<1>2. S \in SUBSET Serving(p, u)
  BY <1>1 DEF Serving, Stays, End
<1>3. PICK x \in S : Cardinality(S) <= Capacity[booking[x].service]
  BY <1>2 DEF EachGroupFits
<1>4. booking'[x].service = booking[x].service
  BY <1>1 DEF Stays
<1>. QED BY <1>3, <1>4

(* Every step leaves bookings where they are but for one that fits.        *)
LEMMA StepFits ==
  ASSUME RowsOK, RowsOK', Step
  PROVE  \/ \A x \in Bookings : Stays(x)
         \/ \E r \in Bookings : /\ \A x \in Bookings \ {r} : Stays(x)
                                /\ Stays(r) \/ Fitted(r)
<1>1. ASSUME NEW x \in Bookings, Swept1(x)
      PROVE  Stays(x)
  <2>1. CASE booking'[x] = booking[x]
    BY <2>1 DEF Stays
  <2>2. CASE /\ booking[x].status = "held"
             /\ booking'[x] = [booking[x] EXCEPT !.status = "expired"]
    <3>1. booking'[x].status = "expired"
      BY <2>2, RowTypes DEF BookingRow
    <3>. QED BY <3>1 DEF Stays, Active
  <2>. QED BY <1>1, <2>1, <2>2 DEF Swept1
<1>2. ASSUME NEW r \in Bookings, OthersSwept(r)
      PROVE  \A x \in Bookings \ {r} : Stays(x)
  BY <1>1, <1>2 DEF OthersSwept
<1>3. ASSUME NEW r \in Bookings, GivenBack(r)
      PROVE  Stays(r)
  BY <1>3 DEF GivenBack, Stays, Active
<1>4. ASSUME NEW r \in Bookings, Decided(r)
      PROVE  Stays(r)
  BY <1>4, RowTypes DEF Decided, Stays, Active, BookingRow
<1>5. ASSUME NEW r \in Bookings, PaidFor(r)
      PROVE  Stays(r)
  BY <1>5 DEF PaidFor, Stays, Active
<1>6. ASSUME NEW r \in Bookings, NEW t \in Starts, Moved(r, t)
      PROVE  Fitted(r)
  <2>1. booking[r] \in BookingRow
    BY <1>6, RowTypes DEF Moved
  <2>2. /\ booking'[r].service = booking[r].service /\ booking'[r].start = t
        /\ booking'[r].specialist = booking[r].specialist
    BY <1>6, <2>1 DEF Moved, BookingRow
  <2>. QED BY <1>6, <2>1, <2>2 DEF Moved, Fitted, BookingRow
<1>7. ASSUME NEW r \in Bookings, NEW s \in Services, NEW p \in Specialists,
             NEW t \in Starts, Reserved(r, s, p, t)
      PROVE  Fitted(r)
  <2>1. Swept[r] = booking[r] /\ booking[r].status = "absent"
    BY <1>7 DEF Reserved, Swept, Stale
  <2>2. r \notin Occupied(s, p, t, Swept)
    BY <2>1 DEF Occupied, Active
  <2>3. Occupied(s, p, t, Swept) \cap Bookings
          = Occupied(s, p, t, Swept) \cap (Bookings \ {r})
    BY <2>2
  <2>. QED BY <1>7, <2>3 DEF Reserved, Fitted, Available
<1>8. CASE BookingMoves
  BY <1>1, <1>2, <1>3, <1>4, <1>6, <1>7, <1>8 DEF BookingMoves, AllSwept
<1>9. CASE booking' = booking
  BY <1>9 DEF Stays
<1>10. ASSUME NEW y \in Payments, PaidStep(y)
       PROVE  \/ \A x \in Bookings : Stays(x)
              \/ \E r \in Bookings : /\ \A x \in Bookings \ {r} : Stays(x)
                                     /\ Stays(r) \/ Fitted(r)
  BY <1>2, <1>5, <1>9, <1>10 DEF PaidStep
<1>11. ASSUME NEW y \in Payments, EndedStep(y)
       PROVE  \A x \in Bookings : Stays(x)
  BY <1>1, <1>11 DEF EndedStep, AllSwept
<1>. QED BY <1>8, <1>9, <1>10, <1>11 DEF Step, StartStep

FitsInv == RowsOK /\ EachGroupFits

LEMMA RowsInit == Init => RowsOK
<1> SUFFICES ASSUME Init PROVE RowsOK
  OBVIOUS
<1>1. GatewayTypeOK
  BY AppointmentAssumption
     DEF Init, GatewayInit, GatewayTypeOK, NoPayment, PaymentRow, PaymentStatus,
         WorkerState, SessionState
<1>. QED BY <1>1 DEF Init, ReservationInit, RowsOK

LEMMA RowsStep == RowsOK /\ [Next]_vars => RowsOK' /\ (Step \/ UNCHANGED vars)
<1> SUFFICES ASSUME RowsOK, [Next]_vars PROVE RowsOK' /\ (Step \/ UNCHANGED vars)
  OBVIOUS
<1>1. CASE UNCHANGED vars
  BY <1>1 DEF RowsOK, GatewayTypeOK, vars
<1>. QED BY <1>1, NextSteps

LEMMA FitsInvStep == FitsInv /\ [Next]_vars => FitsInv'
<1> SUFFICES ASSUME FitsInv, [Next]_vars PROVE FitsInv'
  OBVIOUS
<1>1. RowsOK /\ EachGroupFits /\ RowsOK' /\ (Step \/ UNCHANGED vars)
  BY RowsStep DEF FitsInv
<1>2. CASE UNCHANGED vars
  <2>1. \A x \in Bookings : Stays(x)
    BY <1>2 DEF vars, Stays
  <2>. QED BY <1>1, <2>1, GroupsKept DEF FitsInv
<1>3. CASE Step
  <2>1. CASE \A x \in Bookings : Stays(x)
    BY <1>1, <2>1, GroupsKept DEF FitsInv
  <2>2. ASSUME NEW r \in Bookings, \A x \in Bookings \ {r} : Stays(x),
               Stays(r) \/ Fitted(r)
        PROVE  EachGroupFits'
    BY <1>1, <2>2, GroupsStep
  <2>. QED BY <1>1, <1>3, <2>1, <2>2, StepFits DEF FitsInv
<1>. QED BY <1>1, <1>2, <1>3

(* A specialist never serves more customers at once than the service of    *)
(* one of them allows, for any services, specialists and bookings          *)
(* (available_slots, hold_reservation, ReservationRescheduleView).         *)
THEOREM NeverOverbookedAlways == Spec => []NeverOverbooked
<1>1. Init => FitsInv
  <2> SUFFICES ASSUME Init PROVE FitsInv
    OBVIOUS
  <2>1. \A p \in Specialists, t \in Starts : Serving(p, t) = {}
    BY DEF Init, ReservationInit, NoBooking, Serving, Active
  <2>. QED BY <2>1, RowsInit DEF FitsInv, EachGroupFits
<1>2. FitsInv /\ [Next]_vars => FitsInv'
  BY FitsInvStep
<1>3. FitsInv => NeverOverbooked
  BY DEF FitsInv, EachGroupFits, NeverOverbooked
<1>. QED BY <1>1, <1>2, <1>3, PTL DEF Spec

----------------------------------------------------------------------------
(* Fees.  A payment is for a booking that exists, for the fee of its       *)
(* service, which no step changes; a booking is paid exactly when one      *)
(* payment for it is complete, and refunded only when it is cancelled.     *)

PaysFee(y) ==
  LET r == payment[y].target
  IN /\ r \in Bookings /\ booking[r].status # "absent"
     /\ payment[y].amount = Fee[booking[r].service]

Needs(r) == booking[r].status \in {"asked", "confirmed", "completed", "noshow"}

FeesPaid ==
  /\ \A y \in Payments : payment[y].status # "absent" => PaysFee(y)
  /\ \A y \in Payments :
       payment[y].status = "complete" => booking[payment[y].target].paid
  /\ \A y, z \in Payments :
       /\ payment[y].status = "complete" /\ payment[z].status = "complete"
       /\ payment[y].target = payment[z].target
       => y = z
  /\ \A r \in Bookings :
       /\ booking[r].paid /\ Fee[booking[r].service] > 0 => PaidBy(r) # {}
       /\ Needs(r) => booking[r].paid
       /\ booking[r].status = "absent" => ~booking[r].paid
       /\ booking[r].refunded => booking[r].status = "cancelled"

(* What a step may do to a row, for the fees' sake: nothing, fill it, give *)
(* it back or pay for it.                                                  *)
Unpriced(x) ==
  /\ booking'[x].service = booking[x].service
  /\ booking'[x].paid = booking[x].paid
  /\ booking'[x].refunded = booking[x].refunded
  /\ booking'[x].status = "cancelled" <=> booking[x].status = "cancelled"
  /\ booking'[x].status = "absent" <=> booking[x].status = "absent"
  /\ Needs(x)' => Needs(x)

Filled(x) ==
  /\ booking[x].status = "absent"
  /\ booking'[x].status # "absent" /\ booking'[x].status # "cancelled"
  /\ booking'[x].paid <=> ~(Fee[booking'[x].service] > 0)
  /\ ~booking'[x].refunded
  /\ Needs(x)' => booking'[x].paid

Returned(x) ==
  /\ booking[x].status # "absent" /\ booking'[x].status = "cancelled"
  /\ booking'[x].service = booking[x].service
  /\ booking'[x].paid = booking[x].paid

Paid(x) ==
  /\ booking[x].status = "held" /\ booking'[x].status \notin {"absent", "cancelled"}
  /\ booking'[x].service = booking[x].service
  /\ ~booking[x].paid /\ booking'[x].paid
  /\ booking'[x].refunded = booking[x].refunded

LEMMA SweptUnpriced ==
  ASSUME RowsOK, NEW x \in Bookings, Swept1(x)
  PROVE  Unpriced(x)
<1>1. CASE booking'[x] = booking[x]
  BY <1>1 DEF Unpriced, Needs
<1>2. CASE /\ booking[x].status = "held"
           /\ booking'[x] = [booking[x] EXCEPT !.status = "expired"]
  <2>1. booking[x] \in BookingRow
    BY <1>2, RowTypes
  <2>2. /\ booking'[x].status = "expired" /\ booking'[x].service = booking[x].service
        /\ booking'[x].paid = booking[x].paid
        /\ booking'[x].refunded = booking[x].refunded
    BY <1>2, <2>1 DEF BookingRow
  <2>. QED BY <1>2, <2>2 DEF Unpriced, Needs
<1>. QED BY <1>1, <1>2 DEF Swept1

LEMMA MovesFees ==
  ASSUME RowsOK, BookingMoves
  PROVE  \A x \in Bookings : Unpriced(x) \/ Filled(x) \/ Returned(x)
<1>1. CASE AllSwept
  BY <1>1, SweptUnpriced DEF AllSwept
<1>2. ASSUME NEW r \in Bookings, OthersSwept(r)
      PROVE  \A x \in Bookings \ {r} : Unpriced(x)
  BY <1>2, SweptUnpriced DEF OthersSwept
<1>3. ASSUME NEW r \in Bookings, GivenBack(r)
      PROVE  Returned(r)
  BY <1>3 DEF GivenBack, Returned, Active
<1>4. ASSUME NEW r \in Bookings, NEW s \in Services, NEW p \in Specialists,
             NEW t \in Starts, Reserved(r, s, p, t)
      PROVE  Filled(r)
  BY <1>4, SettledActive DEF Reserved, Filled, Needs
<1>5. ASSUME NEW r \in Bookings, NEW t \in Starts, Moved(r, t)
      PROVE  Unpriced(r)
  <2>1. booking[r] \in BookingRow
    BY <1>5, RowTypes DEF Moved
  <2>2. /\ booking'[r].status = Settled(booking[r].service)
        /\ booking'[r].service = booking[r].service
        /\ booking'[r].paid = booking[r].paid
        /\ booking'[r].refunded = booking[r].refunded
    BY <1>5, <2>1 DEF Moved, BookingRow
  <2>. QED BY <1>5, <2>2, SettledActive DEF Moved, Unpriced, Needs
<1>6. ASSUME NEW r \in Bookings, Decided(r)
      PROVE  Unpriced(r)
  <2>1. booking[r] \in BookingRow
    BY <1>6, RowTypes DEF Decided
  <2>2. PICK st \in {"confirmed", "completed", "noshow"} :
          booking'[r] = [booking[r] EXCEPT !.status = st]
    BY <1>6 DEF Decided
  <2>3. /\ booking'[r].status = st
        /\ booking'[r].service = booking[r].service
        /\ booking'[r].paid = booking[r].paid
        /\ booking'[r].refunded = booking[r].refunded
    BY <2>1, <2>2 DEF BookingRow
  <2>. QED BY <1>6, <2>3 DEF Decided, Unpriced, Needs
<1>. QED BY <1>1, <1>2, <1>3, <1>4, <1>5, <1>6 DEF BookingMoves

(* Rows change but payments do not.                                        *)
LEMMA FeesOfRows ==
  ASSUME FeesPaid, SessionsStay,
         \A x \in Bookings : Unpriced(x) \/ Filled(x) \/ Returned(x)
  PROVE  FeesPaid' /\ \A x \in Bookings : PaidBy(x)' = PaidBy(x)
<1>1. \A x \in Bookings : PaidBy(x)' = PaidBy(x)
  BY DEF SessionsStay, PaidBy
<1>2. ASSUME NEW y \in Payments, payment[y].status # "absent"
      PROVE  PaysFee(y)' /\ Fee[booking'[payment[y].target].service]
                             = Fee[booking[payment[y].target].service]
  BY <1>2 DEF FeesPaid, PaysFee, SessionsStay, Unpriced, Filled, Returned
<1>3. ASSUME NEW y \in Payments, payment[y].status = "complete"
      PROVE  booking'[payment[y].target].paid
  <2>1. /\ payment[y].target \in Bookings /\ booking[payment[y].target].paid
        /\ booking[payment[y].target].status # "absent"
    BY <1>3 DEF FeesPaid, PaysFee
  <2>. QED BY <2>1 DEF Unpriced, Filled, Returned
<1>4. ASSUME NEW r \in Bookings
      PROVE  /\ booking'[r].paid /\ Fee[booking'[r].service] > 0 => PaidBy(r) # {}
             /\ Needs(r)' => booking'[r].paid
             /\ booking'[r].status = "absent" => ~booking'[r].paid
             /\ booking'[r].refunded => booking'[r].status = "cancelled"
  <2>0. /\ booking[r].paid /\ Fee[booking[r].service] > 0 => PaidBy(r) # {}
        /\ Needs(r) => booking[r].paid
        /\ booking[r].status = "absent" => ~booking[r].paid
        /\ booking[r].refunded => booking[r].status = "cancelled"
    BY DEF FeesPaid
  <2>1. CASE Unpriced(r)
    BY <2>0, <2>1 DEF Unpriced
  <2>2. CASE Filled(r)
    BY <2>2 DEF Filled
  <2>3. CASE Returned(r)
    BY <2>0, <2>3 DEF Returned, Needs
  <2>. QED BY <2>1, <2>2, <2>3
<1>. QED BY <1>1, <1>2, <1>3, <1>4 DEF FeesPaid, SessionsStay

LEMMA FeesOfPayment ==
  ASSUME RowsOK, FeesPaid, NEW y \in Payments, PaidStep(y)
  PROVE  /\ FeesPaid'
         /\ payment[y].target \in Bookings /\ booking[payment[y].target].status = "held"
         /\ \A x \in Bookings \ {payment[y].target} :
              Unpriced(x) /\ PaidBy(x)' = PaidBy(x)
         /\ Paid(payment[y].target)
<1> DEFINE r == payment[y].target
<1>1. /\ r \in Bookings /\ booking[r].status # "absent"
      /\ payment[y].amount = Fee[booking[r].service]
  BY DEF PaidStep, FeesPaid, PaysFee
<1>2. /\ payment[y].status = "pending" /\ payment'[y].status = "complete"
      /\ SessionMoves(y) /\ PaidFor(r) /\ OthersSwept(r)
  BY <1>1 DEF PaidStep
<1>3. \A x \in Bookings \ {r} : Unpriced(x)
  BY <1>2, SweptUnpriced DEF OthersSwept
<1>4. Paid(r)
  BY <1>2, SettledActive DEF PaidFor, Paid
<1>. HIDE DEF r
<1>5. \A z \in Payments :
        /\ payment'[z].target = payment[z].target
        /\ payment'[z].amount = payment[z].amount
        /\ payment'[z].status = IF z = y THEN "complete" ELSE payment[z].status
  BY <1>2 DEF SessionMoves
<1>6. \A x \in Bookings \ {r} : PaidBy(x)' = PaidBy(x)
  BY <1>5 DEF PaidBy, r
<1>7. y \in PaidBy(r)'
  BY <1>5 DEF PaidBy, r
<1>8. ASSUME NEW z \in Payments, payment'[z].status # "absent"
      PROVE  PaysFee(z)'
  <2>1. payment[z].status # "absent"
    BY <1>2, <1>5, <1>8
  <2>2. PaysFee(z)
    BY <2>1 DEF FeesPaid
  <2>. QED BY <1>3, <1>4, <1>5, <2>2 DEF PaysFee, Unpriced, Paid
<1>9. ASSUME NEW z \in Payments, payment[z].status = "complete"
      PROVE  payment[z].target # r /\ booking'[payment[z].target].paid
  <2>1. payment[z].target \in Bookings /\ booking[payment[z].target].paid
    BY <1>9 DEF FeesPaid, PaysFee
  <2>. QED BY <1>3, <1>4, <2>1 DEF Unpriced, Paid
<1>10. ASSUME NEW z \in Payments, payment'[z].status = "complete"
       PROVE  booking'[payment'[z].target].paid
  BY <1>4, <1>5, <1>9, <1>10 DEF Paid, r
<1>11. ASSUME NEW z \in Payments, NEW w \in Payments,
              payment'[z].status = "complete", payment'[w].status = "complete",
              payment'[z].target = payment'[w].target
       PROVE  z = w
  BY <1>5, <1>9, <1>11 DEF FeesPaid, r
<1>12. ASSUME NEW x \in Bookings
       PROVE  /\ booking'[x].paid /\ Fee[booking'[x].service] > 0 => PaidBy(x)' # {}
              /\ Needs(x)' => booking'[x].paid
              /\ booking'[x].status = "absent" => ~booking'[x].paid
              /\ booking'[x].refunded => booking'[x].status = "cancelled"
  <2>0. /\ booking[x].paid /\ Fee[booking[x].service] > 0 => PaidBy(x) # {}
        /\ Needs(x) => booking[x].paid
        /\ booking[x].status = "absent" => ~booking[x].paid
        /\ booking[x].refunded => booking[x].status = "cancelled"
    BY DEF FeesPaid
  <2>1. CASE x # r
    <3>1. Unpriced(x) /\ PaidBy(x)' = PaidBy(x)
      BY <1>3, <1>6, <2>1
    <3>. QED BY <2>0, <3>1 DEF Unpriced
  <2>2. CASE x = r
    <3>1. PaidBy(x)' # {}
      BY <1>5, <2>2 DEF PaidBy, r
    <3>2. /\ ~booking[x].refunded /\ booking'[x].refunded = booking[x].refunded
          /\ booking'[x].paid /\ booking'[x].status # "absent"
      BY <1>4, <2>0, <2>2 DEF Paid
    <3>. QED BY <3>1, <3>2, Zenon
  <2>. QED BY <2>1, <2>2
<1>13. FeesPaid'
  BY <1>8, <1>10, <1>11, <1>12 DEF FeesPaid
<1>. QED BY <1>1, <1>2, <1>3, <1>4, <1>6, <1>13 DEF r, PaidFor

LEMMA FeesOfStart ==
  ASSUME FeesPaid, NEW y \in Payments, NEW r \in Bookings, StartStep(y, r)
  PROVE  FeesPaid' /\ \A x \in Bookings : PaidBy(x)' = PaidBy(x)
<1>1. \A x \in Bookings : PaidBy(x)' = PaidBy(x)
  BY DEF StartStep, PaidBy
<1>2. \A z \in Payments : payment'[z].status # "absent" => PaysFee(z)'
  BY DEF StartStep, FeesPaid, PaysFee
<1>3. \A z \in Payments :
        payment'[z].status = "complete" =>
          payment'[z] = payment[z]
  BY DEF StartStep
<1>. QED BY <1>1, <1>2, <1>3 DEF FeesPaid, Needs, StartStep

LEMMA FeesOfEnd ==
  ASSUME RowsOK, FeesPaid, NEW y \in Payments, EndedStep(y)
  PROVE  /\ FeesPaid'
         /\ \A x \in Bookings : Unpriced(x) /\ PaidBy(x)' = PaidBy(x)
<1>1. \A x \in Bookings : Unpriced(x)
  BY SweptUnpriced DEF EndedStep, AllSwept
<1>2. \A z \in Payments :
        /\ payment'[z].target = payment[z].target
        /\ payment'[z].amount = payment[z].amount
        /\ payment'[z].status = "complete" <=> payment[z].status = "complete"
        /\ payment'[z].status # "absent" => payment[z].status # "absent"
  BY DEF EndedStep, SessionMoves
<1>3. \A x \in Bookings : PaidBy(x)' = PaidBy(x)
  BY <1>2 DEF PaidBy
<1>4. \A z \in Payments : payment'[z].status # "absent" => PaysFee(z)'
  BY <1>1, <1>2 DEF FeesPaid, PaysFee, Unpriced
<1>5. \A z \in Payments :
        payment'[z].status = "complete" => booking'[payment'[z].target].paid
  BY <1>1, <1>2 DEF FeesPaid, PaysFee, Unpriced
<1>6. ASSUME NEW x \in Bookings
      PROVE  /\ booking'[x].paid /\ Fee[booking'[x].service] > 0 => PaidBy(x)' # {}
             /\ Needs(x)' => booking'[x].paid
             /\ booking'[x].status = "absent" => ~booking'[x].paid
             /\ booking'[x].refunded => booking'[x].status = "cancelled"
  BY <1>1, <1>3 DEF FeesPaid, Unpriced
<1>. QED BY <1>1, <1>2, <1>3, <1>4, <1>5, <1>6 DEF FeesPaid

(* The refunds of a customer: a booking given back adds its fee, when it   *)
(* was paid for, and nothing else changes them.                            *)
Refunded == \A u \in Customers : IsFiniteSet(Refunds(u)) /\ RefundedOnce

LEMMA FeeUnits ==
  ASSUME NEW r, NEW n \in Nat
  PROVE  IsFiniteSet({r} \X (1..n)) /\ Cardinality({r} \X (1..n)) = n
<1>1. IsFiniteSet(1..n) /\ Cardinality(1..n) = n
  BY FS_Interval
<1>2. IsFiniteSet({r}) /\ Cardinality({r}) = 1
  BY FS_Singleton
<1>. QED BY <1>1, <1>2, FS_Product

(* The bookings whose fee a customer got back *)
GotBack(u) == {x \in Bookings : /\ Client[x] = u /\ booking[x].status = "cancelled"
                                 /\ PaidBy(x) # {}}

LEMMA SameRefunds ==
  ASSUME \A x \in Bookings :
           /\ booking'[x].status = "cancelled" <=> booking[x].status = "cancelled"
           /\ booking[x].status = "cancelled" =>
                booking'[x].service = booking[x].service /\ PaidBy(x)' = PaidBy(x)
  PROVE  \A u \in Customers : Refunds(u)' = Refunds(u)
BY DEF Refunds

LEMMA GivenBackRefunds ==
  ASSUME RowsOK, FeesPaid, NEW r \in Bookings, GivenBack(r), OthersSwept(r),
         \A x \in Bookings : PaidBy(x)' = PaidBy(x),
         NEW u \in Customers, IsFiniteSet(Refunds(u)), credit[u] = Cardinality(Refunds(u))
  PROVE  IsFiniteSet(Refunds(u)') /\ credit'[u] = Cardinality(Refunds(u)')
<1> DEFINE fee == Fee[booking[r].service]
           More == {r} \X (1..fee)
<1>1. /\ booking[r].status \in Active /\ booking'[r].status = "cancelled"
      /\ booking'[r].service = booking[r].service
      /\ credit' = IF Refundable(r) THEN [credit EXCEPT ![Client[r]] = @ + fee] ELSE credit
  BY DEF GivenBack, CancelWithRefund
<1>2. booking[r] \in BookingRow
  BY <1>1, RowTypes DEF Active
<1>3. fee \in Nat
  BY <1>2, ReservationAssumption DEF BookingRow
<1>4. \A x \in Bookings \ {r} : Unpriced(x)
  BY SweptUnpriced DEF OthersSwept
<1>5. IsFiniteSet(More) /\ Cardinality(More) = fee
  BY <1>3, FeeUnits
<1>6. booking[r].status # "cancelled" /\ ~booking[r].refunded
  BY <1>1 DEF Active, FeesPaid
<1>7. PaidBy(r) # {} => booking[r].paid
  BY DEF PaidBy, FeesPaid
<1>8. booking[r].paid /\ fee > 0 => PaidBy(r) # {}
  BY DEF FeesPaid
<1>9. Refunds(u)' = IF Client[r] = u /\ PaidBy(r) # {} THEN Refunds(u) \cup More
                    ELSE Refunds(u)
  <2> DEFINE Units(x) == {x} \X (1..Fee[booking[x].service])
  <2>1. ASSUME NEW x \in Bookings \ {r}
        PROVE  x \in GotBack(u)' <=> x \in GotBack(u)
    BY <1>4, <2>1 DEF Unpriced, GotBack
  <2>2. /\ r \notin GotBack(u)
        /\ r \in GotBack(u)' <=> Client[r] = u /\ PaidBy(r) # {}
    BY <1>1, <1>6 DEF GotBack
  <2>3. GotBack(u)' = IF Client[r] = u /\ PaidBy(r) # {} THEN GotBack(u) \cup {r}
                      ELSE GotBack(u)
    <3>1. GotBack(u) \subseteq Bookings /\ GotBack(u)' \subseteq Bookings
      BY DEF GotBack
    <3>. QED BY <2>1, <2>2, <3>1
  <2>4. \A x \in Bookings : Fee[booking'[x].service] = Fee[booking[x].service]
    <3>. QED BY <1>1, <1>4 DEF Unpriced
  <2>5. Refunds(u) = UNION {Units(x) : x \in GotBack(u)}
    BY DEF Refunds, GotBack
  <2>6. Refunds(u)' = UNION {Units(x)' : x \in GotBack(u)'}
    BY DEF Refunds, GotBack
  <2>7. UNION {Units(x)' : x \in GotBack(u)'} = UNION {Units(x) : x \in GotBack(u)'}
    BY <2>4 DEF GotBack
  <2>8. Units(r) = More
    OBVIOUS
  <2>. HIDE DEF Units, More
  <2>. QED BY <2>3, <2>5, <2>6, <2>7, <2>8
<1>10. Refunds(u) \cap More = {}
  BY <1>6 DEF Refunds
<1>. HIDE DEF More
<1>11. /\ IsFiniteSet(Refunds(u) \cup More)
       /\ Cardinality(Refunds(u) \cup More) = Cardinality(Refunds(u)) + fee
  <2>1. Cardinality(Refunds(u) \cap More) = 0
    BY <1>10, FS_EmptySet
  <2>2. Cardinality(Refunds(u)) \in Nat
    BY FS_CardinalityType
  <2>. QED BY <1>3, <1>5, <2>1, <2>2, FS_Union
<1>. HIDE DEF fee
<1>12. CASE Client[r] = u /\ PaidBy(r) # {}
  <2>1. Refundable(r) <=> fee > 0
    BY <1>6, <1>7, <1>12 DEF Refundable, fee
  <2>2. credit'[u] = credit[u] + fee
    <3>1. credit[u] \in Nat /\ credit \in [Customers -> Nat]
      BY DEF RowsOK
    <3>2. CASE fee > 0
      BY <1>1, <1>12, <2>1, <3>1, <3>2 DEF fee
    <3>3. CASE fee = 0
      BY <1>1, <2>1, <3>1, <3>3
    <3>. QED BY <1>3, <3>2, <3>3
  <2>. QED BY <1>9, <1>11, <1>12, <2>2
<1>13. CASE ~(Client[r] = u /\ PaidBy(r) # {})
  <2>1. Client[r] = u => ~Refundable(r)
    BY <1>8, <1>13 DEF Refundable, fee
  <2>2. credit'[u] = credit[u]
    BY <1>1, <2>1 DEF RowsOK
  <2>. QED BY <1>9, <1>13, <2>2
<1>. QED BY <1>12, <1>13

LEMMA FeesInit == Init => FeesPaid /\ Refunded
<1> SUFFICES ASSUME Init PROVE FeesPaid /\ Refunded
  OBVIOUS
<1>1. /\ \A r \in Bookings : /\ booking[r].status = "absent"
                              /\ ~booking[r].paid /\ ~booking[r].refunded
      /\ \A y \in Payments : payment[y].status = "absent"
      /\ \A u \in Customers : credit[u] = 0
  BY DEF Init, ReservationInit, GatewayInit, NoBooking, NoPayment
<1>2. FeesPaid
  BY <1>1 DEF FeesPaid, Needs
<1>3. \A u \in Customers : Refunds(u) = {}
  BY <1>1 DEF Refunds
<1>. QED BY <1>1, <1>2, <1>3, FS_EmptySet DEF Refunded, RefundedOnce

LEMMA FeesStep ==
  ASSUME RowsOK, FeesPaid, Refunded, Step
  PROVE  FeesPaid' /\ Refunded'
<1>1. ASSUME \A u \in Customers : Refunds(u)' = Refunds(u), credit' = credit
      PROVE  Refunded'
  BY <1>1 DEF Refunded, RefundedOnce
<1>2. ASSUME \A x \in Bookings : \/ Unpriced(x) \/ Filled(x)
                                 \/ Paid(x),
             \A x \in Bookings : Paid(x) \/ PaidBy(x)' = PaidBy(x), credit' = credit
      PROVE  Refunded'
  <2>1. ASSUME NEW x \in Bookings
        PROVE  /\ booking'[x].status = "cancelled" <=> booking[x].status = "cancelled"
               /\ booking[x].status = "cancelled" =>
                    booking'[x].service = booking[x].service /\ PaidBy(x)' = PaidBy(x)
    <3>1. Unpriced(x) \/ Filled(x) \/ Paid(x)
      BY <1>2
    <3>2. Paid(x) \/ PaidBy(x)' = PaidBy(x)
      BY <1>2
    <3>. QED BY <3>1, <3>2 DEF Unpriced, Filled, Paid
  <2>. QED BY <1>1, <1>2, <2>1, SameRefunds
<1>3. ASSUME BookingMoves, payment' = payment
      PROVE  FeesPaid' /\ Refunded'
  <2>1. /\ SessionsStay
        /\ \A x \in Bookings : Unpriced(x) \/ Filled(x) \/ Returned(x)
    BY <1>3, MovesFees DEF SessionsStay
  <2>2. FeesPaid' /\ \A x \in Bookings : PaidBy(x)' = PaidBy(x)
    BY <2>1, FeesOfRows
  <2>3. ASSUME NEW r \in Bookings, OthersSwept(r), GivenBack(r)
        PROVE  Refunded'
    BY <2>2, <2>3, GivenBackRefunds DEF Refunded, RefundedOnce
  <2>4. ASSUME NEW r \in Bookings, OthersSwept(r), Unpriced(r) \/ Filled(r),
               credit' = credit
        PROVE  Refunded'
    <3>1. \A x \in Bookings : Unpriced(x) \/ Filled(x) \/ Paid(x)
      BY <2>4, SweptUnpriced DEF OthersSwept
    <3>. QED BY <1>2, <2>2, <2>4, <3>1
  <2>5. CASE AllSwept /\ credit' = credit
    <3>1. \A x \in Bookings : Unpriced(x)
      BY <2>5, SweptUnpriced DEF AllSwept
    <3>. QED BY <1>2, <2>2, <2>5, <3>1
  <2>6. ASSUME NEW r \in Bookings,
               \/ \E s \in Services, p \in Specialists, t \in Starts : Reserved(r, s, p, t)
               \/ \E t \in Starts : Moved(r, t)
               \/ Decided(r)
        PROVE  ~Returned(r)
    BY <2>6, SettledActive, RowTypes DEF Reserved, Moved, Decided, Returned, BookingRow
  <2>. QED BY <1>3, <2>1, <2>2, <2>3, <2>4, <2>5, <2>6 DEF BookingMoves
<1>4. ASSUME booking' = booking, credit' = credit, SessionsStay
      PROVE  FeesPaid' /\ Refunded'
  <2>1. \A x \in Bookings : Unpriced(x)
    BY <1>4 DEF Unpriced, Needs
  <2>2. FeesPaid' /\ \A x \in Bookings : PaidBy(x)' = PaidBy(x)
    BY <1>4, <2>1, FeesOfRows
  <2>. QED BY <1>2, <1>4, <2>1, <2>2
<1>5. ASSUME NEW y \in Payments, PaidStep(y)
      PROVE  FeesPaid' /\ Refunded'
  <2>1. credit' = credit
    BY <1>5 DEF PaidStep
  <2>. QED BY <1>2, <1>5, <2>1, FeesOfPayment
<1>6. ASSUME NEW y \in Payments, EndedStep(y)
      PROVE  FeesPaid' /\ Refunded'
  BY <1>2, <1>6, FeesOfEnd DEF EndedStep
<1>7. ASSUME NEW y \in Payments, NEW r \in Bookings, StartStep(y, r)
      PROVE  FeesPaid' /\ Refunded'
  <2>1. \A x \in Bookings : Unpriced(x)
    BY <1>7 DEF StartStep, Unpriced, Needs
  <2>. QED BY <1>2, <1>7, <2>1, FeesOfStart DEF StartStep
<1>. QED BY <1>3, <1>4, <1>5, <1>6, <1>7 DEF Step

(* What a customer was charged for a booking is its fee, once, and is back *)
(* in the wallet, once, when the booking is cancelled: the customer's and  *)
(* the owner's cancellation, a sweep and a late payment race one another.  *)
THEOREM FeesAlwaysAgree == Spec => []FeesAgree
<1> DEFINE Inv == RowsOK /\ FeesPaid /\ Refunded
<1>1. Init => Inv
  BY RowsInit, FeesInit
<1>2. Inv /\ [Next]_vars => Inv'
  <2> SUFFICES ASSUME RowsOK, FeesPaid, Refunded, [Next]_vars PROVE Inv'
    OBVIOUS
  <2>1. RowsOK' /\ (Step \/ UNCHANGED vars)
    BY RowsStep
  <2>2. CASE UNCHANGED vars
    BY <2>1, <2>2 DEF vars, FeesPaid, PaysFee, PaidBy, Needs, Refunded, Refunds, RefundedOnce
  <2>. QED BY <2>1, <2>2, FeesStep
<1>3. Inv => FeesAgree
  <2> SUFFICES ASSUME Inv PROVE FeesAgree
    OBVIOUS
  <2>1. ASSUME NEW r \in Bookings
        PROVE  Cardinality(PaidBy(r)) <= 1
    <3>1. CASE PaidBy(r) = {}
      BY <3>1, FS_EmptySet
    <3>2. ASSUME NEW y \in PaidBy(r)
          PROVE  PaidBy(r) = {y}
      BY <3>2 DEF PaidBy, FeesPaid
    <3>. QED BY <3>1, <3>2, FS_Singleton
  <2>2. ASSUME NEW r \in Bookings, NEW y \in PaidBy(r)
        PROVE  payment[y].amount = Fee[booking[r].service] /\ booking[r].paid
    BY <2>2 DEF PaidBy, FeesPaid, PaysFee
  <2>3. \A r \in Bookings :
          /\ booking[r].paid /\ Fee[booking[r].service] > 0 => PaidBy(r) # {}
          /\ Needs(r) => booking[r].paid
    BY DEF FeesPaid
  <2>4. PaidForOnce
    BY <2>1, <2>2, <2>3 DEF PaidForOnce, Needs
  <2>5. RefundedOnce
    BY DEF Refunded, RefundedOnce
  <2>. QED BY <2>4, <2>5 DEF FeesAgree
<1>. QED BY <1>1, <1>2, <1>3, PTL DEF Spec

----------------------------------------------------------------------------
(* What a store offers, and what was booked of it (AppointmentSetup)       *)

(* A specialist's services are those of one store, his.                    *)
OffersFit ==
  \A p \in ShopSpecialists : \A s \in specialist[p].offers :
    specialist[p].shop = ShopOf[s] /\ Live(specialist[p].state)

Stands(v) ==
  LET r == visit[v]
  IN /\ Live(service[r.service])
     /\ r.service \in specialist[r.specialist].offers
     /\ r.time # Nobody =>
          /\ fixed[r.time].there /\ fixed[r.time].service = r.service
          /\ fixed[r.time].day = r.day /\ fixed[r.time].at = r.at

(* From the moment its service is locked a booking stands, made or not. *)
Sure(v) == visit[v].made \/ attempt[v] = "checked"

SetupInv ==
  /\ SetupTypeOK /\ OffersFit /\ HoursApart
  /\ \A v \in Visits : /\ attempt[v] # "none" => ~visit[v].made
                       /\ attempt[v] # "none" \/ visit[v].made =>
                            visit[v].specialist \in ShopSpecialists
                       /\ Sure(v) => Stands(v)

LEMMA NoVisitRow ==
  NoVisit \in VisitRow /\ NoVisit.made = FALSE
<1>1. PICK i \in Hours, j \in Hours : i < j
  BY SetupAssumption
<1>2. <<i, j>> \in Interval
  BY <1>1 DEF Interval
<1>3. (CHOOSE k \in Interval : TRUE) \in Interval
  BY <1>2
<1>4. /\ (CHOOSE s \in ShopServices : TRUE) \in ShopServices
      /\ (CHOOSE d \in Days : TRUE) \in Days
  BY SetupAssumption
<1>. QED BY <1>3, <1>4 DEF NoVisit, VisitRow

LEMMA FixedRows ==
  ASSUME NEW r \in FixedRow
  PROVE  /\ [r EXCEPT !.there = FALSE] \in FixedRow
         /\ \A day \in Days, at \in Interval : [r EXCEPT !.day = day, !.at = at] \in FixedRow
<1>1. [r EXCEPT !.there = FALSE] \in FixedRow
  BY DEF FixedRow
<1>2. \A day \in Days, at \in Interval : [r EXCEPT !.day = day, !.at = at] \in FixedRow
  BY DEF FixedRow
<1>. QED BY <1>1, <1>2

LEMMA OfferedWithout ==
  ASSUME NEW r \in SpecialistRow, NEW s \in ShopServices,
         NEW n, n = [r EXCEPT !.offers = @ \ {s}]
  PROVE  /\ n \in SpecialistRow /\ n.offers = r.offers \ {s}
         /\ n.shop = r.shop /\ n.state = r.state
BY DEF SpecialistRow

LEMMA MadeRow ==
  ASSUME NEW r \in VisitRow, NEW n, n = [r EXCEPT !.made = TRUE]
  PROVE  /\ n \in VisitRow /\ n.specialist = r.specialist /\ n.service = r.service
         /\ n.time = r.time /\ n.day = r.day /\ n.at = r.at
BY DEF VisitRow

LEMMA SetupInvInit == SetupInit => SetupInv
<1>. SUFFICES ASSUME SetupInit PROVE SetupInv
  OBVIOUS
<1>. USE DEF SetupInit
<1>1. /\ NoVisit \in VisitRow /\ NoVisit.made = FALSE
      /\ NoVisit.service \in ShopServices /\ NoVisit.day \in Days /\ NoVisit.at \in Interval
  BY NoVisitRow DEF VisitRow
<1>2. /\ specialist \in [ShopSpecialists -> SpecialistRow]
      /\ \A p \in ShopSpecialists : specialist[p].offers = {}
  BY DEF SpecialistRow, ServiceState
<1>3. fixed \in [FixedTimes -> FixedRow]
  BY <1>1 DEF FixedRow
<1>4. SetupTypeOK
  BY <1>1, <1>2, <1>3 DEF SetupTypeOK, ServiceState, BookingStep
<1>5. \A v \in Visits : attempt[v] = "none" /\ visit[v].made = FALSE
  BY <1>1
<1>. QED BY <1>2, <1>4, <1>5 DEF SetupInv, OffersFit, HoursApart, Sure

(* A change of the setup leaves alone what is sure. *)
LEMMA OfferChanged ==
  ASSUME SetupInv, SetupTypeOK', OffersFit', HoursApart', UNCHANGED <<visit, attempt>>,
         \A v \in Visits : Sure(v) /\ Stands(v) => Stands(v)'
  PROVE  SetupInv'
BY DEF SetupInv, Sure

LEMMA WeekChanged ==
  ASSUME SetupInv, SetupTypeOK', HoursApart',
         UNCHANGED <<service, specialist, fixed, visit, attempt>>
  PROVE  SetupInv'
BY DEF SetupInv, Sure, Stands, OffersFit

(* Whose service is locked is not sure of another's. *)
LEMMA FreeOrMade ==
  ASSUME SetupInv, NEW v \in Visits, Sure(v)
  PROVE  /\ \A s \in ShopServices : ServiceFree(s) /\ visit[v].service = s => visit[v].made
         /\ \A p \in ShopSpecialists :
              SpecialistFree(p) /\ visit[v].specialist = p => visit[v].made
BY DEF SetupInv, Sure, ServiceFree, SpecialistFree

LEMMA SetupStep == SetupInv /\ [SetupNext]_setupVars => SetupInv'
<1>. SUFFICES ASSUME SetupInv, [SetupNext]_setupVars PROVE SetupInv'
  OBVIOUS
<1>. USE SetupAssumption
<1>1. SetupTypeOK /\ OffersFit /\ HoursApart
  BY DEF SetupInv
<1>2. /\ service \in [ShopServices -> ServiceState]
      /\ specialist \in [ShopSpecialists -> SpecialistRow]
      /\ fixed \in [FixedTimes -> FixedRow]
      /\ visit \in [Visits -> VisitRow]
      /\ attempt \in [Visits -> BookingStep]
      /\ hours \in [Shops -> SUBSET (Days \X Interval)]
      /\ closed \subseteq (Shops \cup ShopSpecialists) \X Days
  BY <1>1 DEF SetupTypeOK
<1>3. \A v \in Visits : /\ attempt[v] # "none" => ~visit[v].made
                        /\ attempt[v] # "none" \/ visit[v].made =>
                             visit[v].specialist \in ShopSpecialists
                        /\ visit[v].service \in ShopServices
                        /\ visit[v].time \in FixedTimes \cup {Nobody}
                        /\ Sure(v) => Stands(v)
  BY <1>2 DEF SetupInv, VisitRow
<1>4. ASSUME NEW s \in ShopServices, NEW state \in {"active", "inactive"}, SaveService(s, state)
      PROVE  SetupInv'
  <2>1. /\ service' = [service EXCEPT ![s] = state]
        /\ UNCHANGED <<specialist, fixed, visit, attempt, hours, closed>>
    BY <1>4 DEF SaveService
  <2>2. SetupTypeOK'
    BY <1>2, <2>1 DEF SetupTypeOK, ServiceState
  <2>3. OffersFit' /\ HoursApart'
    BY <1>1, <2>1 DEF OffersFit, HoursApart
  <2>4. ASSUME NEW v \in Visits, Stands(v) PROVE Stands(v)'
    BY <1>2, <1>3, <2>1, <2>4 DEF Stands, Live
  <2>. QED BY <2>1, <2>2, <2>3, <2>4, OfferChanged
<1>5. ASSUME NEW s \in ShopServices, DeleteService(s) PROVE SetupInv'
  <2>1. /\ service' = [service EXCEPT ![s] = "deleted"]
        /\ specialist' = [p \in ShopSpecialists |->
                            [specialist[p] EXCEPT !.offers = @ \ {s}]]
        /\ fixed' = [t \in FixedTimes |->
             IF fixed[t].service = s THEN [fixed[t] EXCEPT !.there = FALSE] ELSE fixed[t]]
        /\ ServiceFree(s) /\ ~Booked(s)
        /\ UNCHANGED <<visit, attempt, hours, closed>>
    BY <1>5 DEF DeleteService
  <2>2. /\ specialist' \in [ShopSpecialists -> SpecialistRow]
        /\ \A p \in ShopSpecialists :
             /\ specialist'[p].offers = specialist[p].offers \ {s}
             /\ specialist'[p].shop = specialist[p].shop
             /\ specialist'[p].state = specialist[p].state
    <3>1. ASSUME NEW p \in ShopSpecialists
          PROVE  /\ specialist'[p] \in SpecialistRow
                 /\ specialist'[p].offers = specialist[p].offers \ {s}
                 /\ specialist'[p].shop = specialist[p].shop
                 /\ specialist'[p].state = specialist[p].state
      <4>1. specialist[p] \in SpecialistRow
        BY <1>2
      <4>2. specialist'[p] = [specialist[p] EXCEPT !.offers = @ \ {s}]
        BY <2>1
      <4>. QED BY <4>1, <4>2, OfferedWithout
    <3>. QED BY <2>1, <3>1
  <2>3. /\ fixed' \in [FixedTimes -> FixedRow]
        /\ \A t \in FixedTimes : fixed[t].service # s => fixed'[t] = fixed[t]
    BY <1>2, <2>1 DEF FixedRow
  <2>4. service' \in [ShopServices -> ServiceState]
    BY <1>2, <2>1 DEF ServiceState
  <2>5. SetupTypeOK'
    BY <1>2, <2>1, <2>2, <2>3, <2>4 DEF SetupTypeOK
  <2>6. OffersFit' /\ HoursApart'
    BY <1>1, <2>1, <2>2 DEF OffersFit, HoursApart
  <2>7. ASSUME NEW v \in Visits, Sure(v), Stands(v) PROVE Stands(v)'
    <3>1. visit[v].service # s
      BY <2>1, <2>7, FreeOrMade DEF Booked
    <3>2. visit[v].specialist \in ShopSpecialists
      BY <1>3, <2>7 DEF Sure
    <3>3. service'[visit[v].service] = service[visit[v].service]
      BY <1>2, <1>3, <2>1, <3>1
    <3>4. visit[v].service \in specialist'[visit[v].specialist].offers
      BY <2>2, <2>7, <3>1, <3>2 DEF Stands
    <3>5. visit[v].time # Nobody => fixed'[visit[v].time] = fixed[visit[v].time]
      BY <1>3, <2>3, <2>7, <3>1 DEF Stands
    <3>. QED BY <2>1, <2>7, <3>3, <3>4, <3>5 DEF Stands
  <2>. QED BY <2>1, <2>5, <2>6, <2>7, OfferChanged
<1>6. ASSUME NEW p \in ShopSpecialists, NEW S \in SUBSET ShopServices,
             NEW state \in {"active", "inactive"}, S # {},
             specialist' = [specialist EXCEPT ![p] = OfferedBy(state, S)],
             \A r, s \in S : ShopOf[r] = ShopOf[s],
             \A v \in Visits : Sure(v) /\ visit[v].specialist = p => visit[v].service \in S,
             UNCHANGED <<service, fixed, visit, attempt, hours, closed>>
      PROVE  SetupInv'
  <2>1. PICK one \in S : one = (CHOOSE s \in S : TRUE)
    BY <1>6
  <2>2. /\ OfferedBy(state, S) \in SpecialistRow
        /\ OfferedBy(state, S).state = state /\ OfferedBy(state, S).offers = S
        /\ OfferedBy(state, S).shop = ShopOf[one]
    BY <2>1 DEF OfferedBy, SpecialistRow, ServiceState
  <2>3. /\ specialist' \in [ShopSpecialists -> SpecialistRow]
        /\ specialist'[p] = OfferedBy(state, S)
        /\ \A q \in ShopSpecialists : q # p => specialist'[q] = specialist[q]
    BY <1>2, <1>6, <2>2
  <2>4. SetupTypeOK'
    BY <1>2, <1>6, <2>3 DEF SetupTypeOK
  <2>5. OffersFit'
    BY <1>1, <1>6, <2>1, <2>2, <2>3 DEF OffersFit, Live
  <2>6. HoursApart'
    BY <1>1, <1>6 DEF HoursApart
  <2>7. ASSUME NEW v \in Visits, Sure(v), Stands(v) PROVE Stands(v)'
    <3>1. visit[v].specialist \in ShopSpecialists
      BY <1>3, <2>7 DEF Sure
    <3>2. visit[v].service \in specialist'[visit[v].specialist].offers
      BY <1>6, <2>2, <2>3, <2>7, <3>1 DEF Stands
    <3>. QED BY <1>6, <2>7, <3>2 DEF Stands
  <2>. QED BY <1>6, <2>4, <2>5, <2>6, <2>7, OfferChanged
<1>7. ASSUME NEW p \in ShopSpecialists, NEW S \in SUBSET ShopServices, CreateSpecialist(p, S)
      PROVE  SetupInv'
  <2>1. PICK state \in {"active", "inactive"} :
          specialist' = [specialist EXCEPT ![p] = OfferedBy(state, S)]
    BY <1>7 DEF CreateSpecialist
  <2>2. /\ S # {} /\ \A r, s \in S : ShopOf[r] = ShopOf[s]
        /\ specialist[p].state = "none"
        /\ UNCHANGED <<service, fixed, visit, attempt, hours, closed>>
    BY <1>7 DEF CreateSpecialist, Offerable
  <2>3. ASSUME NEW v \in Visits, Sure(v) PROVE visit[v].specialist # p
    BY <1>1, <1>3, <2>2, <2>3 DEF Stands, OffersFit, Live
  <2>4. \A v \in Visits : Sure(v) /\ visit[v].specialist = p => visit[v].service \in S
    BY <2>3
  <2>. QED BY <1>6, <2>1, <2>2, <2>4
<1>8. ASSUME NEW p \in ShopSpecialists, NEW S \in SUBSET ShopServices,
             NEW state \in {"active", "inactive"}, UpdateSpecialist(p, state, S)
      PROVE  SetupInv'
  <2>1. /\ Kept(p) /\ SpecialistFree(p)
        /\ specialist' = [specialist EXCEPT ![p] = OfferedBy(state, S)]
        /\ UNCHANGED <<service, fixed, visit, attempt, hours, closed>>
    BY <1>8 DEF UpdateSpecialist
  <2>2. \/ S = specialist[p].offers
        \/ Offerable(S, specialist[p].offers) /\ BookedWith(p) \subseteq S
    BY <1>8 DEF UpdateSpecialist
  <2>3. S # {} /\ \A r, s \in S : ShopOf[r] = ShopOf[s]
    BY <1>1, <2>1, <2>2 DEF Offerable, Kept, OffersFit
  <2>4. ASSUME NEW v \in Visits, Sure(v), visit[v].specialist = p PROVE visit[v].service \in S
    <3>1. visit[v].made
      BY <2>1, <2>4, FreeOrMade
    <3>2. visit[v].service \in BookedWith(p)
      BY <2>4, <3>1 DEF BookedWith
    <3>3. visit[v].service \in specialist[p].offers
      BY <1>3, <2>4 DEF Stands
    <3>. QED BY <2>2, <3>2, <3>3
  <2>. QED BY <1>6, <2>1, <2>3, <2>4
<1>9. ASSUME NEW p \in ShopSpecialists, DeleteSpecialist(p) PROVE SetupInv'
  <2>1. /\ SpecialistFree(p) /\ BookedWith(p) = {}
        /\ specialist' = [specialist EXCEPT ![p] =
                            [state |-> "deleted", offers |-> {}, shop |-> Nobody]]
        /\ closed' \subseteq closed
        /\ UNCHANGED <<service, fixed, visit, attempt, hours>>
    BY <1>9 DEF DeleteSpecialist
  <2>2. /\ specialist' \in [ShopSpecialists -> SpecialistRow]
        /\ specialist'[p].offers = {}
        /\ \A q \in ShopSpecialists : q # p => specialist'[q] = specialist[q]
    BY <1>2, <2>1 DEF SpecialistRow, ServiceState
  <2>3. SetupTypeOK'
    BY <1>2, <2>1, <2>2 DEF SetupTypeOK
  <2>4. OffersFit' /\ HoursApart'
    BY <1>1, <2>1, <2>2 DEF OffersFit, HoursApart
  <2>5. ASSUME NEW v \in Visits, Sure(v), Stands(v) PROVE Stands(v)'
    <3>1. visit[v].specialist \in ShopSpecialists
      BY <1>3, <2>5 DEF Sure
    <3>2. visit[v].specialist # p
      BY <2>1, <2>5, FreeOrMade DEF BookedWith
    <3>. QED BY <2>1, <2>2, <2>5, <3>1, <3>2 DEF Stands
  <2>. QED BY <2>1, <2>3, <2>4, <2>5, OfferChanged
<1>10. ASSUME NEW t \in FixedTimes, NEW row \in FixedRow,
              fixed' = [fixed EXCEPT ![t] = row],
              ~Taken(t), fixed[t].there => ServiceFree(fixed[t].service),
              UNCHANGED <<service, specialist, visit, attempt, hours, closed>>
       PROVE  SetupInv'
  <2>1. /\ fixed' \in [FixedTimes -> FixedRow]
        /\ \A u \in FixedTimes : u # t => fixed'[u] = fixed[u]
    BY <1>2, <1>10
  <2>2. SetupTypeOK'
    BY <1>2, <1>10, <2>1 DEF SetupTypeOK
  <2>3. OffersFit' /\ HoursApart'
    BY <1>1, <1>10 DEF OffersFit, HoursApart
  <2>4. ASSUME NEW v \in Visits, Sure(v), Stands(v) PROVE Stands(v)'
    <3>1. visit[v].time # t
      <4>. SUFFICES ASSUME visit[v].time = t PROVE FALSE
        OBVIOUS
      <4>1. fixed[t].there /\ fixed[t].service = visit[v].service
        BY <2>4 DEF Stands
      <4>2. visit[v].made
        BY <1>3, <1>10, <2>4, <4>1, FreeOrMade
      <4>. QED BY <1>10, <4>2 DEF Taken
    <3>. QED BY <1>3, <1>10, <2>1, <2>4, <3>1 DEF Stands
  <2>. QED BY <1>10, <2>2, <2>3, <2>4, OfferChanged
<1>11. ASSUME NEW t \in FixedTimes, NEW s \in ShopServices, NEW day \in Days,
              NEW at \in Interval, CreateFixed(t, s, day, at)
       PROVE  SetupInv'
  <2>1. [there |-> TRUE, service |-> s, day |-> day, at |-> at] \in FixedRow
    BY DEF FixedRow
  <2>2. ~Taken(t) /\ (fixed[t].there => ServiceFree(fixed[t].service))
    BY <1>11 DEF CreateFixed
  <2>. QED BY <1>10, <1>11, <2>1, <2>2 DEF CreateFixed
<1>12. ASSUME NEW t \in FixedTimes, NEW day \in Days, NEW at \in Interval,
              UpdateFixed(t, day, at)
       PROVE  SetupInv'
  <2>1. [fixed[t] EXCEPT !.day = day, !.at = at] \in FixedRow
    BY <1>2, FixedRows
  <2>. QED BY <1>10, <1>12, <2>1 DEF UpdateFixed
<1>13. ASSUME NEW t \in FixedTimes, DeleteFixed(t) PROVE SetupInv'
  <2>1. [fixed[t] EXCEPT !.there = FALSE] \in FixedRow
    BY <1>2, FixedRows
  <2>. QED BY <1>10, <1>13, <2>1 DEF DeleteFixed
<1>14. ASSUME NEW m \in Shops, NEW H \in SUBSET (Days \X Interval), SetHours(m, H),
              \A g, h \in H : g # h => g[1] # h[1] \/ ~Overlap(g[2], h[2])
       PROVE  SetupInv'
  <2>1. /\ hours' = [hours EXCEPT ![m] = H]
        /\ UNCHANGED <<service, specialist, fixed, visit, attempt, closed>>
    BY <1>14 DEF SetHours
  <2>2. SetupTypeOK'
    BY <1>2, <2>1 DEF SetupTypeOK
  <2>3. HoursApart'
    BY <1>1, <1>2, <1>14, <2>1 DEF HoursApart
  <2>. QED BY <2>1, <2>2, <2>3, WeekChanged
<1>15. ASSUME NEW m \in Shops, NEW H \in SUBSET hours[m], NEW day \in Days, NEW at \in Interval,
              ~ClashesWith(H, day, at), SetHours(m, H \cup {<<day, at>>})
       PROVE  SetupInv'
  <2>1. H \cup {<<day, at>>} \in SUBSET (Days \X Interval)
    BY <1>2
  <2>2. \A g, h \in H : g # h => g[1] # h[1] \/ ~Overlap(g[2], h[2])
    BY <1>1 DEF HoursApart
  <2>3. \A g \in H : g[1] # day \/ ~Overlap(g[2], at)
    BY <1>15 DEF ClashesWith
  <2>4. \A g, h \in H \cup {<<day, at>>} : g # h => g[1] # h[1] \/ ~Overlap(g[2], h[2])
    BY <2>2, <2>3 DEF Overlap
  <2>. QED BY <1>14, <1>15, <2>1, <2>4
<1>16. ASSUME NEW m \in Shops, NEW day \in Days, NEW at \in Interval,
              AddHours(m, day, at) \/ (\E old \in hours[m] : UpdateHours(m, old, day, at))
       PROVE  SetupInv'
  <2>1. PICK H \in SUBSET hours[m] :
          ~ClashesWith(H, day, at) /\ SetHours(m, H \cup {<<day, at>>})
    BY <1>16 DEF AddHours, UpdateHours
  <2>. QED BY <1>15, <2>1
<1>17. ASSUME NEW m \in Shops, NEW old \in hours[m], DeleteHours(m, old) PROVE SetupInv'
  <2>1. hours[m] \ {old} \in SUBSET (Days \X Interval)
    BY <1>2
  <2>2. \A g, h \in hours[m] \ {old} : g # h => g[1] # h[1] \/ ~Overlap(g[2], h[2])
    BY <1>1 DEF HoursApart
  <2>. QED BY <1>14, <1>17, <2>1, <2>2 DEF DeleteHours
<1>18. ASSUME NEW m \in Shops, NEW H \in SUBSET (Days \X Interval), ReplaceHours(m, H)
       PROVE  SetupInv'
  <2>1. \A h \in H : ~ClashesWith(H \ {h}, h[1], h[2])
    BY <1>18 DEF ReplaceHours
  <2>2. \A g, h \in H : g # h => g[1] # h[1] \/ ~Overlap(g[2], h[2])
    BY <2>1 DEF ClashesWith
  <2>. QED BY <1>14, <1>18, <2>2 DEF ReplaceHours
<1>19. ASSUME NEW who \in Shops \cup ShopSpecialists, NEW day \in Days,
              CloseDay(who, day) \/ OpenDay(who, day)
       PROVE  SetupInv'
  <2>1. /\ closed' \subseteq (Shops \cup ShopSpecialists) \X Days
        /\ UNCHANGED <<service, specialist, fixed, visit, attempt, hours>>
    BY <1>2, <1>19 DEF CloseDay, OpenDay
  <2>2. SetupTypeOK' /\ HoursApart'
    BY <1>1, <1>2, <2>1 DEF SetupTypeOK, HoursApart
  <2>. QED BY <2>1, <2>2, WeekChanged
<1>20. ASSUME NEW v \in Visits, NEW row \in VisitRow, NEW step \in BookingStep,
              visit' = [visit EXCEPT ![v] = row], attempt' = [attempt EXCEPT ![v] = step],
              step # "none" => ~row.made,
              step # "none" \/ row.made => row.specialist \in ShopSpecialists,
              Sure(v)' => Stands(v)',
              UNCHANGED <<service, specialist, fixed, hours, closed>>
       PROVE  SetupInv'
  <2>1. /\ visit' \in [Visits -> VisitRow] /\ visit'[v] = row
        /\ attempt' \in [Visits -> BookingStep] /\ attempt'[v] = step
        /\ \A w \in Visits : w # v => visit'[w] = visit[w] /\ attempt'[w] = attempt[w]
    BY <1>2, <1>20
  <2>2. SetupTypeOK'
    BY <1>2, <1>20, <2>1 DEF SetupTypeOK
  <2>3. OffersFit' /\ HoursApart'
    BY <1>1, <1>20 DEF OffersFit, HoursApart
  <2>4. ASSUME NEW w \in Visits, w # v, Sure(w)' PROVE Stands(w)'
    <3>1. Stands(w)
      BY <1>3, <2>1, <2>4 DEF Sure
    <3>. QED BY <1>20, <2>1, <2>4, <3>1 DEF Stands
  <2>5. \A w \in Visits : /\ attempt'[w] # "none" => ~visit'[w].made
                          /\ attempt'[w] # "none" \/ visit'[w].made =>
                               visit'[w].specialist \in ShopSpecialists
                          /\ Sure(w)' => Stands(w)'
    BY <1>3, <1>20, <2>1, <2>4
  <2>. QED BY <2>2, <2>3, <2>5 DEF SetupInv
<1>21. ASSUME NEW v \in Visits, NEW s \in ShopServices, NEW p \in ShopSpecialists,
              NEW t \in FixedTimes \cup {Nobody}, NEW day \in Days, NEW at \in Interval,
              AskFor(v, s, p, t, day, at)
       PROVE  SetupInv'
  <2>1. PICK row \in VisitRow : /\ row.made = FALSE /\ row.specialist = p
                                /\ visit' = [visit EXCEPT ![v] = row]
    BY <1>21 DEF AskFor, VisitRow
  <2>2. /\ attempt' = [attempt EXCEPT ![v] = "asked"]
        /\ UNCHANGED <<service, specialist, fixed, hours, closed>>
    BY <1>21 DEF AskFor
  <2>3. ~Sure(v)'
    BY <1>2, <2>1, <2>2 DEF Sure
  <2>4. "asked" \in BookingStep
    BY DEF BookingStep
  <2>. QED BY <1>20, <2>1, <2>2, <2>3, <2>4
<1>22. ASSUME NEW v \in Visits, LockSpecialist(v) PROVE SetupInv'
  <2>1. /\ attempt[v] = "asked" /\ attempt' = [attempt EXCEPT ![v] = "specialist"]
        /\ UNCHANGED <<service, specialist, fixed, visit, hours, closed>>
    BY <1>22 DEF LockSpecialist
  <2>2. /\ visit' = [visit EXCEPT ![v] = visit[v]] /\ visit[v] \in VisitRow
        /\ ~visit[v].made /\ visit[v].specialist \in ShopSpecialists
    BY <1>2, <1>3, <2>1
  <2>3. ~Sure(v)'
    BY <1>2, <2>1, <2>2 DEF Sure
  <2>4. "specialist" \in BookingStep
    BY DEF BookingStep
  <2>. QED BY <1>20, <2>1, <2>2, <2>3, <2>4
<1>23. ASSUME NEW v \in Visits, LockService(v) PROVE SetupInv'
  <2>1. /\ attempt[v] = "specialist" /\ attempt' = [attempt EXCEPT ![v] = "checked"]
        /\ UNCHANGED <<service, specialist, fixed, hours, closed>>
    BY <1>23 DEF LockService
  <2>2. visit[v] \in VisitRow /\ ~visit[v].made /\ visit[v].specialist \in ShopSpecialists
    BY <1>2, <1>3, <2>1
  <2>3. "checked" \in BookingStep
    BY DEF BookingStep
  <2>4. CASE visit[v].time = Nobody
    <3>1. visit' = [visit EXCEPT ![v] = visit[v]] /\ OnOffer(v) /\ visit' = visit
      BY <1>2, <1>23, <2>4 DEF LockService
    <3>2. Stands(v)'
      BY <2>1, <2>4, <3>1 DEF OnOffer, Stands, Live
    <3>. QED BY <1>20, <2>1, <2>2, <2>3, <3>1, <3>2
  <2>5. CASE visit[v].time # Nobody
    <3>1. /\ visit' = [visit EXCEPT ![v] = [visit[v] EXCEPT !.day = fixed[visit[v].time].day,
                                                            !.at = fixed[visit[v].time].at]]
          /\ FixedOnOffer(v)
      BY <1>23, <2>5 DEF LockService
    <3>2. visit[v].time \in FixedTimes /\ fixed[visit[v].time] \in FixedRow
      BY <1>2, <1>3, <2>5
    <3>3. PICK row \in VisitRow :
            /\ visit' = [visit EXCEPT ![v] = row]
            /\ row.made = visit[v].made /\ row.specialist = visit[v].specialist
            /\ row.service = visit[v].service /\ row.time = visit[v].time
            /\ row.day = fixed[visit[v].time].day /\ row.at = fixed[visit[v].time].at
      <4>1. PICK day \in Days, at \in Interval :
              day = fixed[visit[v].time].day /\ at = fixed[visit[v].time].at
        BY <3>2 DEF FixedRow
      <4>2. PICK r \in VisitRow : r = visit[v]
        BY <2>2
      <4>3. PICK n : n = [r EXCEPT !.day = day, !.at = at]
        OBVIOUS
      <4>4. /\ n \in VisitRow /\ n.specialist = r.specialist /\ n.service = r.service
            /\ n.time = r.time /\ n.made = r.made /\ n.day = day /\ n.at = at
        BY <4>3 DEF VisitRow
      <4>. QED BY <3>1, <4>1, <4>2, <4>3, <4>4
    <3>4. visit'[v] = row
      BY <1>2, <3>3
    <3>5. Stands(v)'
      BY <2>1, <3>1, <3>3, <3>4 DEF FixedOnOffer, Stands
    <3>. QED BY <1>20, <2>1, <2>2, <2>3, <3>3, <3>5
  <2>. QED BY <2>4, <2>5
<1>24. ASSUME NEW v \in Visits, MakeVisit(v) PROVE SetupInv'
  <2>1. /\ attempt[v] = "checked" /\ attempt' = [attempt EXCEPT ![v] = "none"]
        /\ visit' = [visit EXCEPT ![v] = [visit[v] EXCEPT !.made = TRUE]]
        /\ UNCHANGED <<service, specialist, fixed, hours, closed>>
    BY <1>24 DEF MakeVisit
  <2>2. visit[v] \in VisitRow /\ visit[v].specialist \in ShopSpecialists /\ Stands(v)
    BY <1>2, <1>3, <2>1 DEF Sure
  <2>3. PICK row \in VisitRow :
          /\ visit' = [visit EXCEPT ![v] = row]
          /\ row.specialist = visit[v].specialist
          /\ row.service = visit[v].service /\ row.time = visit[v].time
          /\ row.day = visit[v].day /\ row.at = visit[v].at
    <3>1. PICK n : n = [visit[v] EXCEPT !.made = TRUE]
      OBVIOUS
    <3>2. /\ n \in VisitRow /\ n.specialist = visit[v].specialist
          /\ n.service = visit[v].service /\ n.time = visit[v].time
          /\ n.day = visit[v].day /\ n.at = visit[v].at
      BY <2>2, <3>1, MadeRow
    <3>. QED BY <2>1, <3>1, <3>2
  <2>4. visit'[v] = row
    BY <1>2, <2>3
  <2>5. Stands(v)'
    BY <2>1, <2>2, <2>3, <2>4 DEF Stands
  <2>6. "none" \in BookingStep
    BY DEF BookingStep
  <2>. QED BY <1>20, <2>1, <2>2, <2>3, <2>5, <2>6
<1>25. ASSUME NEW v \in Visits, GiveUp(v) PROVE SetupInv'
  <2>1. /\ visit' = [visit EXCEPT ![v] = NoVisit] /\ attempt' = [attempt EXCEPT ![v] = "none"]
        /\ UNCHANGED <<service, specialist, fixed, hours, closed>>
    BY <1>25 DEF GiveUp
  <2>2. NoVisit \in VisitRow /\ ~NoVisit.made
    BY NoVisitRow
  <2>3. ~Sure(v)'
    BY <1>2, <2>1, <2>2 DEF Sure
  <2>4. "none" \in BookingStep
    BY DEF BookingStep
  <2>. QED BY <1>20, <2>1, <2>2, <2>3, <2>4
<1>26. CASE UNCHANGED setupVars
  <2>1. UNCHANGED <<service, specialist, fixed, visit, attempt, hours, closed>>
    BY <1>26 DEF setupVars
  <2>2. SetupTypeOK' /\ HoursApart'
    BY <1>1, <2>1 DEF SetupTypeOK, HoursApart
  <2>. QED BY <2>1, <2>2, WeekChanged
<1>. QED BY <1>4, <1>5, <1>7, <1>8, <1>9, <1>11, <1>12, <1>13, <1>16, <1>17, <1>18, <1>19,
            <1>21, <1>22, <1>23, <1>24, <1>25, <1>26 DEF SetupNext

LEMMA SetupInvHolds == SetupSpec => []SetupInv
BY SetupInvInit, SetupStep, PTL DEF SetupSpec

(* What was booked stands under every change of services, specialists,     *)
(* fixed times and hours, wherever it falls between the statements of a    *)
(* booking, and no two intervals of a store's week overlap (the owner's    *)
(* views of reserve, market_schedule.py).                                  *)
THEOREM SetupAlwaysStands == SetupSpec => []SetupStands
<1>1. SetupInv => SetupStands
  <2>. SUFFICES ASSUME SetupInv PROVE SetupStands
    OBVIOUS
  <2>1. SetupTypeOK /\ OffersFit /\ HoursApart
    BY DEF SetupInv
  <2>2. ASSUME NEW v \in Visits, visit[v].made
        PROVE  /\ Live(service[visit[v].service])
               /\ Live(specialist[visit[v].specialist].state)
               /\ visit[v].service \in specialist[visit[v].specialist].offers
               /\ specialist[visit[v].specialist].shop = ShopOf[visit[v].service]
               /\ visit[v].time # Nobody =>
                    fixed[visit[v].time] = [there |-> TRUE, service |-> visit[v].service,
                                            day |-> visit[v].day, at |-> visit[v].at]
    <3>1. visit[v].specialist \in ShopSpecialists /\ Stands(v)
      BY <2>2 DEF SetupInv, Sure
    <3>2. visit[v].time # Nobody => visit[v].time \in FixedTimes /\ fixed[visit[v].time] \in FixedRow
      BY <2>1 DEF SetupTypeOK, VisitRow
    <3>3. visit[v].time # Nobody =>
            fixed[visit[v].time] = [there |-> TRUE, service |-> visit[v].service,
                                    day |-> visit[v].day, at |-> visit[v].at]
      BY <3>1, <3>2 DEF Stands, FixedRow
    <3>. QED BY <2>1, <3>1, <3>3 DEF Stands, OffersFit
  <2>3. BookingsStand
    BY <2>2 DEF BookingsStand
  <2>. QED BY <2>1, <2>3 DEF SetupStands
<1>. QED BY <1>1, SetupInvHolds, PTL

----------------------------------------------------------------------------
(* The pages: marks, and what is shown of them (Storefront)                *)

MarksInv ==
  /\ mark \in [Visitors -> [Marks -> MarkState]]
  /\ call \in [Calls -> CallRow]
  /\ promised \in [Visitors -> MarkState]
  /\ PromisesStand /\ PagesAddUp
  /\ \A r \in Calls : call[r].at = "toggle" => mark[call[r].by][call[r].of] # "none"
  /\ \A r \in Calls : call[r].at = "put" /\ ~call[r].found =>
       mark[call[r].by][StoreBookmark] = "none"
  /\ \A r, q \in Calls : call[r].at = "put" /\ call[q].at = "put" => r = q

LEMMA CallRows ==
  /\ NoCall \in CallRow /\ NoCall.at = "idle"
  /\ Cardinality(Visitors) \in Nat
  /\ StoreBookmark \in Marks /\ StoreBookmark[2] = "market"
<1>1. Cardinality(Visitors) \in Nat
  BY StorefrontAssumption, FS_CardinalityType
<1>2. (CHOOSE u \in Visitors : TRUE) \in Visitors
  BY StorefrontAssumption
<1>3. StoreBookmark \in Marks /\ StoreBookmark[2] = "market"
  BY StorefrontAssumption DEF StoreBookmark
<1>4. NoCall \in CallRow /\ NoCall.at = "idle"
  BY <1>1, <1>2, <1>3 DEF NoCall, CallRow
<1>. QED BY <1>1, <1>3, <1>4

LEMMA TogglingRow ==
  ASSUME NEW u \in Visitors, NEW m \in Marks, NEW on \in BOOLEAN
  PROVE  /\ Toggling(u, m, on) \in CallRow /\ Toggling(u, m, on).at = "toggle"
         /\ Toggling(u, m, on).by = u /\ Toggling(u, m, on).of = m
<1>1. NoCall \in CallRow
  BY CallRows
<1>. HIDE DEF NoCall
<1>. QED BY <1>1 DEF Toggling, CallRow

Asking(u, on, found) ==
  [NoCall EXCEPT !.at = "put", !.by = u, !.on = on, !.found = found]
Showing(u, m, n) == [NoCall EXCEPT !.at = "page", !.by = u, !.of = m, !.likes = n]

LEMMA PutRow ==
  ASSUME NEW u \in Visitors, NEW on \in BOOLEAN, NEW found \in BOOLEAN
  PROVE  /\ Asking(u, on, found) \in CallRow /\ Asking(u, on, found).at = "put"
         /\ Asking(u, on, found).by = u /\ Asking(u, on, found).found = found
<1>1. NoCall \in CallRow
  BY CallRows
<1>. HIDE DEF NoCall
<1>. QED BY <1>1 DEF CallRow, Asking

LEMMA PageRow ==
  ASSUME NEW u \in Visitors, NEW m \in Marks, NEW n \in 0..Cardinality(Visitors)
  PROVE  /\ Showing(u, m, n) \in CallRow /\ Showing(u, m, n).at = "page"
         /\ Showing(u, m, n).by = u /\ Showing(u, m, n).of = m
         /\ Showing(u, m, n).likes = n
<1>1. NoCall \in CallRow
  BY CallRows
<1>. HIDE DEF NoCall
<1>. QED BY <1>1 DEF CallRow, Showing

LEMMA UnsteadyRow ==
  ASSUME MarksInv, NEW x \in Calls, NEW u \in Visitors, NEW m \in Marks
  PROVE  /\ Unsteady(x, u, m) \in CallRow
         /\ \/ /\ Unsteady(x, u, m) = call[x]
               /\ ~(call[x].at = "page" /\ call[x].by = u /\ call[x].of = m)
            \/ Unsteady(x, u, m).at = "page" /\ Unsteady(x, u, m).steady = FALSE
<1>1. call[x] \in CallRow /\ Cardinality(Visitors) \in Nat
  BY CallRows DEF MarksInv
<1>2. PICK r \in CallRow : r = call[x]
  BY <1>1
<1>3. PICK n : n = [r EXCEPT !.likes = 0, !.steady = FALSE]
  OBVIOUS
<1>4. n \in CallRow /\ n.at = r.at /\ n.steady = FALSE
  <2>1. 0 \in 0..Cardinality(Visitors)
    BY <1>1
  <2>2. PICK k \in 0..Cardinality(Visitors) : k = 0
    BY <2>1
  <2>3. n = [r EXCEPT !.likes = k, !.steady = FALSE]
    BY <1>3, <2>2
  <2>. QED BY <2>3 DEF CallRow
<1>5. Unsteady(x, u, m) = IF r.at = "page" /\ r.by = u /\ r.of = m THEN n ELSE r
  BY <1>2, <1>3 DEF Unsteady
<1>. QED BY <1>2, <1>4, <1>5

(* Likes are counted with the visitor's own, or without it. *)
LEMMA LikesAddUp ==
  ASSUME MarksInv, NEW u \in Visitors, NEW m \in Marks
  PROVE  /\ Likes(m) \in 0..Cardinality(Visitors)
         /\ IF mark[u][m] = "on" THEN Likes(m) > 0 ELSE Likes(m) < Cardinality(Visitors)
<1> DEFINE those == {v \in Visitors : mark[v][m] = "on"}
<1>1. /\ those \in SUBSET Visitors /\ Likes(m) = Cardinality(those)
      /\ mark[u][m] = "on" <=> u \in those
  BY DEF Likes
<1>. HIDE DEF those
<1>2. IsFiniteSet(Visitors)
  BY StorefrontAssumption
<1>3. /\ IsFiniteSet(those) /\ Cardinality(those) <= Cardinality(Visitors)
      /\ Cardinality(those) = Cardinality(Visitors) => those = Visitors
  BY <1>1, <1>2, FS_Subset
<1>4. Cardinality(those) \in Nat /\ Cardinality(Visitors) \in Nat
  BY <1>2, <1>3, FS_CardinalityType
<1>5. Cardinality(those) = 0 => those = {}
  BY <1>3, FS_EmptySet
<1>6. u \notin those => Cardinality(those) # Cardinality(Visitors)
  BY <1>3
<1>. QED BY <1>1, <1>3, <1>4, <1>5, <1>6

LEMMA CallGoesOn ==
  ASSUME MarksInv, NEW r \in Calls, NEW row \in CallRow,
         call' = [call EXCEPT ![r] = row], UNCHANGED <<mark, promised>>,
         row.at = "toggle" => mark[row.by][row.of] # "none",
         row.at = "put" => StoreFree(call),
         row.at = "put" /\ ~row.found => mark[row.by][StoreBookmark] = "none",
         row.at = "page" => IF mark[row.by][row.of] = "on" THEN row.likes > 0
                            ELSE row.likes < Cardinality(Visitors)
  PROVE  MarksInv'
<1>1. /\ call' \in [Calls -> CallRow] /\ call'[r] = row
      /\ \A x \in Calls : x # r => call'[x] = call[x]
  BY DEF MarksInv
<1>2. row.at = "put" => \A x \in Calls : call[x].at # "put"
  BY DEF MarksInv, StoreFree
<1>3. PromisesStand'
  BY DEF MarksInv, PromisesStand
<1>4. PagesAddUp'
  BY <1>1 DEF MarksInv, PagesAddUp
<1>5. \A x \in Calls : call'[x].at = "toggle" => mark[call'[x].by][call'[x].of] # "none"
  BY <1>1 DEF MarksInv
<1>6. \A x \in Calls : call'[x].at = "put" /\ ~call'[x].found =>
        mark[call'[x].by][StoreBookmark] = "none"
  BY <1>1 DEF MarksInv
<1>7. \A x, y \in Calls : call'[x].at = "put" /\ call'[y].at = "put" => x = y
  BY <1>1, <1>2 DEF MarksInv
<1>. QED BY <1>1, <1>3, <1>4, <1>5, <1>6, <1>7 DEF MarksInv

(* Pages that show the row know that it is written, and no form that found *)
(* none goes on.                                                           *)
OthersKnow(u, m, state) ==
  \A x \in Calls :
    \/ call'[x] = call[x]
       /\ ~(call[x].at = "page" /\ call[x].by = u /\ call[x].of = m)
       /\ (call[x].at = "put" => state = "none" \/ m # StoreBookmark
                                 \/ call[x].found \/ call[x].by # u)
    \/ call'[x].at = "page" /\ call'[x].steady = FALSE
    \/ call'[x].at = "idle"
    \/ /\ call'[x].at = "toggle" /\ call'[x].by = u /\ call'[x].of = m
       /\ state # "none"

LEMMA RowIsWritten ==
  ASSUME MarksInv, NEW u \in Visitors, NEW m \in Marks, NEW state \in MarkState,
         NEW word \in MarkState,
         mark' = [mark EXCEPT ![u][m] = state],
         state = "none" => mark[u][m] = "none",
         call' \in [Calls -> CallRow],
         OthersKnow(u, m, state),
         \/ m # StoreBookmark /\ promised' = promised
         \/ /\ m = StoreBookmark /\ promised' = [promised EXCEPT ![u] = word]
            /\ word = "none" \/ ((word = "on") = (state = "on"))
  PROVE  MarksInv'
<1>. USE CallRows
<1>1. /\ mark \in [Visitors -> [Marks -> MarkState]] /\ call \in [Calls -> CallRow]
      /\ promised \in [Visitors -> MarkState]
  BY DEF MarksInv
<1>2. /\ mark' \in [Visitors -> [Marks -> MarkState]] /\ mark'[u][m] = state
      /\ \A v \in Visitors, n \in Marks : v # u \/ n # m => mark'[v][n] = mark[v][n]
  BY <1>1
<1>3. promised' \in [Visitors -> MarkState]
  BY <1>1
<1>4. PromisesStand'
  <2>. SUFFICES ASSUME NEW v \in Visitors, promised'[v] # "none"
                PROVE  (promised'[v] = "on") = (mark'[v][StoreBookmark] = "on")
    BY DEF PromisesStand
  <2>1. CASE promised'[v] = promised[v] /\ (v # u \/ m # StoreBookmark)
    <3>1. (promised[v] = "on") = (mark[v][StoreBookmark] = "on")
      BY <2>1 DEF MarksInv, PromisesStand
    <3>2. mark'[v][StoreBookmark] = mark[v][StoreBookmark]
      BY <1>2, <2>1
    <3>. QED BY <2>1, <3>1, <3>2
  <2>2. CASE v = u /\ m = StoreBookmark
    BY <1>1, <1>2, <2>2
  <2>. QED BY <1>1, <2>1, <2>2
<1>5. PagesAddUp'
  <2>. SUFFICES ASSUME NEW x \in Calls, call'[x].at = "page", call'[x].steady
                PROVE  IF mark'[call'[x].by][call'[x].of] = "on" THEN call'[x].likes > 0
                       ELSE call'[x].likes < Cardinality(Visitors)
    BY DEF PagesAddUp
  <2>1. call'[x] = call[x] /\ ~(call[x].by = u /\ call[x].of = m)
    BY DEF OthersKnow
  <2>2. call[x].by \in Visitors /\ call[x].of \in Marks
    BY <1>1 DEF CallRow
  <2>3. mark'[call[x].by][call[x].of] = mark[call[x].by][call[x].of]
    BY <1>2, <2>1, <2>2
  <2>. QED BY <2>1, <2>3 DEF MarksInv, PagesAddUp
<1>6. ASSUME NEW x \in Calls, call'[x].at = "toggle"
      PROVE  mark'[call'[x].by][call'[x].of] # "none"
  <2>1. CASE call'[x] = call[x]
    <3>1. mark[call[x].by][call[x].of] # "none"
      BY <1>6, <2>1 DEF MarksInv
    <3>2. call[x].by \in Visitors /\ call[x].of \in Marks
      BY <1>1 DEF CallRow
    <3>. QED BY <1>2, <2>1, <3>1, <3>2
  <2>2. CASE call'[x] # call[x]
    BY <1>2, <1>6, <2>2 DEF OthersKnow
  <2>. QED BY <2>1, <2>2
<1>7. ASSUME NEW x \in Calls, call'[x].at = "put"
      PROVE  /\ call[x].at = "put"
             /\ ~call'[x].found => mark'[call'[x].by][StoreBookmark] = "none"
  <2>1. /\ call'[x] = call[x]
        /\ state = "none" \/ m # StoreBookmark \/ call[x].found \/ call[x].by # u
    BY <1>7 DEF OthersKnow
  <2>2. call[x].by \in Visitors
    BY <1>1 DEF CallRow
  <2>3. ~call[x].found => mark[call[x].by][StoreBookmark] = "none"
    BY <1>7, <2>1 DEF MarksInv
  <2>. QED BY <1>2, <1>7, <2>1, <2>2, <2>3
<1>8. \A x, y \in Calls : call'[x].at = "put" /\ call'[y].at = "put" => x = y
  BY <1>7 DEF MarksInv
<1>. QED BY <1>2, <1>3, <1>4, <1>5, <1>6, <1>7, <1>8 DEF MarksInv

LEMMA MarksInit == StorefrontInit => MarksInv
<1>. SUFFICES ASSUME StorefrontInit PROVE MarksInv
  OBVIOUS
<1>1. \A r \in Calls : call[r] = NoCall
  BY DEF StorefrontInit
<1>2. call \in [Calls -> CallRow] /\ \A r \in Calls : call[r].at = "idle"
  BY <1>1, CallRows DEF StorefrontInit
<1>3. /\ mark \in [Visitors -> [Marks -> MarkState]] /\ promised \in [Visitors -> MarkState]
      /\ \A u \in Visitors : promised[u] = "none"
  BY DEF StorefrontInit, MarkState
<1>. QED BY <1>2, <1>3 DEF MarksInv, PromisesStand, PagesAddUp

(* The row of u and m is written while call r goes on as row: every page   *)
(* that shows the row knows.                                               *)
Written(u, m, state, r, row) ==
  /\ mark' = [mark EXCEPT ![u][m] = state]
  /\ call' \in [Calls -> CallRow] /\ call'[r] = row
  /\ \A x \in Calls \ {r} :
       \/ call'[x] = call[x]
          /\ ~(call[x].at = "page" /\ call[x].by = u /\ call[x].of = m)
       \/ call'[x].at = "page" /\ call'[x].steady = FALSE

LEMMA MarksStep ==
  ASSUME MarksInv, MarksNext \/ UNCHANGED markVars PROVE MarksInv'
<1>. USE CallRows
<1>1. /\ mark \in [Visitors -> [Marks -> MarkState]] /\ call \in [Calls -> CallRow]
      /\ promised \in [Visitors -> MarkState]
  BY DEF MarksInv
<1>2. CASE UNCHANGED markVars
  BY <1>2 DEF markVars, MarksInv, PromisesStand, PagesAddUp
<1>3. ASSUME NEW r \in Calls, NEW u \in Visitors, NEW m \in Marks, ToggleFinds(r, u, m)
      PROVE  MarksInv'
  <2>1. PICK on \in BOOLEAN : call' = [call EXCEPT ![r] = Toggling(u, m, on)]
    BY <1>3 DEF ToggleFinds
  <2>2. mark[u][m] # "none" /\ UNCHANGED <<mark, promised>>
    BY <1>3 DEF ToggleFinds
  <2>3. PICK row \in CallRow : /\ row = Toggling(u, m, on)
                               /\ row.at = "toggle" /\ row.by = u /\ row.of = m
    BY TogglingRow
  <2>. QED BY <2>1, <2>2, <2>3, CallGoesOn
<1>4. ASSUME NEW r \in Calls, NEW u \in Visitors, NEW on \in BOOLEAN, BeginPut(r, u, on)
      PROVE  MarksInv'
  <2>1. PICK found \in BOOLEAN : found = (mark[u][StoreBookmark] # "none")
    OBVIOUS
  <2>2. call' = [call EXCEPT ![r] = Asking(u, on, found)]
    BY <1>4, <2>1 DEF BeginPut, Asking
  <2>3. PICK row \in CallRow : /\ row = Asking(u, on, found)
                               /\ row.at = "put" /\ row.by = u /\ row.found = found
    BY PutRow
  <2>4. StoreFree(call) /\ UNCHANGED <<mark, promised>>
    BY <1>4 DEF BeginPut
  <2>. QED BY <2>1, <2>2, <2>3, <2>4, CallGoesOn
<1>5. ASSUME NEW r \in Calls, NEW u \in Visitors, NEW m \in Marks, OpenPage(r, u, m)
      PROVE  MarksInv'
  <2>1. PICK n \in 0..Cardinality(Visitors) : n = Likes(m)
    BY LikesAddUp
  <2>2. call' = [call EXCEPT ![r] = Showing(u, m, n)]
    BY <1>5, <2>1 DEF OpenPage, Showing
  <2>3. PICK row \in CallRow :
          /\ row = Showing(u, m, n)
          /\ row.at = "page" /\ row.by = u /\ row.of = m /\ row.likes = n
    BY PageRow
  <2>4. IF mark[u][m] = "on" THEN n > 0 ELSE n < Cardinality(Visitors)
    BY <2>1, LikesAddUp
  <2>5. UNCHANGED <<mark, promised>>
    BY <1>5 DEF OpenPage
  <2>. QED BY <2>2, <2>3, <2>4, <2>5, CallGoesOn
<1>6. ASSUME NEW r \in Calls, Leave(r) PROVE MarksInv'
  <2>1. call' = [call EXCEPT ![r] = NoCall] /\ UNCHANGED <<mark, promised>>
    BY <1>6 DEF Leave
  <2>. QED BY <2>1, CallGoesOn
<1>7. ASSUME NEW u \in Visitors, NEW m \in Marks, NEW state \in MarkState, NEW r \in Calls,
             NEW row \in CallRow, Writes(u, m, state, r, row)
      PROVE  Written(u, m, state, r, row)
  <2>1. /\ mark' = [mark EXCEPT ![u][m] = state]
        /\ call' = [q \in Calls |-> IF q = r THEN row ELSE Unsteady(q, u, m)]
    BY <1>7 DEF Writes
  <2>2. ASSUME NEW x \in Calls, x # r
        PROVE  /\ call'[x] \in CallRow
               /\ \/ call'[x] = call[x]
                     /\ ~(call[x].at = "page" /\ call[x].by = u /\ call[x].of = m)
                  \/ call'[x].at = "page" /\ call'[x].steady = FALSE
    <3>1. call'[x] = Unsteady(x, u, m)
      BY <2>1, <2>2
    <3>2. /\ Unsteady(x, u, m) \in CallRow
          /\ \/ Unsteady(x, u, m) = call[x]
                /\ ~(call[x].at = "page" /\ call[x].by = u /\ call[x].of = m)
             \/ Unsteady(x, u, m).at = "page" /\ Unsteady(x, u, m).steady = FALSE
      BY UnsteadyRow
    <3>. QED BY <3>1, <3>2
  <2>. QED BY <2>1, <2>2 DEF Written
<1>8. PICK empty \in MarkState, lit \in MarkState, dark \in MarkState :
        empty = "none" /\ lit = "on" /\ dark = "off"
  BY DEF MarkState
<1>9. ASSUME NEW u \in Visitors, NEW m \in Marks, NEW state \in MarkState, state # "none",
             Unpromised(u, m), mark' = [mark EXCEPT ![u][m] = state],
             call' \in [Calls -> CallRow], OthersKnow(u, m, state)
      PROVE  MarksInv'
  <2>1. \/ m # StoreBookmark /\ promised' = promised
        \/ /\ m = StoreBookmark /\ promised' = [promised EXCEPT ![u] = empty]
           /\ empty = "none" \/ ((empty = "on") = (state = "on"))
    BY <1>8, <1>9 DEF Unpromised
  <2>. QED BY <1>9, <2>1, RowIsWritten
<1>10. ASSUME NEW r \in Calls, NEW u \in Visitors, NEW m \in Marks, ToggleMakes(r, u, m)
       PROVE  MarksInv'
  <2>1. PICK yes \in BOOLEAN : yes = TRUE
    OBVIOUS
  <2>2. PICK row \in CallRow : /\ row = Toggling(u, m, yes)
                               /\ row.at = "toggle" /\ row.by = u /\ row.of = m
    BY TogglingRow
  <2>3. /\ Writes(u, m, lit, r, row) /\ Unpromised(u, m)
        /\ m = StoreBookmark => \A x \in Calls : call[x].at # "put"
    BY <1>1, <1>8, <1>10, <2>1, <2>2 DEF ToggleMakes, StoreFree
  <2>4. Written(u, m, lit, r, row)
    BY <1>7, <2>3
  <2>5. OthersKnow(u, m, lit)
    BY <1>8, <2>2, <2>3, <2>4 DEF OthersKnow, Written
  <2>6. mark' = [mark EXCEPT ![u][m] = lit] /\ call' \in [Calls -> CallRow]
    BY <2>4 DEF Written
  <2>. QED BY <1>8, <1>9, <2>3, <2>5, <2>6
<1>11. ASSUME NEW r \in Calls, SaveToggle(r) PROVE MarksInv'
  <2>1. PICK u \in Visitors, m \in Marks : u = call[r].by /\ m = call[r].of
    BY <1>1 DEF CallRow
  <2>2. PICK state \in MarkState, gone \in CallRow :
          /\ gone = NoCall /\ gone.at = "idle" /\ state # "none"
          /\ Writes(u, m, state, r, gone) /\ Unpromised(u, m)
    BY <1>8, <1>11, <2>1 DEF SaveToggle
  <2>3. mark[u][m] # "none"
    BY <1>11, <2>1 DEF SaveToggle, MarksInv
  <2>4. \A x \in Calls : call[x].at = "put" =>
          m # StoreBookmark \/ call[x].found \/ call[x].by # u
    BY <2>3 DEF MarksInv
  <2>5. Written(u, m, state, r, gone)
    BY <1>7, <2>2
  <2>6. OthersKnow(u, m, state)
    BY <2>2, <2>4, <2>5 DEF OthersKnow, Written
  <2>7. mark' = [mark EXCEPT ![u][m] = state] /\ call' \in [Calls -> CallRow]
    BY <2>5 DEF Written
  <2>. QED BY <1>9, <2>2, <2>6, <2>7
<1>12. ASSUME NEW r \in Calls, EndPut(r) PROVE MarksInv'
  <2>1. PICK u \in Visitors : u = call[r].by
    BY <1>1 DEF CallRow
  <2>2. PICK state \in MarkState, word \in MarkState :
          /\ state = IF call[r].on THEN "on" ELSE IF call[r].found THEN "off"
                     ELSE mark[u][StoreBookmark]
          /\ word = IF call[r].on THEN "on" ELSE "off"
    <3>1. mark[u][StoreBookmark] \in MarkState
      BY <1>1
    <3>. QED BY <1>8, <3>1
  <2>3. PICK gone \in CallRow :
          /\ gone = NoCall /\ gone.at = "idle"
          /\ call[r].at = "put" /\ Writes(u, StoreBookmark, state, r, gone)
          /\ promised' = [promised EXCEPT ![u] = word]
    BY <1>12, <2>1, <2>2 DEF EndPut
  <2>4. call[r].found \in BOOLEAN /\ (~call[r].found => mark[u][StoreBookmark] = "none")
    BY <1>1, <2>1, <2>3 DEF MarksInv, CallRow
  <2>5. /\ state = "none" => mark[u][StoreBookmark] = "none"
        /\ (word = "on") = (state = "on")
    BY <2>2, <2>4
  <2>6. PICK m \in Marks : m = StoreBookmark
    OBVIOUS
  <2>7. Written(u, m, state, r, gone)
    BY <1>7, <2>3, <2>6
  <2>8. \A x \in Calls \ {r} : call[x].at # "put"
    BY <2>3 DEF MarksInv
  <2>9. OthersKnow(u, m, state)
    BY <2>3, <2>7, <2>8 DEF OthersKnow, Written
  <2>10. mark' = [mark EXCEPT ![u][m] = state] /\ call' \in [Calls -> CallRow]
    BY <2>7 DEF Written
  <2>. QED BY <2>3, <2>5, <2>6, <2>9, <2>10, RowIsWritten
<1>13. ASSUME NEW q \in Calls, NEW r \in Calls, NEW m \in Marks, PutLoses(q, r, m)
       PROVE  MarksInv'
  <2>1. PICK u \in Visitors : u = call[q].by
    BY <1>1 DEF CallRow
  <2>2. PICK yes \in BOOLEAN : yes = TRUE
    OBVIOUS
  <2>3. PICK row \in CallRow : /\ row = Toggling(u, m, yes)
                               /\ row.at = "toggle" /\ row.by = u /\ row.of = m
    BY TogglingRow
  <2>4. /\ call[q].at = "put" /\ m = StoreBookmark /\ call[r].at = "idle"
        /\ mark' = [mark EXCEPT ![u][m] = lit]
        /\ call' = [x \in Calls |-> IF x = q THEN NoCall
                                    ELSE IF x = r THEN row ELSE Unsteady(x, u, m)]
        /\ Unpromised(u, m)
    BY <1>8, <1>13, <2>1, <2>2, <2>3 DEF PutLoses
  <2>5. ASSUME NEW x \in Calls
        PROVE  /\ call'[x] \in CallRow
               /\ \/ call'[x] = call[x] /\ call[x].at # "put"
                     /\ ~(call[x].at = "page" /\ call[x].by = u /\ call[x].of = m)
                  \/ call'[x].at = "page" /\ call'[x].steady = FALSE
                  \/ call'[x].at = "idle"
                  \/ call'[x].at = "toggle" /\ call'[x].by = u /\ call'[x].of = m
    <3>1. CASE x = q
      BY <2>4, <3>1
    <3>2. CASE x # q /\ x = r
      BY <2>3, <2>4, <3>2
    <3>3. CASE x # q /\ x # r
      <4>1. call'[x] = Unsteady(x, u, m)
        BY <2>4, <3>3
      <4>2. call[x].at # "put"
        BY <2>4, <3>3 DEF MarksInv
      <4>3. /\ Unsteady(x, u, m) \in CallRow
            /\ \/ Unsteady(x, u, m) = call[x]
                  /\ ~(call[x].at = "page" /\ call[x].by = u /\ call[x].of = m)
               \/ Unsteady(x, u, m).at = "page" /\ Unsteady(x, u, m).steady = FALSE
        BY UnsteadyRow
      <4>. QED BY <4>1, <4>2, <4>3
    <3>. QED BY <3>1, <3>2, <3>3
  <2>6. call' \in [Calls -> CallRow]
    BY <2>4, <2>5
  <2>7. OthersKnow(u, m, lit)
    BY <1>8, <2>5 DEF OthersKnow
  <2>. QED BY <1>8, <1>9, <2>4, <2>6, <2>7
<1>14. ASSUME NEW page \in Pages, Publish(page) PROVE MarksInv'
  BY <1>2, <1>14 DEF Publish
<1>15. ASSUME NEW u \in Visitors, ChangeAccess(u) PROVE MarksInv'
  BY <1>2, <1>15 DEF ChangeAccess
<1>. QED BY <1>2, <1>3, <1>4, <1>5, <1>6, <1>10, <1>11, <1>12, <1>13, <1>14, <1>15
         DEF MarksNext, PagesNext

(* The least of some numbers, for the next free one. *)
LEMMA LeastNumber ==
  ASSUME NEW T \in SUBSET Nat, T # {}
  PROVE  \E x \in T : \A y \in T : x <= y
<1> DEFINE R == OpToRel(<, Nat)
<1>1. IsWellFoundedOn(R, Nat)
  BY NatLessThanWellFounded
<1>2. \A x, y \in T : x < y => <<x, y>> \in R
  BY DEF OpToRel
<1>. HIDE DEF R
<1>3. PICK x \in T : \A y \in T : <<y, x>> \notin R
  BY <1>1, WFMin
<1>4. ASSUME NEW y \in T PROVE x <= y
  <2>1. ~(y < x)
    BY <1>2, <1>3
  <2>2. x \in Nat /\ y \in Nat
    OBVIOUS
  <2>. QED BY <2>1, <2>2
<1>. QED BY <1>4

----------------------------------------------------------------------------
(* The pages: the comments on them (Storefront)                            *)

HeadsThread(made, c) == made[c].at # "new" /\ made[c].root = 0
UnderRoot(made, root) == root # 0 => made[root].at = "there"

(* No row that was made changes its root: what was checked for a post, was *)
(* read into a form or was listed still heads its thread.                  *)
CommentsInv ==
  /\ comment \in [1..MaxComments -> CommentRow]
  /\ post \in [Visitors -> PostRow] /\ form \in FormRow /\ reader \in ReaderRow
  /\ \A c \in 1..MaxComments :
       /\ comment[c].at # "new" /\ comment[c].root # 0 => HeadsThread(comment, comment[c].root)
       /\ comment[c].at = "there" => UnderRoot(comment, comment[c].root)
  /\ \A u \in Visitors : post[u].ready /\ post[u].root # 0 => HeadsThread(comment, post[u].root)
  /\ form.of # 0 => /\ form.row.at = "there" /\ comment[form.of].at # "new"
                    /\ comment[form.of].root = form.row.root
  /\ \A c \in reader.roots : HeadsThread(comment, c)
  /\ RepliesAreShown

LEMMA CommentRows ==
  /\ NoComment \in CommentRow /\ NoComment.at = "new" /\ NoComment.root = 0
  /\ NoPost \in PostRow /\ ~NoPost.ready
  /\ NoForm \in FormRow /\ NoForm.of = 0
  /\ NoReader \in ReaderRow /\ NoReader.roots = {} /\ NoReader.found = NoReader.shown
  /\ MaxComments \in Nat
<1>1. (CHOOSE u \in Visitors : TRUE) \in Visitors /\ (CHOOSE x \in Texts : TRUE) \in Texts
  BY StorefrontAssumption
<1>2. MaxComments \in Nat /\ 0 \in 0..MaxComments
  BY StorefrontAssumption
<1>3. NoComment \in CommentRow /\ NoComment.at = "new" /\ NoComment.root = 0
  BY <1>1, <1>2 DEF NoComment, CommentRow, Pages
<1>4. NoForm \in FormRow /\ NoForm.of = 0
  BY <1>2, <1>3 DEF NoForm, FormRow
<1>5. NoPost \in PostRow /\ ~NoPost.ready
  BY <1>2 DEF NoPost, PostRow, Pages
<1>6. NoReader \in ReaderRow /\ NoReader.roots = {} /\ NoReader.found = NoReader.shown
  BY DEF NoReader, ReaderRow
<1>. QED BY <1>2, <1>3, <1>4, <1>5, <1>6

LEMMA CommentsInit == ASSUME StorefrontInit PROVE CommentsInv
<1>. USE CommentRows
<1>. HIDE DEF NoComment, NoPost, NoForm, NoReader
<1>1. \A c \in 1..MaxComments : comment[c] = NoComment
  BY DEF StorefrontInit
<1>2. /\ comment \in [1..MaxComments -> CommentRow] /\ post \in [Visitors -> PostRow]
      /\ form = NoForm /\ reader = NoReader /\ \A u \in Visitors : post[u] = NoPost
  BY DEF StorefrontInit
<1>. QED BY <1>1, <1>2 DEF CommentsInv, RepliesAreShown

(* A row that is made or saved below a root that is there. *)
LEMMA CommentIsKept ==
  ASSUME CommentsInv, NEW c \in 1..MaxComments, NEW row \in CommentRow,
         row.at = "there", comment' = [comment EXCEPT ![c] = row],
         UnderRoot(comment, row.root), row.root # 0 => HeadsThread(comment, row.root),
         comment[c].at # "new" => row.root = comment[c].root,
         post' \in [Visitors -> PostRow],
         \A u \in Visitors : post'[u] = post[u] \/ ~post'[u].ready,
         form' \in FormRow, form' = form \/ form'.of = 0, reader' = reader
  PROVE  CommentsInv'
<1>. USE CommentRows
<1>1. /\ comment' \in [1..MaxComments -> CommentRow] /\ comment'[c] = row
      /\ \A d \in 1..MaxComments : d # c => comment'[d] = comment[d]
  BY DEF CommentsInv
<1>2. \A d \in 1..MaxComments : HeadsThread(comment, d) => HeadsThread(comment', d)
  BY <1>1 DEF HeadsThread
<1>3. \A d \in 1..MaxComments : comment[d].at = "there" => comment'[d].at = "there"
  BY <1>1
<1>4. row.root \in 0..MaxComments
      /\ \A d \in 1..MaxComments : comment[d].root \in 0..MaxComments
  BY DEF CommentRow, CommentsInv
<1>5. ASSUME NEW d \in 1..MaxComments, comment'[d].at # "new", comment'[d].root # 0
      PROVE  HeadsThread(comment', comment'[d].root)
  <2>1. CASE d = c
    <3>1. HeadsThread(comment, row.root) /\ row.root \in 1..MaxComments
      BY <1>1, <1>4, <1>5, <2>1
    <3>. QED BY <1>1, <1>2, <2>1, <3>1
  <2>2. CASE d # c
    <3>1. HeadsThread(comment, comment[d].root) /\ comment[d].root \in 1..MaxComments
      BY <1>1, <1>4, <1>5, <2>2 DEF CommentsInv
    <3>. QED BY <1>1, <1>2, <2>2, <3>1
  <2>. QED BY <2>1, <2>2
<1>6. ASSUME NEW d \in 1..MaxComments, comment'[d].at = "there" PROVE UnderRoot(comment', comment'[d].root)
  <2>1. CASE d = c
    BY <1>1, <1>3, <1>4, <2>1 DEF UnderRoot
  <2>2. CASE d # c
    <3>1. UnderRoot(comment, comment[d].root)
      BY <1>1, <1>6, <2>2 DEF CommentsInv
    <3>. QED BY <1>1, <1>3, <1>4, <2>2, <3>1 DEF UnderRoot
  <2>. QED BY <2>1, <2>2
<1>7. ASSUME NEW u \in Visitors, post'[u].ready, post'[u].root # 0
      PROVE  HeadsThread(comment', post'[u].root)
  <2>1. post'[u] = post[u] /\ post[u].root \in 1..MaxComments /\ HeadsThread(comment, post[u].root)
    BY <1>7 DEF CommentsInv, PostRow
  <2>. QED BY <1>2, <2>1
<1>8. ASSUME form'.of # 0
      PROVE  /\ form'.row.at = "there" /\ comment'[form'.of].at # "new"
             /\ comment'[form'.of].root = form'.row.root
  <2>1. /\ form' = form /\ form.of \in 1..MaxComments
        /\ form.row.at = "there" /\ comment[form.of].at # "new"
        /\ comment[form.of].root = form.row.root
    BY <1>8 DEF CommentsInv, FormRow
  <2>. QED BY <1>1, <2>1
<1>9. \A d \in reader.roots : d \in 1..MaxComments /\ HeadsThread(comment', d)
  BY <1>2 DEF CommentsInv, ReaderRow
<1>10. RepliesAreShown'
  BY DEF CommentsInv, RepliesAreShown
<1>. QED BY <1>1, <1>5, <1>6, <1>7, <1>8, <1>9, <1>10 DEF CommentsInv

LEMMA CommentsStep ==
  ASSUME CommentsInv, CommentsNext \/ UNCHANGED commentVars PROVE CommentsInv'
<1>. USE CommentRows
<1>1. /\ comment \in [1..MaxComments -> CommentRow] /\ post \in [Visitors -> PostRow]
      /\ form \in FormRow /\ reader \in ReaderRow
  BY DEF CommentsInv
<1>2. CASE UNCHANGED commentVars
  BY <1>2 DEF commentVars, CommentsInv, RepliesAreShown
<1>3. ASSUME NEW page \in Pages, Publish(page) PROVE CommentsInv'
  BY <1>2, <1>3 DEF Publish
<1>4. ASSUME NEW u \in Visitors, NEW page \in Pages, NEW root \in 0..MaxComments,
             CheckPost(u, page, root)
      PROVE  CommentsInv'
  <2> DEFINE row == [ready |-> TRUE, page |-> page, root |-> root]
  <2>1. row \in PostRow /\ row.ready /\ row.root = root
    BY DEF PostRow
  <2>2. post' = [post EXCEPT ![u] = row] /\ UNCHANGED <<comment, form, reader>>
    BY <1>4 DEF CheckPost
  <2>. HIDE DEF row
  <2>3. root # 0 => HeadsThread(comment, root)
    BY <1>4 DEF CheckPost, HeadsThread, IsThere, IsRoot
  <2>4. post' \in [Visitors -> PostRow]
        /\ \A v \in Visitors : post'[v].ready /\ post'[v].root # 0 =>
             HeadsThread(comment', post'[v].root)
    BY <1>1, <2>1, <2>2, <2>3 DEF CommentsInv, HeadsThread
  <2>. QED BY <2>2, <2>4 DEF CommentsInv, RepliesAreShown
<1>5. ASSUME NEW u \in Visitors, NEW text \in Texts, MakePost(u, text) PROVE CommentsInv'
  <2>1. PICK c \in Unmade : c = CHOOSE d \in Unmade : \A e \in Unmade : d <= e
    <3>1. Unmade \in SUBSET Nat /\ Unmade # {}
      BY <1>5 DEF MakePost, Unmade
    <3>2. PICK d \in Unmade : \A e \in Unmade : d <= e
      BY <3>1, LeastNumber
    <3>. QED BY <3>2
  <2>2. c \in 1..MaxComments /\ comment[c].at = "new"
    BY <2>1 DEF Unmade
  <2>3. post[u] \in PostRow /\ post[u].ready
    BY <1>1, <1>5 DEF MakePost
  <2> DEFINE row == [at |-> "there", page |-> post[u].page, by |-> u,
                     root |-> post[u].root, text |-> text]
  <2>4. row \in CommentRow /\ row.at = "there" /\ row.root = post[u].root
    BY <2>3 DEF CommentRow, PostRow
  <2>5. /\ comment' = IF UnderRoot(comment, post[u].root) THEN [comment EXCEPT ![c] = row]
                      ELSE comment
        /\ post' = [post EXCEPT ![u] = NoPost] /\ UNCHANGED <<form, reader>>
    BY <1>5, <2>1 DEF MakePost, RootStands, UnderRoot, IsThere
  <2>. HIDE DEF row
  <2>6. /\ post' \in [Visitors -> PostRow]
        /\ \A v \in Visitors : post'[v] = post[v] \/ ~post'[v].ready
    <3>. HIDE DEF NoPost
    <3>. QED BY <1>1, <2>5
  <2>7. CASE UnderRoot(comment, post[u].root)
    <3>1. post[u].root # 0 => HeadsThread(comment, post[u].root)
      BY <2>3 DEF CommentsInv
    <3>2. comment' = [comment EXCEPT ![c] = row] /\ form' = form /\ reader' = reader
      BY <2>5, <2>7
    <3>. QED BY <1>1, <2>2, <2>4, <2>6, <2>7, <3>1, <3>2, CommentIsKept
  <2>8. CASE ~UnderRoot(comment, post[u].root)
    <3>1. UNCHANGED <<comment, form, reader>>
      BY <2>5, <2>8
    <3>2. \A v \in Visitors : post'[v].ready /\ post'[v].root # 0 =>
            HeadsThread(comment', post'[v].root)
      BY <2>6, <3>1 DEF CommentsInv, HeadsThread
    <3>. QED BY <2>6, <3>1, <3>2 DEF CommentsInv, RepliesAreShown
  <2>. QED BY <2>7, <2>8
<1>6. ASSUME NEW u \in Visitors, NEW c \in 1..MaxComments, NEW text \in Texts,
             EditComment(u, c, text)
      PROVE  CommentsInv'
  <2>1. comment[c] \in CommentRow /\ comment[c].at = "there"
    BY <1>1, <1>6 DEF EditComment, IsThere
  <2> DEFINE row == [comment[c] EXCEPT !.text = text]
  <2>2. row \in CommentRow /\ row.at = "there" /\ row.root = comment[c].root
    BY <2>1 DEF CommentRow
  <2>3. comment' = [comment EXCEPT ![c] = row] /\ UNCHANGED <<post, form, reader>>
    BY <1>1, <1>6 DEF EditComment
  <2>. HIDE DEF row
  <2>4. UnderRoot(comment, row.root) /\ (row.root # 0 => HeadsThread(comment, row.root))
    BY <2>1, <2>2 DEF CommentsInv
  <2>. QED BY <1>1, <2>2, <2>3, <2>4, CommentIsKept
<1>7. ASSUME NEW c \in 1..MaxComments, StaffOpen(c) PROVE CommentsInv'
  <2> DEFINE f == [of |-> c, row |-> comment[c]]
  <2>1. f \in FormRow /\ f.of = c /\ f.row = comment[c]
    BY <1>1 DEF FormRow
  <2>2. form' = f /\ comment[c].at = "there" /\ UNCHANGED <<comment, post, reader>>
    BY <1>7 DEF StaffOpen, IsThere
  <2>. HIDE DEF f
  <2>. QED BY <2>1, <2>2 DEF CommentsInv, RepliesAreShown
<1>8. CASE StaffSave
  <2>1. /\ form.of \in 1..MaxComments /\ form.row \in CommentRow
        /\ form.row.at = "there" /\ comment[form.of].at # "new"
        /\ comment[form.of].root = form.row.root
        /\ form' = NoForm /\ UNCHANGED <<post, reader>>
    BY <1>1, <1>8 DEF StaffSave, CommentsInv, FormRow
  <2>2. PICK c \in 1..MaxComments, row \in CommentRow : c = form.of /\ row = form.row
    BY <2>1
  <2>3. row.root # 0 => HeadsThread(comment, row.root)
    BY <2>1, <2>2 DEF CommentsInv
  <2>4. comment[c].at = "there" => UnderRoot(comment, row.root)
    BY <2>1, <2>2 DEF CommentsInv
  <2>5. comment' = IF comment[c].at = "there" \/ UnderRoot(comment, row.root)
                   THEN [comment EXCEPT ![c] = row] ELSE comment
    BY <1>8, <2>2 DEF StaffSave, RootStands, UnderRoot, IsThere
  <2>6. form' \in FormRow /\ form'.of = 0
    BY <2>1
  <2>7. CASE UnderRoot(comment, row.root)
    <3>1. /\ row.at = "there" /\ row.root = comment[c].root
          /\ comment' = [comment EXCEPT ![c] = row] /\ UNCHANGED <<post, reader>>
      BY <2>1, <2>2, <2>5, <2>7
    <3>. QED BY <1>1, <2>3, <2>6, <2>7, <3>1, CommentIsKept
  <2>8. CASE ~UnderRoot(comment, row.root)
    <3>1. UNCHANGED <<comment, post, reader>>
      BY <2>1, <2>4, <2>5, <2>8
    <3>. QED BY <2>6, <3>1 DEF CommentsInv, RepliesAreShown
  <2>. QED BY <2>7, <2>8
<1>9. ASSUME NEW c \in 1..MaxComments, StaffDelete(c) PROVE CommentsInv'
  <2>1. /\ comment' = [d \in 1..MaxComments |->
             IF d \in WithReplies(c) THEN [comment[d] EXCEPT !.at = "gone"] ELSE comment[d]]
        /\ UNCHANGED <<post, form, reader>>
    BY <1>9 DEF StaffDelete
  <2>2. ASSUME NEW d \in 1..MaxComments
        PROVE  /\ comment'[d] \in CommentRow /\ comment'[d].root = comment[d].root
               /\ comment'[d].at = IF d \in WithReplies(c) THEN "gone" ELSE comment[d].at
    <3>1. PICK row \in CommentRow : row = comment[d]
      BY <1>1
    <3> DEFINE n == [row EXCEPT !.at = "gone"]
    <3>2. n \in CommentRow /\ n.at = "gone" /\ n.root = row.root
      BY DEF CommentRow
    <3>3. comment'[d] = IF d \in WithReplies(c) THEN n ELSE row
      BY <2>1, <3>1
    <3>. HIDE DEF n
    <3>. QED BY <3>1, <3>2, <3>3
  <2>3. comment' \in [1..MaxComments -> CommentRow]
    BY <2>1, <2>2
  <2>4. WithReplies(c) \subseteq 1..MaxComments /\ c \in WithReplies(c)
        /\ \A d \in WithReplies(c) : comment[d].at = "there"
    BY <1>9 DEF WithReplies, StaffDelete, IsThere
  <2>5. \A d \in 1..MaxComments : HeadsThread(comment, d) => HeadsThread(comment', d)
    BY <2>2, <2>4 DEF HeadsThread
  <2>6. \A d \in 1..MaxComments : comment[d].root \in 0..MaxComments
    BY <1>1 DEF CommentRow
  <2>7. ASSUME NEW d \in 1..MaxComments, comment'[d].at # "new", comment'[d].root # 0
        PROVE  HeadsThread(comment', comment'[d].root)
    <3>1. /\ comment[d].root \in 1..MaxComments /\ HeadsThread(comment, comment[d].root)
          /\ comment'[d].root = comment[d].root
      BY <2>2, <2>4, <2>6, <2>7 DEF CommentsInv
    <3>. QED BY <2>5, <3>1
  <2>8. ASSUME NEW d \in 1..MaxComments, comment'[d].at = "there" PROVE UnderRoot(comment', comment'[d].root)
    <3>1. /\ d \notin WithReplies(c) /\ comment[d].at = "there" /\ comment'[d].root = comment[d].root
      BY <2>2, <2>8
    <3>2. CASE comment[d].root = 0
      BY <3>1, <3>2 DEF UnderRoot
    <3>3. CASE comment[d].root # 0
      <4>1. PICK root \in 1..MaxComments : root = comment[d].root
        BY <2>6, <3>3
      <4>2. comment[root].at = "there" /\ HeadsThread(comment, root)
        BY <3>1, <3>3, <4>1 DEF CommentsInv, UnderRoot
      <4>3. root # c
        BY <3>1, <4>1 DEF WithReplies, IsThere
      <4>4. root \notin WithReplies(c)
        BY <4>2, <4>3 DEF WithReplies, HeadsThread
      <4>5. comment'[root].at = "there"
        BY <2>2, <4>2, <4>4
      <4>. QED BY <3>1, <4>1, <4>5 DEF UnderRoot
    <3>. QED BY <3>2, <3>3
  <2>9. \A u \in Visitors : post[u].ready /\ post[u].root # 0 => HeadsThread(comment', post[u].root)
    <3>1. \A u \in Visitors : post[u].root \in 0..MaxComments
      BY <1>1 DEF PostRow
    <3>. QED BY <2>5, <3>1 DEF CommentsInv
  <2>10. form.of # 0 => /\ form.row.at = "there" /\ comment'[form.of].at # "new"
                        /\ comment'[form.of].root = form.row.root
    <3>1. form.of \in 0..MaxComments
      BY <1>1 DEF FormRow
    <3>. QED BY <2>2, <3>1 DEF CommentsInv
  <2>11. \A d \in reader.roots : HeadsThread(comment', d)
    <3>1. \A d \in reader.roots : d \in 1..MaxComments
      BY <1>1 DEF ReaderRow
    <3>. QED BY <2>5, <3>1 DEF CommentsInv
  <2>12. RepliesAreShown'
    BY <2>1 DEF CommentsInv, RepliesAreShown
  <2>. QED BY <1>1, <2>1, <2>3, <2>7, <2>8, <2>9, <2>10, <2>11, <2>12 DEF CommentsInv
<1>10. ASSUME NEW row \in ReaderRow, reader' = row, row.found = row.shown,
              \A d \in row.roots : HeadsThread(comment, d), UNCHANGED <<comment, post, form>>
       PROVE  CommentsInv'
  BY <1>10 DEF CommentsInv, RepliesAreShown
<1>11. ASSUME NEW page \in Pages, ListRoots(page) PROVE CommentsInv'
  <2>1. PICK heads \in SUBSET (1..MaxComments) :
          /\ reader' = [NoReader EXCEPT !.at = "roots", !.roots = heads]
          /\ \A d \in heads : HeadsThread(comment, d)
    BY <1>11 DEF ListRoots, HeadsThread, IsThere, IsRoot
  <2> DEFINE row == [NoReader EXCEPT !.at = "roots", !.roots = heads]
  <2>2. row \in ReaderRow /\ row.roots = heads /\ row.found = row.shown
    BY <2>1 DEF ReaderRow, NoReader
  <2>3. reader' = row /\ UNCHANGED <<comment, post, form>>
    BY <1>11, <2>1 DEF ListRoots
  <2>. HIDE DEF row
  <2>. QED BY <1>10, <2>1, <2>2, <2>3
<1>12. CASE ListComments
  <2> DEFINE found == {c \in 1..MaxComments :
                         IsThere(c) /\ (c \in reader.roots \/ comment[c].root \in reader.roots)}
             shown == {c \in found : IsRoot(c) \/ comment[c].root \in found}
  <2>1. reader.roots \subseteq 1..MaxComments
    BY <1>1 DEF ReaderRow
  <2>2. ASSUME NEW c \in found PROVE c \in shown
    <3>1. CASE c \in reader.roots
      BY <2>1, <3>1 DEF CommentsInv, HeadsThread, IsRoot
    <3>2. CASE comment[c].root \in reader.roots
      <4>1. PICK root \in 1..MaxComments : root = comment[c].root /\ root \in reader.roots
        BY <2>1, <3>2
      <4>2. root # 0 /\ UnderRoot(comment, root)
        BY <4>1 DEF CommentsInv, IsThere
      <4>. QED BY <4>1, <4>2 DEF UnderRoot, IsThere
    <3>. QED BY <3>1, <3>2
  <2>3. found \in SUBSET (1..MaxComments) /\ shown = found
    BY <2>2
  <2>4. /\ reader' = [reader EXCEPT !.at = "shown", !.found = found, !.shown = shown]
        /\ UNCHANGED <<comment, post, form>>
    BY <1>12, <2>3 DEF ListComments
  <2>. HIDE DEF found, shown
  <2> DEFINE row == [reader EXCEPT !.at = "shown", !.found = found, !.shown = shown]
  <2>5. row \in ReaderRow /\ row.roots = reader.roots /\ row.found = row.shown
    BY <1>1, <2>3 DEF ReaderRow
  <2>6. reader' = row /\ UNCHANGED <<comment, post, form>>
    BY <2>4
  <2>. HIDE DEF row
  <2>7. \A c \in row.roots : HeadsThread(comment, c)
    BY <2>5 DEF CommentsInv
  <2>. QED BY <1>10, <2>5, <2>6, <2>7
<1>. QED BY <1>2, <1>3, <1>4, <1>5, <1>6, <1>7, <1>8, <1>9, <1>11, <1>12
         DEF CommentsNext, PagesNext

LEMMA PagesApart ==
  /\ MarksNext \/ ReportsNext => UNCHANGED commentVars
  /\ CommentsNext \/ ReportsNext => UNCHANGED markVars
<1>1. ASSUME NEW page \in Pages, Publish(page) PROVE UNCHANGED <<markVars, commentVars>>
  BY <1>1 DEF Publish
<1>2. ASSUME NEW u \in Visitors, ChangeAccess(u) PROVE UNCHANGED <<markVars, commentVars>>
  BY <1>2 DEF ChangeAccess
<1>3. ReportsNext => UNCHANGED <<markVars, commentVars>>
  BY <1>1, <1>2 DEF ReportsNext, PagesNext, Report
<1>4. ASSUME MarksNext PROVE UNCHANGED commentVars
  <2>1. ASSUME NEW r \in Calls, SaveToggle(r) \/ EndPut(r) \/ Leave(r)
        PROVE  UNCHANGED commentVars
    BY <2>1 DEF SaveToggle, EndPut, Leave
  <2>2. ASSUME NEW r \in Calls, NEW u \in Visitors, NEW on \in BOOLEAN, BeginPut(r, u, on)
        PROVE  UNCHANGED commentVars
    BY <2>2 DEF BeginPut
  <2>3. ASSUME NEW r \in Calls, NEW u \in Visitors, NEW m \in Marks,
               ToggleFinds(r, u, m) \/ ToggleMakes(r, u, m) \/ OpenPage(r, u, m)
        PROVE  UNCHANGED commentVars
    BY <2>3 DEF ToggleFinds, ToggleMakes, OpenPage
  <2>4. ASSUME NEW q \in Calls, NEW r \in Calls, NEW m \in Marks, PutLoses(q, r, m)
        PROVE  UNCHANGED commentVars
    BY <2>4 DEF PutLoses
  <2>. QED BY <1>1, <1>2, <1>4, <2>1, <2>2, <2>3, <2>4 DEF MarksNext, PagesNext
<1>5. ASSUME CommentsNext PROVE UNCHANGED markVars
  <2>1. ASSUME NEW page \in Pages, ListRoots(page) PROVE UNCHANGED markVars
    BY <2>1 DEF ListRoots
  <2>2. ListComments \/ StaffSave => UNCHANGED markVars
    BY DEF ListComments, StaffSave
  <2>3. ASSUME NEW c \in 1..MaxComments, StaffOpen(c) \/ StaffDelete(c)
        PROVE  UNCHANGED markVars
    BY <2>3 DEF StaffOpen, StaffDelete
  <2>4. ASSUME NEW u \in Visitors, NEW page \in Pages, NEW root \in 0..MaxComments,
               CheckPost(u, page, root)
        PROVE  UNCHANGED markVars
    BY <2>4 DEF CheckPost
  <2>5. ASSUME NEW u \in Visitors, NEW text \in Texts, NEW c \in 1..MaxComments,
               EditComment(u, c, text)
        PROVE  UNCHANGED markVars
    BY <2>5 DEF EditComment
  <2>6. ASSUME NEW u \in Visitors, NEW text \in Texts, MakePost(u, text)
        PROVE  UNCHANGED markVars
    BY <2>6 DEF MakePost
  <2>. QED BY <1>1, <1>5, <2>1, <2>2, <2>3, <2>4, <2>5, <2>6 DEF CommentsNext, PagesNext
<1>. QED BY <1>3, <1>4, <1>5

(* Theorem. What a store's pages say of the visitor's own marks is what is *)
(* stored, and no reply is listed without the comment above it             *)
(* (MarketBookmarkUpdateAPIView, PublicProductDetailSerializer,            *)
(* ContentCommentsView).                                                   *)
THEOREM PagesAlwaysAgree == StorefrontSpec => []PagesAgree
<1>1. StorefrontInit => MarksInv /\ CommentsInv
  BY MarksInit, CommentsInit
<1>2. /\ MarksInv /\ CommentsInv
      /\ [ReportsNext \/ MarksNext \/ CommentsNext]_storefrontVars
      => MarksInv' /\ CommentsInv'
  <2>1. SUFFICES ASSUME MarksInv, CommentsInv,
                        [ReportsNext \/ MarksNext \/ CommentsNext]_storefrontVars
                 PROVE  MarksInv' /\ CommentsInv'
    OBVIOUS
  <2>2. /\ MarksNext \/ UNCHANGED markVars
        /\ CommentsNext \/ UNCHANGED commentVars
    BY <2>1, PagesApart DEF storefrontVars
  <2>. QED BY <2>1, <2>2, MarksStep, CommentsStep
<1>3. MarksInv /\ CommentsInv => PagesAgree
  BY DEF MarksInv, CommentsInv, PagesAgree
<1>. QED BY <1>1, <1>2, <1>3, PTL DEF StorefrontSpec
=============================================================================
