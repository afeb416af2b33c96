------------------------- MODULE ReservationPayment ------------------------
(***************************************************************************)
(* Paying for an appointment at the gateway while its hold runs out: the   *)
(* bookings of Reservations and the sessions of GatewaySession, put        *)
(* together by PaymentCore and PostPaymentCore of apps/payment/core.py.    *)
(***************************************************************************)
EXTENDS Reservations, GatewaySession

ASSUME AppointmentAssumption ==
  Targets = Bookings /\ 0 \in Sums /\ \A s \in Services : Fee[s] \in Sums

vars == <<booking, credit, now, payment, worker, session>>

TypeOK == ReservationTypeOK /\ GatewayTypeOK

Init == ReservationInit /\ GatewayInit

----------------------------------------------------------------------------
(* PaymentCore.pay on a held booking, first transaction *)
PayableHold(r) ==
  /\ booking[r].status = "held" /\ ~booking[r].paid /\ booking[r].until > now
  /\ PendingFor(r) = {}
  /\ ValidAmount(Fee[booking[r].service])

StartPayment(y, r) ==
  /\ PayableHold(r)
  /\ CreatePayment(y, r, Fee[booking[r].service])
  /\ UNCHANGED bookingVars

(* Fault: a payment that comes late completes all the same. *)
SettleIfHeld(r) ==
  booking' = IF booking[r].status = "held"
             THEN [booking EXCEPT ![r].paid = TRUE, ![r].until = 0,
                                  ![r].status = Settled(booking[r].service)]
             ELSE booking

(* payment_process: the booking is still held, its hold run out or not. *)
Settle(r) ==
  /\ booking[r].status = "held" /\ ~booking[r].paid
  /\ booking' = [booking EXCEPT ![r].paid = TRUE, ![r].until = 0,
                                ![r].status = Settled(booking[r].service)]

PaymentCompleted(y) ==
  /\ VerifyPaid(y) /\ Settle(payment[y].target)
  /\ UNCHANGED <<credit, now>>

(* _release_order: an unpaid hold ends with its payment. *)
EndHold(r) ==
  /\ booking' = IF booking[r].status = "held" /\ ~booking[r].paid
                THEN [booking EXCEPT ![r].status = "expired"] ELSE booking
  /\ UNCHANGED <<credit, now>>

PaymentEnded(y) ==
  /\ AbandonPayment(y) \/ VerifyRejected(y) \/ CallbackCancels(y)
  /\ EndHold(payment[y].target)

Next ==
  \/ ReservationNext /\ UNCHANGED gatewayVars
  \/ \E y \in Payments :
       \/ \E r \in Bookings : StartPayment(y, r)
       \/ PaymentCompleted(y) \/ PaymentEnded(y)
       \/ GatewayStep(y) /\ UNCHANGED bookingVars

Spec == Init /\ [][Next]_vars

(* As for orders: the reconciliation retries, the gateway closes sessions. *)
Fairness ==
  \A y \in Payments :
    /\ WF_vars(PaymentCompleted(y))
    /\ WF_vars(PaymentEnded(y) /\ Verifiable(y))
    /\ WF_vars(SessionExpires(y) /\ UNCHANGED bookingVars)

FairSpec == Spec /\ Fairness
----------------------------------------------------------------------------
(* The customers a specialist serves at an instant *)
Serving(p, t) ==
  {r \in Bookings : /\ booking[r].status \in Active /\ booking[r].specialist = p
                    /\ booking[r].start <= t /\ t < End(r)}

(* A specialist never serves more customers at once than the service of    *)
(* one of them allows: holds that ran out, late payments, moves and the    *)
(* overlap of services of different lengths included.                      *)
NeverOverbooked ==
  \A p \in Specialists, t \in Starts :
    Serving(p, t) # {} =>
      \E r \in Serving(p, t) : Cardinality(Serving(p, t)) <= Capacity[booking[r].service]

PaidBy(r) == {y \in Payments : payment[y].target = r /\ payment[y].status = "complete"}

(* A customer is charged at most once for a booking, its fee, and never    *)
(* for one that ended unpaid; every booking with a fee that is not held    *)
(* was paid for.                                                           *)
PaidForOnce ==
  \A r \in Bookings :
    LET fee == Fee[booking[r].service]
    IN /\ Cardinality(PaidBy(r)) <= 1
       /\ \A y \in PaidBy(r) : payment[y].amount = fee /\ booking[r].paid
       /\ booking[r].paid /\ fee > 0 => PaidBy(r) # {}
       /\ booking[r].status \in {"asked", "confirmed", "completed", "noshow"} =>
            booking[r].paid

(* The fees of a customer's cancelled bookings that had been paid for, one  *)
(* element for each unit of money.                                         *)
Refunds(u) ==
  UNION {{r} \X (1..Fee[booking[r].service]) :
           r \in {x \in Bookings : /\ Client[x] = u /\ booking[x].status = "cancelled"
                                   /\ PaidBy(x) # {}}}

(* What was paid for a cancelled booking is back in the wallet, once, and  *)
(* nothing else is: the customer's cancellation, the owner's and a late    *)
(* payment may race one another (refund_paid_reservation).                 *)
RefundedOnce == \A u \in Customers : credit[u] = Cardinality(Refunds(u))

(* What a customer was charged for a booking is its fee, and is returned   *)
(* when it is cancelled, each once (PaymentCore, refund_paid_reservation). *)
FeesAgree == PaidForOnce /\ RefundedOnce

(* "paid sessions complete" (docs/current/NOTES.md, docs/current/AUDIT.md): *)
(* reconciliation turns money taken at the gateway into an appointment.     *)
PaidSessionsComplete ==
  \A y \in Payments :
    session[y] \in {"captured", "verified"} ~> payment[y].status = "complete"
=============================================================================
