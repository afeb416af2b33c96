--------------------------- MODULE GatewaySession --------------------------
(***************************************************************************)
(* One payment through the Zarinpal gateway: the Payment and Zarinpal rows *)
(* of apps/payment/models.py, the request that PaymentCore.pay makes       *)
(* between its two transactions, and, outside this repository, the session *)
(* at the gateway.  What a payment is for is left to the module that       *)
(* extends this one: it conjoins the effect on the target to the actions   *)
(* below that settle or abandon a payment.                                 *)
(***************************************************************************)
EXTENDS Integers, FiniteSets, TLAPS

CONSTANTS
  Payments,  \* bound: identities of payment rows
  Targets,   \* what a payment can be for
  NoTarget,  \* the target of a row that does not exist yet
  Sums       \* bound: the amounts a payment may have

ASSUME GatewayAssumption ==
  /\ IsFiniteSet(Payments)
  /\ NoTarget \notin Targets
  /\ Sums \subseteq Nat /\ 0 \in Sums   \* 0: of a row that does not exist yet

VARIABLES
  payment,  \* payment[y]: the Payment row y, with its Zarinpal authority
  worker,   \* worker[y]: the request handler running PaymentCore.pay for y
  session   \* session[y]: the gateway's session for y (external)

gatewayVars == <<payment, worker, session>>

PaymentStatus == {"absent", "pending", "complete", "failed", "canceled"}
PaymentRow == [status: PaymentStatus, target: Targets \cup {NoTarget},
               amount: Sums, authority: BOOLEAN]

NoPayment == [status |-> "absent", target |-> NoTarget, amount |-> 0,
              authority |-> FALSE]

(* "calling": the first transaction has committed and the provider has     *)
(* been called; "answered": an authority came back and is not stored yet;  *)
(* "refused": the call raised and the failure is not recorded yet.         *)
WorkerState == {"idle", "calling", "answered", "refused"}

(* "captured": the customer's money was taken and awaits verification.     *)
SessionState == {"none", "open", "captured", "verified", "cancelled", "expired"}

GatewayTypeOK ==
  /\ payment \in [Payments -> PaymentRow]
  /\ worker \in [Payments -> WorkerState]
  /\ session \in [Payments -> SessionState]

GatewayInit ==
  /\ payment = [y \in Payments |-> NoPayment]
  /\ worker = [y \in Payments |-> "idle"]
  /\ session = [y \in Payments |-> "none"]

(* validate_payment_amount; no amount of these models reaches its limit. *)
ValidAmount(a) == a > 0

PendingFor(t) ==
  {y \in Payments : payment[y].target = t /\ payment[y].status = "pending"}

----------------------------------------------------------------------------
(* PaymentCore.pay *)

(* First transaction: the row is committed before the provider is called.  *)
CreatePayment(y, t, a) ==
  /\ payment[y].status = "absent"
  /\ payment' = [payment EXCEPT ![y] = [status |-> "pending", target |-> t,
                                        amount |-> a, authority |-> FALSE]]
  /\ worker' = [worker EXCEPT ![y] = "calling"]
  /\ UNCHANGED session

ProviderOpens(y) ==
  /\ worker[y] = "calling" /\ session[y] = "none"
  /\ session' = [session EXCEPT ![y] = "open"]
  /\ UNCHANGED <<payment, worker>>

ProviderAnswers(y) ==
  /\ worker[y] = "calling" /\ session[y] = "open"
  /\ worker' = [worker EXCEPT ![y] = "answered"]
  /\ UNCHANGED <<payment, session>>

(* An error, a timeout or an unusable body, whether or not a session was   *)
(* opened at the gateway.                                                  *)
ProviderFails(y) ==
  /\ worker[y] = "calling"
  /\ worker' = [worker EXCEPT ![y] = "refused"]
  /\ UNCHANGED <<payment, session>>

(* Second transaction *)
StoreAuthority(y) ==
  /\ worker[y] = "answered"
  /\ worker' = [worker EXCEPT ![y] = "idle"]
  /\ payment' = IF payment[y].status = "pending"
                THEN [payment EXCEPT ![y].authority = TRUE] ELSE payment
  /\ UNCHANGED session

(* The exception handler's transaction, on a payment still pending; the    *)
(* extending module adds the release of the target.                        *)
AbandonPayment(y) ==
  /\ worker[y] = "refused"
  /\ payment[y].status = "pending"
  /\ worker' = [worker EXCEPT ![y] = "idle"]
  /\ payment' = [payment EXCEPT ![y].status = "failed"]
  /\ UNCHANGED session

(* The process dies, or the client's connection is cut, between the two    *)
(* transactions.                                                           *)
Crash(y) ==
  /\ worker[y] # "idle"
  /\ worker' = [worker EXCEPT ![y] = "idle"]
  /\ UNCHANGED <<payment, session>>

----------------------------------------------------------------------------
(* The customer at the gateway *)

(* The redirect leads there once the authority has been stored, and a page *)
(* that was opened stays open whatever becomes of the payment.             *)
AtGateway(y) == payment[y].authority /\ session[y] = "open"

CustomerPays(y) ==
  /\ AtGateway(y)
  /\ session' = [session EXCEPT ![y] = "captured"]
  /\ UNCHANGED <<payment, worker>>

CustomerCancels(y) ==
  /\ AtGateway(y)
  /\ session' = [session EXCEPT ![y] = "cancelled"]
  /\ UNCHANGED <<payment, worker>>

SessionExpires(y) ==
  /\ session[y] = "open"
  /\ session' = [session EXCEPT ![y] = "expired"]
  /\ UNCHANGED <<payment, worker>>

----------------------------------------------------------------------------
(* PaymentCore.verify, entered by the browser's callback, which may be     *)
(* delayed, lost or repeated, or by reconcile_stale_payment_sessions.      *)
(* Every session the reconciliation looks at is older than the payment     *)
(* TTL, by when the gateway has closed it: verify is never called while a  *)
(* session is open.                                                        *)

Verifiable(y) == payment[y].authority /\ payment[y].status = "pending"

(* Fault: code 101 is not taken for a success. *)
VerifyPaidOnce(y) ==
  /\ Verifiable(y)
  /\ session[y] = "captured"
  /\ session' = [session EXCEPT ![y] = "verified"]
  /\ payment' = [payment EXCEPT ![y].status = "complete"]
  /\ UNCHANGED worker

(* Codes 100 and 101; the extending module adds the post-payment process,  *)
(* in the same transaction.                                                *)
VerifyPaid(y) ==
  /\ Verifiable(y)
  /\ session[y] \in {"captured", "verified"}
  /\ session' = [session EXCEPT ![y] = "verified"]
  /\ payment' = [payment EXCEPT ![y].status = "complete"]
  /\ UNCHANGED worker

(* The gateway verifies the session but the transaction does not commit:   *)
(* the answer is lost or unusable, the process dies, or the post-payment   *)
(* process raises.                                                         *)
VerifyInterrupted(y) ==
  /\ Verifiable(y)
  /\ session[y] = "captured"
  /\ session' = [session EXCEPT ![y] = "verified"]
  /\ UNCHANGED <<payment, worker>>

(* Fault: an error of the verification request counts as a rejection. *)
VerifyErrorRejects(y) ==
  /\ Verifiable(y)
  /\ session[y] # "open"
  /\ payment' = [payment EXCEPT ![y].status = "failed"]
  /\ UNCHANGED <<worker, session>>

(* Fault: only cancelled sessions are released, not expired ones. *)
VerifyCancelledOnly(y) ==
  /\ Verifiable(y)
  /\ session[y] = "cancelled"
  /\ payment' = [payment EXCEPT ![y].status = "failed"]
  /\ UNCHANGED <<worker, session>>

(* Any other code.  The extending module adds the release of the target.   *)
VerifyRejected(y) ==
  /\ Verifiable(y)
  /\ session[y] \in {"cancelled", "expired"}
  /\ payment' = [payment EXCEPT ![y].status = "failed"]
  /\ UNCHANGED <<worker, session>>

(* What the browser may report as not OK (external).  The handler believes *)
(* whatever Status it is called with, and does not ask the gateway; that   *)
(* the gateway reports so of sessions that were cancelled, and only of     *)
(* them, is assumed of it and of whoever holds the authority.              *)
ReportedNotOK(y) == session[y] = "cancelled"

(* A callback whose Status is not OK.  The extending module adds the       *)
(* release of the target.                                                  *)
CallbackCancels(y) ==
  /\ Verifiable(y)
  /\ ReportedNotOK(y)
  /\ payment' = [payment EXCEPT ![y].status = "canceled"]
  /\ UNCHANGED <<worker, session>>

(* The steps that touch no target *)
GatewayStep(y) ==
  \/ ProviderOpens(y) \/ ProviderAnswers(y) \/ ProviderFails(y)
  \/ StoreAuthority(y) \/ Crash(y)
  \/ CustomerPays(y) \/ CustomerCancels(y) \/ SessionExpires(y)
  \/ VerifyInterrupted(y)
----------------------------------------------------------------------------
(* Proofs: what these steps do to the rows, for the proofs of the modules  *)
(* that extend this one.                                                   *)

(* Rows, workers and sessions keep their types. *)
LEMMA GatewayTypes ==
  ASSUME GatewayTypeOK, NEW y \in Payments
  PROVE  /\ \A t \in Targets, a \in Sums : CreatePayment(y, t, a) => GatewayTypeOK'
         /\ AbandonPayment(y) \/ VerifyPaid(y) \/ VerifyRejected(y)
              \/ CallbackCancels(y) \/ GatewayStep(y) => GatewayTypeOK'
<1> USE DEF GatewayTypeOK
<1>1. ASSUME NEW t \in Targets, NEW a \in Sums, CreatePayment(y, t, a)
      PROVE  GatewayTypeOK'
  BY <1>1 DEF CreatePayment, PaymentRow, PaymentStatus, WorkerState
<1>2. CASE AbandonPayment(y)
  BY <1>2 DEF AbandonPayment, PaymentRow, PaymentStatus, WorkerState
<1>3. CASE VerifyPaid(y)
  BY <1>3 DEF VerifyPaid, PaymentRow, PaymentStatus, SessionState
<1>4. CASE VerifyRejected(y) \/ CallbackCancels(y)
  BY <1>4 DEF VerifyRejected, CallbackCancels, PaymentRow, PaymentStatus
<1>5. CASE StoreAuthority(y)
  <2>1. [payment EXCEPT ![y].authority = TRUE] \in [Payments -> PaymentRow]
    BY DEF PaymentRow
  <2>. QED BY <1>5, <2>1 DEF StoreAuthority, WorkerState
<1>6. CASE ProviderOpens(y) \/ CustomerPays(y) \/ CustomerCancels(y)
             \/ SessionExpires(y) \/ VerifyInterrupted(y)
  BY <1>6 DEF ProviderOpens, AtGateway, CustomerPays, CustomerCancels, SessionExpires,
              VerifyInterrupted, SessionState
<1>7. CASE ProviderAnswers(y) \/ ProviderFails(y) \/ Crash(y)
  BY <1>7 DEF ProviderAnswers, ProviderFails, Crash, WorkerState
<1>. QED BY <1>1, <1>2, <1>3, <1>4, <1>5, <1>6, <1>7 DEF GatewayStep

LEMMA GatewayInitTypes ==
  ASSUME GatewayInit
  PROVE  GatewayTypeOK
BY GatewayAssumption DEF GatewayInit, GatewayTypeOK, NoPayment, PaymentRow, PaymentStatus, WorkerState,
       SessionState

(* y alone moves, from being pending to one of these; what it is for, and  *)
(* its amount, stay.                                                       *)
Ends(y, how) ==
  /\ payment[y].status = "pending" /\ payment'[y].status \in how
  /\ payment'[y].target = payment[y].target /\ payment'[y].amount = payment[y].amount
  /\ \A z \in Payments \ {y} : payment'[z] = payment[z]

LEMMA SessionEffects ==
  ASSUME GatewayTypeOK, NEW y \in Payments
  PROVE  /\ VerifyPaid(y) => Ends(y, {"complete"})
         /\ AbandonPayment(y) \/ VerifyRejected(y) \/ CallbackCancels(y)
              => Ends(y, {"failed", "canceled"})
         /\ GatewayStep(y) =>
              \A z \in Payments :
                /\ payment'[z].status = payment[z].status
                /\ payment'[z].target = payment[z].target
                /\ payment'[z].amount = payment[z].amount
<1>1. \A z \in Payments : payment[z] \in PaymentRow
  BY DEF GatewayTypeOK
<1>2. ASSUME VerifyPaid(y)
      PROVE  Ends(y, {"complete"})
  BY <1>1, <1>2 DEF VerifyPaid, Verifiable, Ends, GatewayTypeOK, PaymentRow
<1>3. ASSUME AbandonPayment(y) \/ VerifyRejected(y) \/ CallbackCancels(y)
      PROVE  Ends(y, {"failed", "canceled"})
  <2>1. PICK status \in {"failed", "canceled"} :
          payment' = [payment EXCEPT ![y].status = status]
    BY <1>3 DEF AbandonPayment, VerifyRejected, CallbackCancels
  <2>2. payment[y].status = "pending"
    BY <1>3 DEF AbandonPayment, VerifyRejected, CallbackCancels, Verifiable
  <2>. QED BY <1>1, <2>1, <2>2 DEF Ends, GatewayTypeOK, PaymentRow
<1>4. ASSUME GatewayStep(y), NEW z \in Payments
      PROVE  /\ payment'[z].status = payment[z].status
             /\ payment'[z].target = payment[z].target
             /\ payment'[z].amount = payment[z].amount
  <2>1. CASE payment' = payment
    BY <2>1
  <2>2. CASE StoreAuthority(y) /\ payment' # payment
    <3>1. payment' = [payment EXCEPT ![y].authority = TRUE]
      BY <2>2 DEF StoreAuthority
    <3>. QED BY <1>1, <3>1 DEF GatewayTypeOK, PaymentRow
  <2>3. StoreAuthority(y) \/ payment' = payment
    BY <1>4 DEF GatewayStep, ProviderOpens, ProviderAnswers, ProviderFails, Crash,
         CustomerPays, CustomerCancels, SessionExpires, VerifyInterrupted
  <2>. QED BY <2>1, <2>2, <2>3
<1>. QED BY <1>2, <1>3, <1>4
=============================================================================
