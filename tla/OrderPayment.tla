---------------------------- MODULE OrderPayment ---------------------------
(***************************************************************************)
(* Paying for orders: the carts of CartInventory and the gateway sessions  *)
(* of GatewaySession, put together by PaymentCore and PostPaymentCore of   *)
(* apps/payment/core.py, with payments from the customer's wallet.         *)
(***************************************************************************)
EXTENDS CartInventory, GatewaySession

CONSTANT OpeningBalance  \* OpeningBalance[u]: the wallet of u at the start

ASSUME WalletAssumption == OpeningBalance \in [Users -> Nat]
ASSUME TargetAssumption == Targets = Orders /\ Amounts \subseteq Sums /\ 0 \in Sums

VARIABLE balance         \* balance[u]: Wallet.balance of u

vars == <<order, stock, promotion, offered, payment, worker, session, balance>>

TypeOK == CartTypeOK /\ GatewayTypeOK /\ balance \in [Users -> Int]

Init == CartInit /\ GatewayInit /\ balance = OpeningBalance

----------------------------------------------------------------------------
(* An order with a pending payment is answered with that payment's session. *)
PayableOrder(o) ==
  /\ order[o].type = "online" /\ ~order[o].paid
  /\ PendingFor(o) = {}
  /\ ValidAmount(order[o].payable)
  /\ Reservable(o)

(* PaymentCore.pay on an order, first transaction *)
StartPayment(y, o) ==
  /\ PayableOrder(o)
  /\ CreatePayment(y, o, order[o].payable)
  /\ stock' = TakeUnits(stock, o)
  /\ promotion' = TakeSlots(promotion, o)
  /\ order' = [order EXCEPT ![o].status = "processing",
                            ![o].inventory = "reserved"]
  /\ UNCHANGED <<offered, balance>>

(* _release_order: the order of payment y fails, unless another session    *)
(* for it is pending or it is no longer waiting for this payment.          *)
ReleaseOrder(y) ==
  LET o == payment[y].target
      release == /\ PendingFor(o) \ {y} = {}
                 /\ order[o].status = "processing" /\ ~order[o].paid
  IN /\ release => Releasable(o)
     /\ stock' = IF release THEN StockAfterRelease(o) ELSE stock
     /\ promotion' = IF release THEN PromotionAfterRelease(o) ELSE promotion
     /\ order' = IF release
                 THEN [order EXCEPT ![o].status = "failed",
                                    ![o].inventory = InventoryAfterRelease(o)]
                 ELSE order

(* PaymentCore.pay: the provider's request failed *)
PaymentAbandoned(y) ==
  /\ AbandonPayment(y) /\ ReleaseOrder(y)
  /\ UNCHANGED <<offered, balance>>

(* PaymentCore.verify: success, with complete_order *)
PaymentCompleted(y) ==
  LET o == payment[y].target
  IN /\ VerifyPaid(y)
     /\ order[o].status = "processing" /\ ~order[o].paid
     /\ Confirmable(o)
     /\ promotion' = SpendSlots(promotion, o)
     /\ order' = [order EXCEPT ![o].status = "completed", ![o].paid = TRUE,
                               ![o].inventory = "confirmed"]
     /\ UNCHANGED <<stock, offered, balance>>

(* PaymentCore.verify: a definitive failure, or a cancellation *)
PaymentRejected(y) ==
  /\ VerifyRejected(y) /\ ReleaseOrder(y)
  /\ UNCHANGED <<offered, balance>>

PaymentCanceled(y) ==
  /\ CallbackCancels(y) /\ ReleaseOrder(y)
  /\ UNCHANGED <<offered, balance>>

----------------------------------------------------------------------------
(* PostPaymentCore.wallet_process on an order: reserve, debit, confirm *)

WalletPayable(o) ==
  /\ order[o].type = "online" /\ ~order[o].paid
  /\ ValidAmount(order[o].payable)
  /\ Reservable(o)

(* Fault: the order completes although the debit was refused. *)
PayFromShortWallet(o) ==
  /\ WalletPayable(o)
  /\ balance' = [balance EXCEPT ![Buyer[o]] =
                   IF @ >= order[o].payable THEN @ - order[o].payable ELSE @]
  /\ stock' = TakeUnits(stock, o)
  /\ promotion' = SpendSlots(TakeSlots(promotion, o), o)
  /\ order' = [order EXCEPT ![o].status = "completed", ![o].paid = TRUE,
                            ![o].inventory = "confirmed"]
  /\ UNCHANGED <<offered, gatewayVars>>

PayFromWallet(o) ==
  /\ WalletPayable(o)
  /\ balance[Buyer[o]] >= order[o].payable
  /\ balance' = [balance EXCEPT ![Buyer[o]] = @ - order[o].payable]
  /\ stock' = TakeUnits(stock, o)
  /\ promotion' = SpendSlots(TakeSlots(promotion, o), o)
  /\ order' = [order EXCEPT ![o].status = "completed", ![o].paid = TRUE,
                            ![o].inventory = "confirmed"]
  /\ UNCHANGED <<offered, gatewayVars>>

(* Fault: the refused debit commits the reservation made before it. *)
WalletDebitLeaks(o) ==
  /\ WalletPayable(o)
  /\ balance[Buyer[o]] < order[o].payable
  /\ stock' = TakeUnits(stock, o)
  /\ promotion' = TakeSlots(promotion, o)
  /\ order' = [order EXCEPT ![o].inventory = "reserved"]
  /\ UNCHANGED <<offered, gatewayVars, balance>>

(* The debit is refused: the transaction commits after a release that is   *)
(* not terminal, so that the order can be paid for again.                  *)
WalletDebitRefused(o) ==
  /\ WalletPayable(o)
  /\ balance[Buyer[o]] < order[o].payable
  /\ stock' = ReturnUnits(TakeUnits(stock, o), o)
  /\ promotion' = ReturnSlots(TakeSlots(promotion, o), o)
  /\ order' = [order EXCEPT ![o].inventory = "none"]
  /\ UNCHANGED <<offered, gatewayVars, balance>>

----------------------------------------------------------------------------
PayStep(o) ==
  \/ PayFromWallet(o) \/ WalletDebitRefused(o)
  \/ \E y \in Payments : StartPayment(y, o)

VerifyStep(y) ==
  \/ PaymentAbandoned(y) \/ PaymentCompleted(y)
  \/ PaymentRejected(y) \/ PaymentCanceled(y)

Next ==
  \/ CartNext /\ UNCHANGED <<gatewayVars, balance>>
  \/ \E o \in Orders : PayStep(o)
  \/ \E y \in Payments :
       \/ VerifyStep(y)
       \/ GatewayStep(y) /\ UNCHANGED <<cartVars, balance>>

Spec == Init /\ [][Next]_vars

----------------------------------------------------------------------------
(* What holds the system together *)

HoldsStock(o) == order[o].inventory \in {"reserved", "confirmed"}

HeldUnits(p) ==
  {u \in Orders \X (Listings \X (1..MaxQty)) :
     HoldsStock(u[1]) /\ u \in Units(u[1], order[u[1]].basket, p)}

(* Every unit of a product is either in stock or held by exactly one order, *)
(* whatever the interleaving of reservations, releases and confirmations,   *)
(* and no product is oversold: the locked stock transition of               *)
(* apps/cart/services.py.                                                   *)
StockConservation ==
  \A p \in Products :
    /\ stock[p] >= 0
    /\ stock[p] + Cardinality(HeldUnits(p)) = Supply[p]

Holding(d, inv) ==
  {o \in Orders : d \in order[o].applied /\ order[o].inventory = inv}

(* The counters of a promotion are the numbers of orders that hold or have  *)
(* used a slot, its recorded users are the buyers of the latter, and its    *)
(* limit is never passed: TakeSlots, ReturnSlots and SpendSlots are called  *)
(* in pairs although no handler sees another's order.                       *)
PromotionAccounts ==
  \A d \in Promotions :
    /\ promotion[d].reserved = Cardinality(Holding(d, "reserved"))
    /\ promotion[d].consumed = Cardinality(Holding(d, "confirmed"))
    /\ d \notin Codes =>
         promotion[d].users = {Buyer[o] : o \in Holding(d, "confirmed")}
    /\ BelowLimit(d, promotion[d].reserved + promotion[d].consumed - 1)

(* A customer never gets a promotion twice, on paid or still unpaid orders: *)
(* "single-use per buyer" (docs/current/NOTES.md), enforced only when an    *)
(* order reserves, long after several orders were priced with it.           *)
OncePerBuyer ==
  \A d \in Promotions :
    \A o, x \in Holding(d, "reserved") \cup Holding(d, "confirmed") :
      Buyer[o] = Buyer[x] => o = x

(* What promotions count is what orders use, once per buyer                *)
(* (reserve_order_inventory, confirm_order_inventory).                      *)
PromotionsAgree == PromotionAccounts /\ OncePerBuyer

(* An order is locked for exactly as long as one payment session for it is  *)
(* pending, and holds its stock then; no other order holds a reservation.   *)
(* A session that fails leaves no stock behind and never frees the stock    *)
(* of an order another session is still paying for.                         *)
LockedByOneSession ==
  \A o \in Orders :
    /\ order[o].status = "processing" <=> PendingFor(o) # {}
    /\ order[o].status = "processing" <=> order[o].inventory = "reserved"
    /\ Cardinality(PendingFor(o)) <= 1

(* The customer is charged once, and the amount that was frozen: a complete *)
(* payment is for a completed order, for its frozen amount, and is the only *)
(* one; the basket is still the one that was priced.                        *)
ChargedOnceAsPlaced ==
  \A y \in Payments :
    LET o == payment[y].target
    IN payment[y].status \in {"pending", "complete"} =>
         /\ payment[y].amount = order[o].payable
         /\ order[o].priced = order[o].basket
         /\ payment[y].status = "complete" =>
              /\ order[o].status = "completed"
              /\ \A z \in Payments \ {y} :
                   payment[z].status = "complete" => payment[z].target # o

(* Money taken at the gateway is never lost: its payment is complete or     *)
(* still pending, whatever crashed, was repeated or arrived late.           *)
CapturedIsKept ==
  \A y \in Payments :
    /\ session[y] \in {"captured", "verified"} =>
         payment[y].status \in {"pending", "complete"}
    /\ payment[y].status = "complete" => session[y] = "verified"

(* What a payment session, its order and the gateway say of one another     *)
(* agrees at every step, whatever crashed or came late (PaymentCore).       *)
PaymentsAgree == LockedByOneSession /\ ChargedOnceAsPlaced /\ CapturedIsKept

(* Orders paid for without a session, and what was frozen for them.         *)
PaidFromWallet(u) ==
  {o \in Orders : /\ Buyer[o] = u /\ order[o].type = "online" /\ order[o].paid
                  /\ \A y \in Payments : ~(payment[y].target = o
                                             /\ payment[y].status = "complete")}

Spent(u) == UNION {{o} \X (1..order[o].payable) : o \in PaidFromWallet(u)}

(* A wallet is debited exactly the frozen totals of the orders paid from    *)
(* it, and never overdrawn: the debit and the order's completion commit     *)
(* together (PostPaymentCore.wallet_process).                               *)
WalletAccounts ==
  \A u \in Users :
    balance[u] >= 0 /\ balance[u] + Cardinality(Spent(u)) = OpeningBalance[u]

----------------------------------------------------------------------------
(* OrderPayment implements Settlement. *)

OutcomeOf(status) ==
  CASE status \in {"absent", "draft", "pending", "verified"} -> "open"
    [] status = "processing" -> "locked"
    [] status = "completed"  -> "paid"
    [] OTHER                 -> "closed"

Ledger == INSTANCE Settlement WITH
  outcome <- [o \in Orders |-> OutcomeOf(order[o].status)],
  need    <- [o \in Orders |-> [p \in Products |-> Demand(o, order[o].basket, p)]],
  goods   <- stock

(* Seen as an open, locked, paid or closed order and the goods it needs,    *)
(* every handler, callback, crash and retry is a step of the ledger.        *)
ImplementsSettlement == Ledger!LedgerSpec
=============================================================================
