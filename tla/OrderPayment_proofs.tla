------------------------- MODULE OrderPayment_proofs -----------------------
(***************************************************************************)
(* Proofs about what a cart draws on, for every set of orders, customers,  *)
(* products, promotions, payments, codes and prices: the payment of        *)
(* orders, the codes their buyers hand in, their bills and the forms of    *)
(* the products.  Each part has its own variables.                         *)
(***************************************************************************)
EXTENDS OrderPayment, PromotionCodes, OrderPricing, ProductForms, FiniteSetTheorems, TLAPS

----------------------------------------------------------------------------
(* Demand is a number: the units an order asks for form a finite set. *)

LEMMA UnitsFinite ==
  ASSUME NEW o, NEW b, NEW p
  PROVE  IsFiniteSet(Units(o, b, p)) /\ Demand(o, b, p) \in Nat
<1> DEFINE All == Listings \X (1..MaxQty)
           Chosen == {u \in All : Source[u[1]] = p /\ u[2] <= b[u[1]]}
<1>1. IsFiniteSet(1..MaxQty)
  BY FS_Interval, CartAssumption
<1>2. IsFiniteSet(All)
  BY <1>1, FS_Product, CartAssumption
<1>3. IsFiniteSet(Chosen)
  <2>1. Chosen \in SUBSET All
    OBVIOUS
  <2>. QED BY <1>2, <2>1, FS_Subset
<1>4. IsFiniteSet({o} \X Chosen)
  BY <1>3, FS_Singleton, FS_Product
<1>5. Units(o, b, p) = {o} \X Chosen
  BY DEF Units
<1>. QED BY <1>4, <1>5, FS_CardinalityType DEF Demand

(* Moving units in or out of the stock leaves integers. *)
LEMMA StockMovesType ==
  ASSUME NEW o, NEW st \in [Products -> Int]
  PROVE  /\ TakeUnits(st, o) \in [Products -> Int]
         /\ ReturnUnits(st, o) \in [Products -> Int]
<1>1. \A p \in Products : Demand(o, order[o].basket, p) \in Int
  BY UnitsFinite
<1>. QED BY <1>1 DEF TakeUnits, ReturnUnits

LEMMA PromotionRowMoves ==
  ASSUME NEW r \in PromotionRow, r.reserved >= 1, NEW us \in SUBSET Users
  PROVE  [r EXCEPT !.reserved = @ - 1, !.consumed = @ + 1, !.users = us]
           \in PromotionRow
<1> DEFINE r1 == [r EXCEPT !.reserved = r.reserved - 1]
           r2 == [r1 EXCEPT !.consumed = r.consumed + 1]
           r3 == [r2 EXCEPT !.users = us]
<1>1. r1 \in PromotionRow
  BY DEF PromotionRow
<1>2. r2 \in PromotionRow
  <2>1. r.consumed + 1 \in Nat
    BY DEF PromotionRow
  <2>. HIDE DEF r1
  <2>. QED BY <1>1, <2>1 DEF PromotionRow
<1>3. r3 \in PromotionRow
  <2>. HIDE DEF r2
  <2>. QED BY <1>2 DEF PromotionRow
<1>. QED BY <1>3, Zenon

(* Moving slots keeps the counters natural when there is a slot to move. *)
LEMMA SlotMovesType ==
  ASSUME CartTypeOK, NEW o \in Orders, NEW pr \in [Promotions -> PromotionRow]
  PROVE  /\ TakeSlots(pr, o) \in [Promotions -> PromotionRow]
         /\ (\A d \in order[o].applied : pr[d].reserved >= 1) =>
              /\ ReturnSlots(pr, o) \in [Promotions -> PromotionRow]
              /\ SpendSlots(pr, o) \in [Promotions -> PromotionRow]
         /\ \A d \in order[o].applied : TakeSlots(pr, o)[d].reserved >= 1
<1>0. order[o].applied \subseteq Promotions /\ Buyer[o] \in Users
  BY CartAssumption DEF CartTypeOK, OrderRow
<1>1. TakeSlots(pr, o) \in [Promotions -> PromotionRow]
  BY DEF TakeSlots, PromotionRow
<1>2. \A d \in order[o].applied : TakeSlots(pr, o)[d].reserved >= 1
  BY <1>0 DEF TakeSlots, PromotionRow
<1>3. ASSUME \A d \in order[o].applied : pr[d].reserved >= 1
      PROVE  ReturnSlots(pr, o) \in [Promotions -> PromotionRow]
  BY <1>0, <1>3 DEF ReturnSlots, PromotionRow
<1>4. ASSUME \A d \in order[o].applied : pr[d].reserved >= 1
      PROVE  SpendSlots(pr, o) \in [Promotions -> PromotionRow]
  <2>1. ASSUME NEW d \in Promotions, d \in order[o].applied
        PROVE  SpendSlots(pr, o)[d] \in PromotionRow
    <3>1. pr[d] \in PromotionRow /\ pr[d].reserved >= 1
      BY <1>4, <2>1
    <3>2. SpendSlots(pr, o)[d] =
            [pr[d] EXCEPT !.reserved = @ - 1, !.consumed = @ + 1,
                          !.users = IF d \in Codes THEN @ ELSE @ \cup {Buyer[o]}]
      BY <2>1 DEF SpendSlots
    <3>3. (IF d \in Codes THEN pr[d].users ELSE pr[d].users \cup {Buyer[o]})
            \in SUBSET Users
      BY <1>0, <3>1 DEF PromotionRow
    <3>4. PICK us \in SUBSET Users :
            us = IF d \in Codes THEN pr[d].users ELSE pr[d].users \cup {Buyer[o]}
      BY <3>3
    <3>5. SpendSlots(pr, o)[d] =
            [pr[d] EXCEPT !.reserved = @ - 1, !.consumed = @ + 1, !.users = us]
      BY <3>2, <3>4, Zenon
    <3>. QED BY <3>1, <3>5, PromotionRowMoves
  <2>2. ASSUME NEW d \in Promotions, d \notin order[o].applied
        PROVE  SpendSlots(pr, o)[d] \in PromotionRow
    BY <2>2 DEF SpendSlots
  <2>. QED BY <2>1, <2>2 DEF SpendSlots
<1>. QED BY <1>1, <1>2, <1>3, <1>4

----------------------------------------------------------------------------
(* Type correctness *)

LEMMA PayableIsSum ==
  ASSUME TypeOK, NEW o \in Orders
  PROVE  order[o].payable \in Sums
BY TargetAssumption DEF TypeOK, CartTypeOK, OrderRow, NoAmount

LEMMA CartEditsType ==
  ASSUME TypeOK, NEW o \in Orders,
         \/ OpenCart(o) \/ DeleteDraft(o)
         \/ \E l \in Listings :
              \/ RemoveItem(o, l)
              \/ \E n \in 1..MaxQty : AddItem(o, l, n) \/ UpdateItem(o, l, n)
         \/ \E t \in OrderType, b \in Basket : ReplaceItems(o, b, t)
  PROVE  CartTypeOK'
<1> USE DEF TypeOK, CartTypeOK
<1>1. /\ EmptyBasket \in Basket
      /\ NoOrder \in OrderRow
      /\ [NoOrder EXCEPT !.status = "draft"] \in OrderRow
  <2>1. EmptyBasket \in Basket
    BY CartAssumption DEF EmptyBasket, Basket
  <2>2. /\ "absent" \in OrderStatus /\ "draft" \in OrderStatus
        /\ "online" \in OrderType /\ "none" \in InventoryStatus
    BY DEF OrderStatus, OrderType, InventoryStatus
  <2>3. NoOrder \in OrderRow
    BY <2>1, <2>2 DEF NoOrder, OrderRow
  <2>4. [NoOrder EXCEPT !.status = "draft"] \in OrderRow
    BY <2>2, <2>3 DEF OrderRow
  <2>. QED BY <2>1, <2>3, <2>4
<1>2. ASSUME NEW b \in Basket
      PROVE  Edited(o, b) \in OrderRow
  BY <1>1, <1>2 DEF Edited, OrderRow, OrderStatus, NoAmount
<1>3. CASE OpenCart(o)
  BY <1>1, <1>3 DEF OpenCart
<1>4. CASE DeleteDraft(o)
  BY <1>1, <1>4 DEF DeleteDraft
<1>5. ASSUME NEW l \in Listings, RemoveItem(o, l)
      PROVE  CartTypeOK'
  <2>1. [order[o].basket EXCEPT ![l] = 0] \in Basket
    BY CartAssumption DEF Basket, OrderRow
  <2>. QED BY <1>2, <1>5, <2>1 DEF RemoveItem
<1>6. ASSUME NEW l \in Listings, NEW n \in 1..MaxQty, AddItem(o, l, n)
      PROVE  CartTypeOK'
  <2>1. [order[o].basket EXCEPT ![l] = @ + n] \in Basket
    BY <1>6, CartAssumption DEF AddItem, Basket, OrderRow
  <2>. QED BY <1>2, <1>6, <2>1 DEF AddItem
<1>7. ASSUME NEW l \in Listings, NEW n \in 1..MaxQty, UpdateItem(o, l, n)
      PROVE  CartTypeOK'
  <2>1. [order[o].basket EXCEPT ![l] = n] \in Basket
    BY CartAssumption DEF Basket, OrderRow
  <2>. QED BY <1>2, <1>7, <2>1 DEF UpdateItem
<1>8. ASSUME NEW t \in OrderType, NEW b \in Basket, ReplaceItems(o, b, t)
      PROVE  CartTypeOK'
  BY <1>2, <1>8 DEF ReplaceItems, Replaced, OrderRow
<1>. QED BY <1>3, <1>4, <1>5, <1>6, <1>7, <1>8

LEMMA PlacingType ==
  ASSUME TypeOK, NEW o \in Orders, NEW t \in OrderType,
         NEW ds \in SUBSET Promotions, NEW a \in Amounts,
         Checkout(o, t, ds, a) \/ \E b \in Basket : PlaceOrder(o, b, t, ds, a)
  PROVE  CartTypeOK'
<1> USE DEF TypeOK, CartTypeOK
<1>1. ASSUME NEW b \in Basket
      PROVE  Placed(o, b, t, ds, a) \in OrderRow
  BY <1>1 DEF Placed, OrderRow, OrderStatus
<1>2. CASE Checkout(o, t, ds, a)
  BY <1>1, <1>2 DEF Checkout, OrderRow
<1>3. CASE \E b \in Basket : PlaceOrder(o, b, t, ds, a)
  BY <1>1, <1>3 DEF PlaceOrder
<1>. QED BY <1>2, <1>3

(* A release, a reservation and a confirmation, whoever makes them. *)
LEMMA ReleaseType ==
  ASSUME TypeOK, NEW o \in Orders, Releasable(o)
  PROVE  /\ StockAfterRelease(o) \in [Products -> Int]
         /\ PromotionAfterRelease(o) \in [Promotions -> PromotionRow]
         /\ InventoryAfterRelease(o) \in InventoryStatus
<1>1. /\ CartTypeOK /\ stock \in [Products -> Int]
      /\ promotion \in [Promotions -> PromotionRow]
      /\ order[o].inventory \in InventoryStatus
  BY DEF TypeOK, CartTypeOK, OrderRow
<1>2. StockAfterRelease(o) \in [Products -> Int]
  BY <1>1, StockMovesType DEF StockAfterRelease
<1>3. PromotionAfterRelease(o) \in [Promotions -> PromotionRow]
  BY <1>1, SlotMovesType DEF PromotionAfterRelease, Releasable, HasSlots
<1>. QED BY <1>1, <1>2, <1>3 DEF InventoryAfterRelease, InventoryStatus

LEMMA SaleType ==
  ASSUME TypeOK, NEW o \in Orders
  PROVE  /\ TakeUnits(stock, o) \in [Products -> Int]
         /\ ReturnUnits(TakeUnits(stock, o), o) \in [Products -> Int]
         /\ TakeSlots(promotion, o) \in [Promotions -> PromotionRow]
         /\ ReturnSlots(TakeSlots(promotion, o), o) \in [Promotions -> PromotionRow]
         /\ SpendSlots(TakeSlots(promotion, o), o) \in [Promotions -> PromotionRow]
         /\ HasSlots(o) => SpendSlots(promotion, o) \in [Promotions -> PromotionRow]
<1>1. /\ CartTypeOK /\ stock \in [Products -> Int]
      /\ promotion \in [Promotions -> PromotionRow]
  BY DEF TypeOK, CartTypeOK
<1>. QED BY <1>1, StockMovesType, SlotMovesType DEF HasSlots

(* The rows an order may be set to by a decision. *)
LEMMA DecidedRowType ==
  ASSUME TypeOK, NEW o \in Orders,
         NEW st \in OrderStatus, NEW inv \in InventoryStatus, NEW pd \in BOOLEAN
  PROVE  /\ [order EXCEPT ![o].status = st] \in [Orders -> OrderRow]
         /\ [order EXCEPT ![o].inventory = inv] \in [Orders -> OrderRow]
         /\ [order EXCEPT ![o].status = st, ![o].inventory = inv]
              \in [Orders -> OrderRow]
         /\ [order EXCEPT ![o].status = st, ![o].paid = pd, ![o].inventory = inv]
              \in [Orders -> OrderRow]
<1> DEFINE Rows == [Orders -> OrderRow]
<1>1. order \in Rows
  BY DEF TypeOK, CartTypeOK
<1>2. ASSUME NEW f \in Rows
      PROVE  /\ [f EXCEPT ![o].status = st] \in Rows
             /\ [f EXCEPT ![o].inventory = inv] \in Rows
             /\ [f EXCEPT ![o].paid = pd] \in Rows
  BY <1>2 DEF OrderRow
<1>3. [order EXCEPT ![o].status = st, ![o].inventory = inv] \in Rows
  <2>1. [[order EXCEPT ![o].status = st] EXCEPT ![o].inventory = inv] \in Rows
    <3>. HIDE DEF Rows
    <3>. QED BY <1>1, <1>2
  <2>. QED BY <2>1
<1>4. [order EXCEPT ![o].status = st, ![o].paid = pd, ![o].inventory = inv] \in Rows
  <2>1. [[[order EXCEPT ![o].status = st] EXCEPT ![o].paid = pd]
           EXCEPT ![o].inventory = inv] \in Rows
    <3>. HIDE DEF Rows
    <3>. QED BY <1>1, <1>2
  <2>. QED BY <2>1
<1>. QED BY <1>1, <1>2, <1>3, <1>4

LEMMA CartStepType ==
  ASSUME TypeOK, CartNext, UNCHANGED <<gatewayVars, balance>>
  PROVE  TypeOK'
<1>1. GatewayTypeOK' /\ (balance \in [Users -> Int])'
  BY DEF TypeOK, GatewayTypeOK, gatewayVars
<1>2. ASSUME NEW o \in Orders, VerifyOrder(o)
      PROVE  CartTypeOK'
  <2>1. [order EXCEPT ![o].status = "verified"] \in [Orders -> OrderRow]
    BY DecidedRowType DEF OrderStatus, InventoryStatus
  <2>. QED BY <1>2, <2>1 DEF VerifyOrder, TypeOK, CartTypeOK
<1>3. ASSUME NEW o \in Orders, RejectOrder(o)
      PROVE  CartTypeOK'
  <2>1. Releasable(o)
    BY <1>3 DEF RejectOrder
  <2>2. \A i \in InventoryStatus :
          [order EXCEPT ![o].status = "rejected", ![o].inventory = i]
            \in [Orders -> OrderRow]
    BY DecidedRowType DEF OrderStatus
  <2>. QED BY <1>3, <2>1, <2>2, ReleaseType DEF RejectOrder, TypeOK, CartTypeOK
<1>4. ASSUME NEW o \in Orders, AcceptCashOrder(o)
      PROVE  CartTypeOK'
  <2>1. [order EXCEPT ![o].status = "completed", ![o].paid = TRUE,
                      ![o].inventory = "confirmed"] \in [Orders -> OrderRow]
    BY DecidedRowType DEF OrderStatus, InventoryStatus
  <2>. QED BY <1>4, <2>1, SaleType DEF AcceptCashOrder, TypeOK, CartTypeOK
<1>5. ASSUME NEW l \in Listings, Withdraw(l) \/ Publish(l)
      PROVE  CartTypeOK'
  BY <1>5 DEF Withdraw, Publish, TypeOK, CartTypeOK
<1>6. ASSUME NEW d \in Promotions, SwitchPromotion(d)
      PROVE  CartTypeOK'
  <2>1. /\ promotion' = [promotion EXCEPT ![d].active = ~@]
        /\ UNCHANGED <<order, stock, offered>>
    BY <1>6, Zenon DEF SwitchPromotion
  <2>. QED BY <2>1 DEF TypeOK, CartTypeOK, PromotionRow
<1>7. CartTypeOK'
  BY <1>2, <1>3, <1>4, <1>5, <1>6, CartEditsType, PlacingType DEF CartNext
<1>. QED BY <1>1, <1>7 DEF TypeOK

LEMMA GatewayStepType ==
  ASSUME TypeOK, NEW y \in Payments
  PROVE  /\ \A t \in Targets, a \in Sums : CreatePayment(y, t, a) => GatewayTypeOK'
         /\ AbandonPayment(y) \/ VerifyPaid(y) \/ VerifyRejected(y)
              \/ CallbackCancels(y) \/ GatewayStep(y) => GatewayTypeOK'
BY GatewayTypes DEF TypeOK

(* ReleaseOrder is only ever called for a payment that has a target. *)
PendingHasTarget ==
  \A y \in Payments : payment[y].status # "absent" => payment[y].target \in Orders

LEMMA ReleaseOrderType ==
  ASSUME TypeOK, NEW y \in Payments, payment[y].target \in Orders,
         ReleaseOrder(y), UNCHANGED offered
  PROVE  CartTypeOK'
<1> DEFINE o == payment[y].target
<1>1. o \in Orders
  OBVIOUS
<1>2. CASE stock' = stock /\ promotion' = promotion /\ order' = order
  BY <1>2 DEF TypeOK, CartTypeOK
<1>3. CASE /\ Releasable(o)
           /\ stock' = StockAfterRelease(o)
           /\ promotion' = PromotionAfterRelease(o)
           /\ order' = [order EXCEPT ![o].status = "failed",
                                     ![o].inventory = InventoryAfterRelease(o)]
  <2>. HIDE DEF o
  <2>1. \A i \in InventoryStatus :
          [order EXCEPT ![o].status = "failed", ![o].inventory = i]
            \in [Orders -> OrderRow]
    BY <1>1, DecidedRowType DEF OrderStatus
  <2>. QED BY <1>1, <1>3, <2>1, ReleaseType DEF TypeOK, CartTypeOK
<1>. QED BY <1>2, <1>3 DEF ReleaseOrder

LEMMA PayStepType ==
  ASSUME TypeOK, NEW o \in Orders, PayStep(o)
  PROVE  TypeOK'
<1>1. ASSUME NEW y \in Payments, StartPayment(y, o)
      PROVE  TypeOK'
  <2>1. GatewayTypeOK'
    BY <1>1, GatewayStepType, PayableIsSum, TargetAssumption DEF StartPayment, PayableOrder
  <2>2. [order EXCEPT ![o].status = "processing", ![o].inventory = "reserved"]
          \in [Orders -> OrderRow]
    BY DecidedRowType DEF OrderStatus, InventoryStatus
  <2>. QED BY <1>1, <2>1, <2>2, SaleType DEF StartPayment, PayableOrder, TypeOK, CartTypeOK
<1>2. Buyer[o] \in Users
  BY CartAssumption
<1>3. CASE PayFromWallet(o)
  <2>1. [order EXCEPT ![o].status = "completed", ![o].paid = TRUE,
                      ![o].inventory = "confirmed"] \in [Orders -> OrderRow]
    BY DecidedRowType DEF OrderStatus, InventoryStatus
  <2>2. balance' \in [Users -> Int]
    <3>1. order[o].payable \in Sums /\ Sums \subseteq Nat
      BY PayableIsSum, GatewayAssumption
    <3>2. PICK a \in Nat : a = order[o].payable
      BY <3>1, Zenon
    <3>3. balance' = [balance EXCEPT ![Buyer[o]] = @ - a]
      BY <1>3, <3>2 DEF PayFromWallet
    <3>. QED BY <1>2, <3>3 DEF TypeOK
  <2>. QED BY <1>3, <2>1, <2>2, SaleType
       DEF PayFromWallet, TypeOK, CartTypeOK, GatewayTypeOK, gatewayVars
<1>4. CASE WalletDebitRefused(o)
  <2>1. [order EXCEPT ![o].inventory = "none"] \in [Orders -> OrderRow]
    BY DecidedRowType DEF OrderStatus, InventoryStatus
  <2>. QED BY <1>4, <2>1, SaleType
       DEF WalletDebitRefused, TypeOK, CartTypeOK, GatewayTypeOK, gatewayVars
<1>. QED BY <1>1, <1>3, <1>4 DEF PayStep

LEMMA VerifyStepType ==
  ASSUME TypeOK, PendingHasTarget, NEW y \in Payments, VerifyStep(y)
  PROVE  TypeOK'
<1>1. CASE PaymentCompleted(y)
  <2> DEFINE o == payment[y].target
  <2>1. o \in Orders
    BY <1>1 DEF PaymentCompleted, VerifyPaid, Verifiable, PendingHasTarget
  <2>. HIDE DEF o
  <2>2. [order EXCEPT ![o].status = "completed", ![o].paid = TRUE,
                      ![o].inventory = "confirmed"] \in [Orders -> OrderRow]
    BY <2>1, DecidedRowType DEF OrderStatus, InventoryStatus
  <2>3. /\ HasSlots(o) /\ VerifyPaid(y) /\ UNCHANGED <<stock, offered, balance>>
        /\ promotion' = SpendSlots(promotion, o)
        /\ order' = [order EXCEPT ![o].status = "completed", ![o].paid = TRUE,
                                  ![o].inventory = "confirmed"]
    BY <1>1 DEF PaymentCompleted, Confirmable, o
  <2>4. SpendSlots(promotion, o) \in [Promotions -> PromotionRow]
    BY <2>1, <2>3, SaleType
  <2>. QED BY <2>2, <2>3, <2>4, GatewayStepType DEF TypeOK, CartTypeOK
<1>2. CASE PaymentAbandoned(y) \/ PaymentRejected(y) \/ PaymentCanceled(y)
  <2>1. payment[y].target \in Orders
    BY <1>2 DEF PaymentAbandoned, PaymentRejected, PaymentCanceled, AbandonPayment,
                VerifyRejected, CallbackCancels, Verifiable, PendingHasTarget
  <2>2. ReleaseOrder(y) /\ UNCHANGED <<offered, balance>>
    BY <1>2 DEF PaymentAbandoned, PaymentRejected, PaymentCanceled
  <2>3. GatewayTypeOK'
    BY <1>2, GatewayStepType DEF PaymentAbandoned, PaymentRejected, PaymentCanceled
  <2>. QED BY <2>1, <2>2, <2>3, ReleaseOrderType DEF TypeOK
<1>. QED BY <1>1, <1>2 DEF VerifyStep

TypeInv == TypeOK /\ PendingHasTarget

LEMMA TypeInvInit == Init => TypeInv
<1> SUFFICES ASSUME Init PROVE TypeInv
  OBVIOUS
<1>1. NoOrder \in OrderRow
  <2>1. EmptyBasket \in Basket
    BY CartAssumption DEF EmptyBasket, Basket
  <2>2. /\ "absent" \in OrderStatus /\ "online" \in OrderType
        /\ "none" \in InventoryStatus
    BY DEF OrderStatus, OrderType, InventoryStatus
  <2>. QED BY <2>1, <2>2 DEF NoOrder, OrderRow
<1>2. CartTypeOK
  BY <1>1, CartAssumption DEF Init, CartInit, CartTypeOK, PromotionRow
<1>3. GatewayTypeOK /\ PendingHasTarget
  BY TargetAssumption
     DEF Init, GatewayInit, GatewayTypeOK, PendingHasTarget, NoPayment, PaymentRow,
         PaymentStatus, WorkerState, SessionState
<1>4. balance \in [Users -> Int]
  BY WalletAssumption DEF Init
<1>. QED BY <1>2, <1>3, <1>4 DEF TypeInv, TypeOK

(* Rows are created with a target and never change it. *)
LEMMA TargetStep ==
  ASSUME TypeInv, Next
  PROVE  PendingHasTarget'
<1> USE DEF TypeInv, TypeOK, GatewayTypeOK, PendingHasTarget
<1>1. CASE UNCHANGED payment
  BY <1>1
<1>2. ASSUME NEW y \in Payments, NEW o \in Orders, StartPayment(y, o)
      PROVE  PendingHasTarget'
  BY <1>2 DEF StartPayment, CreatePayment
<1>3. ASSUME NEW y \in Payments, NEW s \in PaymentStatus,
             payment[y].status # "absent",
             payment' = [payment EXCEPT ![y].status = s]
      PROVE  PendingHasTarget'
  BY <1>3 DEF PaymentRow
<1>4. ASSUME NEW y \in Payments, VerifyStep(y)
      PROVE  PendingHasTarget'
  <2>1. payment[y].status = "pending"
        /\ \E s \in PaymentStatus : payment' = [payment EXCEPT ![y].status = s]
    BY <1>4 DEF VerifyStep, PaymentAbandoned, PaymentCompleted, PaymentRejected,
                PaymentCanceled, AbandonPayment, VerifyPaid, VerifyRejected,
                CallbackCancels, Verifiable, PaymentStatus
  <2>. QED BY <1>3, <2>1
<1>5. ASSUME NEW y \in Payments, GatewayStep(y)
      PROVE  PendingHasTarget'
  <2>1. CASE StoreAuthority(y)
    BY <2>1 DEF StoreAuthority, PaymentRow
  <2>2. CASE ~StoreAuthority(y)
    BY <1>1, <1>5, <2>2
       DEF GatewayStep, ProviderOpens, ProviderAnswers, ProviderFails, Crash,
           AtGateway, CustomerPays, CustomerCancels, SessionExpires, VerifyInterrupted
  <2>. QED BY <2>1, <2>2
<1>6. ASSUME NEW o \in Orders, PayFromWallet(o) \/ WalletDebitRefused(o)
      PROVE  UNCHANGED payment
  BY <1>6 DEF PayFromWallet, WalletDebitRefused, gatewayVars
<1>. QED BY <1>1, <1>2, <1>4, <1>5, <1>6 DEF Next, PayStep, gatewayVars

LEMMA TypeInvStep == TypeInv /\ [Next]_vars => TypeInv'
<1> SUFFICES ASSUME TypeInv, [Next]_vars PROVE TypeInv'
  OBVIOUS
<1>1. CASE UNCHANGED vars
  BY <1>1 DEF TypeInv, TypeOK, CartTypeOK, GatewayTypeOK, PendingHasTarget, vars
<1>2. CASE CartNext /\ UNCHANGED <<gatewayVars, balance>>
  BY <1>2, CartStepType, TargetStep DEF TypeInv, Next
<1>3. ASSUME NEW o \in Orders, PayStep(o)
      PROVE  TypeInv'
  BY <1>3, PayStepType, TargetStep DEF TypeInv, Next
<1>4. ASSUME NEW y \in Payments, VerifyStep(y)
      PROVE  TypeInv'
  BY <1>4, VerifyStepType, TargetStep DEF TypeInv, Next
<1>5. ASSUME NEW y \in Payments, GatewayStep(y), UNCHANGED <<cartVars, balance>>
      PROVE  TypeInv'
  <2>1. TypeOK'
    BY <1>5, GatewayStepType DEF TypeInv, TypeOK, CartTypeOK, cartVars
  <2>. QED BY <1>5, <2>1, TargetStep DEF TypeInv, Next
<1>. QED BY <1>1, <1>2, <1>3, <1>4, <1>5 DEF Next

(* Every row of every table keeps its type: in particular no counter of a   *)
(* promotion is ever decremented below zero by the releases, confirmations  *)
(* and retries of apps/cart/services.py.                                    *)
THEOREM TypeCorrect == Spec => []TypeOK
<1>1. Init => TypeInv
  BY TypeInvInit
<1>2. TypeInv /\ [Next]_vars => TypeInv'
  BY TypeInvStep
<1>3. TypeInv => TypeOK
  BY DEF TypeInv
<1>. QED BY <1>1, <1>2, <1>3, PTL DEF Spec

----------------------------------------------------------------------------
(* Stock conservation.  A step either leaves the stock and what is held     *)
(* alone, or moves the units of one order into or out of the stock.  Which  *)
(* of the two an order's release does is read from its inventory status, so *)
(* the induction needs that this field and the order's status agree.        *)

StatusInventory ==
  \A o \in Orders :
    /\ order[o].status = "processing" <=> order[o].inventory = "reserved"
    /\ order[o].status = "completed" <=> order[o].inventory = "confirmed"

StockKept ==
  /\ stock' = stock
  /\ \A o \in Orders :
       /\ HoldsStock(o)' <=> HoldsStock(o)
       /\ HoldsStock(o) => order'[o].basket = order[o].basket

Others(o) == \A x \in Orders \ {o} : order'[x] = order[x]

StockTaken(o) ==
  /\ stock' = TakeUnits(stock, o)
  /\ \A p \in Products : Demand(o, order[o].basket, p) <= stock[p]
  /\ ~HoldsStock(o) /\ HoldsStock(o)'
  /\ order'[o].basket = order[o].basket
  /\ Others(o)

StockReturned(o) ==
  /\ stock' = ReturnUnits(stock, o)
  /\ HoldsStock(o) /\ ~HoldsStock(o)'
  /\ Others(o)

LEMMA HeldUnitsFinite ==
  ASSUME NEW p
  PROVE  IsFiniteSet(HeldUnits(p))
<1> DEFINE All == Orders \X (Listings \X (1..MaxQty))
<1>1. IsFiniteSet(All)
  <2>1. IsFiniteSet(1..MaxQty)
    BY FS_Interval, CartAssumption
  <2>. QED BY <2>1, FS_Product, CartAssumption
<1>2. HeldUnits(p) \in SUBSET All
  BY DEF HeldUnits
<1>. QED BY <1>1, <1>2, FS_Subset

(* The same set, one unit at a time. *)
AllUnits == Orders \X (Listings \X (1..MaxQty))
Wanted(u, p) == Source[u[2][1]] = p /\ u[2][2] <= order[u[1]].basket[u[2][1]]

LEMMA HeldUnitsMember ==
  ASSUME NEW p
  PROVE  /\ HeldUnits(p) = {u \in AllUnits : HoldsStock(u[1]) /\ Wanted(u, p)}
         /\ HeldUnits(p)' = {u \in AllUnits : HoldsStock(u[1])' /\ Wanted(u, p)'}
         /\ \A o \in Orders :
              Units(o, order[o].basket, p) = {u \in AllUnits : u[1] = o /\ Wanted(u, p)}
<1>1. HeldUnits(p) = {u \in AllUnits : HoldsStock(u[1]) /\ Wanted(u, p)}
  BY DEF HeldUnits, AllUnits, Wanted, Units
<1>2. HeldUnits(p)' = {u \in AllUnits : HoldsStock(u[1])' /\ Wanted(u, p)'}
  BY DEF HeldUnits, AllUnits, Wanted, Units
<1>3. ASSUME NEW o \in Orders
      PROVE  Units(o, order[o].basket, p) = {u \in AllUnits : u[1] = o /\ Wanted(u, p)}
  BY DEF AllUnits, Wanted, Units
<1>. QED BY <1>1, <1>2, <1>3

LEMMA KeptStock ==
  ASSUME StockConservation, StockKept
  PROVE  StockConservation'
<1>1. ASSUME NEW p \in Products
      PROVE  HeldUnits(p)' = HeldUnits(p)
  BY DEF HeldUnits, StockKept, Units
<1>. QED BY <1>1 DEF StockConservation, StockKept

LEMMA TakenStock ==
  ASSUME TypeOK, StockConservation, NEW o \in Orders, StockTaken(o)
  PROVE  StockConservation'
<1> SUFFICES ASSUME NEW p \in Products
             PROVE  /\ stock'[p] >= 0
                    /\ stock'[p] + Cardinality(HeldUnits(p)') = Supply[p]
  BY DEF StockConservation
<1> DEFINE U == Units(o, order[o].basket, p)
           H == HeldUnits(p)
<1>1. HeldUnits(p)' = H \cup U
  <2>1. ASSUME NEW u \in AllUnits
        PROVE  HoldsStock(u[1])' /\ Wanted(u, p)'
                 <=> Wanted(u, p) /\ (HoldsStock(u[1]) \/ u[1] = o)
    <3>1. u[1] \in Orders
      BY DEF AllUnits
    <3>2. CASE u[1] = o
      BY <3>2 DEF StockTaken, Wanted
    <3>3. CASE u[1] # o
      BY <3>1, <3>3 DEF StockTaken, Others, Wanted, HoldsStock
    <3>. QED BY <3>2, <3>3
  <2>. QED BY <2>1, HeldUnitsMember
<1>2. H \cap U = {}
  BY DEF HeldUnits, StockTaken, Units
<1>3. IsFiniteSet(H) /\ IsFiniteSet(U)
  BY HeldUnitsFinite, UnitsFinite
<1>4. /\ Cardinality(H \cup U) = Cardinality(H) + Cardinality(U)
      /\ Cardinality(H) \in Nat /\ Cardinality(U) \in Nat
  <2>1. /\ Cardinality(H \cup U)
             = Cardinality(H) + Cardinality(U) - Cardinality(H \cap U)
        /\ Cardinality(H) \in Nat /\ Cardinality(U) \in Nat
    BY <1>3, FS_Union, FS_CardinalityType
  <2>2. Cardinality(H \cap U) = 0
    BY <1>2, FS_EmptySet
  <2>. HIDE DEF H, U
  <2>. QED BY <2>1, <2>2
<1>5. stock[p] \in Int /\ stock'[p] = stock[p] - Cardinality(U)
      /\ Cardinality(U) <= stock[p]
  <2>1. Demand(o, order[o].basket, p) = Cardinality(U)
    BY DEF Demand
  <2>2. stock[p] \in Int
    BY DEF TypeOK, CartTypeOK
  <2>. HIDE DEF U
  <2>. QED BY <2>1, <2>2 DEF StockTaken, TakeUnits
<1>6. stock[p] + Cardinality(H) = Supply[p]
  BY DEF StockConservation
<1>. HIDE DEF H, U
<1>. QED BY <1>1, <1>4, <1>5, <1>6

LEMMA ReturnedStock ==
  ASSUME TypeOK, StockConservation, NEW o \in Orders, StockReturned(o)
  PROVE  StockConservation'
<1> SUFFICES ASSUME NEW p \in Products
             PROVE  /\ stock'[p] >= 0
                    /\ stock'[p] + Cardinality(HeldUnits(p)') = Supply[p]
  BY DEF StockConservation
<1> DEFINE U == Units(o, order[o].basket, p)
           H == HeldUnits(p)
<1>1. HeldUnits(p)' = H \ U
  <2>1. ASSUME NEW u \in AllUnits
        PROVE  HoldsStock(u[1])' /\ Wanted(u, p)'
                 <=> Wanted(u, p) /\ HoldsStock(u[1]) /\ u[1] # o
    <3>1. u[1] \in Orders
      BY DEF AllUnits
    <3>2. CASE u[1] = o
      BY <3>2 DEF StockReturned
    <3>3. CASE u[1] # o
      BY <3>1, <3>3 DEF StockReturned, Others, Wanted, HoldsStock
    <3>. QED BY <3>2, <3>3
  <2>. QED BY <2>1, HeldUnitsMember
<1>2. U \subseteq H
  <2>1. ASSUME NEW u \in U
        PROVE  u \in Orders \X (Listings \X (1..MaxQty)) /\ u[1] = o
    BY <2>1 DEF Units
  <2>. QED BY <2>1 DEF HeldUnits, StockReturned
<1>3. IsFiniteSet(H) /\ IsFiniteSet(U)
  BY HeldUnitsFinite, UnitsFinite
<1>4. /\ Cardinality(H \ U) = Cardinality(H) - Cardinality(U)
      /\ Cardinality(H) \in Nat /\ Cardinality(U) \in Nat
  <2>1. H \cap U = U
    BY <1>2
  <2>2. /\ Cardinality(H \ U) = Cardinality(H) - Cardinality(H \cap U)
        /\ Cardinality(H) \in Nat /\ Cardinality(U) \in Nat
    BY <1>3, FS_Difference, FS_CardinalityType
  <2>. HIDE DEF H, U
  <2>. QED BY <2>1, <2>2
<1>5. stock[p] \in Int /\ stock'[p] = stock[p] + Cardinality(U)
  <2>1. Demand(o, order[o].basket, p) = Cardinality(U)
    BY DEF Demand
  <2>2. stock[p] \in Int
    BY DEF TypeOK, CartTypeOK
  <2>. HIDE DEF U
  <2>. QED BY <2>1, <2>2 DEF StockReturned, ReturnUnits
<1>6. stock[p] >= 0 /\ stock[p] + Cardinality(H) = Supply[p]
  BY DEF StockConservation
<1>. HIDE DEF H, U
<1>. QED BY <1>1, <1>4, <1>5, <1>6

StockMoves ==
  StockKept \/ \E o \in Orders : StockTaken(o) \/ StockReturned(o)

(* A step that keeps the stock and sets one row, holding what it held. *)
LEMMA RowKeepsStock ==
  ASSUME TypeOK, StatusInventory, NEW o \in Orders, NEW row,
         order' = [order EXCEPT ![o] = row],
         order[o].inventory \notin {"reserved", "confirmed"},
         row.inventory = order[o].inventory,
         row.status \notin {"processing", "completed"},
         stock' = stock
  PROVE  StockKept /\ StatusInventory'
BY DEF TypeOK, CartTypeOK, StatusInventory, StockKept, HoldsStock

LEMMA CartStepMovesStock ==
  ASSUME TypeOK, StatusInventory, CartNext
  PROVE  StockMoves /\ StatusInventory'
<1> USE DEF StockMoves
<1>1. ASSUME NEW o \in Orders, OpenCart(o) \/ DeleteDraft(o)
      PROVE  StockKept /\ StatusInventory'
  <2>1. order[o].status \in {"absent", "draft"}
    BY <1>1 DEF OpenCart, DeleteDraft
  <2>. QED BY <1>1, <2>1
           DEF OpenCart, DeleteDraft, NoOrder, TypeOK, CartTypeOK, OrderRow,
               InventoryStatus, StatusInventory, StockKept, HoldsStock
<1>2. ASSUME NEW o \in Orders, NEW b
      PROVE  Edited(o, b).status = "draft" /\ Edited(o, b).inventory = order[o].inventory
  BY DEF Edited, TypeOK, CartTypeOK, OrderRow
<1>3. ASSUME NEW o \in Orders, NEW l \in Listings,
             \/ RemoveItem(o, l)
             \/ \E n \in 1..MaxQty : AddItem(o, l, n) \/ UpdateItem(o, l, n)
      PROVE  StockKept /\ StatusInventory'
  <2>1. /\ order[o].status \in {"absent", "draft"} /\ stock' = stock
        /\ \E b : order' = [order EXCEPT ![o] = Edited(o, b)]
    <3>1. CASE RemoveItem(o, l)
      BY <3>1, Zenon DEF RemoveItem
    <3>2. CASE \E n \in 1..MaxQty : AddItem(o, l, n)
      BY <3>2, Zenon DEF AddItem, CartOf
    <3>3. CASE \E n \in 1..MaxQty : UpdateItem(o, l, n)
      BY <3>3, Zenon DEF UpdateItem
    <3>. QED BY <1>3, <3>1, <3>2, <3>3
  <2>2. PICK b : order' = [order EXCEPT ![o] = Edited(o, b)]
    BY <2>1
  <2>3. PICK row : row = Edited(o, b)
    OBVIOUS
  <2>4. order[o].inventory \notin {"reserved", "confirmed"}
    BY <2>1 DEF StatusInventory
  <2>5. /\ order' = [order EXCEPT ![o] = row] /\ row.status = "draft"
        /\ row.inventory = order[o].inventory
    BY <1>2, <2>2, <2>3
  <2>. QED BY <2>1, <2>4, <2>5, RowKeepsStock
<1>4. ASSUME NEW o \in Orders, NEW t, NEW b, ReplaceItems(o, b, t)
      PROVE  StockKept /\ StatusInventory'
  <2> DEFINE row == [Edited(o, b) EXCEPT !.type = t]
  <2>1. order' = [order EXCEPT ![o] = row] /\ stock' = stock
    BY <1>4 DEF ReplaceItems, Replaced
  <2>2. row.status = "draft" /\ row.inventory = order[o].inventory
    BY DEF Edited, TypeOK, CartTypeOK, OrderRow
  <2>3. order[o].inventory \notin {"reserved", "confirmed"}
    BY <1>4 DEF ReplaceItems, Replaced, StatusInventory
  <2>. HIDE DEF row
  <2>. QED BY <2>1, <2>2, <2>3, RowKeepsStock
<1>5. ASSUME NEW o \in Orders, NEW t, NEW ds, NEW a,
             Checkout(o, t, ds, a) \/ \E b \in Basket : PlaceOrder(o, b, t, ds, a)
      PROVE  StockKept /\ StatusInventory'
  <2>1. PICK b : order' = [order EXCEPT ![o] = Placed(o, b, t, ds, a)]
    BY <1>5 DEF Checkout, PlaceOrder
  <2>2. /\ Placed(o, b, t, ds, a).status = "pending"
        /\ Placed(o, b, t, ds, a).inventory = order[o].inventory
    BY DEF Placed, TypeOK, CartTypeOK, OrderRow
  <2>3. order[o].status \in {"absent", "draft"} /\ stock' = stock
    BY <1>5 DEF Checkout, PlaceOrder
  <2>4. order[o].inventory \notin {"reserved", "confirmed"}
    BY <2>3 DEF StatusInventory
  <2>. QED BY <2>1, <2>2, <2>3, <2>4, RowKeepsStock
<1>6. ASSUME NEW o \in Orders, VerifyOrder(o)
      PROVE  StockKept /\ StatusInventory'
  BY <1>6 DEF VerifyOrder, TypeOK, CartTypeOK, OrderRow, StatusInventory, StockKept,
              HoldsStock
<1>7. ASSUME NEW o \in Orders, RejectOrder(o)
      PROVE  StockKept /\ StatusInventory'
  <2>1. order[o].status = "pending" /\ order[o].inventory \notin {"reserved", "confirmed"}
    BY <1>7 DEF RejectOrder, StatusInventory
  <2>2. /\ stock' = stock
        /\ order' = [order EXCEPT ![o].status = "rejected",
                                  ![o].inventory = order[o].inventory]
    BY <1>7, <2>1 DEF RejectOrder, StockAfterRelease, InventoryAfterRelease
  <2>. QED BY <2>1, <2>2
           DEF TypeOK, CartTypeOK, OrderRow, StatusInventory, StockKept, HoldsStock
<1>8. ASSUME NEW o \in Orders, AcceptCashOrder(o)
      PROVE  StockTaken(o) /\ StatusInventory'
  BY <1>8 DEF AcceptCashOrder, Reservable, ValidItems, TypeOK, CartTypeOK, OrderRow,
              StatusInventory, StockTaken, Others, HoldsStock
<1>9. ASSUME UNCHANGED <<order, stock>>
      PROVE  StockKept /\ StatusInventory'
  BY <1>9 DEF StatusInventory, StockKept, HoldsStock
<1>10. ASSUME NEW l \in Listings, Withdraw(l) \/ Publish(l)
       PROVE  StockKept /\ StatusInventory'
  BY <1>9, <1>10 DEF Withdraw, Publish
<1>11. ASSUME NEW d \in Promotions, SwitchPromotion(d)
       PROVE  StockKept /\ StatusInventory'
  <2>1. UNCHANGED <<order, stock>>
    BY <1>11, Zenon DEF SwitchPromotion
  <2>. QED BY <1>9, <2>1
<1>. QED BY <1>1, <1>3, <1>4, <1>5, <1>6, <1>7, <1>8, <1>10, <1>11 DEF CartNext

LEMMA PayStepMovesStock ==
  ASSUME TypeOK, StatusInventory, NEW o \in Orders, PayStep(o)
  PROVE  StockMoves /\ StatusInventory'
<1> USE DEF StockMoves
<1>1. ASSUME NEW y \in Payments, StartPayment(y, o)
      PROVE  StockTaken(o) /\ StatusInventory'
  BY <1>1 DEF StartPayment, PayableOrder, Reservable, ValidItems, TypeOK, CartTypeOK, OrderRow,
              StatusInventory, StockTaken, Others, HoldsStock
<1>2. CASE PayFromWallet(o)
  <2>1. StockTaken(o) /\ StatusInventory'
    BY <1>2 DEF PayFromWallet, WalletPayable, Reservable, ValidItems, TypeOK,
                CartTypeOK, OrderRow, StatusInventory, StockTaken, Others, HoldsStock
  <2>. QED BY <2>1
<1>3. CASE WalletDebitRefused(o)
  <2>1. ReturnUnits(TakeUnits(stock, o), o) = stock
    <3>1. \A p \in Products : Demand(o, order[o].basket, p) \in Int
      BY UnitsFinite
    <3>. QED BY <3>1 DEF ReturnUnits, TakeUnits, TypeOK, CartTypeOK
  <2>2. StockKept /\ StatusInventory'
    BY <1>3, <2>1 DEF WalletDebitRefused, WalletPayable, Reservable, TypeOK, CartTypeOK,
                      OrderRow, StatusInventory, StockKept, HoldsStock
  <2>. QED BY <2>2
<1>. QED BY <1>1, <1>2, <1>3 DEF PayStep

LEMMA VerifyStepMovesStock ==
  ASSUME TypeOK, PendingHasTarget, StatusInventory, NEW y \in Payments, VerifyStep(y)
  PROVE  StockMoves /\ StatusInventory'
<1> DEFINE o == payment[y].target
<1> USE DEF StockMoves
<1>1. o \in Orders
  BY DEF VerifyStep, PaymentAbandoned, PaymentCompleted, PaymentRejected,
         PaymentCanceled, AbandonPayment, VerifyPaid, VerifyRejected, CallbackCancels,
         Verifiable, PendingHasTarget
<1>2. CASE PaymentCompleted(y)
  <2>1. /\ stock' = stock /\ order[o].status = "processing"
        /\ order' = [order EXCEPT ![o].status = "completed", ![o].paid = TRUE,
                                  ![o].inventory = "confirmed"]
    BY <1>2 DEF PaymentCompleted
  <2>. HIDE DEF o
  <2>2. StockKept /\ StatusInventory'
    BY <1>1, <2>1 DEF TypeOK, CartTypeOK, OrderRow, StatusInventory, StockKept,
                      HoldsStock
  <2>. QED BY <2>2
<1>3. CASE ReleaseOrder(y)
  <2>1. CASE stock' = stock /\ order' = order
    BY <2>1 DEF StatusInventory, StockKept, HoldsStock
  <2>2. CASE /\ order[o].status = "processing"
             /\ stock' = StockAfterRelease(o)
             /\ order' = [order EXCEPT ![o].status = "failed",
                                       ![o].inventory = InventoryAfterRelease(o)]
    <3>. HIDE DEF o
    <3>1. order[o].inventory = "reserved"
      BY <1>1, <2>2 DEF StatusInventory
    <3>2. /\ stock' = ReturnUnits(stock, o)
          /\ order' = [order EXCEPT ![o].status = "failed", ![o].inventory = "released"]
      BY <2>2, <3>1 DEF StockAfterRelease, InventoryAfterRelease
    <3>3. StockReturned(o) /\ StatusInventory'
      BY <1>1, <3>1, <3>2 DEF TypeOK, CartTypeOK, OrderRow, StatusInventory,
                              StockReturned, Others, HoldsStock
    <3>. QED BY <1>1, <3>3
  <2>. QED BY <1>3, <2>1, <2>2 DEF ReleaseOrder
<1>. QED BY <1>2, <1>3 DEF VerifyStep, PaymentAbandoned, PaymentRejected, PaymentCanceled

StockInv == TypeInv /\ StatusInventory /\ StockConservation

LEMMA StockInvInit == Init => StockInv
<1> SUFFICES ASSUME Init PROVE StockInv
  OBVIOUS
<1>1. TypeInv
  BY TypeInvInit
<1>2. StatusInventory
  BY DEF Init, CartInit, NoOrder, StatusInventory
<1>3. ASSUME NEW p \in Products
      PROVE  HeldUnits(p) = {}
  BY DEF Init, CartInit, NoOrder, HeldUnits, HoldsStock
<1>4. StockConservation
  <2>1. stock = Supply
    BY DEF Init, CartInit
  <2>2. \A p \in Products : Cardinality(HeldUnits(p)) = 0
    BY <1>3, FS_EmptySet
  <2>. QED BY <2>1, <2>2, CartAssumption DEF StockConservation
<1>. QED BY <1>1, <1>2, <1>4 DEF StockInv

LEMMA StockInvStep == StockInv /\ [Next]_vars => StockInv'
<1> SUFFICES ASSUME StockInv, [Next]_vars PROVE StockInv'
  OBVIOUS
<1>1. TypeInv'
  BY TypeInvStep DEF StockInv
<1>2. CASE UNCHANGED <<order, stock>>
  <2>1. StockKept /\ StatusInventory'
    BY <1>2 DEF StockInv, StatusInventory, StockKept, HoldsStock
  <2>. QED BY <1>1, <2>1, KeptStock DEF StockInv
<1>3. ASSUME StockMoves, StatusInventory'
      PROVE  StockInv'
  <2>1. TypeOK /\ StockConservation
    BY DEF StockInv, TypeInv
  <2>2. StockConservation'
    BY <1>3, <2>1, KeptStock, TakenStock, ReturnedStock DEF StockMoves
  <2>. QED BY <1>1, <1>3, <2>2 DEF StockInv
<1>4. CASE CartNext /\ UNCHANGED <<gatewayVars, balance>>
  BY <1>3, <1>4, CartStepMovesStock DEF StockInv, TypeInv
<1>5. ASSUME NEW o \in Orders, PayStep(o)
      PROVE  StockInv'
  BY <1>3, <1>5, PayStepMovesStock DEF StockInv, TypeInv
<1>6. ASSUME NEW y \in Payments, VerifyStep(y)
      PROVE  StockInv'
  BY <1>3, <1>6, VerifyStepMovesStock DEF StockInv, TypeInv
<1>. QED BY <1>2, <1>4, <1>5, <1>6 DEF Next, vars, cartVars

(* Every unit of every product is in stock or held by one order, and no    *)
(* product is oversold, for any number of orders, sessions and retries.    *)
THEOREM StockConserved == Spec => []StockConservation
<1>1. Init => StockInv
  BY StockInvInit
<1>2. StockInv /\ [Next]_vars => StockInv'
  BY StockInvStep
<1>3. StockInv => StockConservation
  BY DEF StockInv
<1>. QED BY <1>1, <1>2, <1>3, PTL DEF Spec

----------------------------------------------------------------------------
(* Payments agree with their orders and with the gateway.  What a session  *)
(* is at the gateway follows from how far its row and its request are: an  *)
(* authority is stored last, so that nobody pays for a row that was given  *)
(* up before, and a row with an authority is given up only when its        *)
(* session is over.                                                        *)

SessionInv ==
  \A y \in Payments :
    /\ payment[y].status = "absent" =>
         ~payment[y].authority /\ worker[y] = "idle" /\ session[y] = "none"
    /\ payment[y].authority => worker[y] = "idle"
    /\ ~payment[y].authority => session[y] \in {"none", "open", "expired"}
    /\ payment[y].status \in {"failed", "canceled"} /\ payment[y].authority =>
         session[y] \in {"cancelled", "expired"}
    /\ payment[y].status = "complete" => session[y] = "verified"

(* The order that a pending payment locks, or a complete one has paid.      *)
Underwrites(y) ==
  LET o == payment[y].target
  IN /\ o \in Orders
     /\ payment[y].amount = order[o].payable
     /\ order[o].priced = order[o].basket
     /\ order[o].status = IF payment[y].status = "pending"
                          THEN "processing" ELSE "completed"

Active(y) == payment[y].status \in {"pending", "complete"}

OrdersOfPayments ==
  /\ \A y \in Payments : Active(y) => Underwrites(y)
  /\ \A y, z \in Payments :
       Active(y) /\ Active(z) /\ payment[y].target = payment[z].target => y = z
  /\ \A o \in Orders :
       order[o].status = "processing" => PendingFor(o) # {}

LEMMA SessionInvStep ==
  ASSUME TypeOK, SessionInv, NEW y \in Payments,
         \/ \E t, a : CreatePayment(y, t, a)
         \/ AbandonPayment(y) \/ VerifyPaid(y) \/ VerifyRejected(y)
         \/ CallbackCancels(y) \/ GatewayStep(y)
  PROVE  SessionInv'
<1> USE DEF TypeOK, GatewayTypeOK, SessionInv
<1>1. ASSUME NEW t, NEW a, CreatePayment(y, t, a)
      PROVE  SessionInv'
  BY <1>1 DEF CreatePayment
<1>2. CASE AbandonPayment(y)
  BY <1>2 DEF AbandonPayment, PaymentRow
<1>3. CASE VerifyPaid(y) \/ VerifyRejected(y) \/ CallbackCancels(y)
  BY <1>3 DEF VerifyPaid, VerifyRejected, CallbackCancels, ReportedNotOK, Verifiable,
              PaymentRow
<1>4. CASE StoreAuthority(y)
  BY <1>4 DEF StoreAuthority, PaymentRow
<1>5. CASE ProviderOpens(y) \/ ProviderAnswers(y) \/ ProviderFails(y) \/ Crash(y)
  BY <1>5 DEF ProviderOpens, ProviderAnswers, ProviderFails, Crash, PaymentRow,
              PaymentStatus
<1>6. CASE CustomerPays(y) \/ CustomerCancels(y) \/ SessionExpires(y)
             \/ VerifyInterrupted(y)
  BY <1>6 DEF AtGateway, CustomerPays, CustomerCancels, SessionExpires,
              VerifyInterrupted, Verifiable, PaymentRow, PaymentStatus
<1>. QED BY <1>1, <1>2, <1>3, <1>4, <1>5, <1>6 DEF GatewayStep

(* Carts, sellers and wallets leave orders alone that are being paid for   *)
(* or have been, and lock none.                                            *)
LockedKept ==
  \A o \in Orders :
    /\ order[o].status \in {"processing", "completed"} => order'[o] = order[o]
    /\ order'[o].status = "processing" => order'[o] = order[o]

PaidIsCompleted ==
  \A o \in Orders : order[o].paid => order[o].status = "completed"

(* What carts and sellers take payment for is paid in cash. *)
CashOnly ==
  \A o \in Orders : order'[o].paid => order[o].paid \/ order'[o].type = "cash"

LEMMA CartStepLocksNone ==
  ASSUME TypeOK, PaidIsCompleted, CartNext
  PROVE  LockedKept /\ PaidIsCompleted' /\ CashOnly
<1> USE DEF TypeOK, CartTypeOK, LockedKept, PaidIsCompleted, CashOnly
<1>1. ASSUME NEW o \in Orders, NEW row,
             order[o].status \in {"absent", "draft", "pending"},
             row.status # "processing", row.paid => row.status = "completed",
             row.paid => order[o].paid \/ row.type = "cash",
             order' = [order EXCEPT ![o] = row]
      PROVE  LockedKept /\ PaidIsCompleted' /\ CashOnly
  BY <1>1
<1>2. ASSUME order' = order
      PROVE  LockedKept /\ PaidIsCompleted' /\ CashOnly
  BY <1>2
<1>3. ASSUME NEW o \in Orders, NEW b
      PROVE  Edited(o, b).status = "draft" /\ Edited(o, b).paid = order[o].paid
  BY DEF Edited, OrderRow
<1>4. ASSUME NEW o \in Orders, NEW l \in Listings,
             \/ RemoveItem(o, l)
             \/ \E n \in 1..MaxQty : AddItem(o, l, n) \/ UpdateItem(o, l, n)
      PROVE  LockedKept /\ PaidIsCompleted' /\ CashOnly
  <2>1. /\ order[o].status \in {"absent", "draft"}
        /\ \E b : order' = [order EXCEPT ![o] = Edited(o, b)]
    <3>1. CASE RemoveItem(o, l)
      BY <3>1, Zenon DEF RemoveItem
    <3>2. CASE \E n \in 1..MaxQty : AddItem(o, l, n)
      BY <3>2, Zenon DEF AddItem, CartOf
    <3>3. CASE \E n \in 1..MaxQty : UpdateItem(o, l, n)
      BY <3>3, Zenon DEF UpdateItem
    <3>. QED BY <1>4, <3>1, <3>2, <3>3
  <2>. QED BY <1>1, <1>3, <2>1
<1>5. ASSUME NEW o \in Orders, NEW t \in OrderType, NEW b \in Basket,
             ReplaceItems(o, b, t)
      PROVE  LockedKept /\ PaidIsCompleted' /\ CashOnly
  <2>1. Replaced(o, b, t).status = "draft" /\ Replaced(o, b, t).paid = order[o].paid
    BY DEF Replaced, Edited, OrderRow
  <2>2. order[o].status = "draft" /\ order' = [order EXCEPT ![o] = Replaced(o, b, t)]
    BY <1>5 DEF ReplaceItems
  <2>. QED BY <1>1, <2>1, <2>2
<1>6. ASSUME NEW o \in Orders, NEW t, NEW ds, NEW a,
             Checkout(o, t, ds, a) \/ \E b \in Basket : PlaceOrder(o, b, t, ds, a)
      PROVE  LockedKept /\ PaidIsCompleted' /\ CashOnly
  <2>1. PICK b : order' = [order EXCEPT ![o] = Placed(o, b, t, ds, a)]
    BY <1>6 DEF Checkout, PlaceOrder
  <2>2. /\ Placed(o, b, t, ds, a).status = "pending"
        /\ Placed(o, b, t, ds, a).paid = order[o].paid
    BY DEF Placed, OrderRow
  <2>3. order[o].status \in {"absent", "draft"}
    BY <1>6 DEF Checkout, PlaceOrder
  <2>. QED BY <1>1, <2>1, <2>2, <2>3
<1>7. ASSUME NEW o \in Orders, OpenCart(o) \/ DeleteDraft(o)
      PROVE  LockedKept /\ PaidIsCompleted' /\ CashOnly
  BY <1>7 DEF OpenCart, DeleteDraft, NoOrder
<1>8. ASSUME NEW o \in Orders, VerifyOrder(o) \/ RejectOrder(o) \/ AcceptCashOrder(o)
      PROVE  LockedKept /\ PaidIsCompleted' /\ CashOnly
  BY <1>8 DEF VerifyOrder, RejectOrder, AcceptCashOrder, OrderRow
<1>9. ASSUME NEW l \in Listings, Withdraw(l) \/ Publish(l)
      PROVE  LockedKept /\ PaidIsCompleted' /\ CashOnly
  BY <1>2, <1>9 DEF Withdraw, Publish
<1>10. ASSUME NEW d \in Promotions, SwitchPromotion(d)
       PROVE  LockedKept /\ PaidIsCompleted' /\ CashOnly
  <2>1. order' = order
    BY <1>10, Zenon DEF SwitchPromotion
  <2>. QED BY <1>2, <2>1
<1>. QED BY <1>4, <1>5, <1>6, <1>7, <1>8, <1>9, <1>10 DEF CartNext

LEMMA WalletStepLocksNone ==
  ASSUME TypeOK, PaidIsCompleted, NEW o \in Orders,
         PayFromWallet(o) \/ WalletDebitRefused(o)
  PROVE  LockedKept /\ PaidIsCompleted'
BY DEF TypeOK, CartTypeOK, OrderRow, LockedKept, PaidIsCompleted, PayFromWallet,
       WalletDebitRefused, WalletPayable, Reservable

(* Neither do steps that touch no order, or no more than an authority.     *)
LEMMA LockedKeptStep ==
  ASSUME TypeOK, OrdersOfPayments, LockedKept,
         \A y \in Payments :
           /\ payment'[y].status = payment[y].status
           /\ payment'[y].target = payment[y].target
           /\ payment'[y].amount = payment[y].amount
  PROVE  OrdersOfPayments'
BY DEF OrdersOfPayments, LockedKept, Active, Underwrites, PendingFor

LEMMA StartStep ==
  ASSUME TypeOK, OrdersOfPayments, PaidIsCompleted,
         NEW y \in Payments, NEW o \in Orders, StartPayment(y, o)
  PROVE  OrdersOfPayments' /\ PaidIsCompleted'
<1>1. /\ payment' = [payment EXCEPT ![y] = [status |-> "pending", target |-> o,
                          amount |-> order[o].payable, authority |-> FALSE]]
      /\ order' = [order EXCEPT ![o].status = "processing",
                                ![o].inventory = "reserved"]
      /\ order[o].status \in {"pending", "verified"}
      /\ order[o].priced = order[o].basket /\ payment[y].status = "absent"
  BY DEF StartPayment, CreatePayment, PayableOrder, Reservable
<1>2. /\ payment'[y].status = "pending" /\ payment'[y].target = o
      /\ payment'[y].amount = order[o].payable
      /\ order'[o].status = "processing" /\ order'[o].priced = order[o].priced
      /\ order'[o].basket = order[o].basket /\ order'[o].payable = order[o].payable
      /\ \A z \in Payments \ {y} : payment'[z] = payment[z]
      /\ \A x \in Orders \ {o} : order'[x] = order[x]
  BY <1>1 DEF TypeOK, CartTypeOK, OrderRow, GatewayTypeOK
<1>3. \A z \in Payments : Active(z) => payment[z].target # o
  BY <1>1 DEF OrdersOfPayments, Underwrites
<1>4. \A z \in Payments \ {y} : Active(z)' <=> Active(z)
  BY <1>2 DEF Active
<1>5. ASSUME NEW z \in Payments, Active(z)'
      PROVE  Underwrites(z)'
  <2>1. CASE z = y
    BY <1>1, <1>2, <2>1 DEF Underwrites
  <2>2. CASE z # y
    <3>1. Underwrites(z) /\ payment[z].target # o
      BY <1>3, <1>4, <1>5, <2>2 DEF OrdersOfPayments
    <3>. QED BY <1>2, <2>2, <3>1 DEF Underwrites
  <2>. QED BY <2>1, <2>2
<1>6. ASSUME NEW z \in Payments, NEW x \in Payments, Active(z)', Active(x)',
             payment'[z].target = payment'[x].target
      PROVE  z = x
  BY <1>2, <1>3, <1>4, <1>6 DEF OrdersOfPayments
<1>7. ASSUME NEW x \in Orders, order'[x].status = "processing"
      PROVE  PendingFor(x)' # {}
  <2>1. CASE x = o
    BY <1>2, <2>1 DEF PendingFor
  <2>2. CASE x # o
    <3>1. PendingFor(x) # {}
      BY <1>2, <1>7, <2>2 DEF OrdersOfPayments
    <3>2. PICK z \in Payments : payment[z].target = x /\ payment[z].status = "pending"
      BY <3>1 DEF PendingFor
    <3>3. z # y
      BY <1>1, <3>2
    <3>. QED BY <1>2, <3>2, <3>3 DEF PendingFor
  <2>. QED BY <2>1, <2>2
<1>8. PaidIsCompleted'
  BY <1>1, <1>2 DEF PaidIsCompleted, StartPayment, PayableOrder, TypeOK, CartTypeOK,
                    OrderRow
<1>. QED BY <1>5, <1>6, <1>7, <1>8 DEF OrdersOfPayments

LEMMA SettleStep ==
  ASSUME TypeOK, OrdersOfPayments, PaidIsCompleted, NEW y \in Payments, VerifyStep(y)
  PROVE  OrdersOfPayments' /\ PaidIsCompleted'
<1> DEFINE o == payment[y].target
<1>1. payment[y].status = "pending" /\ Underwrites(y)
  BY DEF VerifyStep, PaymentAbandoned, PaymentCompleted, PaymentRejected,
         PaymentCanceled, AbandonPayment, VerifyPaid, VerifyRejected, CallbackCancels,
         Verifiable, OrdersOfPayments, Active
<1>2. o \in Orders /\ order[o].status = "processing"
  BY <1>1 DEF Underwrites
<1>3. \A z \in Payments \ {y} : Active(z) => payment[z].target # o
  BY <1>1 DEF OrdersOfPayments, Active
<1>4. ASSUME NEW s \in {"complete", "failed", "canceled"}, NEW row,
             payment' = [payment EXCEPT ![y].status = s],
             order' = [order EXCEPT ![o] = row],
             row.status = IF s = "complete" THEN "completed" ELSE "failed",
             row.payable = order[o].payable, row.priced = order[o].priced,
             row.basket = order[o].basket, row.paid => s = "complete"
      PROVE  OrdersOfPayments' /\ PaidIsCompleted'
  <2>. HIDE DEF o
  <2>1. /\ payment'[y].status = s /\ payment'[y].target = o
        /\ payment'[y].amount = payment[y].amount
        /\ order'[o] = row
        /\ \A z \in Payments \ {y} : payment'[z] = payment[z]
        /\ \A x \in Orders \ {o} : order'[x] = order[x]
    BY <1>2, <1>4 DEF TypeOK, CartTypeOK, OrderRow, GatewayTypeOK, PaymentRow, o
  <2>2. OrdersOfPayments'
    BY <1>1, <1>2, <1>3, <1>4, <2>1
       DEF OrdersOfPayments, Active, Underwrites, PendingFor, o
  <2>3. PaidIsCompleted'
    BY <1>4, <2>1 DEF PaidIsCompleted
  <2>. QED BY <2>2, <2>3
<1>5. CASE PaymentCompleted(y)
  <2> DEFINE row == [order[o] EXCEPT !.status = "completed", !.paid = TRUE,
                                     !.inventory = "confirmed"]
  <2>1. order' = [order EXCEPT ![o] = row]
        /\ payment' = [payment EXCEPT ![y].status = "complete"]
    BY <1>2, <1>5 DEF PaymentCompleted, VerifyPaid, TypeOK, CartTypeOK
  <2>2. /\ row.status = "completed" /\ row.payable = order[o].payable
        /\ row.priced = order[o].priced /\ row.basket = order[o].basket
    BY <1>2 DEF TypeOK, CartTypeOK, OrderRow
  <2>. HIDE DEF o, row
  <2>. QED BY <1>4, <2>1, <2>2
<1>6. CASE PaymentAbandoned(y) \/ PaymentRejected(y) \/ PaymentCanceled(y)
  <2> DEFINE row == [order[o] EXCEPT !.status = "failed",
                                     !.inventory = InventoryAfterRelease(o)]
  <2>1. PICK s \in {"failed", "canceled"} : payment' = [payment EXCEPT ![y].status = s]
    BY <1>6 DEF PaymentAbandoned, PaymentRejected, PaymentCanceled, AbandonPayment,
                VerifyRejected, CallbackCancels
  <2>2. PendingFor(o) \ {y} = {}
    BY <1>3 DEF PendingFor, Active
  <2>3. ~order[o].paid
    BY <1>2 DEF PaidIsCompleted
  <2>4. order' = [order EXCEPT ![o] = row]
    BY <1>2, <1>6, <2>2, <2>3
       DEF PaymentAbandoned, PaymentRejected, PaymentCanceled, ReleaseOrder, TypeOK,
           CartTypeOK
  <2>5. /\ row.status = "failed" /\ row.payable = order[o].payable /\ ~row.paid
        /\ row.priced = order[o].priced /\ row.basket = order[o].basket
    BY <1>2, <2>3 DEF TypeOK, CartTypeOK, OrderRow
  <2>. HIDE DEF o, row
  <2>. QED BY <1>4, <2>1, <2>4, <2>5
<1>. QED BY <1>5, <1>6 DEF VerifyStep

(* All of it, with the stock's: who holds what is read from one row.       *)
PaymentsInv == StockInv /\ SessionInv /\ OrdersOfPayments /\ PaidIsCompleted

LEMMA PaymentsInvInit == Init => PaymentsInv
<1>1. Init => StockInv
  BY StockInvInit
<1>2. Init => SessionInv /\ OrdersOfPayments /\ PaidIsCompleted
  BY DEF Init, CartInit, NoOrder, GatewayInit, NoPayment, SessionInv, OrdersOfPayments,
         Active, PaidIsCompleted
<1>. QED BY <1>1, <1>2 DEF PaymentsInv

LEMMA PaymentsInvStep == PaymentsInv /\ [Next]_vars => PaymentsInv'
<1> SUFFICES ASSUME PaymentsInv, [Next]_vars PROVE PaymentsInv'
  OBVIOUS
<1>1. StockInv'
  BY StockInvStep DEF PaymentsInv
<1>2. TypeOK /\ SessionInv /\ OrdersOfPayments /\ PaidIsCompleted
  BY DEF PaymentsInv, StockInv, TypeInv
<1>3. ASSUME UNCHANGED gatewayVars, LockedKept, PaidIsCompleted'
      PROVE  PaymentsInv'
  <2>1. SessionInv'
    BY <1>2, <1>3 DEF SessionInv, gatewayVars
  <2>2. OrdersOfPayments'
    BY <1>2, <1>3, LockedKeptStep DEF gatewayVars
  <2>. QED BY <1>1, <1>3, <2>1, <2>2 DEF PaymentsInv
<1>4. CASE UNCHANGED vars
  <2>1. LockedKept /\ PaidIsCompleted'
    BY <1>2, <1>4 DEF LockedKept, PaidIsCompleted, vars
  <2>. QED BY <1>3, <1>4, <2>1 DEF vars, gatewayVars
<1>5. CASE CartNext /\ UNCHANGED <<gatewayVars, balance>>
  BY <1>2, <1>3, <1>5, CartStepLocksNone
<1>6. ASSUME NEW o \in Orders, PayStep(o)
      PROVE  PaymentsInv'
  <2>1. CASE PayFromWallet(o) \/ WalletDebitRefused(o)
    <3>1. UNCHANGED gatewayVars
      BY <2>1 DEF PayFromWallet, WalletDebitRefused
    <3>. QED BY <1>2, <1>3, <2>1, <3>1, WalletStepLocksNone
  <2>2. ASSUME NEW y \in Payments, StartPayment(y, o)
        PROVE  PaymentsInv'
    <3>1. SessionInv'
      BY <1>2, <2>2, SessionInvStep DEF StartPayment
    <3>. QED BY <1>1, <1>2, <2>2, <3>1, StartStep DEF PaymentsInv
  <2>. QED BY <1>6, <2>1, <2>2 DEF PayStep
<1>7. ASSUME NEW y \in Payments, VerifyStep(y)
      PROVE  PaymentsInv'
  <2>1. SessionInv'
    BY <1>2, <1>7, SessionInvStep
       DEF VerifyStep, PaymentAbandoned, PaymentCompleted, PaymentRejected,
           PaymentCanceled
  <2>. QED BY <1>1, <1>2, <1>7, <2>1, SettleStep DEF PaymentsInv
<1>8. ASSUME NEW y \in Payments, GatewayStep(y), UNCHANGED <<cartVars, balance>>
      PROVE  PaymentsInv'
  <2>1. SessionInv'
    BY <1>2, <1>8, SessionInvStep
  <2>2. LockedKept /\ PaidIsCompleted'
    BY <1>2, <1>8 DEF LockedKept, PaidIsCompleted, cartVars
  <2>3. \A z \in Payments :
          /\ payment'[z].status = payment[z].status
          /\ payment'[z].target = payment[z].target
          /\ payment'[z].amount = payment[z].amount
    BY <1>2, <1>8
       DEF GatewayStep, ProviderOpens, ProviderAnswers, ProviderFails, StoreAuthority,
           Crash, CustomerPays, CustomerCancels, SessionExpires, VerifyInterrupted,
           TypeOK, GatewayTypeOK, PaymentRow
  <2>. QED BY <1>1, <1>2, <2>1, <2>2, <2>3, LockedKeptStep DEF PaymentsInv
<1>. QED BY <1>4, <1>5, <1>6, <1>7, <1>8 DEF Next

LEMMA PaymentsInvAgrees == PaymentsInv => PaymentsAgree
<1> SUFFICES ASSUME PaymentsInv PROVE PaymentsAgree
  OBVIOUS
<1>1. ASSUME NEW o \in Orders
      PROVE  /\ order[o].status = "processing" <=> PendingFor(o) # {}
             /\ order[o].status = "processing" <=> order[o].inventory = "reserved"
             /\ Cardinality(PendingFor(o)) <= 1
  <2>1. PendingFor(o) # {} => order[o].status = "processing"
    BY DEF PaymentsInv, OrdersOfPayments, PendingFor, Active, Underwrites
  <2>2. Cardinality(PendingFor(o)) <= 1
    <3>1. CASE PendingFor(o) = {}
      BY <3>1, FS_EmptySet
    <3>2. ASSUME NEW y \in PendingFor(o)
          PROVE  Cardinality(PendingFor(o)) <= 1
      <4>1. PendingFor(o) = {y}
        BY <3>2 DEF PaymentsInv, OrdersOfPayments, PendingFor, Active
      <4>. QED BY <4>1, FS_Singleton
    <3>. QED BY <3>1, <3>2
  <2>. QED BY <2>1, <2>2 DEF PaymentsInv, OrdersOfPayments, StockInv, StatusInventory
<1>2. ChargedOnceAsPlaced
  BY DEF ChargedOnceAsPlaced, PaymentsInv, OrdersOfPayments, Active, Underwrites
<1>3. CapturedIsKept
  BY DEF CapturedIsKept, PaymentsInv, SessionInv, StockInv, TypeInv, TypeOK,
         GatewayTypeOK, PaymentRow, PaymentStatus
<1>. QED BY <1>1, <1>2, <1>3 DEF PaymentsAgree, LockedByOneSession

(* For any number of orders and sessions, and whatever crashes, comes late *)
(* or is repeated: an order is locked by one session while it is pending,  *)
(* is charged once and for what was frozen, and no money taken is lost     *)
(* (PaymentCore.pay and verify).                                           *)
THEOREM PaymentsAlwaysAgree == Spec => []PaymentsAgree
<1>1. Init => PaymentsInv
  BY PaymentsInvInit
<1>2. PaymentsInv /\ [Next]_vars => PaymentsInv'
  BY PaymentsInvStep
<1>3. PaymentsInv => PaymentsAgree
  BY PaymentsInvAgrees
<1>. QED BY <1>1, <1>2, <1>3, PTL DEF Spec

----------------------------------------------------------------------------
(* The wallets.  An order joins those that its buyer's wallet paid for only *)
(* with the debit, and none leaves them.                                    *)

OnWallet(o) ==
  /\ order[o].type = "online" /\ order[o].paid
  /\ \A y \in Payments : ~(payment[y].target = o /\ payment[y].status = "complete")

WalletsAdd ==
  \A u \in Users :
    /\ IsFiniteSet(Spent(u))
    /\ balance[u] + Cardinality(Spent(u)) = OpeningBalance[u]

WalletInv == PaymentsInv /\ balance \in [Users -> Nat] /\ WalletsAdd

SpentStays(o) ==
  /\ OnWallet(o)' <=> OnWallet(o)
  /\ OnWallet(o) => order'[o].payable = order[o].payable

LEMMA WalletsStay ==
  ASSUME WalletInv, UNCHANGED balance, \A o \in Orders : SpentStays(o)
  PROVE  balance' \in [Users -> Nat] /\ WalletsAdd'
<1>1. \A u \in Users : PaidFromWallet(u)' = PaidFromWallet(u)
  BY DEF PaidFromWallet, SpentStays, OnWallet
<1>2. ASSUME NEW u \in Users PROVE Spent(u)' = Spent(u)
  <2>1. \A o \in PaidFromWallet(u) : order'[o].payable = order[o].payable
    BY DEF PaidFromWallet, SpentStays, OnWallet
  <2>. QED BY <1>1, <2>1 DEF Spent
<1>. QED BY <1>2 DEF WalletInv, WalletsAdd

LEMMA SpentUnits ==
  ASSUME NEW x, NEW n \in Nat
  PROVE  IsFiniteSet({x} \X (1..n)) /\ Cardinality({x} \X (1..n)) = n
<1>1. IsFiniteSet(1..n) /\ Cardinality(1..n) = n
  BY FS_Interval
<1>2. IsFiniteSet({x}) /\ Cardinality({x}) = 1
  BY FS_Singleton
<1>. QED BY <1>1, <1>2, FS_Product

LEMMA DebitKeeps ==
  ASSUME WalletInv, NEW o \in Orders, PayFromWallet(o)
  PROVE  balance' \in [Users -> Nat] /\ WalletsAdd'
<1> DEFINE u == Buyer[o]
           price == order[o].payable
           more == {o} \X (1..price)
<1>1. /\ u \in Users /\ price \in Nat /\ order[o] \in OrderRow
      /\ balance[u] \in Nat /\ balance[u] >= price
      /\ order[o].status \in {"pending", "verified"} /\ ~order[o].paid
      /\ order[o].type = "online"
  BY CartAssumption
     DEF PayFromWallet, WalletPayable, Reservable, WalletInv, PaymentsInv, StockInv, TypeInv,
         TypeOK, CartTypeOK, OrderRow, NoAmount
<1>2. /\ order'[o].paid /\ order'[o].type = "online" /\ order'[o].payable = price
      /\ \A x \in Orders \ {o} : order'[x] = order[x]
      /\ UNCHANGED payment
  BY <1>1 DEF PayFromWallet, OrderRow, WalletInv, PaymentsInv, StockInv, TypeInv,
              TypeOK, CartTypeOK, gatewayVars
<1>3. \A y \in Payments : payment[y].status = "complete" => payment[y].target # o
  BY <1>1 DEF WalletInv, PaymentsInv, OrdersOfPayments, Active, Underwrites
<1>4. /\ balance' \in [Users -> Nat] /\ balance'[u] = balance[u] - price
      /\ \A v \in Users \ {u} : balance'[v] = balance[v]
  BY <1>1 DEF PayFromWallet, WalletInv
<1>5. o \notin PaidFromWallet(u) /\ PaidFromWallet(u)' = PaidFromWallet(u) \cup {o}
  BY <1>1, <1>2, <1>3 DEF PaidFromWallet
<1>6. \A v \in Users \ {u} : PaidFromWallet(v)' = PaidFromWallet(v) /\ o \notin PaidFromWallet(v)
  BY <1>2 DEF PaidFromWallet
<1>7. \A v \in Users : PaidFromWallet(v) \subseteq Orders
  BY DEF PaidFromWallet
<1>8. \A v \in Users \ {u} : Spent(v)' = Spent(v)
  BY <1>2, <1>6, <1>7 DEF Spent
<1>9. Spent(u)' = Spent(u) \cup more /\ Spent(u) \cap more = {}
  <2>1. Spent(u)' = UNION {{x} \X (1..order'[x].payable) : x \in PaidFromWallet(u) \cup {o}}
    BY <1>5 DEF Spent
  <2>2. \A x \in PaidFromWallet(u) : order'[x].payable = order[x].payable /\ x # o
    BY <1>1, <1>2, <1>5, <1>7
  <2>3. Spent(u)' = Spent(u) \cup more
    BY <1>2, <2>1, <2>2 DEF Spent
  <2>4. Spent(u) \cap more = {}
    BY <1>5 DEF Spent
  <2>. QED BY <2>3, <2>4
<1>10. /\ IsFiniteSet(Spent(u)) /\ Cardinality(Spent(u)) \in Nat
       /\ balance[u] + Cardinality(Spent(u)) = OpeningBalance[u]
  BY <1>1, FS_CardinalityType DEF WalletInv, WalletsAdd
<1>11. IsFiniteSet(more) /\ Cardinality(more) = price
  BY <1>1, SpentUnits
<1>12. /\ IsFiniteSet(Spent(u) \cup more)
       /\ Cardinality(Spent(u) \cup more) = Cardinality(Spent(u)) + price
  <2>. HIDE DEF more
  <2>1. /\ IsFiniteSet(Spent(u) \cup more)
        /\ Cardinality(Spent(u) \cup more) = Cardinality(Spent(u)) + Cardinality(more)
                                               - Cardinality(Spent(u) \cap more)
    BY <1>10, <1>11, FS_Union, Zenon
  <2>2. Cardinality(Spent(u) \cap more) = 0
    BY <1>9, FS_EmptySet
  <2>. HIDE DEF price
  <2>. QED BY <1>1, <1>10, <1>11, <2>1, <2>2
<1>13. WalletsAdd'
  <2>1. ASSUME NEW v \in Users
        PROVE  /\ IsFiniteSet(Spent(v)')
               /\ balance'[v] + Cardinality(Spent(v)') = OpeningBalance[v]
    <3>1. CASE v = u
      <4>1. /\ IsFiniteSet(Spent(u)')
            /\ Cardinality(Spent(u)') = Cardinality(Spent(u)) + price
        BY <1>9, <1>12
      <4>. DEFINE n == Cardinality(Spent(u))
                  m == Cardinality(Spent(u)')
      <4>2. n \in Nat /\ balance[u] + n = OpeningBalance[u] /\ m = n + price
        BY <1>10, <4>1
      <4>. HIDE DEF n, m
      <4>3. balance'[u] + m = OpeningBalance[u]
        BY <1>1, <1>4, <4>2
      <4>. QED BY <3>1, <4>1, <4>3 DEF m
    <3>2. CASE v # u
      BY <1>4, <1>8, <3>2 DEF WalletInv, WalletsAdd
    <3>. QED BY <3>1, <3>2
  <2>. QED BY <2>1 DEF WalletsAdd
<1>. QED BY <1>4, <1>13

LEMMA WalletInvariant == Spec => []WalletInv
<1>1. Init => WalletInv
  <2> SUFFICES ASSUME Init PROVE WalletInv
    OBVIOUS
  <2>1. PaymentsInv
    BY PaymentsInvInit
  <2>2. \A u \in Users : PaidFromWallet(u) = {}
    BY DEF Init, CartInit, NoOrder, PaidFromWallet
  <2>3. \A u \in Users : Spent(u) = {}
    BY <2>2 DEF Spent
  <2>4. \A u \in Users : balance[u] \in Nat /\ balance[u] = OpeningBalance[u]
    BY WalletAssumption DEF Init
  <2>. QED BY <2>1, <2>3, <2>4, FS_EmptySet, WalletAssumption DEF Init, WalletInv, WalletsAdd
<1>2. WalletInv /\ PaymentsInv' /\ [Next]_vars => WalletInv'
  <2> SUFFICES ASSUME WalletInv, PaymentsInv', [Next]_vars PROVE WalletInv'
    OBVIOUS
  <2>0. /\ TypeOK /\ OrdersOfPayments /\ PaidIsCompleted
        /\ \A o \in Orders : order[o] \in OrderRow
        /\ \A y \in Payments : payment[y] \in PaymentRow
        /\ DOMAIN order = Orders /\ DOMAIN payment = Payments
    BY DEF WalletInv, PaymentsInv, StockInv, TypeInv, TypeOK, CartTypeOK, GatewayTypeOK
  <2>1. ASSUME UNCHANGED balance, \A o \in Orders : SpentStays(o)
        PROVE  WalletInv'
    BY <2>1, WalletsStay DEF WalletInv
  <2>2. ASSUME UNCHANGED <<gatewayVars, balance>>, LockedKept, CashOnly
        PROVE  WalletInv'
    <3>1. ASSUME NEW o \in Orders PROVE SpentStays(o)
      <4>1. UNCHANGED payment
        BY <2>2 DEF gatewayVars
      <4>2. CASE order[o].paid
        BY <2>0, <2>2, <4>1, <4>2 DEF LockedKept, PaidIsCompleted, SpentStays, OnWallet
      <4>3. CASE ~order[o].paid
        BY <2>2, <4>3 DEF CashOnly, SpentStays, OnWallet
      <4>. QED BY <4>2, <4>3
    <3>. QED BY <2>1, <2>2, <3>1
  <2>3. CASE CartNext /\ UNCHANGED <<gatewayVars, balance>>
    BY <2>0, <2>2, <2>3, CartStepLocksNone
  <2>4. ASSUME NEW o \in Orders, PayStep(o) PROVE WalletInv'
    <3>1. CASE PayFromWallet(o)
      BY <3>1, DebitKeeps DEF WalletInv
    <3>2. CASE WalletDebitRefused(o)
      <4>1. CashOnly
        BY <2>0, <3>2 DEF WalletDebitRefused, CashOnly, OrderRow
      <4>2. UNCHANGED <<gatewayVars, balance>>
        BY <3>2 DEF WalletDebitRefused
      <4>. QED BY <2>0, <2>2, <3>2, <4>1, <4>2, WalletStepLocksNone
    <3>3. ASSUME NEW y \in Payments, StartPayment(y, o) PROVE WalletInv'
      <4>1. /\ payment[y].status = "absent" /\ payment'[y].status = "pending"
            /\ \A z \in Payments \ {y} : payment'[z] = payment[z]
            /\ UNCHANGED balance
        BY <2>0, <3>3 DEF StartPayment, CreatePayment
      <4>2. \A x \in Orders : /\ order'[x].paid = order[x].paid
                              /\ order'[x].type = order[x].type
                              /\ order'[x].payable = order[x].payable
        BY <2>0, <3>3 DEF StartPayment, OrderRow
      <4>3. \A x \in Orders : SpentStays(x)
        BY <4>1, <4>2 DEF SpentStays, OnWallet
      <4>. QED BY <2>1, <4>1, <4>3
    <3>. QED BY <2>4, <3>1, <3>2, <3>3 DEF PayStep
  <2>5. ASSUME NEW y \in Payments, VerifyStep(y) PROVE WalletInv'
    <3> DEFINE o == payment[y].target
    <3>1. /\ payment[y].status = "pending" /\ UNCHANGED balance
          /\ payment'[y].target = o /\ payment'[y].status # "pending"
          /\ \A z \in Payments \ {y} : payment'[z] = payment[z]
      BY <2>0, <2>5 DEF VerifyStep, PaymentAbandoned, PaymentCompleted, PaymentRejected,
         PaymentCanceled, AbandonPayment, VerifyPaid, VerifyRejected, CallbackCancels,
         Verifiable, PaymentRow
    <3>2. o \in Orders /\ order[o].status = "processing" /\ ~order[o].paid
      BY <2>0, <3>1 DEF OrdersOfPayments, Active, Underwrites, PaidIsCompleted
    <3>3. CASE PaymentCompleted(y)
      <4>1. /\ payment'[y].status = "complete"
            /\ \A x \in Orders \ {o} : order'[x] = order[x]
        BY <2>0, <3>2, <3>3 DEF PaymentCompleted, VerifyPaid
      <4>2. ASSUME NEW x \in Orders PROVE SpentStays(x)
        <5>1. CASE x = o
          BY <3>1, <3>2, <4>1, <5>1 DEF SpentStays, OnWallet
        <5>2. CASE x # o
          BY <3>1, <4>1, <5>2 DEF SpentStays, OnWallet
        <5>. QED BY <5>1, <5>2
      <4>. QED BY <2>1, <3>1, <4>2
    <3>4. CASE PaymentAbandoned(y) \/ PaymentRejected(y) \/ PaymentCanceled(y)
      <4>1. payment'[y].status # "complete"
        BY <2>0, <3>4 DEF PaymentAbandoned, PaymentRejected, PaymentCanceled, AbandonPayment,
                          VerifyRejected, CallbackCancels, PaymentRow
      <4>2. ReleaseOrder(y)
        BY <3>4 DEF PaymentAbandoned, PaymentRejected, PaymentCanceled
      <4>3. \A x \in Orders : /\ order'[x].paid = order[x].paid
                              /\ order'[x].type = order[x].type
                              /\ order'[x].payable = order[x].payable
        BY <2>0, <3>2, <4>2 DEF ReleaseOrder, OrderRow
      <4>4. \A x \in Orders : SpentStays(x)
        BY <3>1, <4>1, <4>3 DEF SpentStays, OnWallet
      <4>. QED BY <2>1, <3>1, <4>4
    <3>. QED BY <2>5, <3>3, <3>4 DEF VerifyStep
  <2>6. ASSUME NEW y \in Payments, GatewayStep(y), UNCHANGED <<cartVars, balance>>
        PROVE  WalletInv'
    <3>1. \A z \in Payments :
            /\ payment'[z].status = payment[z].status
            /\ payment'[z].target = payment[z].target
      BY <2>0, <2>6
         DEF GatewayStep, ProviderOpens, ProviderAnswers, ProviderFails, StoreAuthority,
             Crash, CustomerPays, CustomerCancels, SessionExpires, VerifyInterrupted,
             PaymentRow
    <3>2. UNCHANGED <<order, balance>>
      BY <2>6 DEF cartVars
    <3>3. \A x \in Orders : SpentStays(x)
      BY <3>1, <3>2 DEF SpentStays, OnWallet
    <3>. QED BY <2>1, <3>2, <3>3
  <2>7. CASE UNCHANGED vars
    <3>1. UNCHANGED <<order, payment, balance>>
      BY <2>7 DEF vars
    <3>2. \A x \in Orders : SpentStays(x)
      BY <3>1 DEF SpentStays, OnWallet
    <3>. QED BY <2>1, <3>1, <3>2
  <2>. QED BY <2>3, <2>4, <2>5, <2>6, <2>7 DEF Next
<1>3. Spec => []PaymentsInv
  BY PaymentsInvInit, PaymentsInvStep, PTL DEF Spec
<1>. QED BY <1>1, <1>2, <1>3, PTL DEF Spec

(* For any wallets, orders and sessions, and however often a debit is       *)
(* refused: a wallet is what it was less the frozen totals of the orders    *)
(* that were paid from it, and is never overdrawn                           *)
(* (PostPaymentCore.wallet_process).                                        *)
THEOREM WalletsAlwaysAdd == Spec => []WalletAccounts
<1>1. WalletInv => WalletAccounts
  BY DEF WalletInv, WalletsAdd, WalletAccounts
<1>. QED BY <1>1, WalletInvariant, PTL

----------------------------------------------------------------------------
(* Promotions.  A step keeps the counters of promotions and who holds      *)
(* them, or moves one order from holding nothing to a reservation, or from *)
(* a reservation to nothing or to a confirmation, or straight to that.     *)

SlotsCounted(d) ==
  /\ promotion[d].reserved = Cardinality(Holding(d, "reserved"))
  /\ promotion[d].consumed = Cardinality(Holding(d, "confirmed"))
  /\ d \notin Codes => promotion[d].users = {Buyer[o] : o \in Holding(d, "confirmed")}
  /\ BelowLimit(d, promotion[d].reserved + promotion[d].consumed - 1)
  /\ \A o, x \in Holding(d, "reserved") \cup Holding(d, "confirmed") :
       Buyer[o] = Buyer[x] => o = x

SlotsKept ==
  /\ \A d \in Promotions :
       /\ promotion'[d].reserved = promotion[d].reserved
       /\ promotion'[d].consumed = promotion[d].consumed
       /\ promotion'[d].users = promotion[d].users
  /\ \A o \in Orders :
       \/ order'[o].inventory = order[o].inventory /\ order'[o].applied = order[o].applied
       \/ ~HoldsStock(o) /\ ~HoldsStock(o)'

(* Order o alone moves, with what it had applied. *)
Moves(o, i, j) ==
  /\ order[o].inventory = i /\ order'[o].inventory = j
  /\ order'[o].applied = order[o].applied
  /\ Others(o)

SlotsTaken(o) ==
  /\ Moves(o, "none", "reserved") /\ CanTakeSlots(o)
  /\ promotion' = TakeSlots(promotion, o)
SlotsReturned(o) ==
  Moves(o, "reserved", "released") /\ promotion' = ReturnSlots(promotion, o)
SlotsSpent(o) ==
  Moves(o, "reserved", "confirmed") /\ promotion' = SpendSlots(promotion, o)
SlotsBought(o) ==
  /\ Moves(o, "none", "confirmed") /\ CanTakeSlots(o)
  /\ promotion' = SpendSlots(TakeSlots(promotion, o), o)

LEMMA HoldingFinite ==
  ASSUME NEW d, NEW i
  PROVE  IsFiniteSet(Holding(d, i)) /\ Cardinality(Holding(d, i)) \in Nat
<1>1. Holding(d, i) \in SUBSET Orders
  BY DEF Holding
<1>2. IsFiniteSet(Holding(d, i))
  BY <1>1, FS_Subset, CartAssumption
<1>. QED BY <1>2, FS_CardinalityType

LEMMA KeptSlots ==
  ASSUME SlotsKept, NEW d \in Promotions, SlotsCounted(d)
  PROVE  SlotsCounted(d)'
<1>1. ASSUME NEW i \in {"reserved", "confirmed"}
      PROVE  Holding(d, i)' = Holding(d, i)
  BY <1>1 DEF Holding, SlotsKept, HoldsStock
<1>. QED BY <1>1 DEF SlotsCounted, SlotsKept, BelowLimit

(* Where the holders of a promotion go when one order moves. *)
LEMMA HoldersMove ==
  ASSUME NEW o \in Orders, NEW i, NEW j, i # j, Moves(o, i, j),
         NEW d \in Promotions
  PROVE  /\ d \in order[o].applied =>
              /\ Holding(d, i)' = Holding(d, i) \ {o} /\ o \in Holding(d, i)
              /\ Holding(d, j)' = Holding(d, j) \cup {o} /\ o \notin Holding(d, j)
         /\ d \notin order[o].applied =>
              Holding(d, i)' = Holding(d, i) /\ Holding(d, j)' = Holding(d, j)
         /\ \A k : k \notin {i, j} => Holding(d, k)' = Holding(d, k)
BY DEF Holding, Moves, Others

LEMMA HoldersCount ==
  ASSUME NEW d, NEW i, NEW o
  PROVE  /\ o \in Holding(d, i) =>
              Cardinality(Holding(d, i) \ {o}) = Cardinality(Holding(d, i)) - 1
         /\ o \notin Holding(d, i) =>
              Cardinality(Holding(d, i) \cup {o}) = Cardinality(Holding(d, i)) + 1
BY HoldingFinite, FS_RemoveElement, FS_AddElement

(* The checks of a reservation: room below the limit, and no other order   *)
(* of the buyer's.                                                         *)
LEMMA RoomAndFirst ==
  ASSUME TypeOK, NEW o \in Orders, CanTakeSlots(o),
         NEW d \in Promotions, d \in order[o].applied, SlotsCounted(d)
  PROVE  /\ BelowLimit(d, promotion[d].reserved + promotion[d].consumed)
         /\ \A x \in Holding(d, "reserved") \cup Holding(d, "confirmed") :
              Buyer[x] = Buyer[o] => x = o
<1>1. promotion[d].reserved \in Nat /\ promotion[d].consumed \in Nat
  BY DEF TypeOK, CartTypeOK, PromotionRow
<1>2. CASE d \in Codes
  <2>1. ValidCode(d, o, order[o].basket, promotion[d].consumed + promotion[d].reserved)
    BY <1>2 DEF CanTakeSlots
  <2>2. BelowLimit(d, promotion[d].consumed + promotion[d].reserved) /\ ~UsedBefore(d, o)
    BY <2>1 DEF ValidCode
  <2>3. promotion[d].consumed + promotion[d].reserved
          = promotion[d].reserved + promotion[d].consumed
    BY <1>1
  <2>. QED BY <2>2, <2>3 DEF UsedBefore, SameBuyer, Holding
<1>3. CASE d \notin Codes
  <2>1. ValidGroup(d, o)
    BY <1>3 DEF CanTakeSlots
  <2>2. BelowLimit(d, promotion[d].reserved + promotion[d].consumed)
    BY <1>1, <2>1, CartAssumption DEF ValidGroup, GroupHasRoom, BelowLimit
  <2>3. ASSUME NEW x \in Holding(d, "reserved"), Buyer[x] = Buyer[o]
        PROVE  x = o
    BY <2>1, <2>3 DEF ValidGroup, SameBuyer, Holding
  <2>4. ASSUME NEW x \in Holding(d, "confirmed")
        PROVE  Buyer[x] # Buyer[o]
    BY <1>3, <2>1, <2>4 DEF ValidGroup, SlotsCounted
  <2>. QED BY <2>2, <2>3, <2>4
<1>. QED BY <1>2, <1>3

(* What each of the moves does to a row. *)
LEMMA SlotRows ==
  ASSUME TypeOK, NEW o \in Orders, NEW d \in Promotions,
         NEW pr \in [Promotions -> PromotionRow]
  PROVE  /\ d \in order[o].applied =>
              /\ TakeSlots(pr, o)[d].reserved = pr[d].reserved + 1
              /\ TakeSlots(pr, o)[d].consumed = pr[d].consumed
              /\ TakeSlots(pr, o)[d].users = pr[d].users
              /\ ReturnSlots(pr, o)[d].reserved = pr[d].reserved - 1
              /\ ReturnSlots(pr, o)[d].consumed = pr[d].consumed
              /\ ReturnSlots(pr, o)[d].users = pr[d].users
              /\ SpendSlots(pr, o)[d].reserved = pr[d].reserved - 1
              /\ SpendSlots(pr, o)[d].consumed = pr[d].consumed + 1
              /\ SpendSlots(pr, o)[d].users =
                   IF d \in Codes THEN pr[d].users ELSE pr[d].users \cup {Buyer[o]}
         /\ d \notin order[o].applied =>
              /\ TakeSlots(pr, o)[d] = pr[d] /\ ReturnSlots(pr, o)[d] = pr[d]
              /\ SpendSlots(pr, o)[d] = pr[d]
<1>1. TakeSlots(pr, o)[d] = IF d \in order[o].applied
                            THEN [pr[d] EXCEPT !.reserved = @ + 1] ELSE pr[d]
  BY DEF TakeSlots
<1>2. ReturnSlots(pr, o)[d] = IF d \in order[o].applied
                              THEN [pr[d] EXCEPT !.reserved = @ - 1] ELSE pr[d]
  BY DEF ReturnSlots
<1>3. SpendSlots(pr, o)[d] =
        IF d \in order[o].applied
        THEN [pr[d] EXCEPT !.reserved = @ - 1, !.consumed = @ + 1,
                           !.users = IF d \in Codes THEN @ ELSE @ \cup {Buyer[o]}]
        ELSE pr[d]
  BY DEF SpendSlots
<1>4. pr[d] \in PromotionRow
  OBVIOUS
<1>5. ASSUME d \in order[o].applied
      PROVE  /\ SpendSlots(pr, o)[d].reserved = pr[d].reserved - 1
             /\ SpendSlots(pr, o)[d].consumed = pr[d].consumed + 1
             /\ SpendSlots(pr, o)[d].users =
                  IF d \in Codes THEN pr[d].users ELSE pr[d].users \cup {Buyer[o]}
  BY <1>3, <1>4, <1>5 DEF PromotionRow
<1>6. ASSUME d \in order[o].applied
      PROVE  /\ TakeSlots(pr, o)[d].reserved = pr[d].reserved + 1
             /\ TakeSlots(pr, o)[d].consumed = pr[d].consumed
             /\ TakeSlots(pr, o)[d].users = pr[d].users
             /\ ReturnSlots(pr, o)[d].reserved = pr[d].reserved - 1
             /\ ReturnSlots(pr, o)[d].consumed = pr[d].consumed
             /\ ReturnSlots(pr, o)[d].users = pr[d].users
  BY <1>1, <1>2, <1>4, <1>6 DEF PromotionRow
<1>. QED BY <1>1, <1>2, <1>3, <1>5, <1>6

(* A promotion the moving order does not use stays as it is.               *)
LEMMA UnusedStays ==
  ASSUME NEW o \in Orders, NEW i, NEW j, i # j, Moves(o, i, j),
         NEW d \in Promotions, d \notin order[o].applied, SlotsCounted(d),
         promotion'[d] = promotion[d]
  PROVE  SlotsCounted(d)'
<1>1. \A k : Holding(d, k)' = Holding(d, k)
  BY HoldersMove
<1>. QED BY <1>1 DEF SlotsCounted, BelowLimit

LEMMA TakenSlots ==
  ASSUME TypeOK, NEW o \in Orders, SlotsTaken(o), NEW d \in Promotions, SlotsCounted(d)
  PROVE  SlotsCounted(d)'
<1> DEFINE R == Holding(d, "reserved")
           C == Holding(d, "confirmed")
<1>1. promotion \in [Promotions -> PromotionRow] /\ promotion[d] \in PromotionRow
  BY DEF TypeOK, CartTypeOK
<1>2. CASE d \notin order[o].applied
  <2>0. TakeSlots(promotion, o)[d] = promotion[d]
    BY <1>1, <1>2, SlotRows
  <2>1. promotion'[d] = promotion[d]
    BY <2>0 DEF SlotsTaken
  <2>. QED BY <1>2, <2>1, UnusedStays DEF SlotsTaken
<1>3. CASE d \in order[o].applied
  <2>1. /\ TakeSlots(promotion, o)[d].reserved = promotion[d].reserved + 1
        /\ TakeSlots(promotion, o)[d].consumed = promotion[d].consumed
        /\ TakeSlots(promotion, o)[d].users = promotion[d].users
    BY <1>1, <1>3, SlotRows
  <2>2. /\ promotion'[d].reserved = promotion[d].reserved + 1
        /\ promotion'[d].consumed = promotion[d].consumed
        /\ promotion'[d].users = promotion[d].users
        /\ promotion[d].reserved \in Nat /\ promotion[d].consumed \in Nat
    BY <1>1, <2>1 DEF PromotionRow, SlotsTaken
  <2>3. R' = R \cup {o} /\ o \notin R /\ C' = C
    BY <1>3, HoldersMove DEF SlotsTaken
  <2>4. Cardinality(R') = Cardinality(R) + 1
    BY <2>3, HoldersCount
  <2>5. /\ BelowLimit(d, promotion[d].reserved + promotion[d].consumed)
        /\ \A x \in R \cup C : Buyer[x] = Buyer[o] => x = o
    BY <1>3, RoomAndFirst DEF SlotsTaken
  <2>6. promotion'[d].reserved + promotion'[d].consumed - 1
          = promotion[d].reserved + promotion[d].consumed
    BY <2>2
  <2>7. BelowLimit(d, promotion'[d].reserved + promotion'[d].consumed - 1)
    BY <2>5, <2>6
  <2>8. \A u, x \in R' \cup C' : Buyer[u] = Buyer[x] => u = x
    BY <2>3, <2>5 DEF SlotsCounted
  <2>. QED BY <2>2, <2>3, <2>4, <2>7, <2>8 DEF SlotsCounted, BelowLimit
<1>. QED BY <1>2, <1>3

LEMMA ReturnedSlots ==
  ASSUME TypeOK, NEW o \in Orders, SlotsReturned(o), NEW d \in Promotions, SlotsCounted(d)
  PROVE  SlotsCounted(d)'
<1> DEFINE R == Holding(d, "reserved")
           C == Holding(d, "confirmed")
<1>1. promotion \in [Promotions -> PromotionRow] /\ promotion[d] \in PromotionRow
  BY DEF TypeOK, CartTypeOK
<1>2. CASE d \notin order[o].applied
  <2>0. ReturnSlots(promotion, o)[d] = promotion[d]
    BY <1>1, <1>2, SlotRows
  <2>1. promotion'[d] = promotion[d]
    BY <2>0 DEF SlotsReturned
  <2>. QED BY <1>2, <2>1, UnusedStays DEF SlotsReturned
<1>3. CASE d \in order[o].applied
  <2>1. /\ ReturnSlots(promotion, o)[d].reserved = promotion[d].reserved - 1
        /\ ReturnSlots(promotion, o)[d].consumed = promotion[d].consumed
        /\ ReturnSlots(promotion, o)[d].users = promotion[d].users
    BY <1>1, <1>3, SlotRows
  <2>2. /\ promotion'[d].reserved = promotion[d].reserved - 1
        /\ promotion'[d].consumed = promotion[d].consumed
        /\ promotion'[d].users = promotion[d].users
        /\ promotion[d].reserved \in Nat /\ promotion[d].consumed \in Nat
    BY <1>1, <2>1 DEF PromotionRow, SlotsReturned
  <2>3. R' = R \ {o} /\ o \in R /\ C' = C
    BY <1>3, HoldersMove DEF SlotsReturned
  <2>4. Cardinality(R') = Cardinality(R) - 1
    BY <2>3, HoldersCount
  <2>5. Limit[d] \in Nat
    BY CartAssumption
  <2>6. BelowLimit(d, promotion'[d].reserved + promotion'[d].consumed - 1)
    BY <2>2, <2>5 DEF SlotsCounted, BelowLimit
  <2>7. \A u, x \in R' \cup C' : Buyer[u] = Buyer[x] => u = x
    BY <2>3 DEF SlotsCounted
  <2>. QED BY <2>2, <2>3, <2>4, <2>6, <2>7 DEF SlotsCounted, BelowLimit
<1>. QED BY <1>2, <1>3

LEMMA SpentSlots ==
  ASSUME TypeOK, NEW o \in Orders, SlotsSpent(o), NEW d \in Promotions, SlotsCounted(d)
  PROVE  SlotsCounted(d)'
<1> DEFINE R == Holding(d, "reserved")
           C == Holding(d, "confirmed")
<1>1. promotion \in [Promotions -> PromotionRow] /\ promotion[d] \in PromotionRow
  BY DEF TypeOK, CartTypeOK
<1>2. CASE d \notin order[o].applied
  <2>0. SpendSlots(promotion, o)[d] = promotion[d]
    BY <1>1, <1>2, SlotRows
  <2>1. promotion'[d] = promotion[d]
    BY <2>0 DEF SlotsSpent
  <2>. QED BY <1>2, <2>1, UnusedStays DEF SlotsSpent
<1>3. CASE d \in order[o].applied
  <2>0. /\ SpendSlots(promotion, o)[d].reserved = promotion[d].reserved - 1
        /\ SpendSlots(promotion, o)[d].consumed = promotion[d].consumed + 1
        /\ SpendSlots(promotion, o)[d].users = IF d \in Codes THEN promotion[d].users
                                               ELSE promotion[d].users \cup {Buyer[o]}
    BY <1>1, <1>3, SlotRows
  <2>1. /\ promotion'[d].reserved = promotion[d].reserved - 1
        /\ promotion'[d].consumed = promotion[d].consumed + 1
        /\ promotion'[d].users = IF d \in Codes THEN promotion[d].users
                                 ELSE promotion[d].users \cup {Buyer[o]}
    BY <2>0 DEF SlotsSpent
  <2>2. promotion[d].reserved \in Nat /\ promotion[d].consumed \in Nat
    BY <1>1 DEF PromotionRow
  <2>3. R' = R \ {o} /\ o \in R /\ C' = C \cup {o} /\ o \notin C
    BY <1>3, HoldersMove DEF SlotsSpent
  <2>4. /\ Cardinality(R') = Cardinality(R) - 1
        /\ Cardinality(C') = Cardinality(C) + 1
    BY <2>3, HoldersCount
  <2>5. promotion'[d].reserved + promotion'[d].consumed - 1
          = promotion[d].reserved + promotion[d].consumed - 1
    BY <2>1, <2>2
  <2>6. BelowLimit(d, promotion'[d].reserved + promotion'[d].consumed - 1)
    BY <2>5 DEF SlotsCounted
  <2>7. \A u, x \in R' \cup C' : Buyer[u] = Buyer[x] => u = x
    BY <2>3 DEF SlotsCounted
  <2>8. d \notin Codes => promotion'[d].users = {Buyer[x] : x \in C'}
    BY <2>1, <2>3 DEF SlotsCounted
  <2>. QED BY <2>1, <2>4, <2>6, <2>7, <2>8 DEF SlotsCounted, BelowLimit
<1>. QED BY <1>2, <1>3

LEMMA BoughtSlots ==
  ASSUME TypeOK, NEW o \in Orders, SlotsBought(o), NEW d \in Promotions, SlotsCounted(d)
  PROVE  SlotsCounted(d)'
<1> DEFINE R == Holding(d, "reserved")
           C == Holding(d, "confirmed")
           taken == TakeSlots(promotion, o)
<1>1. promotion \in [Promotions -> PromotionRow] /\ promotion[d] \in PromotionRow
  BY DEF TypeOK, CartTypeOK
<1>2. taken \in [Promotions -> PromotionRow]
  BY <1>1, SlotMovesType DEF TypeOK
<1>3. promotion' = SpendSlots(taken, o)
  BY DEF SlotsBought
<1>4. CASE d \notin order[o].applied
  <2>1. taken[d] = promotion[d]
    BY <1>1, <1>4, SlotRows
  <2>2. promotion'[d] = promotion[d]
    <3>. HIDE DEF taken
    <3>. QED BY <1>2, <1>3, <1>4, <2>1, SlotRows
  <2>. QED BY <1>4, <2>2, UnusedStays DEF SlotsBought
<1>5. CASE d \in order[o].applied
  <2>1. /\ taken[d].reserved = promotion[d].reserved + 1
        /\ taken[d].consumed = promotion[d].consumed
        /\ taken[d].users = promotion[d].users
    BY <1>1, <1>5, SlotRows
  <2>2. promotion[d].reserved \in Nat /\ promotion[d].consumed \in Nat
    BY <1>1 DEF PromotionRow
  <2>3. /\ promotion'[d].reserved = taken[d].reserved - 1
        /\ promotion'[d].consumed = taken[d].consumed + 1
        /\ promotion'[d].users = IF d \in Codes THEN taken[d].users
                                 ELSE taken[d].users \cup {Buyer[o]}
    <3>. HIDE DEF taken
    <3>. QED BY <1>2, <1>3, <1>5, SlotRows
  <2>4. /\ promotion'[d].reserved = promotion[d].reserved
        /\ promotion'[d].consumed = promotion[d].consumed + 1
        /\ promotion'[d].users = IF d \in Codes THEN promotion[d].users
                                 ELSE promotion[d].users \cup {Buyer[o]}
    <3>. HIDE DEF taken
    <3>. QED BY <2>1, <2>2, <2>3
  <2>5. C' = C \cup {o} /\ o \notin C /\ R' = R
    BY <1>5, HoldersMove DEF SlotsBought
  <2>6. Cardinality(C') = Cardinality(C) + 1
    BY <2>5, HoldersCount
  <2>7. /\ BelowLimit(d, promotion[d].reserved + promotion[d].consumed)
        /\ \A x \in R \cup C : Buyer[x] = Buyer[o] => x = o
    BY <1>5, RoomAndFirst DEF SlotsBought
  <2>8. BelowLimit(d, promotion'[d].reserved + promotion'[d].consumed - 1)
    <3>1. promotion'[d].reserved + promotion'[d].consumed - 1
            = promotion[d].reserved + promotion[d].consumed
      BY <2>2, <2>4
    <3>. QED BY <2>7, <3>1
  <2>9. \A u, x \in R' \cup C' : Buyer[u] = Buyer[x] => u = x
    BY <2>5, <2>7 DEF SlotsCounted
  <2>10. d \notin Codes => promotion'[d].users = {Buyer[x] : x \in C'}
    BY <2>4, <2>5 DEF SlotsCounted
  <2>. QED BY <2>4, <2>5, <2>6, <2>8, <2>9, <2>10 DEF SlotsCounted, BelowLimit
<1>. QED BY <1>4, <1>5

SlotsMove ==
  \/ SlotsKept
  \/ \E o \in Orders :
       SlotsTaken(o) \/ SlotsReturned(o) \/ SlotsSpent(o) \/ SlotsBought(o)

LEMMA RowKeepsSlots ==
  ASSUME TypeOK, NEW o \in Orders, NEW row,
         order' = [order EXCEPT ![o] = row], ~HoldsStock(o),
         row.inventory \notin {"reserved", "confirmed"}, promotion' = promotion
  PROVE  SlotsKept
BY DEF TypeOK, CartTypeOK, SlotsKept, HoldsStock

LEMMA CartStepMovesSlots ==
  ASSUME TypeOK, StatusInventory, CartNext
  PROVE  SlotsMove
<1>1. ASSUME NEW o \in Orders, NEW row,
             order[o].status # "processing", order[o].status # "completed",
             order' = [order EXCEPT ![o] = row],
             row.inventory = order[o].inventory \/ row.inventory = "none",
             promotion' = promotion
      PROVE  SlotsKept
  <2>1. ~HoldsStock(o)
    BY <1>1 DEF StatusInventory, HoldsStock
  <2>2. row.inventory \notin {"reserved", "confirmed"}
    BY <1>1, <2>1 DEF HoldsStock
  <2>. QED BY <1>1, <2>1, <2>2, RowKeepsSlots
<1>2. ASSUME NEW o \in Orders, NEW b
      PROVE  Edited(o, b).inventory = order[o].inventory
  BY DEF Edited, TypeOK, CartTypeOK, OrderRow
<1>3. ASSUME NEW o \in Orders, OpenCart(o) \/ DeleteDraft(o)
      PROVE  SlotsKept
  <2>1. /\ NoOrder.inventory = "none"
        /\ [NoOrder EXCEPT !.status = "draft"].inventory = "none"
    BY DEF NoOrder
  <2>2. CASE OpenCart(o)
    BY <1>1, <2>1, <2>2 DEF OpenCart
  <2>3. CASE DeleteDraft(o)
    BY <1>1, <2>1, <2>3 DEF DeleteDraft
  <2>. QED BY <1>3, <2>2, <2>3
<1>4. ASSUME NEW o \in Orders, NEW l \in Listings,
             \/ RemoveItem(o, l)
             \/ \E n \in 1..MaxQty : AddItem(o, l, n) \/ UpdateItem(o, l, n)
      PROVE  SlotsKept
  <2>1. /\ order[o].status \in {"absent", "draft"} /\ promotion' = promotion
        /\ \E b : order' = [order EXCEPT ![o] = Edited(o, b)]
    <3>1. CASE RemoveItem(o, l)
      BY <3>1, Zenon DEF RemoveItem
    <3>2. CASE \E n \in 1..MaxQty : AddItem(o, l, n)
      BY <3>2, Zenon DEF AddItem, CartOf
    <3>3. CASE \E n \in 1..MaxQty : UpdateItem(o, l, n)
      BY <3>3, Zenon DEF UpdateItem
    <3>. QED BY <1>4, <3>1, <3>2, <3>3
  <2>. QED BY <1>1, <1>2, <2>1
<1>5. ASSUME NEW o \in Orders, NEW t, NEW b, ReplaceItems(o, b, t)
      PROVE  SlotsKept
  <2>1. Replaced(o, b, t).inventory = order[o].inventory
    BY DEF Replaced, Edited, TypeOK, CartTypeOK, OrderRow
  <2>2. /\ order[o].status = "draft" /\ promotion' = promotion
        /\ order' = [order EXCEPT ![o] = Replaced(o, b, t)]
    BY <1>5 DEF ReplaceItems
  <2>. QED BY <1>1, <2>1, <2>2
<1>6. ASSUME NEW o \in Orders, NEW t, NEW ds, NEW a,
             Checkout(o, t, ds, a) \/ \E b \in Basket : PlaceOrder(o, b, t, ds, a)
      PROVE  SlotsKept
  <2>1. PICK b : order' = [order EXCEPT ![o] = Placed(o, b, t, ds, a)]
    BY <1>6 DEF Checkout, PlaceOrder
  <2>2. Placed(o, b, t, ds, a).inventory = order[o].inventory
    BY DEF Placed, TypeOK, CartTypeOK, OrderRow
  <2>3. order[o].status \in {"absent", "draft"} /\ promotion' = promotion
    BY <1>6 DEF Checkout, PlaceOrder
  <2>. QED BY <1>1, <2>1, <2>2, <2>3
<1>7. ASSUME NEW o \in Orders, VerifyOrder(o)
      PROVE  SlotsKept
  <2> DEFINE row == [order[o] EXCEPT !.status = "verified"]
  <2>1. order' = [order EXCEPT ![o] = row] /\ row.inventory = order[o].inventory
    BY <1>7 DEF VerifyOrder, TypeOK, CartTypeOK, OrderRow
  <2>2. order[o].status = "pending" /\ promotion' = promotion
    BY <1>7 DEF VerifyOrder
  <2>. HIDE DEF row
  <2>. QED BY <1>1, <2>1, <2>2
<1>8. ASSUME NEW o \in Orders, RejectOrder(o)
      PROVE  SlotsKept
  <2> DEFINE row == [order[o] EXCEPT !.status = "rejected"]
  <2>1. order[o].status = "pending" /\ order[o].inventory # "reserved"
    BY <1>8 DEF RejectOrder, StatusInventory
  <2>2. promotion' = promotion
    BY <1>8, <2>1 DEF RejectOrder, PromotionAfterRelease
  <2>3. order' = [order EXCEPT ![o] = row] /\ row.inventory = order[o].inventory
    BY <1>8, <2>1 DEF RejectOrder, InventoryAfterRelease, TypeOK, CartTypeOK, OrderRow
  <2>. HIDE DEF row
  <2>. QED BY <1>1, <2>1, <2>2, <2>3
<1>9. ASSUME NEW o \in Orders, AcceptCashOrder(o)
      PROVE  SlotsBought(o)
  BY <1>9 DEF AcceptCashOrder, Reservable, SlotsBought, Moves, Others, TypeOK,
              CartTypeOK, OrderRow
<1>10. ASSUME NEW l \in Listings, Withdraw(l) \/ Publish(l)
       PROVE  SlotsKept
  BY <1>10 DEF Withdraw, Publish, SlotsKept
<1>11. ASSUME NEW d \in Promotions, SwitchPromotion(d)
       PROVE  SlotsKept
  <2>1. order' = order /\ promotion' = [promotion EXCEPT ![d].active = ~@]
    BY <1>11, Zenon DEF SwitchPromotion
  <2>. QED BY <2>1 DEF SlotsKept, TypeOK, CartTypeOK, PromotionRow
<1>. QED BY <1>3, <1>4, <1>5, <1>6, <1>7, <1>8, <1>9, <1>10, <1>11
         DEF CartNext, SlotsMove

LEMMA PayStepMovesSlots ==
  ASSUME TypeOK, NEW o \in Orders, PayStep(o)
  PROVE  SlotsMove
<1>1. ASSUME NEW y \in Payments, StartPayment(y, o)
      PROVE  SlotsTaken(o)
  BY <1>1 DEF StartPayment, PayableOrder, Reservable, SlotsTaken, Moves, Others, TypeOK,
              CartTypeOK, OrderRow
<1>2. CASE PayFromWallet(o)
  <2>1. SlotsBought(o)
    BY <1>2 DEF PayFromWallet, WalletPayable, Reservable, SlotsBought, Moves, Others,
                TypeOK, CartTypeOK, OrderRow
  <2>. QED BY <2>1 DEF SlotsMove
<1>3. CASE WalletDebitRefused(o)
  <2> DEFINE taken == TakeSlots(promotion, o)
  <2>1. promotion \in [Promotions -> PromotionRow]
    BY DEF TypeOK, CartTypeOK
  <2>2. taken \in [Promotions -> PromotionRow]
    BY <2>1, SlotMovesType DEF TypeOK
  <2>3. ASSUME NEW d \in Promotions
        PROVE  /\ promotion'[d].reserved = promotion[d].reserved
               /\ promotion'[d].consumed = promotion[d].consumed
               /\ promotion'[d].users = promotion[d].users
    <3>1. promotion' = ReturnSlots(taken, o)
      BY <1>3 DEF WalletDebitRefused
    <3>2. promotion[d].reserved \in Nat
      BY <2>1 DEF PromotionRow
    <3>3. CASE d \in order[o].applied
      <4>1. /\ taken[d].reserved = promotion[d].reserved + 1
            /\ taken[d].consumed = promotion[d].consumed
            /\ taken[d].users = promotion[d].users
        BY <2>1, <3>3, SlotRows
      <4>. HIDE DEF taken
      <4>2. /\ ReturnSlots(taken, o)[d].reserved = taken[d].reserved - 1
            /\ ReturnSlots(taken, o)[d].consumed = taken[d].consumed
            /\ ReturnSlots(taken, o)[d].users = taken[d].users
        BY <2>2, <3>3, SlotRows
      <4>. QED BY <3>1, <3>2, <4>1, <4>2
    <3>4. CASE d \notin order[o].applied
      <4>1. taken[d] = promotion[d]
        BY <2>1, <3>4, SlotRows
      <4>. HIDE DEF taken
      <4>2. ReturnSlots(taken, o)[d] = taken[d]
        BY <2>2, <3>4, SlotRows
      <4>. QED BY <3>1, <4>1, <4>2
    <3>. QED BY <3>3, <3>4
  <2>4. \A x \in Orders :
          /\ order'[x].inventory = order[x].inventory
          /\ order'[x].applied = order[x].applied
    BY <1>3 DEF WalletDebitRefused, WalletPayable, Reservable, TypeOK, CartTypeOK,
                OrderRow
  <2>. QED BY <2>3, <2>4 DEF SlotsMove, SlotsKept
<1>. QED BY <1>1, <1>2, <1>3 DEF PayStep, SlotsMove

LEMMA VerifyStepMovesSlots ==
  ASSUME TypeOK, PendingHasTarget, StatusInventory, NEW y \in Payments, VerifyStep(y)
  PROVE  SlotsMove
<1> DEFINE o == payment[y].target
<1>1. o \in Orders
  BY DEF VerifyStep, PaymentAbandoned, PaymentCompleted, PaymentRejected,
         PaymentCanceled, AbandonPayment, VerifyPaid, VerifyRejected, CallbackCancels,
         Verifiable, PendingHasTarget
<1>2. CASE PaymentCompleted(y)
  <2>1. /\ promotion' = SpendSlots(promotion, o) /\ order[o].inventory = "reserved"
        /\ order' = [order EXCEPT ![o].status = "completed", ![o].paid = TRUE,
                                  ![o].inventory = "confirmed"]
    BY <1>2 DEF PaymentCompleted, Confirmable
  <2>. HIDE DEF o
  <2>2. SlotsSpent(o)
    BY <1>1, <2>1 DEF SlotsSpent, Moves, Others, TypeOK, CartTypeOK, OrderRow
  <2>. QED BY <1>1, <2>2 DEF SlotsMove
<1>3. CASE ReleaseOrder(y)
  <2>1. CASE promotion' = promotion /\ order' = order
    BY <2>1 DEF SlotsMove, SlotsKept
  <2>2. CASE /\ order[o].status = "processing"
             /\ promotion' = PromotionAfterRelease(o)
             /\ order' = [order EXCEPT ![o].status = "failed",
                                       ![o].inventory = InventoryAfterRelease(o)]
    <3>. HIDE DEF o
    <3>1. order[o].inventory = "reserved"
      BY <1>1, <2>2 DEF StatusInventory
    <3>2. /\ promotion' = ReturnSlots(promotion, o)
          /\ order' = [order EXCEPT ![o].status = "failed", ![o].inventory = "released"]
      BY <2>2, <3>1 DEF PromotionAfterRelease, InventoryAfterRelease
    <3>3. SlotsReturned(o)
      BY <1>1, <3>1, <3>2 DEF SlotsReturned, Moves, Others, TypeOK, CartTypeOK, OrderRow
    <3>. QED BY <1>1, <3>3 DEF SlotsMove
  <2>. QED BY <1>3, <2>1, <2>2 DEF ReleaseOrder
<1>. QED BY <1>2, <1>3 DEF VerifyStep, PaymentAbandoned, PaymentRejected, PaymentCanceled

PromotionsInv == StockInv /\ \A d \in Promotions : SlotsCounted(d)

LEMMA PromotionsInvInit == Init => PromotionsInv
<1> SUFFICES ASSUME Init PROVE PromotionsInv
  OBVIOUS
<1>1. StockInv
  BY StockInvInit
<1>2. ASSUME NEW d \in Promotions
      PROVE  SlotsCounted(d)
  <2>1. Holding(d, "reserved") = {} /\ Holding(d, "confirmed") = {}
    BY DEF Init, CartInit, NoOrder, Holding
  <2>2. /\ promotion[d].reserved = 0 /\ promotion[d].consumed = 0
        /\ promotion[d].users = {}
    BY DEF Init, CartInit
  <2>3. Cardinality({}) = 0 /\ Limit[d] \in Nat
    BY FS_EmptySet, CartAssumption
  <2>4. BelowLimit(d, 0 + 0 - 1)
    BY <2>3 DEF BelowLimit
  <2>. QED BY <2>1, <2>2, <2>3, <2>4 DEF SlotsCounted
<1>. QED BY <1>1, <1>2 DEF PromotionsInv

LEMMA PromotionsInvStep == PromotionsInv /\ [Next]_vars => PromotionsInv'
<1> SUFFICES ASSUME PromotionsInv, [Next]_vars PROVE PromotionsInv'
  OBVIOUS
<1>1. StockInv'
  BY StockInvStep DEF PromotionsInv
<1>2. TypeOK /\ PendingHasTarget /\ StatusInventory
  BY DEF PromotionsInv, StockInv, TypeInv
<1>3. SlotsMove
  <2>1. CASE UNCHANGED <<order, promotion>>
    BY <2>1 DEF SlotsMove, SlotsKept
  <2>2. CASE CartNext
    BY <1>2, <2>2, CartStepMovesSlots
  <2>3. ASSUME NEW o \in Orders, PayStep(o)
        PROVE  SlotsMove
    BY <1>2, <2>3, PayStepMovesSlots
  <2>4. ASSUME NEW y \in Payments, VerifyStep(y)
        PROVE  SlotsMove
    BY <1>2, <2>4, VerifyStepMovesSlots
  <2>. QED BY <2>1, <2>2, <2>3, <2>4 DEF Next, vars, cartVars
<1>4. ASSUME NEW d \in Promotions
      PROVE  SlotsCounted(d)'
  <2>1. SlotsCounted(d)
    BY DEF PromotionsInv
  <2>. QED BY <1>2, <1>3, <2>1, KeptSlots, TakenSlots, ReturnedSlots, SpentSlots,
              BoughtSlots DEF SlotsMove
<1>. QED BY <1>1, <1>4 DEF PromotionsInv

(* The counters of every promotion are the orders that hold or have used   *)
(* it, within its limit and once per buyer, for any number of orders,      *)
(* promotions and customers (reserve_, release_ and                        *)
(* confirm_order_inventory).                                               *)
THEOREM PromotionsAlwaysAgree == Spec => []PromotionsAgree
<1>1. Init => PromotionsInv
  BY PromotionsInvInit
<1>2. PromotionsInv /\ [Next]_vars => PromotionsInv'
  BY PromotionsInvStep
<1>3. PromotionsInv => PromotionsAgree
  BY DEF PromotionsInv, SlotsCounted, PromotionsAgree, PromotionAccounts, OncePerBuyer
<1>. QED BY <1>1, <1>2, <1>3, PTL DEF Spec

----------------------------------------------------------------------------
(* The refinement: the ledger's view of a step.  An order's outcome is its *)
(* status, and what it needs is fixed once it is placed.                   *)

OutcomeMap == [o \in Orders |-> OutcomeOf(order[o].status)]
NeedMap == [o \in Orders |-> [p \in Products |-> Demand(o, order[o].basket, p)]]

(* A step that sets one row and changes at most the stock.                 *)
LEMMA RowInLedger ==
  ASSUME TypeOK, NEW o \in Orders, NEW row, order' = [order EXCEPT ![o] = row]
  PROVE  /\ OutcomeMap' = [OutcomeMap EXCEPT ![o] = OutcomeOf(row.status)]
         /\ row.basket = order[o].basket => NeedMap' = NeedMap
         /\ NeedMap' \in [Orders -> [Products -> Nat]]
         /\ \A x \in Orders \ {o} : NeedMap'[x] = NeedMap[x]
<1>1. order'[o] = row /\ \A x \in Orders \ {o} : order'[x] = order[x]
  BY DEF TypeOK, CartTypeOK
<1>2. OutcomeMap' = [OutcomeMap EXCEPT ![o] = OutcomeOf(row.status)]
  <2>1. /\ OutcomeMap = [x \in Orders |-> OutcomeOf(order[x].status)]
        /\ OutcomeMap' = [x \in Orders |-> OutcomeOf(order'[x].status)]
    BY DEF OutcomeMap
  <2>2. ASSUME NEW x \in Orders
        PROVE  OutcomeMap'[x] = [OutcomeMap EXCEPT ![o] = OutcomeOf(row.status)][x]
    BY <1>1, <2>1
  <2>. QED BY <2>1, <2>2
<1>3. row.basket = order[o].basket => NeedMap' = NeedMap
  <2>1. row.basket = order[o].basket => \A x \in Orders : order'[x].basket = order[x].basket
    BY <1>1
  <2>. QED BY <2>1 DEF NeedMap
<1>4. NeedMap' \in [Orders -> [Products -> Nat]]
  BY UnitsFinite DEF NeedMap
<1>5. \A x \in Orders \ {o} : NeedMap'[x] = NeedMap[x]
  BY <1>1 DEF NeedMap
<1>. QED BY <1>2, <1>3, <1>4, <1>5

(* What the ledger's guards and moves of goods are on the code's rows.     *)
LEMMA GoodsInLedger ==
  ASSUME TypeOK, NEW o \in Orders
  PROVE  /\ OutcomeMap[o] = OutcomeOf(order[o].status)
         /\ (\A p \in Products : Demand(o, order[o].basket, p) <= stock[p])
              => Ledger!Enough(o)
         /\ Ledger!Less(o) = TakeUnits(stock, o)
         /\ Ledger!More(o) = ReturnUnits(stock, o)
BY DEF OutcomeMap, Ledger!Enough, Ledger!Less, Ledger!More, TakeUnits, ReturnUnits

LEMMA OutcomesOfStatus ==
  /\ OutcomeOf("absent") = "open" /\ OutcomeOf("draft") = "open"
  /\ OutcomeOf("pending") = "open" /\ OutcomeOf("verified") = "open"
  /\ OutcomeOf("processing") = "locked"
  /\ OutcomeOf("completed") = "paid"
  /\ OutcomeOf("failed") = "closed" /\ OutcomeOf("rejected") = "closed"
BY DEF OutcomeOf

(* What one row's new status, with the units it moves, is in the ledger.   *)
LEMMA RowSteps ==
  ASSUME TypeOK, NEW o \in Orders, NEW row, order' = [order EXCEPT ![o] = row],
         NEW was, was = OutcomeOf(order[o].status),
         NEW becomes, becomes = OutcomeOf(row.status)
  PROVE  /\ (was = "open" /\ becomes = "open" /\ stock' = stock) => Ledger!Shop(o)
         /\ row.basket = order[o].basket =>
              /\ (was = "open" /\ becomes = "closed" /\ stock' = stock)
                   => Ledger!Decline(o)
              /\ (was = "locked" /\ becomes = "paid" /\ stock' = stock)
                   => Ledger!Pay(o)
              /\ (was = "locked" /\ becomes = "closed" /\ stock' = ReturnUnits(stock, o))
                   => Ledger!Fail(o)
         /\ (/\ row.basket = order[o].basket
             /\ stock' = TakeUnits(stock, o)
             /\ \A p \in Products : Demand(o, order[o].basket, p) <= stock[p]) =>
              /\ (was = "open" /\ becomes = "locked") => Ledger!Lock(o)
              /\ (was = "open" /\ becomes = "paid") => Ledger!Buy(o)
<1>1. /\ OutcomeMap' = [OutcomeMap EXCEPT ![o] = OutcomeOf(row.status)]
      /\ row.basket = order[o].basket => NeedMap' = NeedMap
      /\ NeedMap' \in [Orders -> [Products -> Nat]]
      /\ \A x \in Orders \ {o} : NeedMap'[x] = NeedMap[x]
  BY RowInLedger
<1>2. /\ OutcomeMap[o] = OutcomeOf(order[o].status)
      /\ (\A p \in Products : Demand(o, order[o].basket, p) <= stock[p])
              => Ledger!Enough(o)
      /\ Ledger!Less(o) = TakeUnits(stock, o)
      /\ Ledger!More(o) = ReturnUnits(stock, o)
  BY GoodsInLedger
<1>3. OutcomeOf(order[o].status) = OutcomeOf(row.status) => OutcomeMap' = OutcomeMap
  <2>1. OutcomeMap = [x \in Orders |-> OutcomeMap[x]]
    BY DEF OutcomeMap
  <2>. QED BY <1>1, <1>2, <2>1
<1>4. /\ Ledger!Shop(o) <=>
           /\ OutcomeMap[o] = "open"
           /\ NeedMap' \in [Orders -> [Products -> Nat]]
           /\ \A x \in Orders \ {o} : NeedMap'[x] = NeedMap[x]
           /\ OutcomeMap' = OutcomeMap /\ stock' = stock
      /\ Ledger!Decline(o) <=>
           /\ OutcomeMap[o] = "open"
           /\ OutcomeMap' = [OutcomeMap EXCEPT ![o] = "closed"]
           /\ NeedMap' = NeedMap /\ stock' = stock
      /\ Ledger!Lock(o) <=>
           /\ OutcomeMap[o] = "open" /\ Ledger!Enough(o)
           /\ OutcomeMap' = [OutcomeMap EXCEPT ![o] = "locked"]
           /\ stock' = Ledger!Less(o) /\ NeedMap' = NeedMap
      /\ Ledger!Buy(o) <=>
           /\ OutcomeMap[o] = "open" /\ Ledger!Enough(o)
           /\ OutcomeMap' = [OutcomeMap EXCEPT ![o] = "paid"]
           /\ stock' = Ledger!Less(o) /\ NeedMap' = NeedMap
      /\ Ledger!Pay(o) <=>
           /\ OutcomeMap[o] = "locked"
           /\ OutcomeMap' = [OutcomeMap EXCEPT ![o] = "paid"]
           /\ NeedMap' = NeedMap /\ stock' = stock
      /\ Ledger!Fail(o) <=>
           /\ OutcomeMap[o] = "locked"
           /\ OutcomeMap' = [OutcomeMap EXCEPT ![o] = "closed"]
           /\ stock' = Ledger!More(o) /\ NeedMap' = NeedMap
  BY Zenon
     DEF Ledger!Shop, Ledger!Decline, Ledger!Lock, Ledger!Buy, Ledger!Pay, Ledger!Fail,
         OutcomeMap, NeedMap
<1> DEFINE fits == \A p \in Products : Demand(o, order[o].basket, p) <= stock[p]
<1>5. ASSUME was = "open", becomes = "open", stock' = stock
      PROVE  Ledger!Shop(o)
  BY <1>1, <1>2, <1>3, <1>4, <1>5
<1>6. ASSUME was = "open", becomes = "closed", row.basket = order[o].basket, stock' = stock
      PROVE  Ledger!Decline(o)
  BY <1>1, <1>2, <1>4, <1>6
<1>7. ASSUME was = "open", becomes = "locked", row.basket = order[o].basket,
             stock' = TakeUnits(stock, o), fits
      PROVE  Ledger!Lock(o)
  BY <1>1, <1>2, <1>4, <1>7
<1>8. ASSUME was = "open", becomes = "paid", row.basket = order[o].basket,
             stock' = TakeUnits(stock, o), fits
      PROVE  Ledger!Buy(o)
  BY <1>1, <1>2, <1>4, <1>8
<1>9. ASSUME was = "locked", becomes = "paid", row.basket = order[o].basket, stock' = stock
      PROVE  Ledger!Pay(o)
  BY <1>1, <1>2, <1>4, <1>9
<1>10. ASSUME was = "locked", becomes = "closed", row.basket = order[o].basket,
              stock' = ReturnUnits(stock, o)
       PROVE  Ledger!Fail(o)
  BY <1>1, <1>2, <1>4, <1>10
<1>. QED BY <1>5, <1>6, <1>7, <1>8, <1>9, <1>10

(* A step of the ledger on one order, or none that it sees.                *)
LedgerMove(o) ==
  Ledger!Shop(o) \/ Ledger!Lock(o) \/ Ledger!Pay(o) \/ Ledger!Fail(o)
    \/ Ledger!Buy(o) \/ Ledger!Decline(o)
LedgerStep ==
  \/ \E o \in Orders : LedgerMove(o)
  \/ OutcomeMap' = OutcomeMap /\ NeedMap' = NeedMap /\ stock' = stock

LEMMA CartStepInLedger ==
  ASSUME TypeOK, StatusInventory, CartNext
  PROVE  LedgerStep
<1>1. ASSUME NEW o \in Orders, NEW row, order' = [order EXCEPT ![o] = row],
             OutcomeOf(order[o].status) = "open", OutcomeOf(row.status) = "open",
             stock' = stock
      PROVE  LedgerMove(o)
  BY <1>1, RowSteps DEF LedgerMove
<1>2. ASSUME NEW o \in Orders, NEW b
      PROVE  OutcomeOf(Edited(o, b).status) = "open"
  BY OutcomesOfStatus DEF Edited, TypeOK, CartTypeOK, OrderRow
<1>3. ASSUME NEW o \in Orders, OpenCart(o) \/ DeleteDraft(o)
      PROVE  LedgerMove(o)
  <2>1. /\ OutcomeOf(NoOrder.status) = "open"
        /\ OutcomeOf([NoOrder EXCEPT !.status = "draft"].status) = "open"
    BY OutcomesOfStatus DEF NoOrder
  <2>2. OutcomeOf(order[o].status) = "open" /\ stock' = stock
    BY <1>3, OutcomesOfStatus DEF OpenCart, DeleteDraft
  <2>3. CASE OpenCart(o)
    BY <1>1, <2>1, <2>2, <2>3 DEF OpenCart
  <2>4. CASE DeleteDraft(o)
    BY <1>1, <2>1, <2>2, <2>4 DEF DeleteDraft
  <2>. QED BY <1>3, <2>3, <2>4
<1>4. ASSUME NEW o \in Orders, NEW l \in Listings,
             \/ RemoveItem(o, l)
             \/ \E n \in 1..MaxQty : AddItem(o, l, n) \/ UpdateItem(o, l, n)
      PROVE  LedgerMove(o)
  <2>1. /\ order[o].status \in {"absent", "draft"} /\ stock' = stock
        /\ \E b : order' = [order EXCEPT ![o] = Edited(o, b)]
    <3>1. CASE RemoveItem(o, l)
      BY <3>1, Zenon DEF RemoveItem
    <3>2. CASE \E n \in 1..MaxQty : AddItem(o, l, n)
      BY <3>2, Zenon DEF AddItem, CartOf
    <3>3. CASE \E n \in 1..MaxQty : UpdateItem(o, l, n)
      BY <3>3, Zenon DEF UpdateItem
    <3>. QED BY <1>4, <3>1, <3>2, <3>3
  <2>2. OutcomeOf(order[o].status) = "open"
    BY <2>1, OutcomesOfStatus
  <2>. QED BY <1>1, <1>2, <2>1, <2>2
<1>5. ASSUME NEW o \in Orders, NEW t, NEW b, ReplaceItems(o, b, t)
      PROVE  LedgerMove(o)
  <2>1. OutcomeOf(Replaced(o, b, t).status) = "open"
    BY OutcomesOfStatus DEF Replaced, Edited, TypeOK, CartTypeOK, OrderRow
  <2>2. /\ OutcomeOf(order[o].status) = "open" /\ stock' = stock
        /\ order' = [order EXCEPT ![o] = Replaced(o, b, t)]
    BY <1>5, OutcomesOfStatus DEF ReplaceItems
  <2>. QED BY <1>1, <2>1, <2>2
<1>6. ASSUME NEW o \in Orders, NEW t, NEW ds, NEW a,
             Checkout(o, t, ds, a) \/ \E b \in Basket : PlaceOrder(o, b, t, ds, a)
      PROVE  LedgerMove(o)
  <2>1. PICK b : order' = [order EXCEPT ![o] = Placed(o, b, t, ds, a)]
    BY <1>6 DEF Checkout, PlaceOrder
  <2>2. OutcomeOf(Placed(o, b, t, ds, a).status) = "open"
    BY OutcomesOfStatus DEF Placed, TypeOK, CartTypeOK, OrderRow
  <2>3. OutcomeOf(order[o].status) = "open" /\ stock' = stock
    BY <1>6, OutcomesOfStatus DEF Checkout, PlaceOrder
  <2>. QED BY <1>1, <2>1, <2>2, <2>3
<1>7. ASSUME NEW o \in Orders, VerifyOrder(o)
      PROVE  LedgerMove(o)
  <2> DEFINE row == [order[o] EXCEPT !.status = "verified"]
  <2>1. order' = [order EXCEPT ![o] = row] /\ row.status = "verified"
    BY <1>7 DEF VerifyOrder, TypeOK, CartTypeOK, OrderRow
  <2>2. order[o].status = "pending" /\ stock' = stock
    BY <1>7 DEF VerifyOrder
  <2>. HIDE DEF row
  <2>. QED BY <1>1, <2>1, <2>2, OutcomesOfStatus
<1>8. ASSUME NEW o \in Orders, RejectOrder(o)
      PROVE  LedgerMove(o)
  <2> DEFINE row == [order[o] EXCEPT !.status = "rejected"]
  <2>1. order[o].status = "pending" /\ order[o].inventory # "reserved"
    BY <1>8 DEF RejectOrder, StatusInventory
  <2>2. stock' = stock
    BY <1>8, <2>1 DEF RejectOrder, StockAfterRelease
  <2>3. /\ order' = [order EXCEPT ![o] = row]
        /\ row.status = "rejected" /\ row.basket = order[o].basket
    BY <1>8, <2>1 DEF RejectOrder, InventoryAfterRelease, TypeOK, CartTypeOK, OrderRow
  <2>. HIDE DEF row
  <2>. QED BY <2>1, <2>2, <2>3, OutcomesOfStatus, RowSteps DEF LedgerMove
<1>9. ASSUME NEW o \in Orders, AcceptCashOrder(o)
      PROVE  LedgerMove(o)
  <2> DEFINE row == [order[o] EXCEPT !.status = "completed", !.paid = TRUE,
                                     !.inventory = "confirmed"]
  <2>1. /\ order[o].status = "pending" /\ stock' = TakeUnits(stock, o)
        /\ \A p \in Products : Demand(o, order[o].basket, p) <= stock[p]
    BY <1>9 DEF AcceptCashOrder, Reservable, ValidItems
  <2>2. /\ order' = [order EXCEPT ![o] = row]
        /\ row.status = "completed" /\ row.basket = order[o].basket
    BY <1>9 DEF AcceptCashOrder, TypeOK, CartTypeOK, OrderRow
  <2>. HIDE DEF row
  <2>. QED BY <2>1, <2>2, OutcomesOfStatus, RowSteps DEF LedgerMove
<1>10. ASSUME order' = order, stock' = stock
       PROVE  LedgerStep
  BY <1>10 DEF LedgerStep, OutcomeMap, NeedMap
<1>11. ASSUME NEW l \in Listings, Withdraw(l) \/ Publish(l)
       PROVE  LedgerStep
  BY <1>10, <1>11 DEF Withdraw, Publish
<1>12. ASSUME NEW d \in Promotions, SwitchPromotion(d)
       PROVE  LedgerStep
  <2>1. order' = order /\ stock' = stock
    BY <1>12, Zenon DEF SwitchPromotion
  <2>. QED BY <1>10, <2>1
<1>13. (\E o \in Orders : LedgerMove(o)) => LedgerStep
  BY DEF LedgerStep
<1>. QED BY <1>3, <1>4, <1>5, <1>6, <1>7, <1>8, <1>9, <1>11, <1>12, <1>13 DEF CartNext

LEMMA PayStepInLedger ==
  ASSUME TypeOK, NEW o \in Orders, PayStep(o)
  PROVE  LedgerStep
<1>1. ASSUME NEW st, NEW row, order' = [order EXCEPT ![o] = row],
             row.status = st, row.basket = order[o].basket,
             st = "processing" \/ st = "completed",
             stock' = TakeUnits(stock, o), Reservable(o)
      PROVE  LedgerMove(o)
  <2>1. \A p \in Products : Demand(o, order[o].basket, p) <= stock[p]
    BY <1>1 DEF Reservable, ValidItems
  <2>2. OutcomeOf(order[o].status) = "open"
    BY <1>1, OutcomesOfStatus DEF Reservable
  <2>. QED BY <1>1, <2>1, <2>2, OutcomesOfStatus, RowSteps DEF LedgerMove
<1>2. ASSUME NEW y \in Payments, StartPayment(y, o)
      PROVE  LedgerMove(o)
  <2> DEFINE row == [order[o] EXCEPT !.status = "processing", !.inventory = "reserved"]
  <2>1. Reservable(o) /\ stock' = TakeUnits(stock, o)
    BY <1>2 DEF StartPayment, PayableOrder
  <2>2. /\ order' = [order EXCEPT ![o] = row]
        /\ row.status = "processing" /\ row.basket = order[o].basket
    BY <1>2 DEF StartPayment, TypeOK, CartTypeOK, OrderRow
  <2>. HIDE DEF row
  <2>. QED BY <1>1, <2>1, <2>2
<1>3. CASE PayFromWallet(o)
  <2> DEFINE row == [order[o] EXCEPT !.status = "completed", !.paid = TRUE,
                                     !.inventory = "confirmed"]
  <2>1. Reservable(o) /\ stock' = TakeUnits(stock, o)
    BY <1>3 DEF PayFromWallet, WalletPayable
  <2>2. /\ order' = [order EXCEPT ![o] = row]
        /\ row.status = "completed" /\ row.basket = order[o].basket
    BY <1>3 DEF PayFromWallet, TypeOK, CartTypeOK, OrderRow
  <2>. HIDE DEF row
  <2>3. LedgerMove(o)
    BY <1>1, <2>1, <2>2
  <2>. QED BY <2>3 DEF LedgerStep
<1>4. CASE WalletDebitRefused(o)
  <2>1. stock' = stock
    <3>1. \A p \in Products : Demand(o, order[o].basket, p) \in Int
      BY UnitsFinite
    <3>. QED BY <1>4, <3>1
             DEF WalletDebitRefused, ReturnUnits, TakeUnits, TypeOK, CartTypeOK
  <2>2. \A x \in Orders : /\ order'[x].status = order[x].status
                          /\ order'[x].basket = order[x].basket
    BY <1>4 DEF WalletDebitRefused, TypeOK, CartTypeOK, OrderRow
  <2>. QED BY <2>1, <2>2 DEF LedgerStep, OutcomeMap, NeedMap
<1>5. LedgerMove(o) => LedgerStep
  BY DEF LedgerStep
<1>. QED BY <1>2, <1>3, <1>4, <1>5 DEF PayStep

LEMMA VerifyStepInLedger ==
  ASSUME TypeOK, PendingHasTarget, StatusInventory, NEW y \in Payments, VerifyStep(y)
  PROVE  LedgerStep
<1> DEFINE o == payment[y].target
<1>1. o \in Orders
  BY DEF VerifyStep, PaymentAbandoned, PaymentCompleted, PaymentRejected,
         PaymentCanceled, AbandonPayment, VerifyPaid, VerifyRejected, CallbackCancels,
         Verifiable, PendingHasTarget
<1>2. CASE PaymentCompleted(y)
  <2> DEFINE row == [order[o] EXCEPT !.status = "completed", !.paid = TRUE,
                                     !.inventory = "confirmed"]
  <2>1. /\ stock' = stock /\ order[o].status = "processing"
        /\ order' = [order EXCEPT ![o].status = "completed", ![o].paid = TRUE,
                                  ![o].inventory = "confirmed"]
    BY <1>2 DEF PaymentCompleted
  <2>. HIDE DEF o
  <2>2. /\ order' = [order EXCEPT ![o] = row]
        /\ row.status = "completed" /\ row.basket = order[o].basket
    BY <1>1, <2>1 DEF TypeOK, CartTypeOK, OrderRow
  <2>. HIDE DEF row
  <2>3. LedgerMove(o)
    BY <1>1, <2>1, <2>2, OutcomesOfStatus, RowSteps DEF LedgerMove
  <2>. QED BY <1>1, <2>3 DEF LedgerStep
<1>3. CASE ReleaseOrder(y)
  <2>1. CASE stock' = stock /\ order' = order
    BY <2>1 DEF LedgerStep, OutcomeMap, NeedMap
  <2>2. CASE /\ order[o].status = "processing"
             /\ stock' = StockAfterRelease(o)
             /\ order' = [order EXCEPT ![o].status = "failed",
                                       ![o].inventory = InventoryAfterRelease(o)]
    <3> DEFINE row == [order[o] EXCEPT !.status = "failed", !.inventory = "released"]
    <3>. HIDE DEF o
    <3>1. order[o].inventory = "reserved"
      BY <1>1, <2>2 DEF StatusInventory
    <3>2. /\ stock' = ReturnUnits(stock, o)
          /\ order' = [order EXCEPT ![o].status = "failed", ![o].inventory = "released"]
      BY <2>2, <3>1 DEF StockAfterRelease, InventoryAfterRelease
    <3>3. /\ order' = [order EXCEPT ![o] = row]
          /\ row.status = "failed" /\ row.basket = order[o].basket
      BY <1>1, <3>2 DEF TypeOK, CartTypeOK, OrderRow
    <3>. HIDE DEF row
    <3>4. LedgerMove(o)
      BY <1>1, <2>2, <3>2, <3>3, OutcomesOfStatus, RowSteps DEF LedgerMove
    <3>. QED BY <1>1, <3>4 DEF LedgerStep
  <2>. QED BY <1>3, <2>1, <2>2 DEF ReleaseOrder
<1>. QED BY <1>2, <1>3 DEF VerifyStep, PaymentAbandoned, PaymentRejected, PaymentCanceled

LEMMA InitInLedger == Init => Ledger!LedgerInit
<1> SUFFICES ASSUME Init PROVE Ledger!LedgerInit
  OBVIOUS
<1>1. \A o \in Orders : order[o].status = "absent" /\ order[o].basket = EmptyBasket
  BY DEF Init, CartInit, NoOrder
<1>2. ASSUME NEW o \in Orders, NEW p \in Products
      PROVE  Demand(o, EmptyBasket, p) = 0
  <2>1. Units(o, EmptyBasket, p) = {}
    BY DEF Units, EmptyBasket
  <2>. QED BY <2>1, FS_EmptySet DEF Demand
<1>3. OutcomeMap = [o \in Orders |-> "open"]
  BY <1>1, OutcomesOfStatus DEF OutcomeMap
<1>4. NeedMap = [o \in Orders |-> [p \in Products |-> 0]]
  BY <1>1, <1>2 DEF NeedMap
<1>5. stock = Supply
  BY DEF Init, CartInit
<1>. QED BY <1>3, <1>4, <1>5 DEF OutcomeMap, NeedMap, Ledger!LedgerInit

LEMMA StepInLedger ==
  StockInv /\ [Next]_vars => [Ledger!LedgerNext]_(Ledger!ledgerVars)
<1> SUFFICES ASSUME StockInv, [Next]_vars
             PROVE  [Ledger!LedgerNext]_(Ledger!ledgerVars)
  OBVIOUS
<1>1. TypeOK /\ PendingHasTarget /\ StatusInventory
  BY DEF StockInv, TypeInv
<1>2. LedgerStep
  <2>1. CASE UNCHANGED <<order, stock>>
    BY <2>1 DEF LedgerStep, OutcomeMap, NeedMap
  <2>2. CASE CartNext
    BY <1>1, <2>2, CartStepInLedger
  <2>3. ASSUME NEW o \in Orders, PayStep(o)
        PROVE  LedgerStep
    BY <1>1, <2>3, PayStepInLedger
  <2>4. ASSUME NEW y \in Payments, VerifyStep(y)
        PROVE  LedgerStep
    BY <1>1, <2>4, VerifyStepInLedger
  <2>. QED BY <2>1, <2>2, <2>3, <2>4 DEF Next, vars, cartVars
<1>3. (\E o \in Orders : LedgerMove(o)) => Ledger!LedgerNext
  BY DEF Ledger!LedgerNext, LedgerMove
<1>4. OutcomeMap' = OutcomeMap /\ NeedMap' = NeedMap /\ stock' = stock
        => UNCHANGED Ledger!ledgerVars
  BY DEF OutcomeMap, NeedMap, Ledger!ledgerVars
<1>. QED BY <1>2, <1>3, <1>4 DEF LedgerStep

(* Every execution of carts, payments and sessions, seen as orders that    *)
(* are open, locked, paid or closed and the goods they need, is one of the *)
(* abstract settlement: nothing is settled twice, and goods leave and come *)
(* back exactly with a lock, a purchase or a failure.                      *)
THEOREM SettlementImplemented == Spec => ImplementsSettlement
<1>1. Init => StockInv
  BY StockInvInit
<1>2. StockInv /\ [Next]_vars => StockInv'
  BY StockInvStep
<1>3. Init => Ledger!LedgerInit
  BY InitInLedger
<1>4. StockInv /\ [Next]_vars => [Ledger!LedgerNext]_(Ledger!ledgerVars)
  BY StepInLedger
<1>. QED BY <1>1, <1>2, <1>3, <1>4, PTL DEF Spec, ImplementsSettlement, Ledger!LedgerSpec

----------------------------------------------------------------------------
(* Discount codes (PromotionCodes)                                         *)

HeldBy(b, c, state) == {o \in Baskets : b[o].code = c /\ b[o].at = state}
UsedStates == {"reserved", "confirmed"}
UsersIn(b, c) == HeldBy(b, c, "reserved") \cup HeldBy(b, c, "confirmed")

CodeOK(row, b, c) ==
  /\ row.reserved = Cardinality(HeldBy(b, c, "reserved"))
  /\ row.consumed = Cardinality(HeldBy(b, c, "confirmed"))
  /\ UseLimit = 0 \/ row.reserved + row.consumed <= UseLimit
  /\ \A o, x \in UsersIn(b, c) : BuyerOf[o] = BuyerOf[x] => o = x

(* An order keeps its code from being deleted from when it is priced. *)
CodesInv ==
  /\ coupon \in [Texts -> CouponRow] /\ basket \in [Baskets -> BasketState]
  /\ post \in [Posts -> PostState] /\ toggle \in [Toggles -> Reading]
  /\ \A c, d \in Issued : Form[coupon[c].of] = Form[coupon[d].of] => c = d
  /\ \A o \in Baskets : basket[o].code # NoCode => coupon[basket[o].code].state = "live"
  /\ \A c \in Texts : CodeOK(coupon[c], basket, c)

(* One order moves: a set of orders loses it, gains it or stays. *)
CountMoves(b, d, o, row, c, state) ==
  /\ Cardinality(HeldBy(b, c, state)) \in Nat
  /\ Cardinality(HeldBy(d, c, state)) =
       Cardinality(HeldBy(b, c, state))
       + (IF row.code = c /\ row.at = state THEN 1 ELSE 0)
       - (IF b[o].code = c /\ b[o].at = state THEN 1 ELSE 0)

LEMMA HeldMoves ==
  ASSUME NEW b \in [Baskets -> BasketState], NEW o \in Baskets, NEW row \in BasketState,
         NEW d \in [Baskets -> BasketState], d = [b EXCEPT ![o] = row],
         NEW c \in Texts, NEW state \in UsedStates
  PROVE  CountMoves(b, d, o, row, c, state)
<1> DEFINE before == HeldBy(b, c, state)
           after == HeldBy(d, c, state)
<1>1. IsFiniteSet(Baskets) /\ before \in SUBSET Baskets /\ after \in SUBSET Baskets
  BY PromotionAssumption DEF HeldBy
<1>2. /\ o \in before <=> b[o].code = c /\ b[o].at = state
      /\ o \in after <=> row.code = c /\ row.at = state
      /\ \A x \in Baskets \ {o} : x \in before <=> x \in after
  BY DEF HeldBy
<1>. HIDE DEF before, after, CountMoves
<1>3. IsFiniteSet(before) /\ IsFiniteSet(after)
  BY <1>1, FS_Subset
<1>4. Cardinality(before) \in Nat /\ Cardinality(after) \in Nat
  BY <1>3, FS_CardinalityType
<1>5. CASE (o \in before) = (o \in after)
  <2>1. before = after
    BY <1>1, <1>2, <1>5
  <2>. QED BY <1>2, <1>3, <1>4, <1>5, <2>1 DEF before, after, CountMoves
<1>6. CASE o \in before /\ o \notin after
  <2>1. after = before \ {o}
    BY <1>1, <1>2, <1>6
  <2>2. Cardinality(after) = Cardinality(before) - 1
    BY <1>3, <1>6, <2>1, FS_RemoveElement
  <2>. QED BY <1>2, <1>3, <1>4, <1>6, <2>2 DEF before, after, CountMoves
<1>7. CASE o \notin before /\ o \in after
  <2>1. after = before \cup {o}
    BY <1>1, <1>2, <1>7
  <2>2. Cardinality(after) = Cardinality(before) + 1
    BY <1>3, <1>7, <2>1, FS_AddElement
  <2>. QED BY <1>2, <1>3, <1>4, <1>7, <2>2 DEF before, after, CountMoves
<1>. QED BY <1>5, <1>6, <1>7

LEMMA UsersCount ==
  ASSUME NEW b \in [Baskets -> BasketState], NEW c
  PROVE  /\ IsFiniteSet(UsersIn(b, c))
         /\ Cardinality(UsersIn(b, c)) =
              Cardinality(HeldBy(b, c, "reserved")) + Cardinality(HeldBy(b, c, "confirmed"))
<1> DEFINE held == HeldBy(b, c, "reserved")
           spent == HeldBy(b, c, "confirmed")
<1>1. IsFiniteSet(Baskets) /\ held \in SUBSET Baskets /\ spent \in SUBSET Baskets
      /\ held \cap spent = {}
  BY PromotionAssumption DEF HeldBy
<1>. HIDE DEF held, spent
<1>2. IsFiniteSet(held) /\ IsFiniteSet(spent)
  BY <1>1, FS_Subset
<1>3. /\ Cardinality(held \cup spent) =
           Cardinality(held) + Cardinality(spent) - Cardinality(held \cap spent)
      /\ IsFiniteSet(held \cup spent)
  BY <1>2, FS_Union
<1>4. Cardinality(held \cap spent) = 0
  BY <1>1, FS_EmptySet
<1>5. Cardinality(held) \in Nat /\ Cardinality(spent) \in Nat
  BY <1>2, FS_CardinalityType
<1>. QED BY <1>3, <1>4, <1>5 DEF UsersIn, held, spent

(* The rows of the codes change, and no order. *)
LEMMA CodeIsSaved ==
  ASSUME CodesInv, NEW c \in Texts, NEW row \in CouponRow, coupon' = [coupon EXCEPT ![c] = row],
         basket' = basket, post' \in [Posts -> PostState], toggle' \in [Toggles -> Reading],
         row.reserved = coupon[c].reserved, row.consumed = coupon[c].consumed,
         row.state # "live" => \A o \in Baskets : basket[o].code # c,
         row.state = "live" => \/ coupon[c].state = "live" /\ row.of = coupon[c].of
                               \/ \A d \in Issued : Form[coupon[d].of] # Form[row.of]
  PROVE  CodesInv'
<1>1. /\ coupon' \in [Texts -> CouponRow] /\ coupon'[c] = row
      /\ \A d \in Texts : d # c => coupon'[d] = coupon[d]
  BY DEF CodesInv
<1>2. \A d, e \in Issued' : Form[coupon'[d].of] = Form[coupon'[e].of] => d = e
  BY <1>1 DEF CodesInv, Issued
<1>3. \A o \in Baskets : basket[o].code # NoCode => coupon'[basket[o].code].state = "live"
  BY <1>1 DEF CodesInv, BasketState
<1>4. \A d \in Texts : CodeOK(coupon'[d], basket, d)
  BY <1>1 DEF CodesInv, CodeOK
<1>. QED BY <1>1, <1>2, <1>3, <1>4 DEF CodesInv

LEMMA OrderMoves ==
  ASSUME CodesInv, NEW o \in Baskets, NEW row \in BasketState,
         basket' = [basket EXCEPT ![o] = row], UNCHANGED <<post, toggle>>,
         coupon' \in [Texts -> CouponRow],
         \A c \in Texts : coupon'[c].state = coupon[c].state /\ coupon'[c].of = coupon[c].of,
         row.code # NoCode => coupon[row.code].state = "live",
         \A c \in Texts : CodeOK(coupon'[c], basket', c)
  PROVE  CodesInv'
<1>1. /\ basket' \in [Baskets -> BasketState] /\ basket'[o] = row
      /\ \A x \in Baskets : x # o => basket'[x] = basket[x]
  BY DEF CodesInv
<1>2. \A x \in Baskets : basket'[x].code \in Texts \cup {NoCode}
  BY <1>1 DEF BasketState
<1>3. \A x \in Baskets : basket'[x].code # NoCode =>
        basket'[x].code \in Texts /\ coupon[basket'[x].code].state = "live"
  BY <1>1, <1>2 DEF CodesInv
<1>4. \A x \in Baskets : basket'[x].code # NoCode => coupon'[basket'[x].code].state = "live"
  BY <1>3
<1>5. \A c, d \in Issued' : Form[coupon'[c].of] = Form[coupon'[d].of] => c = d
  BY DEF CodesInv, Issued
<1>. QED BY <1>1, <1>4, <1>5 DEF CodesInv

(* An order moves on, and its uses of its code are counted: it takes or    *)
(* keeps one (reserved 2 or 1), or returns or spends it (0).               *)
UseSteps == 0..2
UseGoes(o, row, reserved, consumed) ==
  /\ row.code = basket[o].code /\ basket' = [basket EXCEPT ![o] = row]
  /\ Counted(o, reserved, consumed)
  /\ row.code # NoCode =>
       /\ reserved = 0 => coupon[row.code].reserved > 0
       /\ reserved + consumed > 1 =>
            /\ \/ UseLimit = 0
               \/ coupon[row.code].consumed + coupon[row.code].reserved < UseLimit
            /\ ~Used(row.code, o)
  /\ reserved - 1 = (IF row.at = "reserved" THEN 1 ELSE 0)
                    - (IF basket[o].at = "reserved" THEN 1 ELSE 0)
  /\ consumed = (IF row.at = "confirmed" THEN 1 ELSE 0)
                - (IF basket[o].at = "confirmed" THEN 1 ELSE 0)
  /\ reserved + consumed <= 1 \/ (reserved = 2 /\ consumed = 0)

CountsFollow ==
  /\ coupon' \in [Texts -> CouponRow]
  /\ \A d \in Texts : /\ coupon'[d].state = coupon[d].state
                      /\ coupon'[d].of = coupon[d].of
                      /\ CodeOK(coupon'[d], basket', d)

LEMMA UseMoves ==
  ASSUME CodesInv, NEW o \in Baskets, NEW c \in Texts, NEW row \in BasketState, row.code = c,
         NEW reserved \in UseSteps, NEW consumed \in UseSteps,
         UseGoes(o, row, reserved, consumed)
  PROVE  CountsFollow
<1>0. /\ basket[o].code = c /\ basket' = [basket EXCEPT ![o] = row]
      /\ Counted(o, reserved, consumed)
      /\ reserved = 0 => coupon[c].reserved > 0
      /\ reserved - 1 = (IF row.at = "reserved" THEN 1 ELSE 0)
                        - (IF basket[o].at = "reserved" THEN 1 ELSE 0)
      /\ consumed = (IF row.at = "confirmed" THEN 1 ELSE 0)
                    - (IF basket[o].at = "confirmed" THEN 1 ELSE 0)
      /\ reserved + consumed > 1 =>
           /\ UseLimit = 0 \/ coupon[c].consumed + coupon[c].reserved < UseLimit
           /\ ~Used(c, o)
      /\ reserved + consumed <= 1 \/ (reserved = 2 /\ consumed = 0)
      /\ reserved \in Int /\ consumed \in Nat /\ reserved >= 0
  BY PromotionAssumption DEF UseGoes, UseSteps
<1>. USE <1>0
<1>1. PICK before \in CouponRow : before = coupon[c]
  BY DEF CodesInv
<1> DEFINE after == [before EXCEPT !.reserved = before.reserved + reserved - 1,
                             !.consumed = before.consumed + consumed]
<1>2. before.reserved \in Nat /\ before.consumed \in Nat
  BY DEF CouponRow
<1>3. PICK r \in Nat, n \in Nat : /\ r = before.reserved + reserved - 1
                                  /\ n = before.consumed + consumed
  <2>1. before.reserved + reserved - 1 \in Nat /\ before.consumed + consumed \in Nat
    BY <1>1, <1>2
  <2>. QED BY <2>1
<1>4. after = [before EXCEPT !.reserved = r, !.consumed = n]
  BY <1>3
<1>5. /\ after \in CouponRow /\ after.reserved = r /\ after.consumed = n
      /\ after.state = before.state /\ after.of = before.of
  BY <1>4 DEF CouponRow
<1>6. coupon' = [coupon EXCEPT ![c] = after]
  <2>1. c # NoCode
    BY PromotionAssumption
  <2>. QED BY <1>1, <2>1 DEF Counted, CodesInv
<1>. HIDE DEF after
<1>7. /\ coupon' \in [Texts -> CouponRow] /\ coupon'[c] = after
      /\ \A d \in Texts : d # c => coupon'[d] = coupon[d]
  BY <1>5, <1>6 DEF CodesInv
<1>8. PICK b \in [Baskets -> BasketState], d \in [Baskets -> BasketState] :
          b = basket /\ d = [b EXCEPT ![o] = row]
  BY DEF CodesInv
<1>9. ASSUME NEW x \in Texts, x # c PROVE CodeOK(coupon'[x], basket', x)
  <2>1. /\ HeldBy(basket', x, "reserved") = HeldBy(basket, x, "reserved")
        /\ HeldBy(basket', x, "confirmed") = HeldBy(basket, x, "confirmed")
    BY <1>9 DEF HeldBy, CodesInv
  <2>2. CodeOK(coupon[x], basket, x)
    BY DEF CodesInv
  <2>. QED BY <1>7, <1>9, <2>1, <2>2 DEF CodeOK, UsersIn
<1>10. CodeOK(before, b, c)
  BY <1>1, <1>8 DEF CodesInv
<1>11. PICK here \in UsedStates : here = "reserved"
  BY DEF UsedStates
<1>12. PICK gone \in UsedStates : gone = "confirmed"
  BY DEF UsedStates
<1>13. CountMoves(b, d, o, row, c, here)
  BY <1>8, HeldMoves
<1>14. CountMoves(b, d, o, row, c, gone)
  BY <1>8, HeldMoves
<1>15. r = Cardinality(HeldBy(d, c, here))
  <2>1. before.reserved = Cardinality(HeldBy(b, c, here))
    BY <1>10, <1>11 DEF CodeOK
  <2>. QED BY <1>3, <1>8, <1>11, <1>13, <2>1 DEF CountMoves
<1>16. n = Cardinality(HeldBy(d, c, gone))
  <2>1. before.consumed = Cardinality(HeldBy(b, c, gone))
    BY <1>10, <1>12 DEF CodeOK
  <2>. QED BY <1>3, <1>8, <1>12, <1>14, <2>1 DEF CountMoves
<1>17. UseLimit = 0 \/ r + n <= UseLimit
  <2>1. UseLimit = 0 \/ before.reserved + before.consumed <= UseLimit
    BY <1>10 DEF CodeOK
  <2>2. UseLimit \in Nat
    BY PromotionAssumption
  <2>3. PICK held \in Nat, spent \in Nat : held = before.reserved /\ spent = before.consumed
    BY <1>2
  <2>4. UseLimit = 0 \/ held + spent <= UseLimit
    BY <2>1, <2>3
  <2>5. r = held + reserved - 1 /\ n = spent + consumed
    BY <1>3, <2>3
  <2>6. reserved = 2 => UseLimit = 0 \/ spent + held < UseLimit
    BY <1>1, <2>3
  <2>7. CASE reserved + consumed <= 1
    BY <2>2, <2>4, <2>5, <2>7
  <2>8. CASE reserved = 2 /\ consumed = 0
    BY <2>2, <2>5, <2>6, <2>8
  <2>. QED BY <2>7, <2>8
<1>18. \A x \in UsersIn(d, c) : x = o \/ x \in UsersIn(b, c)
  BY <1>8 DEF UsersIn, HeldBy
<1>19. \/ o \in UsersIn(b, c) \/ o \notin UsersIn(d, c)
       \/ \A x \in UsersIn(b, c) \ {o} : BuyerOf[x] # BuyerOf[o]
  <2>1. CASE reserved + consumed > 1
    BY <1>8, <2>1 DEF Used, UsersIn, HeldBy
  <2>2. CASE ~(reserved + consumed > 1)
    <3>1. CASE row.at = "reserved" \/ row.at = "confirmed"
      BY <1>8, <2>2, <3>1 DEF UsersIn, HeldBy
    <3>2. CASE ~(row.at = "reserved" \/ row.at = "confirmed")
      BY <1>8, <3>2 DEF UsersIn, HeldBy
    <3>. QED BY <3>1, <3>2
  <2>. QED BY <2>1, <2>2
<1>20. \A x, y \in UsersIn(b, c) : BuyerOf[x] = BuyerOf[y] => x = y
  BY <1>10 DEF CodeOK
<1>21. \A x, y \in UsersIn(d, c) : BuyerOf[x] = BuyerOf[y] => x = y
  BY <1>18, <1>19, <1>20
<1>22. CodeOK(after, d, c)
  BY <1>5, <1>11, <1>12, <1>15, <1>16, <1>17, <1>21 DEF CodeOK
<1>23. \A x \in Texts : CodeOK(coupon'[x], basket', x)
  BY <1>7, <1>8, <1>9, <1>22
<1>24. \A x \in Texts : coupon'[x].state = coupon[x].state /\ coupon'[x].of = coupon[x].of
  BY <1>1, <1>5, <1>7
<1>. QED BY <1>7, <1>23, <1>24 DEF CountsFollow

LEMMA CodesInit == ASSUME PromotionInit PROVE CodesInv
<1>1. /\ coupon = [c \in Texts |-> NoCoupon] /\ basket \in [Baskets -> BasketState]
      /\ \A o \in Baskets : basket[o].code = NoCode
      /\ post \in [Posts -> PostState] /\ toggle \in [Toggles -> Reading]
  BY DEF PromotionInit, BasketState, PostState, Reading, NoReading, CouponRow, NoCoupon
<1>2. NoCoupon \in CouponRow /\ NoCoupon.reserved = 0 /\ NoCoupon.consumed = 0
      /\ NoCoupon.state = "free"
  BY DEF NoCoupon, CouponRow
<1>. HIDE DEF NoCoupon
<1>3. Issued = {}
  BY <1>1, <1>2 DEF Issued
<1>4. ASSUME NEW c \in Texts PROVE CodeOK(coupon[c], basket, c)
  <2>1. HeldBy(basket, c, "reserved") = {} /\ HeldBy(basket, c, "confirmed") = {}
    BY <1>1, PromotionAssumption DEF HeldBy
  <2>2. Cardinality({}) = 0 /\ UseLimit \in Nat
    BY FS_EmptySet, PromotionAssumption
  <2>. QED BY <1>1, <1>2, <2>1, <2>2 DEF CodeOK, UsersIn
<1>. QED BY <1>1, <1>2, <1>3, <1>4 DEF CodesInv

LEMMA CodesStep ==
  ASSUME CodesInv, [PromotionNext]_promotionVars PROVE CodesInv'
<1>1. /\ coupon \in [Texts -> CouponRow] /\ basket \in [Baskets -> BasketState]
      /\ post \in [Posts -> PostState] /\ toggle \in [Toggles -> Reading]
  BY DEF CodesInv
<1>2. CASE UNCHANGED promotionVars
  BY <1>2 DEF promotionVars, CodesInv, Issued
<1>3. ASSUME UNCHANGED <<coupon, basket>>, post' \in [Posts -> PostState],
             toggle' \in [Toggles -> Reading]
      PROVE  CodesInv'
  BY <1>3 DEF CodesInv, Issued
<1>4. ASSUME NEW q \in Posts, LookUp(q) \/ Unable(q) PROVE CodesInv'
  <2>1. UNCHANGED <<coupon, basket, toggle>>
    BY <1>4 DEF LookUp, Unable
  <2>2. post' \in [Posts -> PostState]
    <3>1. post[q] \in PostState
      BY <1>1
    <3>2. CASE LookUp(q)
      BY <1>1, <3>1, <3>2 DEF LookUp, PostState, MadeBy, Issued
    <3>3. CASE Unable(q)
      BY <1>1, <3>1, <3>3 DEF Unable, PostState
    <3>. QED BY <1>4, <3>2, <3>3
  <2>. QED BY <1>1, <1>3, <2>1, <2>2
<1>5. ASSUME NEW q \in Posts, NEW c \in Texts, Insert(q, c) PROVE CodesInv'
  <2> DEFINE row == [NoCoupon EXCEPT !.state = "live", !.of = q, !.active = TRUE]
  <2>1. /\ row \in CouponRow /\ row.state = "live" /\ row.of = q
        /\ row.reserved = 0 /\ row.consumed = 0
    BY DEF NoCoupon, CouponRow
  <2>2. coupon' = [coupon EXCEPT ![c] = row] /\ UNCHANGED <<basket, toggle>>
    BY <1>5 DEF Insert
  <2>. HIDE DEF row
  <2>3. post' \in [Posts -> PostState]
    BY <1>1, <1>5 DEF Insert, PostState
  <2>4. \A d \in Issued : Form[coupon[d].of] # Form[row.of]
    BY <1>5, <2>1 DEF Insert, MadeBy
  <2>5. coupon[c].state = "free" /\ c # NoCode
    BY <1>5, PromotionAssumption DEF Insert
  <2>6. \A o \in Baskets : basket[o].code # c
    BY <2>5 DEF CodesInv
  <2>7. HeldBy(basket, c, "reserved") = {} /\ HeldBy(basket, c, "confirmed") = {}
    BY <2>6 DEF HeldBy
  <2>8. coupon[c].reserved = 0 /\ coupon[c].consumed = 0
    BY <2>7, FS_EmptySet DEF CodesInv, CodeOK
  <2>. QED BY <1>1, <2>1, <2>2, <2>3, <2>4, <2>8, CodeIsSaved
<1>6. ASSUME NEW c \in Texts, NEW row \in CouponRow, coupon' = [coupon EXCEPT ![c] = row],
             UNCHANGED <<basket, post>>, toggle' \in [Toggles -> Reading],
             coupon[c].state = "live", row.of = coupon[c].of,
             row.reserved = coupon[c].reserved, row.consumed = coupon[c].consumed,
             row.state # "live" => \A o \in Baskets : basket[o].code # c
      PROVE  CodesInv'
  BY <1>1, <1>6, CodeIsSaved
<1>7. ASSUME NEW c \in Texts, Expire(c) PROVE CodesInv'
  <2>1. PICK old \in CouponRow : old = coupon[c]
    BY <1>1
  <2> DEFINE row == [old EXCEPT !.expired = TRUE]
  <2>2. /\ row \in CouponRow /\ row.state = old.state /\ row.of = old.of
        /\ row.reserved = old.reserved /\ row.consumed = old.consumed
    BY DEF CouponRow
  <2>3. /\ coupon' = [coupon EXCEPT ![c] = row] /\ UNCHANGED <<basket, post, toggle>>
        /\ old.state = "live"
    BY <1>7, <2>1 DEF Expire, Issued
  <2>. HIDE DEF row
  <2>. QED BY <1>1, <1>6, <2>1, <2>2, <2>3
<1>8. ASSUME NEW c \in Texts, Delete(c) PROVE CodesInv'
  <2>1. PICK old \in CouponRow : old = coupon[c]
    BY <1>1
  <2> DEFINE row == [old EXCEPT !.state = "deleted"]
  <2>2. /\ row \in CouponRow /\ row.of = old.of
        /\ row.reserved = old.reserved /\ row.consumed = old.consumed
    BY DEF CouponRow
  <2>3. /\ coupon' = [coupon EXCEPT ![c] = row] /\ UNCHANGED <<basket, post, toggle>>
        /\ old.state = "live" /\ \A o \in Baskets : basket[o].code # c
    BY <1>8, <2>1 DEF Delete, Issued
  <2>. HIDE DEF row
  <2>. QED BY <1>1, <1>6, <2>1, <2>2, <2>3
<1>9. ASSUME NEW t \in Toggles, NEW c \in Texts, ReadSwitch(t, c) PROVE CodesInv'
  <2>1. toggle' \in [Toggles -> Reading] /\ UNCHANGED <<coupon, basket, post>>
    BY <1>1, <1>9 DEF ReadSwitch, Reading
  <2>. QED BY <1>1, <1>3, <2>1
<1>10. ASSUME NEW t \in Toggles, NEW on \in BOOLEAN, WriteSwitch(t, on) PROVE CodesInv'
  <2>1. toggle' \in [Toggles -> Reading] /\ UNCHANGED <<basket, post>>
    BY <1>1, <1>10 DEF WriteSwitch, Reading, NoReading, CouponRow, NoCoupon
  <2>2. PICK c \in Texts : c = toggle[t].code
    BY <1>1, <1>10 DEF WriteSwitch, Reading
  <2>3. PICK old \in CouponRow : old = coupon[c]
    BY <1>1
  <2> DEFINE row == [old EXCEPT !.active = on]
  <2>4. /\ row \in CouponRow /\ row.state = old.state /\ row.of = old.of
        /\ row.reserved = old.reserved /\ row.consumed = old.consumed
    BY DEF CouponRow
  <2>5. coupon' = IF old.state = "live" THEN [coupon EXCEPT ![c] = row] ELSE coupon
    BY <1>10, <2>2, <2>3 DEF WriteSwitch, Issued
  <2>. HIDE DEF row
  <2>6. CASE old.state = "live"
    BY <1>1, <1>6, <2>1, <2>3, <2>4, <2>5, <2>6
  <2>7. CASE old.state # "live"
    BY <1>1, <1>3, <2>1, <2>5, <2>7
  <2>. QED BY <2>6, <2>7
<1>11. ASSUME NEW o \in Baskets, NEW row \in BasketState, UNCHANGED <<post, toggle>>,
              NEW reserved \in UseSteps, NEW consumed \in UseSteps,
              UseGoes(o, row, reserved, consumed)
       PROVE  CodesInv'
  <2>0. /\ row.code = basket[o].code /\ basket' = [basket EXCEPT ![o] = row]
        /\ Counted(o, reserved, consumed)
    BY <1>11 DEF UseGoes
  <2>1. row.code # NoCode => coupon[row.code].state = "live"
    BY <2>0 DEF CodesInv
  <2>2. CASE row.code = NoCode
    <3>1. coupon' = coupon
      BY <2>0, <2>2 DEF Counted
    <3>2. ASSUME NEW c \in Texts PROVE CodeOK(coupon'[c], basket', c)
      <4>1. c # NoCode
        BY PromotionAssumption
      <4>2. /\ HeldBy(basket', c, "reserved") = HeldBy(basket, c, "reserved")
            /\ HeldBy(basket', c, "confirmed") = HeldBy(basket, c, "confirmed")
        BY <1>1, <2>0, <2>2, <4>1 DEF HeldBy
      <4>3. CodeOK(coupon[c], basket, c)
        BY DEF CodesInv
      <4>. QED BY <3>1, <4>2, <4>3 DEF CodeOK, UsersIn
    <3>. QED BY <1>1, <1>11, <2>0, <2>1, <3>1, <3>2, OrderMoves
  <2>3. CASE row.code # NoCode
    <3>1. PICK c \in Texts : c = row.code
      BY <2>3 DEF BasketState
    <3>2. CountsFollow
      BY <1>11, <3>1, UseMoves
    <3>. QED BY <1>11, <2>0, <2>1, <3>2, OrderMoves DEF CountsFollow
  <2>. QED BY <2>2, <2>3
<1>12. PICK zero \in UseSteps, one \in UseSteps, two \in UseSteps :
         zero = 0 /\ one = 1 /\ two = 2
  BY DEF UseSteps
<1>13. ASSUME NEW o \in Baskets, NEW c \in Texts \cup {NoCode}, Price(o, c)
       PROVE  CodesInv'
  <2> DEFINE row == [at |-> "priced", code |-> c]
  <2>1. row \in BasketState /\ row.at = "priced" /\ row.code = c
    BY DEF BasketState
  <2>2. /\ basket' = [basket EXCEPT ![o] = row] /\ UNCHANGED <<coupon, post, toggle>>
        /\ basket[o].at = "open" /\ (c # NoCode => coupon[c].state = "live")
    BY <1>13 DEF Price, Usable, Issued
  <2>. HIDE DEF row
  <2>3. ASSUME NEW x \in Texts PROVE CodeOK(coupon'[x], basket', x)
    <3>1. /\ HeldBy(basket', x, "reserved") = HeldBy(basket, x, "reserved")
          /\ HeldBy(basket', x, "confirmed") = HeldBy(basket, x, "confirmed")
      BY <1>1, <2>1, <2>2 DEF HeldBy
    <3>2. CodeOK(coupon[x], basket, x) /\ coupon'[x] = coupon[x]
      BY <2>2 DEF CodesInv
    <3>3. UsersIn(basket', x) = UsersIn(basket, x)
      BY <3>1 DEF UsersIn
    <3>. QED BY <3>1, <3>2, <3>3 DEF CodeOK
  <2>. QED BY <1>1, <2>1, <2>2, <2>3, OrderMoves
<1>14. ASSUME NEW o \in Baskets, Reserve(o) PROVE CodesInv'
  <2>1. PICK old \in BasketState : old = basket[o]
    BY <1>1
  <2> DEFINE row == [old EXCEPT !.at = "reserved"]
  <2>2. row \in BasketState /\ row.at = "reserved" /\ row.code = old.code
    BY DEF BasketState
  <2>3. /\ basket' = [basket EXCEPT ![o] = row] /\ UNCHANGED <<post, toggle>>
        /\ Counted(o, two, zero) /\ old.at = "priced"
    BY <1>12, <1>14, <2>1 DEF Reserve
  <2>. HIDE DEF row
  <2>4. row.code # NoCode =>
          /\ \/ UseLimit = 0
             \/ coupon[row.code].consumed + coupon[row.code].reserved < UseLimit
          /\ ~Used(row.code, o)
    BY <1>14, <2>1, <2>2 DEF Reserve, Usable
  <2>5. UseGoes(o, row, two, zero)
    BY <1>12, <2>1, <2>2, <2>3, <2>4 DEF UseGoes
  <2>. QED BY <1>11, <2>2, <2>3, <2>5
<1>15. ASSUME NEW o \in Baskets, NEW terminal \in BOOLEAN, Release(o, terminal)
       PROVE  CodesInv'
  <2>1. PICK old \in BasketState : old = basket[o]
    BY <1>1
  <2>2. PICK at \in {"released", "priced"} : at = IF terminal THEN "released" ELSE "priced"
    OBVIOUS
  <2> DEFINE row == [old EXCEPT !.at = at]
  <2>3. row \in BasketState /\ row.at = at /\ row.code = old.code
    BY DEF BasketState
  <2>4. /\ basket' = [basket EXCEPT ![o] = row] /\ UNCHANGED <<post, toggle>>
        /\ Counted(o, zero, zero) /\ old.at = "reserved"
        /\ (row.code # NoCode => coupon[row.code].reserved > 0)
    BY <1>12, <1>15, <2>1, <2>2, <2>3 DEF Release, HasReservation
  <2>. HIDE DEF row
  <2>5. UseGoes(o, row, zero, zero)
    BY <1>12, <2>1, <2>2, <2>3, <2>4 DEF UseGoes
  <2>. QED BY <1>11, <2>3, <2>4, <2>5
<1>16. ASSUME NEW o \in Baskets, Confirm(o) PROVE CodesInv'
  <2>1. PICK old \in BasketState : old = basket[o]
    BY <1>1
  <2> DEFINE row == [old EXCEPT !.at = "confirmed"]
  <2>2. row \in BasketState /\ row.at = "confirmed" /\ row.code = old.code
    BY DEF BasketState
  <2>3. /\ basket' = [basket EXCEPT ![o] = row] /\ UNCHANGED <<post, toggle>>
        /\ Counted(o, zero, one) /\ old.at = "reserved"
        /\ (row.code # NoCode => coupon[row.code].reserved > 0)
    BY <1>12, <1>16, <2>1, <2>2 DEF Confirm, HasReservation
  <2>. HIDE DEF row
  <2>4. UseGoes(o, row, zero, one)
    BY <1>12, <2>1, <2>2, <2>3 DEF UseGoes
  <2>. QED BY <1>11, <2>2, <2>3, <2>4
<1>. QED BY <1>2, <1>4, <1>5, <1>7, <1>8, <1>9, <1>10, <1>13, <1>14, <1>15, <1>16
         DEF PromotionNext

LEMMA CodesAreCounted == ASSUME CodesInv PROVE UsesAreCounted
<1>1. ASSUME NEW c \in Texts
      PROVE  /\ coupon[c].reserved = Cardinality(HeldAt(c, "reserved"))
             /\ coupon[c].consumed = Cardinality(HeldAt(c, "confirmed"))
             /\ \/ UseLimit = 0
                \/ Cardinality(HeldAt(c, "reserved") \cup HeldAt(c, "confirmed")) <= UseLimit
             /\ \A o, x \in HeldAt(c, "reserved") \cup HeldAt(c, "confirmed") :
                  BuyerOf[o] = BuyerOf[x] => o = x
             /\ HeldAt(c, "reserved") \cup HeldAt(c, "confirmed") # {} => c \in Issued
  <2>1. /\ HeldAt(c, "reserved") = HeldBy(basket, c, "reserved")
        /\ HeldAt(c, "confirmed") = HeldBy(basket, c, "confirmed")
    BY DEF HeldAt, HeldBy
  <2>2. CodeOK(coupon[c], basket, c)
    BY DEF CodesInv
  <2>3. PICK b \in [Baskets -> BasketState] : b = basket
    BY DEF CodesInv
  <2>4. Cardinality(UsersIn(b, c)) =
          Cardinality(HeldBy(b, c, "reserved")) + Cardinality(HeldBy(b, c, "confirmed"))
    BY UsersCount
  <2>5. \A o \in UsersIn(b, c) : basket[o].code = c /\ o \in Baskets
    BY <2>3 DEF UsersIn, HeldBy
  <2>6. c # NoCode
    BY PromotionAssumption
  <2>7. UsersIn(b, c) # {} => c \in Issued
    BY <2>5, <2>6 DEF CodesInv, Issued
  <2>. QED BY <2>1, <2>2, <2>3, <2>4, <2>7 DEF CodeOK, UsersIn
<1>. QED BY <1>1 DEF CodesInv, UsesAreCounted

(* Theorem. A form makes one code, and a code counts exactly the orders    *)
(* that hold or spent a use of it: no more than its limit, one of a buyer  *)
(* and none of a code that was deleted, for any number of orders, codes    *)
(* and requests that switch them (reserve_order_inventory,                 *)
(* confirm_order_inventory, DiscountDeleteView).                           *)
THEOREM UsesAlwaysCounted == PromotionSpec => []UsesAreCounted
<1>1. CodesInv /\ [PromotionNext]_promotionVars => CodesInv'
  BY CodesStep
<1>. QED BY <1>1, CodesInit, CodesAreCounted, PTL DEF PromotionSpec

----------------------------------------------------------------------------
(* What a checkout freezes (OrderPricing)                                  *)

LineStands(l) ==
  /\ l.unit <= l.asked
  /\ l.gross >= 0 /\ l.fee <= l.gross
  /\ l.unit = l.settlement + l.gross

(* A method is there while an order names it, and what edits write over it *)
(* are methods, too.                                                       *)
BillsInv ==
  /\ ware \in [Wares -> SaleTerms] /\ asked \in [Items -> Asked]
  /\ method \in [Methods -> MethodRow \cup {NoMethod}]
  /\ DOMAIN editing = MethodEdits /\ editing = [e \in MethodEdits |-> editing[e]]
  /\ DOMAIN deleting = MethodDeletions
  /\ deleting = [x \in MethodDeletions |-> deleting[x]]
  /\ \A e \in MethodEdits : editing[e] # NotEditing =>
       editing[e].on \in Methods /\ editing[e].row \in MethodRow
  /\ \A x \in MethodDeletions : deleting[x] # NotDeleting => deleting[x].on \in Methods
  /\ DOMAIN bill = Checkouts /\ bill = [o \in Checkouts |-> bill[o]]
  /\ \A o \in Checkouts : bill[o].placed =>
       /\ bill[o] = [placed |-> TRUE, via |-> bill[o].via, posted |-> bill[o].posted,
                     payable |-> bill[o].payable, lines |-> bill[o].lines,
                     paid |-> bill[o].paid]
       /\ bill[o].payable = Owed(bill[o].lines) + bill[o].posted
       /\ bill[o].via # None => bill[o].via \in Methods /\ MethodExists(bill[o].via)
       /\ \A i \in DOMAIN bill[o].lines : LineStands(bill[o].lines[i])

(* A part is no more than the whole. *)
LEMMA PartIsPart ==
  ASSUME NEW amount \in Nat, NEW percent \in 0..100
  PROVE  Part(amount, percent) \in Nat /\ Part(amount, percent) <= amount
<1>1. amount * percent \in Nat /\ amount * percent <= amount * 100
  <2>1. amount * percent \in Nat
    OBVIOUS
  <2>2. PICK rest \in Nat : rest = 100 - percent
    OBVIOUS
  <2>3. amount * rest \in Nat /\ amount * percent = amount * 100 - amount * rest
    BY <2>2
  <2>. QED BY <2>1, <2>3
<1>2. PICK n \in Nat : n = amount * percent
  BY <1>1
<1>3. n <= amount * 100
  BY <1>1, <1>2
<1>4. (n + 50) \div 100 \in Nat /\ (n + 50) \div 100 <= amount
  BY <1>3
<1>. QED BY <1>2, <1>4 DEF Part

LEMMA SnapshotLines ==
  ASSUME BillsInv, NEW o \in Checkouts, NEW i \in Items, NEW code \in Percents,
         Settled(i, code)
  PROVE  LineStands(Line(o, i, code))
<1>1. PICK g \in Wares : g = WareOf[i]
  BY PricingAssumption
<1>2. /\ asked[i] \in Nat /\ ware[g].floor \in Nat /\ ware[g].automatic \in Percents
      /\ Percents \subseteq 0..100
  BY PricingAssumption DEF BillsInv
<1>3. PICK percent \in 0..100 : percent = 100 - Discount(i, code)
  <2>1. PICK taken \in 0..100 : taken = Discount(i, code)
    BY <1>1, <1>2 DEF Discount
  <2>. QED BY <2>1
<1>4. PICK unit \in Nat : unit = UnitPrice(i, code) /\ unit <= asked[i]
  BY <1>2, <1>3, PartIsPart DEF UnitPrice
<1>5. PICK settlement \in Nat : /\ settlement = IF Resold(i) THEN ware[g].floor ELSE unit
                                /\ settlement <= unit
  BY <1>1, <1>2, <1>4 DEF Settled
<1>6. PICK gross \in Nat : gross = unit - settlement
  BY <1>5
<1>7. PICK fee \in Nat : fee = Part(gross, PlatformFee) /\ fee <= gross
  BY <1>6, PartIsPart, PricingAssumption
<1>8. Line(o, i, code) =
        [quantity |-> QuantityOf[o][i], asked |-> asked[i], unit |-> unit,
         settlement |-> settlement, gross |-> gross, fee |-> fee]
  BY <1>1, <1>4, <1>5, <1>6, <1>7 DEF Line
<1>9. PICK line : line = Line(o, i, code)
  OBVIOUS
<1>10. /\ line.asked = asked[i] /\ line.unit = unit /\ line.settlement = settlement
       /\ line.gross = gross /\ line.fee = fee
  BY <1>8, <1>9
<1>11. LineStands(line)
  BY <1>4, <1>5, <1>6, <1>7, <1>10 DEF LineStands
<1>. QED BY <1>9, <1>11

(* A method is one although it is not active. *)
LEMMA MethodIsThere == \A row \in MethodRow : row # NoMethod
<1>1. SUFFICES ASSUME NEW row \in MethodRow PROVE row # NoMethod
  OBVIOUS
<1>2. DOMAIN row = {"price", "active"}
  BY DEF MethodRow
<1>3. DOMAIN NoMethod = {"price", "active", "gone"}
  BY DEF NoMethod
<1>4. "gone" \notin {"price", "active"}
  OBVIOUS
<1>. QED BY <1>2, <1>3, <1>4

(* Methods change, but none that an order names is deleted. *)
LEMMA MethodsChange ==
  ASSUME BillsInv, UNCHANGED <<ware, asked, bill>>,
         method' \in [Methods -> MethodRow \cup {NoMethod}],
         \A s \in Methods : MethodExists(s) => method'[s] # NoMethod \/ ~Named(s),
         DOMAIN editing' = MethodEdits, editing' = [e \in MethodEdits |-> editing'[e]],
         \A e \in MethodEdits : editing'[e] # NotEditing =>
           editing'[e].on \in Methods /\ editing'[e].row \in MethodRow,
         DOMAIN deleting' = MethodDeletions,
         deleting' = [x \in MethodDeletions |-> deleting'[x]],
         \A x \in MethodDeletions : deleting'[x] # NotDeleting => deleting'[x].on \in Methods
  PROVE  BillsInv'
<1>1. \A o \in Checkouts : bill[o].placed /\ bill[o].via # None =>
        method'[bill[o].via] # NoMethod
  BY DEF BillsInv, Named
<1>. QED BY <1>1 DEF BillsInv, MethodExists

LEMMA BillsStep ==
  ASSUME BillsInv, [PricingNext]_pricingVars PROVE BillsInv'
<1>1. /\ ware \in [Wares -> SaleTerms] /\ asked \in [Items -> Asked]
      /\ method \in [Methods -> MethodRow \cup {NoMethod}]
      /\ DOMAIN editing = MethodEdits /\ editing = [e \in MethodEdits |-> editing[e]]
      /\ DOMAIN deleting = MethodDeletions
      /\ deleting = [x \in MethodDeletions |-> deleting[x]]
      /\ \A e \in MethodEdits : editing[e] # NotEditing =>
           editing[e].on \in Methods /\ editing[e].row \in MethodRow
      /\ \A x \in MethodDeletions : deleting[x] # NotDeleting => deleting[x].on \in Methods
  BY DEF BillsInv
<1>2. CASE UNCHANGED pricingVars
  BY <1>2 DEF pricingVars, BillsInv, MethodExists
<1>3. ASSUME NEW o \in Checkouts, NEW row, bill' = [bill EXCEPT ![o] = row],
             UNCHANGED <<ware, asked, method, editing, deleting>>,
             row = [placed |-> TRUE, via |-> row.via, posted |-> row.posted,
                    payable |-> row.payable, lines |-> row.lines, paid |-> row.paid],
             row.payable = Owed(row.lines) + row.posted,
             row.via # None => row.via \in Methods /\ MethodExists(row.via),
             \A i \in DOMAIN row.lines : LineStands(row.lines[i])
      PROVE  BillsInv'
  <2>1. /\ DOMAIN bill' = Checkouts /\ bill' = [x \in Checkouts |-> bill'[x]]
        /\ bill'[o] = row /\ \A x \in Checkouts : x # o => bill'[x] = bill[x]
    BY <1>3 DEF BillsInv
  <2>2. \A s : MethodExists(s)' = MethodExists(s)
    BY <1>3 DEF MethodExists
  <2>3. ASSUME NEW x \in Checkouts, bill'[x].placed
        PROVE  /\ bill'[x] = [placed |-> TRUE, via |-> bill'[x].via,
                              posted |-> bill'[x].posted, payable |-> bill'[x].payable,
                              lines |-> bill'[x].lines, paid |-> bill'[x].paid]
               /\ bill'[x].payable = Owed(bill'[x].lines) + bill'[x].posted
               /\ bill'[x].via # None =>
                    bill'[x].via \in Methods /\ method[bill'[x].via] # NoMethod
               /\ \A i \in DOMAIN bill'[x].lines : LineStands(bill'[x].lines[i])
    <3>1. CASE x = o
      BY <1>3, <2>1, <3>1 DEF MethodExists
    <3>2. CASE x # o
      BY <2>1, <2>3, <3>2 DEF BillsInv, MethodExists
    <3>. QED BY <3>1, <3>2
  <2>. QED BY <1>1, <1>3, <2>1, <2>3 DEF BillsInv, MethodExists
<1>4. ASSUME NEW o \in Checkouts, NEW code \in Percents, NEW s \in Methods \cup {None},
             NEW online \in BOOLEAN, SnapshotOrder(o, code, s, online)
      PROVE  BillsInv'
  <2>1. PICK lines : lines = BillLines(o, code)
    OBVIOUS
  <2>2. PICK posted : posted = IF s = None THEN 0 ELSE method[s].price
    OBVIOUS
  <2>3. PICK payable : payable = Owed(lines) + posted
    OBVIOUS
  <2> DEFINE row == [placed |-> TRUE, via |-> s, posted |-> posted, payable |-> payable,
                     lines |-> lines, paid |-> FALSE]
  <2>4. /\ row = [placed |-> TRUE, via |-> row.via, posted |-> row.posted,
                  payable |-> row.payable, lines |-> row.lines, paid |-> row.paid]
        /\ row.via = s /\ row.posted = posted /\ row.payable = payable /\ row.lines = lines
    OBVIOUS
  <2>5. /\ bill' = [bill EXCEPT ![o] = row]
        /\ UNCHANGED <<ware, asked, method, editing, deleting>>
        /\ Ships(o, s) /\ \A i \in ItemsOf(o) : Settled(i, code)
    BY <1>4, <2>1, <2>2, <2>3 DEF SnapshotOrder
  <2>. HIDE DEF row
  <2>6. s # None => s \in Methods /\ MethodExists(s)
    BY <2>5 DEF Ships, MethodExists, NoMethod
  <2>7. ASSUME NEW i \in DOMAIN lines PROVE LineStands(lines[i])
    <3>1. i \in Items /\ lines[i] = Line(o, i, code) /\ Settled(i, code)
      BY <2>1, <2>5, <2>7 DEF BillLines, ItemsOf
    <3>. QED BY <3>1, SnapshotLines
  <2>. QED BY <1>3, <2>3, <2>4, <2>5, <2>6, <2>7
<1>5. ASSUME NEW o \in Checkouts, ReserveBill(o) PROVE BillsInv'
  <2>1. PICK old : /\ old = bill[o]
                   /\ old = [placed |-> TRUE, via |-> old.via, posted |-> old.posted,
                             payable |-> old.payable, lines |-> old.lines,
                             paid |-> old.paid]
                   /\ old.payable = Owed(old.lines) + old.posted
                   /\ old.via # None => old.via \in Methods /\ MethodExists(old.via)
                   /\ \A i \in DOMAIN old.lines : LineStands(old.lines[i])
    BY <1>5 DEF ReserveBill, BillsInv
  <2>2. PICK row : row = [placed |-> TRUE, via |-> old.via, posted |-> old.posted,
                          payable |-> old.payable, lines |-> old.lines, paid |-> TRUE]
    OBVIOUS
  <2>3. row = [old EXCEPT !.paid = TRUE]
    <3>1. DOMAIN old = {"placed", "via", "posted", "payable", "lines", "paid"}
      BY <2>1
    <3>2. [old EXCEPT !.paid = TRUE] =
            [f \in DOMAIN old |-> IF f = "paid" THEN TRUE ELSE old[f]]
      BY <3>1
    <3>3. /\ row["placed"] = TRUE /\ row["via"] = old["via"] /\ row["posted"] = old["posted"]
          /\ row["payable"] = old["payable"] /\ row["lines"] = old["lines"]
          /\ row["paid"] = TRUE /\ old["placed"] = TRUE
      BY <2>1, <2>2
    <3>4. \A f \in DOMAIN old : row[f] = IF f = "paid" THEN TRUE ELSE old[f]
      BY <3>1, <3>3
    <3>5. DOMAIN row = DOMAIN old /\ row = [f \in DOMAIN row |-> row[f]]
      BY <2>2, <3>1
    <3>6. row = [f \in DOMAIN old |-> IF f = "paid" THEN TRUE ELSE old[f]]
      BY <3>4, <3>5
    <3>. QED BY <3>2, <3>6
  <2>4. /\ row = [placed |-> TRUE, via |-> row.via, posted |-> row.posted,
                  payable |-> row.payable, lines |-> row.lines, paid |-> row.paid]
        /\ row.via = old.via /\ row.posted = old.posted /\ row.payable = old.payable
        /\ row.lines = old.lines
    BY <2>2
  <2>5. /\ bill' = [bill EXCEPT ![o] = row]
        /\ UNCHANGED <<ware, asked, method, editing, deleting>>
    BY <1>5, <2>1, <2>3 DEF ReserveBill, BillsInv
  <2>. QED BY <1>3, <2>1, <2>4, <2>5
<1>6. ASSUME NEW g \in Wares, NEW row \in SaleTerms, ChangeGood(g, row) PROVE BillsInv'
  <2>1. /\ ware' \in [Wares -> SaleTerms]
        /\ UNCHANGED <<asked, method, editing, deleting, bill>>
    BY <1>1, <1>6 DEF ChangeGood
  <2>. QED BY <2>1 DEF BillsInv, MethodExists
<1>7. ASSUME NEW i \in Items, NEW price \in Asked, Reprice(i, price) PROVE BillsInv'
  <2>1. /\ asked' \in [Items -> Asked]
        /\ UNCHANGED <<ware, method, editing, deleting, bill>>
    BY <1>1, <1>7 DEF Reprice
  <2>. QED BY <2>1 DEF BillsInv, MethodExists
<1>8. ASSUME NEW s \in Methods, NEW price \in Fees, CreateMethod(s, price) PROVE BillsInv'
  <2> DEFINE row == [price |-> price, active |-> TRUE]
  <2>1. row \in MethodRow
    BY DEF MethodRow
  <2>2. /\ method' = [method EXCEPT ![s] = row] /\ ~Named(s)
        /\ UNCHANGED <<ware, asked, editing, deleting, bill>>
    BY <1>8 DEF CreateMethod, WriteMethod
  <2>. HIDE DEF row
  <2>3. method' \in [Methods -> MethodRow \cup {NoMethod}]
        /\ \A x \in Methods : MethodExists(x) => method'[x] # NoMethod \/ ~Named(x)
    BY <1>1, <2>1, <2>2 DEF MethodExists
  <2>. QED BY <1>1, <2>2, <2>3, MethodsChange
<1>9. ASSUME NEW e \in MethodEdits, NEW s \in Methods, BeginMethodEdit(e, s) PROVE BillsInv'
  <2> DEFINE row == [on |-> s, row |-> method[s]]
  <2>1. method[s] \in MethodRow
    BY <1>1, <1>9 DEF BeginMethodEdit, MethodExists
  <2>2. row.on \in Methods /\ row.row \in MethodRow
    BY <2>1
  <2>3. /\ editing' = [editing EXCEPT ![e] = row]
        /\ UNCHANGED <<ware, asked, method, deleting, bill>>
    BY <1>9 DEF BeginMethodEdit
  <2>. HIDE DEF row
  <2>4. /\ DOMAIN editing' = MethodEdits /\ editing' = [x \in MethodEdits |-> editing'[x]]
        /\ \A x \in MethodEdits : editing'[x] # NotEditing =>
             editing'[x].on \in Methods /\ editing'[x].row \in MethodRow
    <3>. HIDE DEF NotEditing
    <3>. QED BY <1>1, <2>2, <2>3
  <2>. QED BY <1>1, <2>3, <2>4, MethodsChange DEF MethodExists
<1>10. ASSUME NEW e \in MethodEdits, EndMethodEdit(e) PROVE BillsInv'
  <2>1. PICK s \in Methods, read \in MethodRow : s = editing[e].on /\ read = editing[e].row
    BY <1>1, <1>10 DEF EndMethodEdit
  <2>2. PICK row \in MethodRow : method' = [method EXCEPT ![s] = row]
    <3>1. ASSUME NEW price \in Fees PROVE [read EXCEPT !.price = price] \in MethodRow
      BY DEF MethodRow
    <3>2. ASSUME NEW active \in BOOLEAN PROVE [read EXCEPT !.active = active] \in MethodRow
      BY DEF MethodRow
    <3>. QED BY <1>10, <2>1, <3>1, <3>2 DEF EndMethodEdit, WriteMethod
  <2>3. /\ editing' = [editing EXCEPT ![e] = NotEditing]
        /\ UNCHANGED <<ware, asked, deleting, bill>>
    BY <1>10 DEF EndMethodEdit
  <2>4. /\ DOMAIN editing' = MethodEdits /\ editing' = [x \in MethodEdits |-> editing'[x]]
        /\ \A x \in MethodEdits : editing'[x] # NotEditing =>
             editing'[x].on \in Methods /\ editing'[x].row \in MethodRow
    <3>. HIDE DEF NotEditing
    <3>. QED BY <1>1, <2>3
  <2>5. method' \in [Methods -> MethodRow \cup {NoMethod}]
        /\ \A x \in Methods : MethodExists(x) => method'[x] # NoMethod \/ ~Named(x)
    BY <1>1, <2>2, MethodIsThere DEF MethodExists
  <2>. QED BY <1>1, <2>3, <2>4, <2>5, MethodsChange
<1>11. ASSUME NEW x \in MethodDeletions, NEW s \in Methods, BeginMethodDelete(x, s)
       PROVE  BillsInv'
  <2> DEFINE row == [on |-> s, soft |-> Named(s)]
  <2>1. row.on \in Methods
    OBVIOUS
  <2>2. /\ deleting' = [deleting EXCEPT ![x] = row]
        /\ UNCHANGED <<ware, asked, method, editing, bill>>
    BY <1>11 DEF BeginMethodDelete
  <2>. HIDE DEF row
  <2>3. /\ DOMAIN deleting' = MethodDeletions
        /\ deleting' = [y \in MethodDeletions |-> deleting'[y]]
        /\ \A y \in MethodDeletions : deleting'[y] # NotDeleting => deleting'[y].on \in Methods
    <3>. HIDE DEF NotDeleting
    <3>. QED BY <1>1, <2>1, <2>2
  <2>. QED BY <1>1, <2>2, <2>3, MethodsChange DEF MethodExists
<1>12. ASSUME NEW x \in MethodDeletions, EndMethodDelete(x) PROVE BillsInv'
  <2>1. PICK s \in Methods : s = deleting[x].on
    BY <1>1, <1>12 DEF EndMethodDelete
  <2>2. /\ deleting' = [deleting EXCEPT ![x] = NotDeleting]
        /\ UNCHANGED <<ware, asked, editing, bill>>
    BY <1>12 DEF EndMethodDelete
  <2>3. /\ DOMAIN deleting' = MethodDeletions
        /\ deleting' = [y \in MethodDeletions |-> deleting'[y]]
        /\ \A y \in MethodDeletions : deleting'[y] # NotDeleting => deleting'[y].on \in Methods
    <3>. HIDE DEF NotDeleting
    <3>. QED BY <1>1, <2>2
  <2>4. CASE UNCHANGED method
    BY <1>1, <2>2, <2>3, <2>4, MethodsChange DEF MethodExists
  <2>5. ASSUME NEW row \in MethodRow \cup {NoMethod}, method' = [method EXCEPT ![s] = row],
               row # NoMethod \/ ~Named(s)
        PROVE  BillsInv'
    <3>1. method' \in [Methods -> MethodRow \cup {NoMethod}]
          /\ \A y \in Methods : MethodExists(y) => method'[y] # NoMethod \/ ~Named(y)
      BY <1>1, <2>5 DEF MethodExists
    <3>. QED BY <1>1, <2>2, <2>3, <3>1, MethodsChange
  <2>6. CASE MethodExists(s) /\ WriteMethod(s, [method[s] EXCEPT !.active = FALSE])
    <3>1. PICK old \in MethodRow : old = method[s]
      BY <1>1, <2>6 DEF MethodExists
    <3>2. PICK row \in MethodRow : row = [old EXCEPT !.active = FALSE]
      BY DEF MethodRow
    <3>3. row # NoMethod /\ method' = [method EXCEPT ![s] = row]
      BY <2>6, <3>1, <3>2, MethodIsThere DEF WriteMethod
    <3>. QED BY <2>5, <3>3
  <2>7. CASE ~Named(s) /\ WriteMethod(s, NoMethod)
    BY <2>5, <2>7 DEF WriteMethod
  <2>. QED BY <1>12, <2>1, <2>4, <2>6, <2>7 DEF EndMethodDelete
<1>. QED BY <1>2, <1>4, <1>5, <1>6, <1>7, <1>8, <1>9, <1>10, <1>11, <1>12 DEF PricingNext

(* Theorem. What a placed order says stands: its total, the share of the   *)
(* seller of what is resold, and the method it is shipped by, whatever the *)
(* store changes at the same time and for any prices and percentages       *)
(* (snapshot_order, MarketShippingMethodDetailAPIView).                    *)
THEOREM BillAlwaysStands == PricingSpec => []BillStands
<1>1. PricingInit => BillsInv
  <2>1. SUFFICES ASSUME PricingInit PROVE BillsInv
    OBVIOUS
  <2>2. \A o \in Checkouts : ~bill[o].placed
    BY <2>1 DEF PricingInit, NoBill
  <2>3. DOMAIN bill = Checkouts /\ bill = [o \in Checkouts |-> bill[o]]
    <3>. HIDE DEF NoBill
    <3>. QED BY <2>1 DEF PricingInit
  <2>4. /\ DOMAIN editing = MethodEdits /\ editing = [e \in MethodEdits |-> editing[e]]
        /\ \A e \in MethodEdits : editing[e] = NotEditing
        /\ DOMAIN deleting = MethodDeletions
        /\ deleting = [x \in MethodDeletions |-> deleting[x]]
        /\ \A x \in MethodDeletions : deleting[x] = NotDeleting
    <3>. HIDE DEF NotEditing, NotDeleting
    <3>. QED BY <2>1 DEF PricingInit
  <2>5. /\ ware \in [Wares -> SaleTerms]
        /\ method \in [Methods -> MethodRow \cup {NoMethod}]
    <3>. HIDE DEF NoMethod
    <3>. QED BY <2>1 DEF PricingInit
  <2>6. asked \in [Items -> Asked]
    BY <2>1 DEF PricingInit
  <2>. QED BY <2>2, <2>3, <2>4, <2>5, <2>6 DEF BillsInv
<1>2. BillsInv /\ [PricingNext]_pricingVars => BillsInv'
  BY BillsStep
<1>3. BillsInv => BillStands
  BY DEF BillsInv, BillStands, LineStands
<1>. QED BY <1>1, <1>2, <1>3, PTL DEF PricingSpec

----------------------------------------------------------------------------
(* The forms of a product (ProductForms)                                   *)

(* What a draft writes was checked, and is for sale only if it is staff's. *)
ProductFormsInv ==
  /\ DOMAIN draft = Drafts /\ draft = [e \in Drafts |-> draft[e]]
  /\ good = [there |-> good.there, public |-> good.public, terms |-> good.terms,
             discounted |-> good.discounted]
  /\ \A e \in Drafts : draft[e] # NoDraft =>
       Coherent(draft[e].terms) /\ (draft[e].staff \/ draft[e].public = FALSE)
  /\ SoldIsVetted

(* Theorem. What is for sale is what staff last wrote or approved, and a   *)
(* product's prices fit each other unless staff wrote them past the check, *)
(* for any prices and any number of edits under way (ProductUpdateAPIView, *)
(* review_product_revision, ProductAdmin).                                 *)
THEOREM SoldAlwaysVetted == FormSpec => []SoldIsVetted
<1>1. FormInit => ProductFormsInv
  <2>1. SUFFICES ASSUME FormInit PROVE ProductFormsInv
    OBVIOUS
  <2>2. \A e \in Drafts : draft[e] = NoDraft
    BY <2>1 DEF FormInit
  <2>3. good.there = FALSE /\ good.public = FALSE
    BY <2>1 DEF FormInit, NoGood
  <2>4. good = [there |-> good.there, public |-> good.public, terms |-> good.terms,
                discounted |-> good.discounted]
    BY <2>1 DEF FormInit, NoGood
  <2>. HIDE DEF NoDraft
  <2>5. DOMAIN draft = Drafts /\ draft = [e \in Drafts |-> draft[e]]
    BY <2>1 DEF FormInit
  <2>. QED BY <2>2, <2>3, <2>4, <2>5 DEF ProductFormsInv, SoldIsVetted
<1>2. ProductFormsInv /\ [FormNext]_formVars => ProductFormsInv'
  <2>. SUFFICES ASSUME ProductFormsInv, [FormNext]_formVars PROVE ProductFormsInv'
    OBVIOUS
  <2>1. CASE UNCHANGED formVars
    BY <2>1 DEF formVars, ProductFormsInv, SoldIsVetted
  <2>2. ASSUME UNCHANGED <<good, draft, vettedTerms, byHand>> PROVE ProductFormsInv'
    BY <2>2 DEF ProductFormsInv, SoldIsVetted
  <2>3. ASSUME NEW there, NEW public, NEW terms, NEW discounted,
               good' = [there |-> there, public |-> public, terms |-> terms,
                        discounted |-> discounted],
               public = FALSE \/ terms = vettedTerms', Coherent(terms) \/ byHand',
               \/ UNCHANGED draft
               \/ \E e \in Drafts : draft' = [draft EXCEPT ![e] = NoDraft]
        PROVE  ProductFormsInv'
    <3>1. /\ good' = [there |-> good'.there, public |-> good'.public,
                      terms |-> good'.terms, discounted |-> good'.discounted]
          /\ good'.public = public /\ good'.terms = terms
      BY <2>3
    <3>2. /\ DOMAIN draft' = Drafts /\ draft' = [e \in Drafts |-> draft'[e]]
          /\ \A e \in Drafts : draft'[e] = draft[e] \/ draft'[e] = NoDraft
      <4>. HIDE DEF NoDraft
      <4>. QED BY <2>3 DEF ProductFormsInv
    <3>3. \A e \in Drafts : draft'[e] # NoDraft =>
            Coherent(draft'[e].terms) /\ (draft'[e].staff \/ draft'[e].public = FALSE)
      BY <3>2 DEF ProductFormsInv
    <3>4. SoldIsVetted'
      BY <2>3, <3>1 DEF SoldIsVetted, Coherent
    <3>. QED BY <3>1, <3>2, <3>3, <3>4 DEF ProductFormsInv
  <2>4. ASSUME NEW terms \in Terms, NEW wish \in Wish, CreateGood(terms, wish)
        PROVE  ProductFormsInv'
    BY <2>3, <2>4 DEF CreateGood
  <2>5. ASSUME NEW e \in Drafts, NEW payload \in Payload, NEW wish \in Wish,
               NEW staff \in BOOLEAN, BeginDraft(e, payload, wish, staff)
        PROVE  ProductFormsInv'
    <3> DEFINE row == [terms |-> Merged(payload, good.terms), discount |-> wish,
                       public |-> good.public, staff |-> staff]
    <3>1. /\ row.terms = Merged(payload, good.terms) /\ row.public = good.public
          /\ row.staff = staff
      OBVIOUS
    <3>2. /\ draft' = [draft EXCEPT ![e] = row]
          /\ Coherent(Merged(payload, good.terms)) /\ (~good.public \/ staff)
          /\ UNCHANGED <<good, vettedTerms, byHand>>
      BY <2>5 DEF BeginDraft
    <3>. HIDE DEF row
    <3>3. /\ DOMAIN draft' = Drafts /\ draft' = [x \in Drafts |-> draft'[x]]
          /\ draft'[e] = row /\ \A x \in Drafts : x # e => draft'[x] = draft[x]
      BY <3>2 DEF ProductFormsInv
    <3>4. Coherent(row.terms) /\ (row.staff \/ ~row.public)
      BY <3>1, <3>2
    <3>. QED BY <3>2, <3>3, <3>4 DEF ProductFormsInv, SoldIsVetted
  <2>6. ASSUME NEW e \in Drafts, EndDraft(e) PROVE ProductFormsInv'
    <3>1. /\ draft[e] # NoDraft /\ draft' = [draft EXCEPT ![e] = NoDraft]
          /\ good' = [there |-> TRUE, public |-> draft[e].public, terms |-> draft[e].terms,
                      discounted |-> Discounted(draft[e].discount)]
          /\ vettedTerms' = IF draft[e].staff THEN draft[e].terms ELSE vettedTerms
      BY <2>6 DEF EndDraft, WrittenDraft
    <3>2. Coherent(draft[e].terms) /\ (draft[e].staff \/ draft[e].public = FALSE)
      BY <3>1 DEF ProductFormsInv
    <3>. QED BY <2>3, <3>1, <3>2
  <2>7. ASSUME NEW payload \in Payload, NEW wish \in Wish, NEW full \in BOOLEAN,
               Propose(payload, wish, full)
        PROVE  ProductFormsInv'
    BY <2>2, <2>7 DEF Propose
  <2>8. CASE Approve
    <3>1. PICK terms : terms = Merged(proposal.payload, good.terms)
      OBVIOUS
    <3>2. /\ good' = [good EXCEPT !.terms = terms, !.discounted = proposal.discount = "some"]
          /\ vettedTerms' = terms /\ Coherent(terms) /\ UNCHANGED draft
      BY <2>8, <3>1 DEF Approve, Decided
    <3>3. good' = [there |-> good.there, public |-> good.public, terms |-> terms,
                   discounted |-> proposal.discount = "some"]
      BY <3>2 DEF ProductFormsInv
    <3>. QED BY <2>3, <3>2, <3>3
  <2>9. CASE Reject \/ OpenForm
    BY <2>2, <2>9 DEF Reject, OpenForm
  <2>10. ASSUME NEW terms \in Terms, NEW public \in BOOLEAN, NEW discounted \in BOOLEAN,
                SaveForm(terms, public, discounted)
         PROVE  ProductFormsInv'
    BY <2>3, <2>10 DEF SaveForm
  <2>. QED BY <2>1, <2>4, <2>5, <2>6, <2>7, <2>8, <2>9, <2>10 DEF FormNext
<1>. QED BY <1>1, <1>2, PTL DEF FormSpec, ProductFormsInv
=============================================================================
