--------------------------- MODULE CartInventory ---------------------------
(***************************************************************************)
(* Carts, placed orders, the stock of the products they draw on, and the   *)
(* promotions (discount codes and group product discounts) they use: the   *)
(* rows of apps/cart/models.py and the transactions of                     *)
(* apps/cart/services.py, apps/cart/views/user.py and                      *)
(* apps/cart/views/owner.py.                                               *)
(*                                                                         *)
(* Every handler runs in one database transaction holding the row locks it *)
(* needs, so it is one action here.  A handler that refuses rolls back and *)
(* is not an action.  The reserve / release / confirm functions are used   *)
(* by several handlers, some of which call two of them in one transaction; *)
(* they are operators on the value of a variable, composed by the actions. *)
(*                                                                         *)
(* Prices are abstracted to the frozen amount of an order: which discount  *)
(* wins and what it is worth is data no property here tells apart.         *)
(***************************************************************************)
EXTENDS Integers, FiniteSets

CONSTANTS
  Orders,      \* identities of order rows
  Users,       \* customers
  Buyer,       \* Buyer[o]: the customer whose row o is
  Products,    \* seller products: the rows that own stock
  Listings,    \* what can be put in a cart: products and affiliate products
  Affiliates,  \* the listings that are affiliate products
  Source,      \* Source[l]: the product whose stock listing l draws on
  Seller,      \* Seller[p]: the market that fulfils product p
  MaxQty,      \* bound: units of one listing in one order
  Supply,      \* Supply[p]: the stock of product p at the start
  Promotions,  \* discount codes and group product discounts
  Codes,       \* the promotions that are discount codes
  Covers,      \* Covers[d]: the products promotion d applies to
  Eligible,    \* Eligible[d]: the customers promotion d is open to
  Limit,       \* Limit[d]: how many orders may use d; 0 = no limit (codes only)
  Amounts      \* bound: the payable totals an order may freeze

ASSUME CartAssumption ==
  /\ IsFiniteSet(Orders) /\ IsFiniteSet(Listings) /\ IsFiniteSet(Promotions)
  /\ Buyer \in [Orders -> Users]
  /\ Affiliates \subseteq Listings
  /\ Source \in [Listings -> Products]
  /\ MaxQty \in Nat
  /\ Supply \in [Products -> Nat]
  /\ Codes \subseteq Promotions
  /\ Covers \in [Promotions -> SUBSET Products]
  /\ Eligible \in [Promotions -> SUBSET Users]
  /\ Limit \in [Promotions -> Nat]
  /\ Amounts \subseteq Nat \ {0}

VARIABLES
  order,      \* order[o]: the order row o and its items
  stock,      \* stock[p]: Product.stock
  promotion,  \* promotion[d]: the counters of a Discount / ProductDiscount row
  offered     \* the listings that are published in a published market

cartVars == <<order, stock, promotion, offered>>

----------------------------------------------------------------------------
(* The rows *)

OrderStatus == {"absent", "draft", "pending", "verified", "rejected",
                "processing", "completed", "failed"}
InventoryStatus == {"none", "reserved", "confirmed", "released"}
OrderType == {"online", "cash"}

Basket == [Listings -> 0..MaxQty]
EmptyBasket == [l \in Listings |-> 0]
NoAmount == 0

(* "basket" is the order's items; "priced" the basket its unit prices were *)
(* frozen for; "payable" the frozen total; "applied" the promotions the    *)
(* frozen prices use (Order.discount and the items' product_discount).     *)
OrderRow == [status: OrderStatus, type: OrderType, paid: BOOLEAN,
             inventory: InventoryStatus, basket: Basket, priced: Basket,
             payable: Amounts \cup {NoAmount}, applied: SUBSET Promotions]

NoOrder == [status |-> "absent", type |-> "online", paid |-> FALSE,
            inventory |-> "none", basket |-> EmptyBasket,
            priced |-> EmptyBasket, payable |-> NoAmount, applied |-> {}]

PromotionRow == [active: BOOLEAN, reserved: Nat, consumed: Nat,
                 users: SUBSET Users]

CartTypeOK ==
  /\ order \in [Orders -> OrderRow]
  /\ stock \in [Products -> Int]
  /\ promotion \in [Promotions -> PromotionRow]
  /\ offered \subseteq Listings

CartInit ==
  /\ order = [o \in Orders |-> NoOrder]
  /\ stock = Supply
  /\ promotion = [d \in Promotions |->
       [active |-> TRUE, reserved |-> 0, consumed |-> 0, users |-> {}]]
  /\ offered = Listings

----------------------------------------------------------------------------
(* Quantities: an order's demand for a product is the number of units it   *)
(* asks for through any of the product's listings.                         *)

InBasket(b) == {l \in Listings : b[l] > 0}

Units(o, b, p) ==
  {o} \X {u \in Listings \X (1..MaxQty) : Source[u[1]] = p /\ u[2] <= b[u[1]]}

Demand(o, b, p) == Cardinality(Units(o, b, p))

OneSeller(b) ==
  \A k, l \in InBasket(b) : Seller[Source[k]] = Seller[Source[l]]

(* _validate_items *)
ValidItems(o, b) ==
  /\ InBasket(b) # {}
  /\ OneSeller(b)
  /\ InBasket(b) \subseteq offered
  /\ \A p \in Products : Demand(o, b, p) <= stock[p]

----------------------------------------------------------------------------
(* Promotions *)

Applies(d, b) == \E l \in InBasket(b) : Source[l] \in Covers[d]

SameBuyer(o) == {x \in Orders \ {o} : Buyer[x] = Buyer[o]}

(* Fault: only paid orders count as a use, not those still being paid. *)
UsedIfPaid(d, o) ==
  \E x \in SameBuyer(o) : d \in order[x].applied /\ order[x].paid

UsedBefore(d, o) ==
  \E x \in SameBuyer(o) :
    /\ d \in order[x].applied
    /\ order[x].paid \/ order[x].inventory \in {"reserved", "confirmed"}

BelowLimit(d, used) == Limit[d] = 0 \/ used < Limit[d]

(* _validate_discount; "used" leaves out the reservations when a checkout  *)
(* prices an order and counts them when a payment reserves it.             *)
ValidCode(c, o, b, used) ==
  /\ promotion[c].active
  /\ BelowLimit(c, used)
  /\ Buyer[o] \in Eligible[c]
  /\ Applies(c, b)
  /\ ~UsedBefore(c, o)

GroupHasRoom(g) == promotion[g].consumed + promotion[g].reserved < Limit[g]

(* _automatic_discounts: what a checkout may pick *)
OfferedGroup(g, o, b) ==
  /\ promotion[g].active
  /\ GroupHasRoom(g)
  /\ Buyer[o] \notin promotion[g].users
  /\ Applies(g, b)

(* _validate_automatic_discount: what a reservation checks again *)
ValidGroup(g, o) ==
  /\ promotion[g].active
  /\ Buyer[o] \notin promotion[g].users
  /\ \A x \in SameBuyer(o) :
       ~(g \in order[x].applied /\ order[x].inventory = "reserved")
  /\ GroupHasRoom(g)

(* The sets of promotions a checkout may end up with: at most one code,    *)
(* which must be valid when given, and one automatic discount per product. *)
SnapshotChoices(o, b, codes) ==
  {ds \in SUBSET Promotions :
     /\ Cardinality(ds \cap Codes) <= 1
     /\ \A d \in ds : IF d \in Codes
                      THEN d \in codes /\ ValidCode(d, o, b, promotion[d].consumed)
                      ELSE OfferedGroup(d, o, b)
     /\ \A g, h \in ds \ Codes : Covers[g] \cap Covers[h] # {} => g = h}

CanTakeSlots(o) ==
  \A d \in order[o].applied :
    IF d \in Codes
    THEN ValidCode(d, o, order[o].basket, promotion[d].consumed + promotion[d].reserved)
    ELSE ValidGroup(d, o)

TakeSlots(pr, o) ==
  [d \in Promotions |-> IF d \in order[o].applied
                        THEN [pr[d] EXCEPT !.reserved = @ + 1] ELSE pr[d]]
ReturnSlots(pr, o) ==
  [d \in Promotions |-> IF d \in order[o].applied
                        THEN [pr[d] EXCEPT !.reserved = @ - 1] ELSE pr[d]]

(* Fault: the confirmation consumes a slot and keeps the reserved one. *)
SpendAndKeepSlots(pr, o) ==
  [d \in Promotions |-> IF d \in order[o].applied
                        THEN [pr[d] EXCEPT !.consumed = @ + 1] ELSE pr[d]]

SpendSlots(pr, o) ==
  [d \in Promotions |->
     IF d \in order[o].applied
     THEN [pr[d] EXCEPT !.reserved = @ - 1, !.consumed = @ + 1,
                        !.users = IF d \in Codes THEN @ ELSE @ \cup {Buyer[o]}]
     ELSE pr[d]]

HasSlots(o) == \A d \in order[o].applied : promotion[d].reserved >= 1

TakeUnits(st, o) == [p \in Products |-> st[p] - Demand(o, order[o].basket, p)]
ReturnUnits(st, o) == [p \in Products |-> st[p] + Demand(o, order[o].basket, p)]

(* Fault: the stock is not looked at again after the checkout. *)
ReservableUnchecked(o) ==
  /\ order[o].inventory = "none"
  /\ order[o].status \in {"pending", "verified"}
  /\ order[o].priced = order[o].basket
  /\ CanTakeSlots(o)

(* reserve_order_inventory on an order that holds nothing yet *)
Reservable(o) ==
  /\ order[o].inventory = "none"
  /\ order[o].status \in {"pending", "verified"}
  /\ ValidItems(o, order[o].basket)
  /\ order[o].priced = order[o].basket
  /\ CanTakeSlots(o)

(* release_order_inventory and confirm_order_inventory on an order that    *)
(* holds a reservation; release changes nothing on any other order.        *)
Releasable(o) == order[o].inventory = "reserved" => HasSlots(o)
StockAfterRelease(o) ==
  IF order[o].inventory = "reserved" THEN ReturnUnits(stock, o) ELSE stock
PromotionAfterRelease(o) ==
  IF order[o].inventory = "reserved" THEN ReturnSlots(promotion, o) ELSE promotion
InventoryAfterRelease(o) ==
  IF order[o].inventory = "reserved" THEN "released" ELSE order[o].inventory

Confirmable(o) == order[o].inventory = "reserved" /\ HasSlots(o)

----------------------------------------------------------------------------
(* The cart: at most one draft per customer, edited under the customer's   *)
(* row lock.  Every edit clears the prices frozen so far.                  *)

HasDraft(u) == \E o \in Orders : Buyer[o] = u /\ order[o].status = "draft"

CartOf(o) == \/ order[o].status = "draft"
             \/ order[o].status = "absent" /\ ~HasDraft(Buyer[o])

Edited(o, b) == [order[o] EXCEPT !.status = "draft", !.basket = b,
                                 !.priced = EmptyBasket, !.payable = NoAmount,
                                 !.applied = {}]

OpenCart(o) ==
  /\ order[o].status = "absent" /\ CartOf(o)
  /\ order' = [order EXCEPT ![o] = [NoOrder EXCEPT !.status = "draft"]]
  /\ UNCHANGED <<stock, promotion, offered>>

AddItem(o, l, n) ==
  LET b == order[o].basket
      others == InBasket(b) \ {l}
  IN /\ CartOf(o)
     /\ l \in offered
     /\ others # {} => \E k \in others : Seller[Source[k]] = Seller[Source[l]]
     /\ b[l] + n <= stock[Source[l]]
     /\ b[l] + n <= MaxQty
     /\ order' = [order EXCEPT ![o] = Edited(o, [b EXCEPT ![l] = @ + n])]
     /\ UNCHANGED <<stock, promotion, offered>>

(* An affiliate product is compared with its own stock field, which        *)
(* nothing decrements, not with the source's.                              *)
UpdateItem(o, l, n) ==
  /\ order[o].status = "draft"
  /\ order[o].basket[l] > 0
  /\ l \in offered
  /\ l \in Affiliates \/ n <= stock[Source[l]]
  /\ order' = [order EXCEPT ![o] = Edited(o, [order[o].basket EXCEPT ![l] = n])]
  /\ UNCHANGED <<stock, promotion, offered>>

RemoveItem(o, l) ==
  /\ order[o].status = "draft"
  /\ order[o].basket[l] > 0
  /\ order' = [order EXCEPT ![o] = Edited(o, [order[o].basket EXCEPT ![l] = 0])]
  /\ UNCHANGED <<stock, promotion, offered>>

(* Fault: an order that is being paid can be edited. *)
ReplaceUnpaidItems(o, b, t) ==
  /\ order[o].status # "absent" /\ ~order[o].paid
  /\ order' = [order EXCEPT ![o].basket = b, ![o].type = t]
  /\ UNCHANGED <<stock, promotion, offered>>

(* OrderUpdateView replaces the items without looking at stock or sellers. *)
Replaced(o, b, t) == [Edited(o, b) EXCEPT !.type = t]

ReplaceItems(o, b, t) ==
  /\ order[o].status = "draft"
  /\ order' = [order EXCEPT ![o] = Replaced(o, b, t)]
  /\ UNCHANGED <<stock, promotion, offered>>

DeleteDraft(o) ==
  /\ order[o].status = "draft"
  /\ order' = [order EXCEPT ![o] = NoOrder]
  /\ UNCHANGED <<stock, promotion, offered>>

(* snapshot_order, then PENDING *)
Placed(o, b, t, ds, a) ==
  [order[o] EXCEPT !.status = "pending", !.type = t, !.basket = b,
                   !.priced = b, !.payable = a, !.applied = ds]

Checkout(o, t, ds, a) ==
  /\ order[o].status = "draft"
  /\ ValidItems(o, order[o].basket)
  /\ ds \in SnapshotChoices(o, order[o].basket, Codes)
  /\ order' = [order EXCEPT ![o] = Placed(o, order[o].basket, t, ds, a)]
  /\ UNCHANGED <<stock, promotion, offered>>

(* OrderCreateView: a draft, its items and its snapshot in one transaction *)
(* (no code can be given); the unique draft per customer refuses it while  *)
(* a cart is open.                                                         *)
PlaceOrder(o, b, t, ds, a) ==
  /\ order[o].status = "absent" /\ CartOf(o)
  /\ ValidItems(o, b)
  /\ ds \in SnapshotChoices(o, b, {})
  /\ order' = [order EXCEPT ![o] = Placed(o, b, t, ds, a)]
  /\ UNCHANGED <<stock, promotion, offered>>

----------------------------------------------------------------------------
(* The seller's decision on a placed order (OrderVerifyView) *)

VerifyOrder(o) ==
  /\ order[o].status = "pending" /\ order[o].type = "online"
  /\ order' = [order EXCEPT ![o].status = "verified"]
  /\ UNCHANGED <<stock, promotion, offered>>

RejectOrder(o) ==
  /\ order[o].status = "pending"
  /\ Releasable(o)
  /\ stock' = StockAfterRelease(o)
  /\ promotion' = PromotionAfterRelease(o)
  /\ order' = [order EXCEPT ![o].status = "rejected",
                            ![o].inventory = InventoryAfterRelease(o)]
  /\ UNCHANGED offered

AcceptCashOrder(o) ==
  /\ order[o].status = "pending" /\ order[o].type = "cash"
  /\ Reservable(o)
  /\ stock' = TakeUnits(stock, o)
  /\ promotion' = SpendSlots(TakeSlots(promotion, o), o)
  /\ order' = [order EXCEPT ![o].status = "completed", ![o].paid = TRUE,
                            ![o].inventory = "confirmed"]
  /\ UNCHANGED offered

----------------------------------------------------------------------------
(* The catalogue around the carts: a listing is withdrawn or republished,  *)
(* a promotion expires or is switched off; the owner of a code may switch  *)
(* it on again.                                                            *)

Withdraw(l) ==
  /\ l \in offered
  /\ offered' = offered \ {l}
  /\ UNCHANGED <<order, stock, promotion>>

Publish(l) ==
  /\ l \notin offered
  /\ offered' = offered \cup {l}
  /\ UNCHANGED <<order, stock, promotion>>

SwitchPromotion(d) ==
  /\ d \in Codes \/ promotion[d].active
  /\ promotion' = [promotion EXCEPT ![d].active = ~@]
  /\ UNCHANGED <<order, stock, offered>>

----------------------------------------------------------------------------

(* The actions of carts, sellers and the catalogue, without payments. *)
CartNext ==
  \/ \E o \in Orders :
       \/ OpenCart(o) \/ DeleteDraft(o)
       \/ VerifyOrder(o) \/ RejectOrder(o) \/ AcceptCashOrder(o)
       \/ \E l \in Listings :
            \/ RemoveItem(o, l)
            \/ \E n \in 1..MaxQty : AddItem(o, l, n) \/ UpdateItem(o, l, n)
       \/ \E t \in OrderType :
            \/ \E b \in Basket : ReplaceItems(o, b, t)
            \/ \E ds \in SUBSET Promotions, a \in Amounts :
                 \/ Checkout(o, t, ds, a)
                 \/ \E b \in Basket : PlaceOrder(o, b, t, ds, a)
  \/ \E l \in Listings : Withdraw(l) \/ Publish(l)
  \/ \E d \in Promotions : SwitchPromotion(d)
=============================================================================
