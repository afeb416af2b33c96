-------------------------------- MODULE MCCart ------------------------------
(***************************************************************************)
(* What a cart draws on, in small instances: the orders themselves, the    *)
(* codes their buyers hand in, the amounts that a checkout freezes and the *)
(* forms of the products.  They share no variable: a behaviour of this     *)
(* module moves one of them, and the others stay as they begin.            *)
(* EditedSpec is the instance of the orders beside a product that is       *)
(* edited.                                                                 *)
(***************************************************************************)
EXTENDS MCOrderPayment, PromotionCodes, OrderPricing, ProductForms

CONSTANTS q1, q2, b1, b2, b3, f1, c1, c2, own, l1

(* Both requests hand in one form; the third basket is the other buyer's.  *)
MCPoster == [q \in Posts |-> own]
MCForm == [q \in Posts |-> f1]
MCAllowed == [f \in {f1} |-> {c1, c2}]
MCBuyerOf == [b \in Baskets |-> IF b = b3 THEN c2 ELSE c1]

(* A product and a listing that resells it; an order of both and one of    *)
(* the product alone.                                                      *)
MCWareOf == [i \in Items |-> p1]
MCQuantityOf ==
  [o \in Checkouts |-> [i \in Items |-> IF o = o1 \/ i = p1 THEN 1 ELSE 0]]
MCSaleTerms ==
  {[floor |-> 2, ceiling |-> 3, resold |-> TRUE, posted |-> TRUE, automatic |-> 0],
   [floor |-> 2, ceiling |-> 3, resold |-> TRUE, posted |-> FALSE, automatic |-> 50]}

VARIABLE part   \* the part that moves

besideOrders == <<promotionVars, pricingVars, formVars>>

BesideInit ==
  /\ PromotionInit /\ PricingInit /\ FormInit
  /\ part # "pricing" => /\ \A g \in Wares : ware[g].posted
                         /\ \A i \in Items : asked[i] = 2

CartsInit ==
  /\ part \in {"orders", "promotions", "pricing", "forms"}
  /\ EditInit /\ BesideInit

CartsNext ==
  /\ UNCHANGED <<part, editVars>>
  /\ \/ part = "orders" /\ Next /\ UNCHANGED besideOrders
     \/ part = "promotions" /\ PromotionNext
        /\ UNCHANGED <<vars, pricingVars, formVars>>
     \/ part = "pricing" /\ PricingNext
        /\ UNCHANGED <<vars, promotionVars, formVars>>
     \/ part = "forms" /\ FormNext
        /\ UNCHANGED <<vars, promotionVars, pricingVars>>

cartsVars == <<part, vars, editVars, besideOrders>>

CartsSpec == CartsInit /\ [][CartsNext]_cartsVars

EditedSpec ==
  /\ part = "orders" /\ EditInit /\ BesideInit
  /\ [][EditNext /\ UNCHANGED <<part, besideOrders>>]_cartsVars
=============================================================================
