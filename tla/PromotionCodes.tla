---------------------------- MODULE PromotionCodes ----------------------------
(***************************************************************************)
(* Discount codes (apps/discount) from their owner's form to their last    *)
(* use: a form is posted, and posted again by a client that heard nothing; *)
(* the code it made is switched off and on, expires and is deleted, while  *)
(* orders are priced with it, reserve a use of it and spend or return it.  *)
(* A code is made for the whole store here; CartInventory holds the rest   *)
(* of an order.                                                            *)
(***************************************************************************)
EXTENDS Naturals, FiniteSets

CONSTANTS
  Posts, Poster, Form,  \* requests to make a code: who sent them, and the
                        \* client_request_id that they carry
  Allowed,              \* Allowed[f]: the buyers whom the form f is for
  Texts,                \* what a code may read
  Baskets, BuyerOf,     \* orders
  Toggles,              \* requests that switch a code
  UseLimit,             \* Discount.limitation, 0 for none
  NoCode

ASSUME PromotionAssumption ==
  /\ DOMAIN Poster = Posts /\ DOMAIN Form = Posts
  /\ \A q \in Posts : Form[q] \in DOMAIN Allowed
  /\ IsFiniteSet(Baskets) /\ DOMAIN BuyerOf = Baskets
  /\ UseLimit \in Nat /\ NoCode \notin Texts

VARIABLES
  coupon,  \* coupon[c]: the Discount row whose code is c
  post,    \* post[q]: how far q is, and the code that it was answered with
  basket,  \* basket[o]: the order's inventory status and its code
  toggle   \* toggle[t]: the row as t read it

promotionVars == <<coupon, post, basket, toggle>>

(* No code is drawn again once its row is deleted.                         *)
CouponRow ==
  [state: {"free", "live", "deleted"}, of: Posts \cup {NoCode},
   active: BOOLEAN, expired: BOOLEAN, reserved: Nat, consumed: Nat]
NoCoupon == [state |-> "free", of |-> NoCode, active |-> FALSE,
             expired |-> FALSE, reserved |-> 0, consumed |-> 0]

PostState == [at: {"none", "looked", "answered"}, got: Texts \cup {NoCode}]

(* "priced": checked out, and nothing of it reserved.                      *)
BasketState == [at: {"open", "priced", "reserved", "confirmed", "released"},
                code: Texts \cup {NoCode}]

Reading == [code: Texts \cup {NoCode}, row: CouponRow]
NoReading == [code |-> NoCode, row |-> NoCoupon]

PromotionTypeOK ==
  /\ coupon \in [Texts -> CouponRow]
  /\ post \in [Posts -> PostState]
  /\ basket \in [Baskets -> BasketState]
  /\ toggle \in [Toggles -> Reading]

PromotionInit ==
  /\ coupon = [c \in Texts |-> NoCoupon]
  /\ post = [q \in Posts |-> [at |-> "none", got |-> NoCode]]
  /\ basket = [o \in Baskets |-> [at |-> "open", code |-> NoCode]]
  /\ toggle = [t \in Toggles |-> NoReading]

Issued == {c \in Texts : coupon[c].state = "live"}
MadeBy(q) == {c \in Issued : Form[coupon[c].of] = Form[q]}

----------------------------------------------------------------------------
(* DiscountCreateView *)

LookUp(q) ==
  /\ post[q].at = "none"
  /\ LET mine == {c \in MadeBy(q) : Poster[coupon[c].of] = Poster[q]}
     IN IF mine = {}
        THEN post' = [post EXCEPT ![q].at = "looked"]
        ELSE \E c \in mine : post' = [post EXCEPT ![q] = [at |-> "answered", got |-> c]]
  /\ UNCHANGED <<coupon, basket, toggle>>

(* The code is unique, and so is the request id, whoever sent it.          *)
Insert(q, c) ==
  /\ post[q].at = "looked"
  /\ coupon[c].state = "free" /\ MadeBy(q) = {}
  /\ coupon' = [coupon EXCEPT ![c] =
       [NoCoupon EXCEPT !.state = "live", !.of = q, !.active = TRUE]]
  /\ post' = [post EXCEPT ![q] = [at |-> "answered", got |-> c]]
  /\ UNCHANGED <<basket, toggle>>

(* All of its draws met a code, or the request id, that there is already.  *)
Unable(q) ==
  /\ post[q].at = "looked"
  /\ Issued # {}
  /\ post' = [post EXCEPT ![q].at = "answered"]
  /\ UNCHANGED <<coupon, basket, toggle>>

----------------------------------------------------------------------------
(* Its owner, and time *)

Expire(c) ==
  /\ c \in Issued /\ ~coupon[c].expired
  /\ coupon' = [coupon EXCEPT ![c].expired = TRUE]
  /\ UNCHANGED <<post, basket, toggle>>

ReadSwitch(t, c) ==
  /\ toggle[t].code = NoCode /\ c \in Issued
  /\ toggle' = [toggle EXCEPT ![t] = [code |-> c, row |-> coupon[c]]]
  /\ UNCHANGED <<coupon, post, basket>>

(* Fault: the row is saved whole. *)
WriteWholeRow(t, on) ==
  LET c == toggle[t].code IN
  /\ c # NoCode
  /\ coupon' = IF c \in Issued
               THEN [coupon EXCEPT ![c] = [toggle[t].row EXCEPT !.active = on]]
               ELSE coupon
  /\ toggle' = [toggle EXCEPT ![t] = NoReading]
  /\ UNCHANGED <<post, basket>>

(* Of the row only is_active is saved, and nothing if it is gone.          *)
WriteSwitch(t, on) ==
  LET c == toggle[t].code IN
  /\ c # NoCode
  /\ coupon' = IF c \in Issued THEN [coupon EXCEPT ![c].active = on] ELSE coupon
  /\ toggle' = [toggle EXCEPT ![t] = NoReading]
  /\ UNCHANGED <<post, basket>>

(* Orders protect the code that they are priced with.                      *)
Delete(c) ==
  /\ c \in Issued
  /\ \A o \in Baskets : basket[o].code # c
  /\ coupon' = [coupon EXCEPT ![c].state = "deleted"]
  /\ UNCHANGED <<post, basket, toggle>>

----------------------------------------------------------------------------
(* Orders: every step holds the lock of the code's row *)

Used(c, o) ==
  \E x \in Baskets \ {o} :
    /\ BuyerOf[x] = BuyerOf[o] /\ basket[x].code = c
    /\ basket[x].at \in {"reserved", "confirmed"}

(* _validate_discount, for a code of which "taken" uses count. *)
Usable(c, o, taken) ==
  /\ c \in Issued /\ coupon[c].active /\ ~coupon[c].expired
  /\ UseLimit = 0 \/ taken < UseLimit
  /\ BuyerOf[o] \in Allowed[Form[coupon[c].of]]
  /\ ~Used(c, o)

(* A checkout does not count what others have reserved.                    *)
Price(o, c) ==
  /\ basket[o].at = "open"
  /\ c # NoCode => Usable(c, o, coupon[c].consumed)
  /\ basket' = [basket EXCEPT ![o] = [at |-> "priced", code |-> c]]
  /\ UNCHANGED <<coupon, post, toggle>>

Counted(o, reserved, consumed) ==
  LET c == basket[o].code IN
  coupon' = IF c = NoCode THEN coupon
            ELSE [coupon EXCEPT ![c] =
                    [@ EXCEPT !.reserved = coupon[c].reserved + reserved - 1,
                              !.consumed = coupon[c].consumed + consumed]]

Reserve(o) ==
  LET c == basket[o].code IN
  /\ basket[o].at = "priced"
  /\ c # NoCode => Usable(c, o, coupon[c].consumed + coupon[c].reserved)
  /\ Counted(o, 2, 0)
  /\ basket' = [basket EXCEPT ![o].at = "reserved"]
  /\ UNCHANGED <<post, toggle>>

HasReservation(o) ==
  basket[o].code # NoCode => coupon[basket[o].code].reserved > 0

(* For good, or for another try to pay. *)
Release(o, terminal) ==
  /\ basket[o].at = "reserved" /\ HasReservation(o)
  /\ Counted(o, 0, 0)
  /\ basket' = [basket EXCEPT ![o].at = IF terminal THEN "released" ELSE "priced"]
  /\ UNCHANGED <<post, toggle>>

Confirm(o) ==
  /\ basket[o].at = "reserved" /\ HasReservation(o)
  /\ Counted(o, 0, 1)
  /\ basket' = [basket EXCEPT ![o].at = "confirmed"]
  /\ UNCHANGED <<post, toggle>>

PromotionNext ==
  \/ \E q \in Posts : LookUp(q) \/ Unable(q) \/ \E c \in Texts : Insert(q, c)
  \/ \E c \in Texts : Expire(c) \/ Delete(c) \/ \E t \in Toggles : ReadSwitch(t, c)
  \/ \E t \in Toggles, on \in BOOLEAN : WriteSwitch(t, on)
  \/ \E o \in Baskets :
       \/ \E c \in Texts \cup {NoCode} : Price(o, c)
       \/ Reserve(o) \/ Confirm(o)
       \/ \E terminal \in BOOLEAN : Release(o, terminal)

PromotionSpec == PromotionInit /\ [][PromotionNext]_promotionVars

----------------------------------------------------------------------------
(* Properties *)

HeldAt(c, state) == {o \in Baskets : basket[o].code = c /\ basket[o].at = state}

(* Whatever its owner does to a code meanwhile, and however often the form *)
(* is posted: a form has one code, the code counts exactly the orders that *)
(* hold or spent a use of it, no more of them than its limit and one of a  *)
(* buyer, and it is there as long as one of them is (DiscountDetailView,   *)
(* DiscountDeleteView, reserve_order_inventory, confirm_order_inventory).  *)
UsesAreCounted ==
  /\ \A c, d \in Issued : Form[coupon[c].of] = Form[coupon[d].of] => c = d
  /\ \A c \in Texts :
       LET users == HeldAt(c, "reserved") \cup HeldAt(c, "confirmed") IN
       /\ coupon[c].reserved = Cardinality(HeldAt(c, "reserved"))
       /\ coupon[c].consumed = Cardinality(HeldAt(c, "confirmed"))
       /\ UseLimit = 0 \/ Cardinality(users) <= UseLimit
       /\ \A o, x \in users : BuyerOf[o] = BuyerOf[x] => o = x
       /\ users # {} => c \in Issued
=============================================================================
