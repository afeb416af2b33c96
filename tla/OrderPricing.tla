---------------------------- MODULE OrderPricing ----------------------------
(***************************************************************************)
(* What a checkout freezes (snapshot_order in apps/cart/services.py): the  *)
(* unit prices after one discount each, the seller's settlement of what is *)
(* resold, the shipping method and the total, while stores change the      *)
(* terms of their products and edit or delete their shipping methods       *)
(* (apps/market/views/owner_views.py).  SnapshotOrder holds the rows it    *)
(* reads; the requests on shipping methods hold nothing between their      *)
(* statements.  Stock and the counters of promotions are CartInventory's.  *)
(*                                                                         *)
(* Money is counted in thousandths, the quantum of the amounts.            *)
(***************************************************************************)
EXTENDS Integers, FiniteSetsExt

CONSTANTS
  Items,        \* products of one store, and affiliate listings of them
  Wares,        \* the products
  WareOf,       \* WareOf[i]: the product item i is, or resells
  Checkouts,    \* orders
  QuantityOf,   \* QuantityOf[o][i]: how many of item i order o asks for
  Methods,      \* shipping methods of the store
  MethodEdits,      \* PATCH requests on them
  MethodDeletions,  \* DELETE requests on them
  Asked,        \* bound: prices of products and listings
  Fees,         \* bound: prices of shipping methods
  Percents,     \* bound: percentages of discounts; 0 is none
  SaleTerms,    \* bound: what a product may say of selling it
  PlatformFee,  \* AFFILIATE_PLATFORM_FEE_PERCENT
  Whole         \* thousandths in one IRT: 1000

ASSUME PricingAssumption ==
  /\ Wares \subseteq Items
  /\ WareOf \in [Items -> Wares]
  /\ \A i \in Wares : WareOf[i] = i
  /\ QuantityOf \in [Checkouts -> [Items -> Nat]]
  /\ Asked \subseteq Nat /\ Fees \subseteq Nat
  /\ Percents \subseteq 0..100 /\ 0 \in Percents
  /\ SaleTerms \subseteq [floor: Asked, ceiling: Asked, resold: BOOLEAN,
                          posted: BOOLEAN, automatic: Percents]
  /\ \A t \in SaleTerms : t.resold => t.floor <= t.ceiling
  /\ PlatformFee \in 0..100
  /\ Whole \in Nat \ {0}

VARIABLES
  ware,       \* ware[g]: what Product says of selling g: floor and ceiling
              \* are marketer_price and maximum_sell_price, posted that the
              \* store ships it, automatic its ProductDiscount in force
  asked,      \* asked[i]: main_price of a product, price of a listing
  method,     \* method[s]: MarketShippingMethod, or NoMethod
  editing,    \* editing[e]: the row a PATCH read, to save
  deleting,   \* deleting[x]: what a DELETE found
  bill        \* bill[o]: what order o froze

pricingVars == <<ware, asked, method, editing, deleting, bill>>

MethodRow == [price: Fees, active: BOOLEAN]
NoMethod == [price |-> 0, active |-> FALSE, gone |-> TRUE]
None == "none"
NotEditing == [on |-> None, row |-> NoMethod]
NotDeleting == [on |-> None, soft |-> FALSE]
(* via: its shipping method, and posted what that costs; the lines hold    *)
(* the snapshots of its items.                                             *)
NoBill == [placed |-> FALSE, via |-> None, posted |-> 0, payable |-> 0]

PricingInit ==
  /\ ware \in [Wares -> SaleTerms]
  /\ asked \in [Items -> Asked]
  /\ method = [s \in Methods |-> NoMethod]
  /\ editing = [e \in MethodEdits |-> NotEditing]
  /\ deleting = [x \in MethodDeletions |-> NotDeleting]
  /\ bill = [o \in Checkouts |-> NoBill]

----------------------------------------------------------------------------
(* snapshot_order *)

(* _quantize: to the thousandth, halves up. *)
Part(amount, percent) == (amount * percent + 50) \div 100

ItemsOf(o) == {i \in Items : QuantityOf[o][i] > 0}
Resold(i) == i \notin Wares

(* validate_catalog_target, of what is resold. *)
Sellable(i) ==
  Resold(i) => LET g == ware[WareOf[i]]
               IN g.resold /\ g.floor <= asked[i] /\ asked[i] <= g.ceiling

(* Discounts never stack: the larger one is taken, and of equals the code. *)
Discount(i, code) ==
  LET automatic == ware[WareOf[i]].automatic
  IN IF automatic > code THEN automatic ELSE code

UnitPrice(i, code) == Part(asked[i], 100 - Discount(i, code))

(* Fault: a code may sell below what the seller is to get. *)
SettledUnchecked(i, code) == TRUE

(* The seller of what is resold gets the agreed price whatever is taken    *)
(* off.                                                                    *)
Settled(i, code) ==
  Resold(i) => UnitPrice(i, code) >= ware[WareOf[i]].floor

Line(o, i, code) ==
  LET unit == UnitPrice(i, code)
      settlement == IF Resold(i) THEN ware[WareOf[i]].floor ELSE unit
  IN [quantity |-> QuantityOf[o][i], asked |-> asked[i], unit |-> unit,
      settlement |-> settlement, gross |-> unit - settlement,
      fee |-> Part(unit - settlement, PlatformFee)]

BillLines(o, code) == [i \in ItemsOf(o) |-> Line(o, i, code)]
Owed(lines) ==
  MapThenSumSet(LAMBDA i : lines[i].unit * lines[i].quantity, DOMAIN lines)

NeedsPost(o) == \E i \in ItemsOf(o) : ware[WareOf[i]].posted

(* An order that is shipped names one active method of the store, locked;  *)
(* one that is not names none.                                             *)
Ships(o, s) ==
  IF NeedsPost(o) THEN s \in Methods /\ method[s].active ELSE s = None

SnapshotOrder(o, code, s, online) ==
  LET lines == BillLines(o, code)
      posted == IF s = None THEN 0 ELSE method[s].price
      payable == Owed(lines) + posted
  IN /\ ~bill[o].placed
     /\ \A i \in ItemsOf(o) : Sellable(i) /\ Settled(i, code)
     /\ Ships(o, s)
     /\ payable > 0
     /\ online => payable % Whole = 0
     /\ bill' = [bill EXCEPT ![o] =
          [placed |-> TRUE, via |-> s, posted |-> posted, payable |-> payable,
           lines |-> lines, paid |-> FALSE]]
     /\ UNCHANGED <<ware, asked, method, editing, deleting>>

(* reserve_order_inventory: the payment that comes later compares the      *)
(* total with the items again.                                             *)
ReserveBill(o) ==
  /\ bill[o].placed /\ ~bill[o].paid
  /\ Owed(bill[o].lines) + bill[o].posted = bill[o].payable
  /\ bill' = [bill EXCEPT ![o].paid = TRUE]
  /\ UNCHANGED <<ware, asked, method, editing, deleting>>

----------------------------------------------------------------------------
(* The store's terms: an approved revision of the product, a new price of  *)
(* a listing.  Neither looks at the other.                                 *)
ChangeGood(g, row) ==
  /\ ware' = [ware EXCEPT ![g] = row]
  /\ UNCHANGED <<asked, method, editing, deleting, bill>>

Reprice(i, price) ==
  /\ asked' = [asked EXCEPT ![i] = price]
  /\ UNCHANGED <<ware, method, editing, deleting, bill>>

----------------------------------------------------------------------------
(* MarketShippingMethodListCreateAPIView, MarketShippingMethodDetailAPIView *)

MethodExists(s) == method[s] # NoMethod
Named(s) == \E o \in Checkouts : bill[o].placed /\ bill[o].via = s
WriteMethod(s, row) == method' = [method EXCEPT ![s] = row]

CreateMethod(s, price) ==
  /\ ~MethodExists(s) /\ ~Named(s)
  /\ WriteMethod(s, [price |-> price, active |-> TRUE])
  /\ UNCHANGED <<ware, asked, editing, deleting, bill>>

BeginMethodEdit(e, s) ==
  /\ editing[e] = NotEditing
  /\ MethodExists(s)
  /\ editing' = [editing EXCEPT ![e] = [on |-> s, row |-> method[s]]]
  /\ UNCHANGED <<ware, asked, method, deleting, bill>>

(* save() writes the row as it was read but for what was given, and        *)
(* inserts it again if it is gone.                                         *)
EndMethodEdit(e) ==
  LET read == editing[e].row
  IN /\ editing[e] # NotEditing
     /\ \/ \E price \in Fees :
             WriteMethod(editing[e].on, [read EXCEPT !.price = price])
        \/ \E active \in BOOLEAN :
             WriteMethod(editing[e].on, [read EXCEPT !.active = active])
     /\ editing' = [editing EXCEPT ![e] = NotEditing]
     /\ UNCHANGED <<ware, asked, deleting, bill>>

(* method.orders.exists() *)
BeginMethodDelete(x, s) ==
  /\ deleting[x] = NotDeleting
  /\ MethodExists(s)
  /\ deleting' = [deleting EXCEPT ![x] = [on |-> s, soft |-> Named(s)]]
  /\ UNCHANGED <<ware, asked, method, editing, bill>>

(* Fault: the foreign key of the order does not protect the row. *)
EndMethodDeleteAnyway(x) ==
  LET s == deleting[x].on
  IN /\ deleting[x] # NotDeleting
     /\ WriteMethod(s, IF deleting[x].soft THEN [method[s] EXCEPT !.active = FALSE]
                                           ELSE NoMethod)
     /\ deleting' = [deleting EXCEPT ![x] = NotDeleting]
     /\ UNCHANGED <<ware, asked, editing, bill>>

(* One that an order named is switched off.  Another is deleted, unless an *)
(* order names it by now: on_delete=PROTECT.                               *)
EndMethodDelete(x) ==
  LET s == deleting[x].on
  IN /\ deleting[x] # NotDeleting
     /\ \/ /\ deleting[x].soft /\ MethodExists(s)
           /\ WriteMethod(s, [method[s] EXCEPT !.active = FALSE])
        \/ /\ ~deleting[x].soft /\ ~Named(s)
           /\ WriteMethod(s, NoMethod)
        \/ /\ IF deleting[x].soft THEN ~MethodExists(s) ELSE Named(s)
           /\ UNCHANGED method
     /\ deleting' = [deleting EXCEPT ![x] = NotDeleting]
     /\ UNCHANGED <<ware, asked, editing, bill>>

----------------------------------------------------------------------------
PricingNext ==
  \/ \E o \in Checkouts :
       \/ \E code \in Percents, s \in Methods \cup {None}, online \in BOOLEAN :
            SnapshotOrder(o, code, s, online)
       \/ ReserveBill(o)
  \/ \E g \in Wares, row \in SaleTerms : ChangeGood(g, row)
  \/ \E i \in Items, price \in Asked : Reprice(i, price)
  \/ \E s \in Methods :
       \/ \E price \in Fees : CreateMethod(s, price)
       \/ \E e \in MethodEdits : BeginMethodEdit(e, s)
       \/ \E x \in MethodDeletions : BeginMethodDelete(x, s)
  \/ \E e \in MethodEdits : EndMethodEdit(e)
  \/ \E x \in MethodDeletions : EndMethodDelete(x)

PricingSpec == PricingInit /\ [][PricingNext]_pricingVars

----------------------------------------------------------------------------
PricingTypeOK ==
  /\ ware \in [Wares -> SaleTerms]
  /\ asked \in [Items -> Asked]
  /\ method \in [Methods -> MethodRow \cup {NoMethod}]
  /\ \A e \in MethodEdits : editing[e].on \in Methods \cup {None}
  /\ \A x \in MethodDeletions : deleting[x].soft \in BOOLEAN
  /\ \A o \in Checkouts : bill[o].payable \in Nat

(* What a placed order says stands.  Its total is its lines and its        *)
(* shipping, so that the payment that compares them again never finds it   *)
(* changed; of what is resold the seller gets the agreed price, and the    *)
(* reseller and the platform share only what is left; no line costs more   *)
(* than was asked; and the method it is shipped by is still there to be    *)
(* named, whatever requests on shipping methods were under way.            *)
BillStands ==
  \A o \in Checkouts : bill[o].placed =>
    LET b == bill[o]
    IN /\ b.payable = Owed(b.lines) + b.posted
       /\ b.via # None => MethodExists(b.via)
       /\ \A i \in DOMAIN b.lines :
            LET l == b.lines[i]
            IN /\ l.unit <= l.asked
               /\ l.gross >= 0 /\ l.fee <= l.gross
               /\ l.unit = l.settlement + l.gross
=============================================================================
