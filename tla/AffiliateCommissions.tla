------------------------ MODULE AffiliateCommissions ------------------------
(***************************************************************************)
(* What a sale through affiliates earns: the ledger of commissions of      *)
(* apps/affiliate/services.py, driven by payment, delivery and return of   *)
(* orders (apps/cart/views), and the payouts that the two sides of a       *)
(* commission request (apps/affiliate/views/finance.py).                   *)
(*                                                                         *)
(* Neither side of a commission ever becomes "paid": the form that staff   *)
(* see (AffiliatePayoutAdmin) has read-only fields only, so that no payout *)
(* leaves the status it was requested in.                                  *)
(***************************************************************************)
EXTENDS Integers, Sequences, FiniteSets, FiniteSetsExt

CONSTANTS
  Orders,       \* orders with affiliate items
  Items,        \* their affiliate items: at most one commission for each
  OrderOf,      \* OrderOf[i]: the order of item i
  Users,
  Party,        \* Party[role][i]: who earns that side of item i
  Share,        \* Share[role][i]: what that side of item i earns
  Approved,     \* users with an approved profile and an IBAN
  Requests,     \* bound: the amounts that are asked for
  MaxPayouts    \* bound: payout requests that are accepted

Roles == {"marketer", "seller"}

ASSUME AffiliateAssumption ==
  /\ IsFiniteSet(Items)
  /\ OrderOf \in [Items -> Orders]
  /\ Party \in [Roles -> [Items -> Users]]
  /\ Share \in [Roles -> [Items -> Nat]]
  /\ Approved \subseteq Users
  /\ Requests \subseteq Nat \ {0}
  /\ MaxPayouts \in Nat

VARIABLES
  parcel,  \* parcel[o]: "unpaid", or fulfillment_status of the paid order
  row,     \* row[i]: the AffiliateCommission of item i
  ledger,  \* the items that have a commission, by its created_at
  payouts  \* the AffiliatePayout rows, in the order of their creation

vars == <<parcel, row, ledger, payouts>>

ParcelStatus ==
  {"unpaid", "unfulfilled", "preparing", "shipped", "delivered", "returned"}

(* side: status and seller_status; hold: available_at, which is the same   *)
(* for both sides: not set, in the future or in the past.                  *)
RowType == [side: [Roles -> {"absent", "held", "available", "reversed"}],
            hold: {"unset", "running", "over"}]

PayoutType ==
  [user: Users, role: Roles, amount: Requests, items: SUBSET Items]

TypeOK ==
  /\ parcel \in [Orders -> ParcelStatus]
  /\ row \in [Items -> RowType]
  /\ ledger \in Seq(Items)
  /\ payouts \in Seq(PayoutType)

Both(s) == [role \in Roles |-> s]

Init ==
  /\ parcel = [o \in Orders |-> "unpaid"]
  /\ row = [i \in Items |-> [side |-> Both("absent"), hold |-> "unset"]]
  /\ ledger = <<>>
  /\ payouts = <<>>

----------------------------------------------------------------------------
(* The order's life *)

(* The commissions of an order are created one by one, in any order.       *)
Recorded(o) ==
  LET items == {i \in Items : OrderOf[i] = o}
  IN {new \in [1..Cardinality(items) -> items] : {new[n] : n \in DOMAIN new} = items}

(* accrue_order_commissions, in the transaction that marks the order paid  *)
OrderPaid(o) ==
  /\ parcel[o] = "unpaid"
  /\ parcel' = [parcel EXCEPT ![o] = "unfulfilled"]
  /\ ledger' \in {ledger \o new : new \in Recorded(o)}
  /\ row' = [i \in Items |-> IF OrderOf[i] = o
                             THEN [side |-> Both("held"), hold |-> "unset"]
                             ELSE row[i]]
  /\ UNCHANGED payouts

(* OrderFulfillmentView, towards the customer *)
Fulfil(o) ==
  /\ \/ parcel[o] = "unfulfilled" /\ parcel' = [parcel EXCEPT ![o] = "preparing"]
     \/ parcel[o] = "preparing" /\ parcel' = [parcel EXCEPT ![o] = "shipped"]
  /\ UNCHANGED <<row, ledger, payouts>>

(* schedule_order_commissions *)
ScheduledRow(r) ==
  IF r.side["marketer"] = "held" THEN [side |-> r.side, hold |-> "running"] ELSE r

(* OrderDeliveryConfirmView *)
ConfirmDelivery(o) ==
  /\ parcel[o] = "shipped"
  /\ parcel' = [parcel EXCEPT ![o] = "delivered"]
  /\ row' = [i \in Items |-> IF OrderOf[i] = o THEN ScheduledRow(row[i]) ELSE row[i]]
  /\ UNCHANGED <<ledger, payouts>>

(* Fault: only commissions that are still held are reversed. *)
ReversedIfHeld(r) ==
  [side |-> [role \in Roles |-> IF r.side[role] = "held"
                                 THEN "reversed" ELSE r.side[role]],
   hold |-> r.hold]

(* reverse_order_commissions *)
ReversedRow(r) == [side |-> Both("reversed"), hold |-> r.hold]

(* OrderFulfillmentView, back: at any time after the order was shipped     *)
ReturnOrder(o) ==
  /\ parcel[o] \in {"shipped", "delivered"}
  /\ parcel' = [parcel EXCEPT ![o] = "returned"]
  /\ row' = [i \in Items |-> IF OrderOf[i] = o THEN ReversedRow(row[i]) ELSE row[i]]
  /\ UNCHANGED <<ledger, payouts>>

(* The clock passes available_at of the order's commissions.               *)
HoldElapses(o) ==
  /\ \E i \in Items : OrderOf[i] = o /\ row[i].hold = "running"
  /\ row' = [i \in Items |-> IF OrderOf[i] = o /\ row[i].hold = "running"
                             THEN [side |-> row[i].side, hold |-> "over"] ELSE row[i]]
  /\ UNCHANGED <<parcel, ledger, payouts>>

----------------------------------------------------------------------------
(* release_due_commissions(u) *)

Due(i, role) == row[i].side[role] = "held" /\ row[i].hold = "over"

(* Fault: every held commission is released, its hold over or not. *)
ReleasedEarly(u) ==
  [i \in Items |->
     [side |-> [role \in Roles |-> IF Party[role][i] = u /\ row[i].side[role] = "held"
                                    THEN "available" ELSE row[i].side[role]],
      hold |-> row[i].hold]]

Released(u) ==
  [i \in Items |->
     [side |-> [role \in Roles |-> IF Party[role][i] = u /\ Due(i, role)
                                    THEN "available" ELSE row[i].side[role]],
      hold |-> row[i].hold]]

(* AffiliateFinanceView: looking at one's earnings releases them.          *)
ViewEarnings(u) ==
  /\ row' = Released(u)
  /\ UNCHANGED <<parcel, ledger, payouts>>

----------------------------------------------------------------------------
(* AffiliatePayoutRequestView *)

InPayout(i, role) ==
  \E n \in DOMAIN payouts : payouts[n].role = role /\ i \in payouts[n].items

(* Fault: commissions in earlier requests are not excluded. *)
PayableAgain(u, role) ==
  {i \in Items : Party[role][i] = u /\ Released(u)[i].side[role] = "available"}

Payable(u, role) ==
  {i \in Items : /\ Party[role][i] = u
                 /\ Released(u)[i].side[role] = "available"
                 /\ ~InPayout(i, role)}

Worth(role, chosen) == MapThenSumSet(LAMBDA i : Share[role][i], chosen)

Older(i) ==
  {ledger[n] : n \in {k \in DOMAIN ledger : \E l \in DOMAIN ledger : k < l /\ ledger[l] = i}}

(* The oldest commissions that still fit are taken, one after the other,   *)
(* until their sum is the amount.                                          *)
Greedy(chosen, u, role, amount) ==
  \A i \in Payable(u, role) :
    LET sum == Worth(role, chosen \cap Older(i))
    IN i \in chosen <=> sum # amount /\ sum + Share[role][i] <= amount

(* Fault: a sum that falls short of the amount is accepted. *)
FitsWithin(chosen, role, amount) == chosen # {}

Fits(chosen, role, amount) == Worth(role, chosen) = amount

(* The profile row is locked throughout: two requests of one user queue.   *)
(* A refusal keeps what was released.                                      *)
RequestPayout(u, role, amount) ==
  /\ u \in Approved
  /\ row' = Released(u)
  /\ \E chosen \in SUBSET Payable(u, role) :
       /\ Greedy(chosen, u, role, amount)
       /\ \/ /\ Fits(chosen, role, amount)
             /\ Len(payouts) < MaxPayouts
             /\ payouts' = Append(payouts, [user |-> u, role |-> role,
                                           amount |-> amount, items |-> chosen])
          \/ ~Fits(chosen, role, amount) /\ UNCHANGED payouts
  /\ UNCHANGED <<parcel, ledger>>

----------------------------------------------------------------------------
Next ==
  \/ \E o \in Orders : \/ OrderPaid(o) \/ Fulfil(o) \/ ConfirmDelivery(o)
                       \/ ReturnOrder(o) \/ HoldElapses(o)
  \/ \E u \in Users : \/ ViewEarnings(u)
                      \/ \E role \in Roles, a \in Requests : RequestPayout(u, role, a)

Spec == Init /\ [][Next]_vars
----------------------------------------------------------------------------
(* No side of a commission is in two payout requests, however the requests *)
(* of its two parties, returns and releases interleave, and each request   *)
(* is made by the party that side belongs to.                              *)
PaidOutOnce ==
  \A n \in DOMAIN payouts :
    /\ \A i \in payouts[n].items : Party[payouts[n].role][i] = payouts[n].user
    /\ \A k \in DOMAIN payouts \ {n} :
         payouts[k].role = payouts[n].role =>
           payouts[k].items \cap payouts[n].items = {}

(* A payout is for exactly what its commissions are worth, although they   *)
(* were picked greedily and a sum that fits may be missed.                 *)
PayoutIsExact ==
  \A n \in DOMAIN payouts :
    Worth(payouts[n].role, payouts[n].items) = payouts[n].amount

(* Nothing is earned, and nothing paid out, before the order was delivered *)
(* and the time for its return has passed.                                 *)
EarnedAfterHold ==
  \A i \in Items, role \in Roles :
    row[i].side[role] = "available" \/ InPayout(i, role) =>
      /\ row[i].hold = "over"
      /\ parcel[OrderOf[i]] \in {"delivered", "returned"}

(* A return takes back both sides of every commission of the order, those  *)
(* already released included, and no later release revives one.            *)
ReturnedEarnsNothing ==
  \A i \in Items :
    parcel[OrderOf[i]] = "returned" => row[i].side = Both("reversed")
(* Payouts take each side of a commission once, and add up exactly         *)
(* (AffiliatePayoutRequestView).                                           *)
PayoutsAgree == PaidOutOnce /\ PayoutIsExact

(* What is earned follows the parcel: not before its delivery and the hold *)
(* that follows, and not for one that came back (affiliate/services.py).   *)
EarnedOnDelivery == EarnedAfterHold /\ ReturnedEarnsNothing
=============================================================================
