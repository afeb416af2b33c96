---------------------------- MODULE Affiliate_proofs --------------------------
(***************************************************************************)
(* Proofs about what a store has to offer beside its own sales, for every  *)
(* value of the constants: the commissions of affiliate sales, an          *)
(* affiliate listing, price inquiries, the shelf of its page and the forms *)
(* that its owner fills in.  Each part has its own variables.              *)
(***************************************************************************)
EXTENDS AffiliateCommissions, AffiliateListings, ProductShelf,
  OwnerForms, AccountPayments, FiniteSetTheorems, TLAPS

----------------------------------------------------------------------------
(* Commissions, for every set of orders, items and users, every division   *)
(* of the shares and every number of payouts.                              *)
(* The hold starts with the delivery: without this, EarnedAfterHold would  *)
(* not survive the end of a hold.                                          *)
HoldAfterDelivery ==
  \A i \in Items :
    row[i].hold # "unset" => parcel[OrderOf[i]] \in {"delivered", "returned"}

LedgerInv ==
  /\ TypeOK
  /\ HoldAfterDelivery
  /\ EarnedAfterHold
  /\ ReturnedEarnsNothing
  /\ PaidOutOnce
  /\ PayoutIsExact

LEMMA RecordedType ==
  ASSUME NEW o \in Orders, NEW new \in Recorded(o)
  PROVE  new \in Seq(Items)
<1> DEFINE items == {i \in Items : OrderOf[i] = o}
<1>1. IsFiniteSet(items)
  BY FS_Subset, AffiliateAssumption
<1>2. Cardinality(items) \in Nat
  BY <1>1, FS_CardinalityType
<1>3. new \in [1..Cardinality(items) -> Items]
  BY DEF Recorded
<1>4. ASSUME NEW n \in Nat, new \in [1..n -> Items] PROVE new \in Seq(Items)
  BY <1>4
<1>. QED BY <1>2, <1>3, <1>4

(* What a release does to one commission. *)
LEMMA ReleasedRow ==
  ASSUME TypeOK, NEW u
  PROVE  /\ Released(u) \in [Items -> RowType]
         /\ \A i \in Items :
              /\ Released(u)[i].hold = row[i].hold
              /\ \A role \in Roles :
                   \/ Released(u)[i].side[role] = row[i].side[role]
                   \/ /\ Released(u)[i].side[role] = "available"
                      /\ row[i].side[role] = "held"
                      /\ row[i].hold = "over"
<1>1. \A i \in Items : row[i] \in RowType
  BY DEF TypeOK
<1>2. \A i \in Items : Released(u)[i] =
        [side |-> [role \in Roles |-> IF Party[role][i] = u /\ Due(i, role)
                                       THEN "available" ELSE row[i].side[role]],
         hold |-> row[i].hold]
  BY DEF Released
<1>3. ASSUME NEW i \in Items
      PROVE  /\ Released(u)[i] \in RowType
             /\ Released(u)[i].hold = row[i].hold
             /\ \A role \in Roles :
                  \/ Released(u)[i].side[role] = row[i].side[role]
                  \/ /\ Released(u)[i].side[role] = "available"
                     /\ row[i].side[role] = "held"
                     /\ row[i].hold = "over"
  <2>1. \A role \in Roles : row[i].side[role] \in {"absent", "held", "available", "reversed"}
    BY <1>1 DEF RowType
  <2> DEFINE side == [role \in Roles |-> IF Party[role][i] = u /\ Due(i, role)
                                         THEN "available" ELSE row[i].side[role]]
  <2>2. Released(u)[i] = [side |-> side, hold |-> row[i].hold]
    BY <1>2
  <2>3. side \in [Roles -> {"absent", "held", "available", "reversed"}]
    BY <2>1
  <2>4. \A role \in Roles : side[role] = row[i].side[role] \/
          (side[role] = "available" /\ Due(i, role))
    OBVIOUS
  <2>. HIDE DEF side
  <2>5. /\ Released(u)[i].hold = row[i].hold
        /\ Released(u)[i].side = side
    BY <2>2
  <2>6. Released(u)[i] \in RowType
    BY <1>1, <2>2, <2>3 DEF RowType
  <2>. QED BY <2>4, <2>5, <2>6 DEF Due
<1>4. Released(u) = [i \in Items |-> Released(u)[i]]
  BY DEF Released
<1>. QED BY <1>3, <1>4

(* A step that only releases commissions keeps everything that does not    *)
(* speak of a new payout.                                                  *)
LEMMA ReleaseKeeps ==
  ASSUME LedgerInv, NEW u, row' = Released(u), UNCHANGED <<parcel, ledger>>
  PROVE  /\ row' \in [Items -> RowType]
         /\ HoldAfterDelivery'
         /\ ReturnedEarnsNothing'
         /\ \A i \in Items, role \in Roles :
              row[i].side[role]' = "available" =>
                row'[i].hold = "over" /\ parcel'[OrderOf[i]] \in {"delivered", "returned"}
         /\ \A i \in Items : row'[i].hold = row[i].hold
<1> USE DEF LedgerInv
<1>1. row' \in [Items -> RowType] /\ \A i \in Items : row'[i].hold = row[i].hold
  BY ReleasedRow
<1>2. HoldAfterDelivery'
  BY <1>1 DEF HoldAfterDelivery
<1>3. \A i \in Items, role \in Roles :
        row'[i].side[role] = "available" =>
          row'[i].hold = "over" /\ parcel'[OrderOf[i]] \in {"delivered", "returned"}
  <2>1. ASSUME NEW i \in Items, NEW role \in Roles, row'[i].side[role] = "available"
        PROVE  row'[i].hold = "over" /\ parcel'[OrderOf[i]] \in {"delivered", "returned"}
    <3>1. CASE row[i].side[role] = "available"
      BY <1>1, <2>1, <3>1 DEF EarnedAfterHold
    <3>2. CASE row[i].side[role] # "available"
      BY <1>1, <2>1, <3>2, ReleasedRow DEF HoldAfterDelivery
    <3>. QED BY <3>1, <3>2
  <2>. QED BY <2>1
<1>4. ReturnedEarnsNothing'
  <2>1. ASSUME NEW i \in Items, parcel'[OrderOf[i]] = "returned"
        PROVE  row'[i].side = Both("reversed")
    <3>1. row[i].side = Both("reversed")
      BY <2>1 DEF ReturnedEarnsNothing
    <3>2. \A role \in Roles : row'[i].side[role] = "reversed"
      BY <3>1, ReleasedRow DEF Both
    <3>3. row'[i] \in RowType
      BY <1>1
    <3>. QED BY <3>2, <3>3 DEF RowType, Both
  <2>. QED BY <2>1 DEF ReturnedEarnsNothing
<1>. QED BY <1>1, <1>2, <1>3, <1>4

LEMMA PayoutKeeps ==
  ASSUME LedgerInv, NEW u \in Users, NEW role \in Roles, NEW amount \in Requests,
         RequestPayout(u, role, amount)
  PROVE  LedgerInv'
<1> USE DEF LedgerInv
<1>1. row' = Released(u) /\ UNCHANGED <<parcel, ledger>>
  BY DEF RequestPayout
<1>2. /\ row' \in [Items -> RowType] /\ HoldAfterDelivery' /\ ReturnedEarnsNothing'
      /\ \A i \in Items, r \in Roles :
           row'[i].side[r] = "available" =>
             row'[i].hold = "over" /\ parcel'[OrderOf[i]] \in {"delivered", "returned"}
      /\ \A i \in Items : row'[i].hold = row[i].hold
  BY <1>1, ReleaseKeeps
<1>3. CASE UNCHANGED payouts
  <2>1. TypeOK' /\ PaidOutOnce' /\ PayoutIsExact'
    BY <1>1, <1>2, <1>3 DEF TypeOK, PaidOutOnce, PayoutIsExact
  <2>2. EarnedAfterHold'
    BY <1>1, <1>2, <1>3 DEF EarnedAfterHold, InPayout
  <2>. QED BY <1>2, <2>1, <2>2
<1>4. ASSUME NEW chosen \in SUBSET Payable(u, role), Fits(chosen, role, amount),
             payouts' = Append(payouts, [user |-> u, role |-> role,
                                         amount |-> amount, items |-> chosen])
      PROVE  LedgerInv'
  <2> DEFINE new == [user |-> u, role |-> role, amount |-> amount, items |-> chosen]
             last == Len(payouts) + 1
  <2>1. payouts \in Seq(PayoutType) /\ new \in PayoutType
    BY DEF TypeOK, PayoutType, Payable
  <2>2. TypeOK'
    BY <1>1, <1>2, <1>4, <2>1 DEF TypeOK
  <2>3. /\ DOMAIN payouts' = DOMAIN payouts \cup {last}
        /\ payouts'[last] = new
        /\ \A n \in DOMAIN payouts : n # last /\ payouts'[n] = payouts[n]
    BY <1>4, <2>1
  <2>4. \A i \in chosen : /\ i \in Items /\ Party[role][i] = u
                          /\ row'[i].side[role] = "available"
                          /\ ~InPayout(i, role)
    BY <1>1 DEF Payable
  <2>5. EarnedAfterHold'
    <3>1. ASSUME NEW i \in Items, NEW r \in Roles, InPayout(i, r)'
          PROVE  InPayout(i, r) \/ row'[i].side[r] = "available"
      BY <2>3, <2>4, <3>1 DEF InPayout
    <3>. QED BY <1>1, <1>2, <3>1 DEF EarnedAfterHold
  <2>6. PaidOutOnce'
    <3>1. \A n \in DOMAIN payouts : payouts[n].role = role => payouts[n].items \cap chosen = {}
      BY <2>4 DEF InPayout
    <3>2. ASSUME NEW n \in DOMAIN payouts'
          PROVE  \A i \in payouts'[n].items : Party[payouts'[n].role][i] = payouts'[n].user
      BY <2>3, <2>4 DEF PaidOutOnce
    <3>3. ASSUME NEW n \in DOMAIN payouts', NEW k \in DOMAIN payouts' \ {n},
                 payouts'[k].role = payouts'[n].role
          PROVE  payouts'[k].items \cap payouts'[n].items = {}
      <4>1. CASE n # last /\ k # last
        BY <2>3, <3>3, <4>1 DEF PaidOutOnce
      <4>2. CASE n = last
        BY <2>3, <3>1, <3>3, <4>2
      <4>3. CASE k = last
        BY <2>3, <3>1, <3>3, <4>3
      <4>. QED BY <4>1, <4>2, <4>3
    <3>. QED BY <3>2, <3>3 DEF PaidOutOnce
  <2>7. PayoutIsExact'
    BY <1>4, <2>3 DEF PayoutIsExact, Fits
  <2>. QED BY <1>2, <2>2, <2>5, <2>6, <2>7
<1>. QED BY <1>3, <1>4 DEF RequestPayout

(* The order's life leaves payouts alone: what is left to show is about    *)
(* its own commissions.                                                    *)
LEMMA OrderKeeps ==
  ASSUME LedgerInv, NEW o \in Orders,
         OrderPaid(o) \/ Fulfil(o) \/ ConfirmDelivery(o) \/ ReturnOrder(o)
           \/ HoldElapses(o)
  PROVE  LedgerInv'
<1> USE DEF LedgerInv
<1>0. /\ \A i \in Items : row[i] \in RowType /\ OrderOf[i] \in Orders
      /\ UNCHANGED payouts
  BY AffiliateAssumption
     DEF TypeOK, OrderPaid, Fulfil, ConfirmDelivery, ReturnOrder, HoldElapses
<1>1. PaidOutOnce' /\ PayoutIsExact'
  BY <1>0 DEF PaidOutOnce, PayoutIsExact
<1>2. \A i \in Items, role \in Roles : InPayout(i, role)' = InPayout(i, role)
  BY <1>0 DEF InPayout
<1>3. CASE OrderPaid(o)
  <2>1. \A i \in Items : OrderOf[i] = o =>
          /\ row[i].hold = "unset"
          /\ row'[i].side = Both("held") /\ row'[i].hold = "unset"
          /\ row'[i] \in RowType /\ parcel'[OrderOf[i]] = "unfulfilled"
    BY <1>0, <1>3 DEF OrderPaid, HoldAfterDelivery, RowType, Both, TypeOK
  <2>2. \A i \in Items : OrderOf[i] # o =>
          row'[i] = row[i] /\ parcel'[OrderOf[i]] = parcel[OrderOf[i]]
    BY <1>0, <1>3 DEF OrderPaid, TypeOK
  <2>3. TypeOK'
    <3>1. ledger' \in Seq(Items)
      <4>1. PICK new \in Recorded(o) : ledger' = ledger \o new
        BY <1>3 DEF OrderPaid
      <4>. QED BY <4>1, RecordedType DEF TypeOK
    <3>2. row' \in [Items -> RowType]
      <4>1. \A i \in Items : row'[i] \in RowType
        BY <1>0, <2>1, <2>2
      <4>2. row' = [i \in Items |-> row'[i]]
        BY <1>3 DEF OrderPaid
      <4>. QED BY <4>1, <4>2
    <3>3. parcel' \in [Orders -> ParcelStatus]
      BY <1>3 DEF OrderPaid, TypeOK, ParcelStatus
    <3>. QED BY <1>0, <3>1, <3>2, <3>3 DEF TypeOK
  <2>4. HoldAfterDelivery' /\ ReturnedEarnsNothing'
    BY <2>1, <2>2 DEF HoldAfterDelivery, ReturnedEarnsNothing
  <2>5. EarnedAfterHold'
    <3>1. ASSUME NEW i \in Items, NEW role \in Roles,
                 row'[i].side[role] = "available" \/ InPayout(i, role)
          PROVE  /\ row'[i].hold = "over"
                 /\ parcel'[OrderOf[i]] \in {"delivered", "returned"}
      <4>1. OrderOf[i] # o
        BY <2>1, <3>1 DEF EarnedAfterHold, Both
      <4>. QED BY <2>2, <3>1, <4>1 DEF EarnedAfterHold
    <3>. QED BY <1>2, <3>1 DEF EarnedAfterHold
  <2>. QED BY <1>1, <2>3, <2>4, <2>5
<1>4. CASE Fulfil(o)
  <2>1. /\ UNCHANGED <<row, ledger>>
        /\ parcel' \in [Orders -> ParcelStatus]
        /\ \A x \in Orders : parcel'[x] = parcel[x] \/
             (parcel[x] \in {"unfulfilled", "preparing"} /\ parcel'[x] # "returned")
    BY <1>4 DEF Fulfil, TypeOK, ParcelStatus
  <2>2. TypeOK'
    BY <1>0, <2>1 DEF TypeOK
  <2>3. HoldAfterDelivery' /\ ReturnedEarnsNothing' /\ EarnedAfterHold'
    BY <1>0, <1>2, <2>1 DEF HoldAfterDelivery, ReturnedEarnsNothing, EarnedAfterHold
  <2>. QED BY <1>1, <2>2, <2>3
<1>5. CASE ConfirmDelivery(o)
  <2>1. \A i \in Items : OrderOf[i] = o =>
          /\ row[i].hold = "unset"
          /\ row'[i].side = row[i].side /\ row'[i].hold # "over"
          /\ row'[i] \in RowType /\ parcel'[OrderOf[i]] = "delivered"
    BY <1>0, <1>5 DEF ConfirmDelivery, ScheduledRow, HoldAfterDelivery, RowType, TypeOK
  <2>2. \A i \in Items : OrderOf[i] # o =>
          row'[i] = row[i] /\ parcel'[OrderOf[i]] = parcel[OrderOf[i]]
    BY <1>0, <1>5 DEF ConfirmDelivery, TypeOK
  <2>3. TypeOK'
    <3>1. row' \in [Items -> RowType]
      <4>1. \A i \in Items : row'[i] \in RowType
        BY <1>0, <2>1, <2>2
      <4>2. row' = [i \in Items |-> row'[i]]
        BY <1>5 DEF ConfirmDelivery
      <4>. QED BY <4>1, <4>2
    <3>2. parcel' \in [Orders -> ParcelStatus] /\ UNCHANGED ledger
      BY <1>5 DEF ConfirmDelivery, TypeOK, ParcelStatus
    <3>. QED BY <1>0, <3>1, <3>2 DEF TypeOK
  <2>4. HoldAfterDelivery' /\ ReturnedEarnsNothing'
    BY <2>1, <2>2 DEF HoldAfterDelivery, ReturnedEarnsNothing
  <2>5. EarnedAfterHold'
    <3>1. ASSUME NEW i \in Items, NEW role \in Roles,
                 row'[i].side[role] = "available" \/ InPayout(i, role)
          PROVE  /\ row'[i].hold = "over"
                 /\ parcel'[OrderOf[i]] \in {"delivered", "returned"}
      <4>1. OrderOf[i] # o
        BY <2>1, <3>1 DEF EarnedAfterHold
      <4>. QED BY <2>2, <3>1, <4>1 DEF EarnedAfterHold
    <3>. QED BY <1>2, <3>1 DEF EarnedAfterHold
  <2>. QED BY <1>1, <2>3, <2>4, <2>5
<1>6. CASE ReturnOrder(o)
  <2>1. \A i \in Items : OrderOf[i] = o =>
          /\ row'[i].side = Both("reversed") /\ row'[i].hold = row[i].hold
          /\ row'[i] \in RowType /\ parcel'[OrderOf[i]] = "returned"
    BY <1>0, <1>6 DEF ReturnOrder, ReversedRow, RowType, Both, TypeOK
  <2>2. \A i \in Items : OrderOf[i] # o =>
          row'[i] = row[i] /\ parcel'[OrderOf[i]] = parcel[OrderOf[i]]
    BY <1>0, <1>6 DEF ReturnOrder, TypeOK
  <2>3. TypeOK'
    <3>1. row' \in [Items -> RowType]
      <4>1. \A i \in Items : row'[i] \in RowType
        BY <1>0, <2>1, <2>2
      <4>2. row' = [i \in Items |-> row'[i]]
        BY <1>6 DEF ReturnOrder
      <4>. QED BY <4>1, <4>2
    <3>2. parcel' \in [Orders -> ParcelStatus] /\ UNCHANGED ledger
      BY <1>6 DEF ReturnOrder, TypeOK, ParcelStatus
    <3>. QED BY <1>0, <3>1, <3>2 DEF TypeOK
  <2>4. HoldAfterDelivery' /\ ReturnedEarnsNothing'
    BY <2>1, <2>2 DEF HoldAfterDelivery, ReturnedEarnsNothing
  <2>5. EarnedAfterHold'
    <3>1. ASSUME NEW i \in Items, NEW role \in Roles,
                 row'[i].side[role] = "available" \/ InPayout(i, role)
          PROVE  /\ row'[i].hold = "over"
                 /\ parcel'[OrderOf[i]] \in {"delivered", "returned"}
      BY <2>1, <2>2, <3>1 DEF EarnedAfterHold, Both
    <3>. QED BY <1>2, <3>1 DEF EarnedAfterHold
  <2>. QED BY <1>1, <2>3, <2>4, <2>5
<1>7. CASE HoldElapses(o)
  <2>1. /\ UNCHANGED <<parcel, ledger>>
        /\ \A i \in Items : row'[i] \in RowType /\ row'[i].side = row[i].side
        /\ \A i \in Items : row'[i].hold = row[i].hold \/
             (row[i].hold = "running" /\ row'[i].hold = "over")
    BY <1>0, <1>7 DEF HoldElapses, RowType
  <2>2. TypeOK'
    <3>1. row' = [i \in Items |-> row'[i]]
      BY <1>7 DEF HoldElapses
    <3>2. row' \in [Items -> RowType]
      BY <2>1, <3>1
    <3>. QED BY <1>0, <2>1, <3>2 DEF TypeOK
  <2>3. HoldAfterDelivery' /\ ReturnedEarnsNothing' /\ EarnedAfterHold'
    BY <1>2, <2>1 DEF HoldAfterDelivery, ReturnedEarnsNothing, EarnedAfterHold
  <2>. QED BY <1>1, <2>2, <2>3
<1>. QED BY <1>3, <1>4, <1>5, <1>6, <1>7

LEMMA LedgerInvariant == Spec => []LedgerInv
<1>1. Init => LedgerInv
  <2>1. Init => TypeOK
    BY DEF Init, TypeOK, ParcelStatus, RowType, Both
  <2>2. Init => HoldAfterDelivery /\ EarnedAfterHold /\ ReturnedEarnsNothing /\ PaidOutOnce
              /\ PayoutIsExact
    BY AffiliateAssumption DEF Init, HoldAfterDelivery, EarnedAfterHold,
         ReturnedEarnsNothing, PaidOutOnce, PayoutIsExact, InPayout, Both
  <2>. QED BY <2>1, <2>2 DEF LedgerInv
<1>2. LedgerInv /\ [Next]_vars => LedgerInv'
  <2> SUFFICES ASSUME LedgerInv, [Next]_vars PROVE LedgerInv'
    OBVIOUS
  <2>1. ASSUME NEW u \in Users, ViewEarnings(u) PROVE LedgerInv'
    <3>1. row' = Released(u) /\ UNCHANGED <<parcel, ledger, payouts>>
      BY <2>1 DEF ViewEarnings
    <3>2. /\ row' \in [Items -> RowType] /\ HoldAfterDelivery' /\ ReturnedEarnsNothing'
          /\ \A i \in Items, r \in Roles :
               row'[i].side[r] = "available" =>
                 row'[i].hold = "over" /\ parcel'[OrderOf[i]] \in {"delivered", "returned"}
          /\ \A i \in Items : row'[i].hold = row[i].hold
      BY <3>1, ReleaseKeeps
    <3>3. TypeOK' /\ PaidOutOnce' /\ PayoutIsExact'
      BY <3>1, <3>2 DEF LedgerInv, TypeOK, PaidOutOnce, PayoutIsExact
    <3>4. EarnedAfterHold'
      BY <3>1, <3>2 DEF LedgerInv, EarnedAfterHold, InPayout
    <3>. QED BY <3>2, <3>3, <3>4 DEF LedgerInv
  <2>2. CASE UNCHANGED vars
    BY <2>2 DEF vars, LedgerInv, TypeOK, HoldAfterDelivery, EarnedAfterHold,
         ReturnedEarnsNothing, PaidOutOnce, PayoutIsExact, InPayout
  <2>. QED BY <2>1, <2>2, OrderKeeps, PayoutKeeps DEF Next
<1>. QED BY <1>1, <1>2, PTL DEF Spec

(* No side of a commission is ever part of two payouts, since the rows that *)
(* a request excludes under the profile's lock are all that earlier ones of *)
(* that role have taken; and a payout is for the sum of its commissions.    *)
THEOREM PayoutsAlwaysAgree == Spec => []PayoutsAgree
<1>1. LedgerInv => PayoutsAgree
  BY DEF LedgerInv, PayoutsAgree
<1>. QED BY <1>1, LedgerInvariant, PTL

(* Nothing is earned or paid out before delivery and the end of the hold,  *)
(* and the commissions of a returned order stay reversed on both sides.    *)
THEOREM EarnedOnDeliveryAlways == Spec => []EarnedOnDelivery
<1>1. LedgerInv => EarnedOnDelivery
  BY DEF LedgerInv, EarnedOnDelivery
<1>. QED BY <1>1, LedgerInvariant, PTL

----------------------------------------------------------------------------
(* An affiliate listing, for any prices and any sales.  The invariant is   *)
(* the property itself and the types: only staff publish, and they publish *)
(* the price that their form holds; every edit of the reseller's takes the *)
(* listing out of the published ones.                                      *)

ListingInv == ListingTypeOK /\ SoldAsReviewed

(* A step that only moves the order items keeps the invariant if the item  *)
(* it moves is sold as reviewed.                                           *)
LEMMA SellsKeeps ==
  ASSUME ListingInv, NEW s \in Sales, NEW r \in SaleRow, Sells(s, r),
         r.stage \in {"frozen", "reserved", "paid"} => r.seen /\ r.unit - r.settlement \in Nat
  PROVE  ListingInv'
<1>1. ListingTypeOK'
  BY DEF ListingInv, ListingTypeOK, Sells
<1>2. (listing.status = "published" => listing.price = reviewed)'
  BY DEF ListingInv, SoldAsReviewed, Sells
<1>3. ASSUME NEW t \in Sales, sale'[t].stage \in {"frozen", "reserved", "paid"}
      PROVE  (sale[t].seen /\ Gross(t) \in Nat)'
  <2>1. CASE t = s
    BY <1>3, <2>1 DEF ListingInv, ListingTypeOK, Sells, Gross
  <2>2. CASE t # s
    BY <1>3, <2>2 DEF ListingInv, ListingTypeOK, SoldAsReviewed, Sells, Gross
  <2>. QED BY <2>1, <2>2
<1>. QED BY <1>1, <1>2, <1>3 DEF ListingInv, SoldAsReviewed

(* A step that moves no order item keeps it if what it leaves published is *)
(* what was reviewed.                                                      *)
LEMMA ListingKeeps ==
  ASSUME ListingInv, ListingTypeOK', sale' = sale,
         (listing.status = "published" => listing.price = reviewed)'
  PROVE  ListingInv'
BY DEF ListingInv, SoldAsReviewed, Gross

(* The two stores and the reseller. *)
LEMMA StoresKeep ==
  ASSUME ListingInv,
         \/ SourceEdited \/ ShopToggles \/ SubmitListing \/ DeleteListing
         \/ \E price \in Prices : CreateListing(price) \/ UpdateListing(price)
  PROVE  ListingInv'
<1>1. /\ sale' = sale /\ desk' = desk /\ reviewed' = reviewed
      /\ source' \in SourceRow /\ shop' \in BOOLEAN
  BY DEF ListingInv, ListingTypeOK, SourceEdited, ShopToggles, SubmitListing, DeleteListing,
         CreateListing, UpdateListing
<1>2. \/ listing' = listing
      \/ /\ listing' \in ListingRow
         /\ listing'.status # "published"
         /\ listing'.status # "none" => listing'.price \in Prices
  BY DEF ListingInv, ListingTypeOK, SourceEdited, ShopToggles, SubmitListing, DeleteListing,
         CreateListing, UpdateListing, NoListing, ListingRow, ListingStatus
<1>3. ListingTypeOK'
  BY <1>1, <1>2 DEF ListingInv, ListingTypeOK
<1>. QED BY <1>1, <1>2, <1>3, ListingKeeps DEF ListingInv, SoldAsReviewed

(* Staff. *)
LEMMA StaffKeep ==
  ASSUME ListingInv,
         StaffOpenForm \/ \E status \in ListingStatus \ {"none"} : StaffSaveForm(status)
  PROVE  ListingInv'
<1>1. CASE StaffOpenForm
  <2>1. ListingTypeOK'
    BY <1>1 DEF StaffOpenForm, ListingInv, ListingTypeOK
  <2>. QED BY <1>1, <2>1, ListingKeeps DEF StaffOpenForm, ListingInv, SoldAsReviewed
<1>2. ASSUME NEW status \in ListingStatus \ {"none"}, StaffSaveForm(status)
      PROVE  ListingInv'
  <2>1. desk \in Prices /\ listing' = [status |-> status, price |-> desk]
    BY <1>2 DEF StaffSaveForm, ListingInv, ListingTypeOK
  <2>2. ListingTypeOK'
    BY <1>2, <2>1 DEF StaffSaveForm, ListingInv, ListingTypeOK, ListingRow
  <2>3. (listing.status = "published" => listing.price = reviewed)'
    BY <1>2, <2>1 DEF StaffSaveForm
  <2>. QED BY <1>2, <2>2, <2>3, ListingKeeps DEF StaffSaveForm
<1>. QED BY <1>1, <1>2

(* Customers: an item is frozen while the listing is published, for no     *)
(* less than what its seller is to get.                                    *)
LEMMA SalesKeep ==
  ASSUME ListingInv, NEW s \in Sales,
         \/ AddListing(s) \/ RemoveListing(s) \/ ReserveSale(s) \/ SaleEnds(s)
         \/ \E unit \in Prices : Snapshot(s, unit)
  PROVE  ListingInv'
<1>1. sale[s] \in SaleRow /\ NoSale \in SaleRow
  BY DEF ListingInv, ListingTypeOK, SaleRow, NoSale
<1>2. CASE AddListing(s) \/ RemoveListing(s)
  <2> DEFINE added == [NoSale EXCEPT !.stage = "cart"]
  <2>1. added \in SaleRow /\ added.stage = "cart" /\ NoSale.stage = "none"
    BY DEF SaleRow, NoSale
  <2>2. Sells(s, added) \/ Sells(s, NoSale)
    BY <1>2 DEF AddListing, RemoveListing
  <2>. HIDE DEF added
  <2>. QED BY <1>1, <2>1, <2>2, SellsKeeps
<1>3. CASE ReserveSale(s) \/ SaleEnds(s)
  <2>1. PICK stage \in {"reserved", "paid", "frozen", "failed"} :
          /\ Sells(s, [sale[s] EXCEPT !.stage = stage])
          /\ sale[s].stage \in {"frozen", "reserved"}
    BY <1>3 DEF ReserveSale, SaleEnds
  <2> DEFINE made == [sale[s] EXCEPT !.stage = stage]
  <2>2. made \in SaleRow /\ made.unit = sale[s].unit /\ made.settlement = sale[s].settlement
        /\ made.seen = sale[s].seen
    BY <1>1 DEF SaleRow
  <2>3. sale[s].seen /\ sale[s].unit - sale[s].settlement \in Nat
    BY <2>1 DEF ListingInv, SoldAsReviewed, Gross
  <2>. HIDE DEF made
  <2>4. Sells(s, made)
    BY <2>1 DEF made
  <2>. QED BY <2>2, <2>3, <2>4, SellsKeeps
<1>4. ASSUME NEW unit \in Prices, Snapshot(s, unit)
      PROVE  ListingInv'
  <2> DEFINE made == [stage |-> "frozen", unit |-> unit, settlement |-> source.low,
                     seen |-> listing.price = reviewed]
  <2>1. listing.price = reviewed
    BY <1>4 DEF Snapshot, Buyable, ListingInv, SoldAsReviewed
  <2>2. source.low \in Prices
    BY DEF ListingInv, ListingTypeOK, SourceRow
  <2>3. unit - source.low \in Nat
    <3>1. source.low <= unit
      BY <1>4 DEF Snapshot
    <3>2. unit \in Nat /\ source.low \in Nat
      BY <2>2, ListingAssumption
    <3>. HIDE DEF made
    <3>. QED BY <3>1, <3>2
  <2>4. made \in SaleRow /\ made.seen /\ made.unit - made.settlement \in Nat
    BY <2>1, <2>2, <2>3 DEF SaleRow
  <2>5. Sells(s, made)
    BY <1>4 DEF Snapshot
  <2>. HIDE DEF made
  <2>. QED BY <2>4, <2>5, SellsKeeps
<1>. QED BY <1>2, <1>3, <1>4

LEMMA ListingInvHolds == ListingSpec => []ListingInv
<1>1. ListingInit => ListingInv
  BY DEF ListingInit, ListingInv, ListingTypeOK, SoldAsReviewed, NoListing, NoSale, ListingRow,
         ListingStatus, SaleRow
<1>2. ListingInv /\ [ListingNext]_listingVars => ListingInv'
  <2> SUFFICES ASSUME ListingInv, [ListingNext]_listingVars PROVE ListingInv'
    OBVIOUS
  <2>1. CASE UNCHANGED listingVars
    BY <2>1 DEF listingVars, ListingInv, ListingTypeOK, SoldAsReviewed, Gross
  <2>2. CASE ListingNext
    BY <2>2, StoresKeep, StaffKeep, SalesKeep DEF ListingNext
  <2>. QED BY <2>1, <2>2
<1>. QED BY <1>1, <1>2, PTL DEF ListingSpec

(* Whatever staff, the reseller and the seller do in between, the listing  *)
(* customers see carries the price staff last published, and every order   *)
(* in progress was frozen for a reviewed price that covers the seller's.   *)
THEOREM SoldAsReviewedAlways == ListingSpec => []SoldAsReviewed
<1>1. ListingInv => SoldAsReviewed
  BY DEF ListingInv
<1>. QED BY ListingInvHolds, <1>1, PTL

----------------------------------------------------------------------------
(* A price inquiry, for any store owners.  What the property rests on: an  *)
(* inquiry that was read or answered is there and was sent, what was sent  *)
(* cannot be edited or deleted, and so what was read is still its version. *)

InquiryInv ==
  /\ InquiryTypeOK
  /\ inquiry.sent => There
  /\ \A m \in Answerers :
       /\ read[m] > 0 => inquiry.sent /\ read[m] = inquiry.version
       /\ answers[m] > 0 => inquiry.sent
       /\ answers[m] <= 1

LEMMA InquiryTypes ==
  ASSUME InquiryInv
  PROVE  /\ inquiry \in InquiryRow /\ NoInquiry \in InquiryRow
         /\ \A m \in Answerers : read[m] \in Nat /\ answers[m] \in Nat
<1>. MaxVersion \in Nat \ {0} /\ 0..MaxVersion \subseteq Nat
  BY InquiryAssumption
<1>. QED BY DEF InquiryInv, InquiryTypeOK, InquiryRow, NoInquiry

(* Rows with one field written. *)
LEMMA VersionWritten ==
  ASSUME NEW r \in InquiryRow, NEW v \in 0..MaxVersion
  PROVE  /\ [r EXCEPT !.version = v] \in InquiryRow
         /\ [r EXCEPT !.version = v].version = v
         /\ [r EXCEPT !.version = v].sent = r.sent
         /\ [r EXCEPT !.version = v].expired = r.expired
BY DEF InquiryRow

LEMMA ExpiryWritten ==
  ASSUME NEW r \in InquiryRow, NEW e \in BOOLEAN
  PROVE  /\ [r EXCEPT !.expired = e] \in InquiryRow
         /\ [r EXCEPT !.expired = e].version = r.version
         /\ [r EXCEPT !.expired = e].sent = r.sent
BY DEF InquiryRow

LEMMA SentWritten ==
  ASSUME NEW r \in InquiryRow
  PROVE  /\ [r EXCEPT !.sent = TRUE] \in InquiryRow
         /\ [r EXCEPT !.sent = TRUE].version = r.version
         /\ [r EXCEPT !.sent = TRUE].sent
BY DEF InquiryRow

(* The customer's steps and the passing of time: they write the row, and   *)
(* its version only while it was not sent.                                 *)
LEMMA AsksKeeps ==
  ASSUME InquiryInv, NEW new \in InquiryRow, Asks(new),
         new.sent => new.version > 0,
         inquiry.sent => new.sent /\ new.version = inquiry.version
  PROVE  InquiryInv'
BY InquiryTypes DEF InquiryInv, InquiryTypeOK, InquiryRow, Asks, There

LEMMA CustomerKeeps ==
  ASSUME InquiryInv,
         \/ CreateInquiry \/ UpdateInquiry \/ UploadImages \/ DeleteInquiry
         \/ SendInquiry \/ RenewExpiry \/ TimePasses
  PROVE  InquiryInv'
<1>1. MaxVersion \in Nat \ {0}
  BY InquiryAssumption
<1>2. /\ inquiry.version \in 0..MaxVersion /\ inquiry.sent \in BOOLEAN
      /\ inquiry.expired \in BOOLEAN
      /\ inquiry.sent => inquiry.version > 0
  BY InquiryTypes DEF InquiryRow, InquiryInv, There
<1>3. PICK new \in InquiryRow :
        /\ Asks(new)
        /\ new.sent => new.version > 0
        /\ inquiry.sent => new.sent /\ new.version = inquiry.version
  <2>1. CASE CreateInquiry
    <3> DEFINE new == [NoInquiry EXCEPT !.version = 1]
    <3>1. new \in InquiryRow /\ ~new.sent
      <4>1. NoInquiry \in InquiryRow /\ ~NoInquiry.sent /\ 1 \in 0..MaxVersion
        BY <1>1, InquiryTypes DEF NoInquiry
      <4>. QED BY <4>1, VersionWritten
    <3>2. ~inquiry.sent
      BY <2>1, <1>2 DEF CreateInquiry, There
    <3>3. Asks(new)
      BY <2>1 DEF CreateInquiry
    <3>. HIDE DEF new
    <3>. QED BY <3>1, <3>2, <3>3
  <2>2. CASE UpdateInquiry \/ UploadImages
    <3>1. PICK over \in BOOLEAN : Asks([inquiry EXCEPT !.version = @ + 1, !.expired = over])
      <4>1. inquiry = [inquiry EXCEPT !.expired = inquiry.expired]
        BY InquiryTypes DEF InquiryRow
      <4>2. [inquiry EXCEPT !.version = @ + 1]
              = [inquiry EXCEPT !.version = @ + 1, !.expired = inquiry.expired]
        BY InquiryTypes DEF InquiryRow
      <4>. QED BY <2>2, <1>2, <4>2 DEF UpdateInquiry, UploadImages
    <3> DEFINE new == [inquiry EXCEPT !.version = @ + 1, !.expired = over]
    <3>2. ~inquiry.sent /\ inquiry.version < MaxVersion
      BY <2>2 DEF UpdateInquiry, UploadImages
    <3>3. new \in InquiryRow /\ new.sent = inquiry.sent
      <4> DEFINE later == [inquiry EXCEPT !.version = @ + 1]
      <4>1. inquiry \in InquiryRow /\ inquiry.version + 1 \in 0..MaxVersion
        BY <1>1, <1>2, <3>2, InquiryTypes
      <4>2. later \in InquiryRow /\ later.sent = inquiry.sent
        BY <4>1, VersionWritten
      <4>3. new = [later EXCEPT !.expired = over]
        OBVIOUS
      <4>. HIDE DEF later, new
      <4>. QED BY <4>2, <4>3, ExpiryWritten
    <3>4. Asks(new)
      BY <3>1
    <3>. HIDE DEF new
    <3>. QED BY <3>2, <3>3, <3>4
  <2>3. CASE DeleteInquiry
    BY <2>3, InquiryTypes DEF DeleteInquiry, NoInquiry
  <2>4. CASE SendInquiry \/ RenewExpiry \/ TimePasses
    <3>1. There
      BY <2>4 DEF SendInquiry, RenewExpiry, TimePasses
    <3>2. PICK new \in InquiryRow :
            Asks(new) /\ new.version = inquiry.version /\ (inquiry.sent => new.sent)
      <4>1. inquiry \in InquiryRow
        BY InquiryTypes
      <4>2. CASE SendInquiry
        BY <4>1, <4>2, SentWritten DEF SendInquiry
      <4>3. CASE RenewExpiry \/ TimePasses
        BY <4>1, <4>3, ExpiryWritten DEF RenewExpiry, TimePasses
      <4>. QED BY <2>4, <4>2, <4>3
    <3>. QED BY <3>1, <3>2 DEF There
  <2>. QED BY <2>1, <2>2, <2>3, <2>4
<1>. QED BY <1>3, AsksKeeps

LEMMA OwnersKeep ==
  ASSUME InquiryInv, NEW m \in Answerers, ReadInquiry(m) \/ AnswerInquiry(m)
  PROVE  InquiryInv'
<1>1. inquiry' = inquiry /\ inquiry.sent /\ There
  BY DEF ReadInquiry, AnswerInquiry, Active
<1>2. InquiryTypeOK'
  BY InquiryTypes DEF InquiryInv, InquiryTypeOK, ReadInquiry, AnswerInquiry, InquiryRow
<1>3. ASSUME NEW k \in Answerers
      PROVE  (/\ read[k] > 0 => inquiry.sent /\ read[k] = inquiry.version
              /\ answers[k] > 0 => inquiry.sent
              /\ answers[k] <= 1)'
  BY <1>1, InquiryTypes DEF InquiryInv, InquiryTypeOK, ReadInquiry, AnswerInquiry
<1>. QED BY <1>1, <1>2, <1>3 DEF InquiryInv, There

LEMMA InquiryInvHolds == InquirySpec => []InquiryInv
<1>1. InquiryInit => InquiryInv
  BY InquiryAssumption
  DEF InquiryInit, InquiryInv, InquiryTypeOK, InquiryRow, NoInquiry, There
<1>2. InquiryInv /\ [InquiryNext]_inquiryVars => InquiryInv'
  <2> SUFFICES ASSUME InquiryInv, [InquiryNext]_inquiryVars PROVE InquiryInv'
    OBVIOUS
  <2>1. CASE UNCHANGED inquiryVars
    BY <2>1 DEF inquiryVars, InquiryInv, InquiryTypeOK, There
  <2>2. CASE InquiryNext
    BY <2>2, CustomerKeeps, OwnersKeep DEF InquiryNext
  <2>. QED BY <2>1, <2>2
<1>. QED BY <1>1, <1>2, PTL DEF InquirySpec

(* Whatever the customer, the passing of time and the store owners do, an  *)
(* answer is the only one of its owner and to an inquiry that still is     *)
(* what the owner read.                                                    *)
THEOREM AnsweredAsAskedAlways == InquirySpec => []AnsweredAsAsked
<1>1. InquiryInv => AnsweredAsAsked
  BY InquiryTypes DEF InquiryInv, AnsweredAsAsked
<1>. QED BY InquiryInvHolds, <1>1, PTL

----------------------------------------------------------------------------
(* The owner's forms, for any requests, pictures and accounts.  A request  *)
(* that changes a picture has read one that was not dropped; a request     *)
(* that changes an account holds its lock, so that the account is still as *)
(* it was read, and is the only one that does.                             *)

DroppedUnread ==
  \A s \in dropped :
    /\ slider[s].at = "gone"
    /\ \A r \in Posts : ~(submitted[r].form = "slider" /\ submitted[r].of = s)

LockedAsRead ==
  \A r \in Posts :
    submitted[r].form = "account" =>
      /\ account[submitted[r].of] = submitted[r].read
      /\ submitted[r].read.at = "there"
      /\ \A q \in Posts :
           submitted[q].form = "account" /\ submitted[q].of = submitted[r].of => q = r

FormsInv ==
  /\ OwnerFormsTypeOK
  /\ ActiveIsReviewed
  /\ DroppedUnread
  /\ LockedAsRead /\ AccountsStand

(* What a form has read. *)
LEMMA FormFields ==
  ASSUME NEW f \in Forms
  PROVE  /\ f.form = "connection" => f.read \in ConnectionRow
         /\ f.form = "slider" => f.of \in Sliders /\ f.read \in SliderRow
         /\ f.form = "account" => f.of \in Accounts /\ f.read \in AccountRow
<1>1. CASE f = Idle
  BY <1>1 DEF Idle
<1>2. CASE f \in [form: {"connection"}, read: ConnectionRow]
  BY <1>2
<1>3. CASE f \in [form: {"slider"}, of: Sliders, read: SliderRow]
  BY <1>3
<1>4. CASE f \in [form: {"account"}, of: Accounts, read: AccountRow]
  BY <1>4
<1>. QED BY <1>1, <1>2, <1>3, <1>4 DEF Forms

LEMMA FormsMade ==
  /\ Idle \in Forms
  /\ \A c \in ConnectionRow : [form |-> "connection", read |-> c] \in Forms
  /\ \A s \in Sliders : \A c \in SliderRow :
       [form |-> "slider", of |-> s, read |-> c] \in Forms
  /\ \A b \in Accounts : \A c \in AccountRow :
       [form |-> "account", of |-> b, read |-> c] \in Forms
BY DEF Forms

LEMMA EmptyRows ==
  /\ NoConnection \in ConnectionRow /\ NoConnection.status # "active"
  /\ NoSlider \in SliderRow /\ NoSlider.at = "new"
  /\ [NoSlider EXCEPT !.at = "gone"] \in SliderRow
  /\ [NoSlider EXCEPT !.at = "gone"].at = "gone"
  /\ Untold \in AccountRow /\ Untold.at = "new"
  /\ [Untold EXCEPT !.at = "gone"] \in AccountRow
<1>1. /\ (CHOOSE p \in Pictures : TRUE) \in Pictures
      /\ (CHOOSE l \in Links : TRUE) \in Links
      /\ (CHOOSE c \in CardNumbers : TRUE) \in CardNumbers
      /\ (CHOOSE i \in Ibans : TRUE) \in Ibans
  BY OwnerFormsAssumption
<1>. QED BY <1>1 DEF NoConnection, ConnectionRow, GatewayType, NoCode, NoSlider, SliderRow,
                     Presence, Untold, AccountRow

(* A step that only takes up or leaves a request keeps the invariant if    *)
(* what it takes up is a picture that was not dropped, or an account that  *)
(* is free.                                                                *)
LEMMA PostKeeps ==
  ASSUME FormsInv, NEW r \in Posts, NEW f \in Forms,
         submitted' = [submitted EXCEPT ![r] = f],
         UNCHANGED <<connectionVars, sliderVars, bankVars>>, opened' \in Forms,
         f.form = "slider" => f.of \notin dropped,
         f.form = "account" =>
           AccountFree(f.of) /\ account[f.of] = f.read /\ f.read.at = "there"
  PROVE  FormsInv'
<1>1. OwnerFormsTypeOK' /\ ActiveIsReviewed' /\ AccountsStand'
  BY DEF FormsInv, OwnerFormsTypeOK, ActiveIsReviewed, AccountsStand, connectionVars,
         sliderVars, bankVars
<1>2. \A q \in Posts : submitted'[q] = IF q = r THEN f ELSE submitted[q]
  BY DEF FormsInv, OwnerFormsTypeOK
<1>3. DroppedUnread'
  BY <1>2 DEF FormsInv, DroppedUnread, sliderVars
<1>4. LockedAsRead'
  <2>1. account' = account
    BY DEF bankVars
  <2>2. \A q \in Posts : submitted'[q].form = "account" =>
          account[submitted'[q].of] = submitted'[q].read /\ submitted'[q].read.at = "there"
    BY <1>2 DEF FormsInv, LockedAsRead
  <2>3. ASSUME NEW p \in Posts, NEW q \in Posts, submitted'[p].form = "account",
               submitted'[q].form = "account", submitted'[q].of = submitted'[p].of
        PROVE  q = p
    <3>1. CASE p # r /\ q # r
      BY <1>2, <2>3, <3>1 DEF FormsInv, LockedAsRead
    <3>2. CASE p = r /\ q # r
      BY <1>2, <2>3, <3>2 DEF AccountFree
    <3>3. CASE p # r /\ q = r
      BY <1>2, <2>3, <3>3 DEF AccountFree
    <3>. QED BY <3>1, <3>2, <3>3
  <2>. QED BY <2>1, <2>2, <2>3 DEF LockedAsRead
<1>. QED BY <1>1, <1>3, <1>4 DEF FormsInv

(* A step that changes none of the rows, requests and histories. *)
LEMMA PageKeeps ==
  ASSUME FormsInv, UNCHANGED <<connectionVars, sliderVars, bankVars, submitted>>,
         opened' \in Forms
  PROVE  FormsInv'
BY DEF FormsInv, OwnerFormsTypeOK, ActiveIsReviewed, DroppedUnread, LockedAsRead,
       AccountsStand, connectionVars, sliderVars, bankVars

(* The connection: it is active only where staff decide. *)
LEMMA ConnectionKeeps ==
  ASSUME FormsInv, ConnectionNext
  PROVE  FormsInv'
<1>1. OwnerFormsTypeOK /\ connection \in ConnectionRow /\ opened \in Forms
  BY DEF FormsInv, OwnerFormsTypeOK
<1>2. CASE OpenStore
  <2>1. opened' \in Forms
    BY <1>1, <1>2, FormsMade DEF OpenStore
  <2>. QED BY <1>2, <2>1, PageKeeps DEF OpenStore
<1>3. ASSUME NEW status \in {"pending", "active", "rejected"}, DecideConnection(status)
      PROVE  FormsInv'
  <2>1. opened.read \in ConnectionRow
    BY <1>1, <1>3, FormFields DEF DecideConnection
  <2>2. connection' \in ConnectionRow /\ connection'.status = status
    BY <1>3, <2>1 DEF DecideConnection, ConnectionRow
  <2>3. confirmed' = IF status = "active" THEN connection' ELSE confirmed
    BY <1>3 DEF DecideConnection
  <2>4. ActiveIsReviewed'
    BY <2>2, <2>3 DEF ActiveIsReviewed
  <2>5. UNCHANGED <<sliderVars, bankVars, submitted>> /\ opened' \in Forms
    BY <1>3, FormsMade DEF DecideConnection
  <2>6. OwnerFormsTypeOK'
    BY <1>1, <2>2, <2>3, <2>5 DEF OwnerFormsTypeOK, sliderVars, bankVars
  <2>7. DroppedUnread' /\ LockedAsRead' /\ AccountsStand'
    BY <2>5 DEF FormsInv, DroppedUnread, LockedAsRead, AccountsStand, sliderVars, bankVars
  <2>. QED BY <2>4, <2>6, <2>7 DEF FormsInv
<1>4. ASSUME NEW r \in Posts, OpenConnection(r)
      PROVE  FormsInv'
  <2> DEFINE f == [form |-> "connection", read |-> connection]
  <2>1. f \in Forms /\ f.form = "connection"
    BY <1>1, FormsMade
  <2>2. /\ submitted' = [submitted EXCEPT ![r] = f] /\ opened' \in Forms
        /\ UNCHANGED <<connectionVars, sliderVars, bankVars>>
    BY <1>1, <1>4 DEF OpenConnection
  <2>. HIDE DEF f
  <2>. QED BY <2>1, <2>2, PostKeeps
<1>5. ASSUME NEW r \in Posts, NEW type \in GatewayType, NEW given \in Codes \cup {NoCode},
             SubmitConnection(r, type, given)
      PROVE  FormsInv'
  <2> DEFINE before == submitted[r].read
             code == IF type = "asoud" THEN NoCode
                     ELSE IF given = NoCode THEN before.code ELSE given
             made == [type |-> type, code |-> code, status |-> "pending"]
  <2>1. before \in ConnectionRow
    BY <1>1, <1>5, FormFields DEF SubmitConnection, OwnerFormsTypeOK
  <2>2. made \in ConnectionRow /\ made.status = "pending"
    BY <2>1 DEF ConnectionRow
  <2>3. connection' = connection \/ connection' = made
    BY <1>5 DEF SubmitConnection, StatusOnSave
  <2>4. /\ submitted' = [submitted EXCEPT ![r] = Idle]
        /\ UNCHANGED <<confirmed, sliderVars, bankVars, opened>>
    BY <1>5 DEF SubmitConnection
  <2>. HIDE DEF made
  <2>5. ActiveIsReviewed'
    BY <2>2, <2>3, <2>4 DEF FormsInv, ActiveIsReviewed
  <2>6. OwnerFormsTypeOK'
    BY <1>1, <2>2, <2>3, <2>4, FormsMade DEF OwnerFormsTypeOK, sliderVars, bankVars
  <2>7. \A q \in Posts : submitted'[q] = submitted[q] \/ submitted'[q] = Idle
    BY <1>1, <2>4 DEF OwnerFormsTypeOK
  <2>8. DroppedUnread' /\ LockedAsRead' /\ AccountsStand'
    <3>1. Idle.form = "none"
      BY DEF Idle
    <3>2. AccountsStand' /\ DroppedUnread'
      BY <2>4, <2>7, <3>1 DEF FormsInv, DroppedUnread, AccountsStand, sliderVars, bankVars
    <3>3. LockedAsRead'
      BY <2>4, <2>7, <3>1 DEF FormsInv, LockedAsRead, bankVars
    <3>. QED BY <3>2, <3>3
  <2>. QED BY <2>5, <2>6, <2>8 DEF FormsInv
<1>. QED BY <1>2, <1>3, <1>4, <1>5 DEF ConnectionNext

(* The pictures: a change begins with a picture that is there, and so does *)
(* a removal.                                                              *)
LEMMA SlidersKeep ==
  ASSUME FormsInv, SlidersNext
  PROVE  FormsInv'
<1>1. /\ OwnerFormsTypeOK /\ slider \in [Sliders -> SliderRow]
      /\ submitted \in [Posts -> Forms] /\ opened \in Forms
  BY DEF FormsInv, OwnerFormsTypeOK
<1>2. ASSUME NEW s \in Sliders, NEW r \in Posts, OpenSlider(r, s)
      PROVE  FormsInv'
  <2> DEFINE f == [form |-> "slider", of |-> s, read |-> slider[s]]
  <2>1. f \in Forms /\ f.form = "slider" /\ f.of = s
    BY <1>1, FormsMade
  <2>2. s \notin dropped
    BY <1>2 DEF OpenSlider, KnownSlider, FormsInv, DroppedUnread
  <2>3. /\ submitted' = [submitted EXCEPT ![r] = f] /\ opened' \in Forms
        /\ UNCHANGED <<connectionVars, sliderVars, bankVars>>
    BY <1>1, <1>2 DEF OpenSlider
  <2>. HIDE DEF f
  <2>. QED BY <2>1, <2>2, <2>3, PostKeeps
<1>3. ASSUME NEW s \in Sliders, RemoveSlider(s)
      PROVE  FormsInv'
  <2> DEFINE gone == [NoSlider EXCEPT !.at = "gone"]
  <2>1. /\ slider' = [slider EXCEPT ![s] = gone]
        /\ UNCHANGED <<connectionVars, bankVars, submitted, opened>>
    BY <1>3 DEF RemoveSlider
  <2>2. gone \in SliderRow /\ gone.at = "gone"
    BY EmptyRows
  <2>. HIDE DEF gone
  <2>3. \/ dropped' = dropped
        \/ /\ dropped' = dropped \cup {s}
           /\ \A r \in Posts : ~(submitted[r].form = "slider" /\ submitted[r].of = s)
    BY <1>3 DEF RemoveSlider
  <2>4. OwnerFormsTypeOK'
    BY <1>1, <2>1, <2>2, <2>3 DEF OwnerFormsTypeOK, connectionVars, bankVars
  <2>5. DroppedUnread'
    BY <1>1, <2>1, <2>2, <2>3 DEF FormsInv, DroppedUnread
  <2>6. ActiveIsReviewed' /\ LockedAsRead' /\ AccountsStand'
    BY <2>1 DEF FormsInv, ActiveIsReviewed, LockedAsRead, AccountsStand, connectionVars, bankVars
  <2>. QED BY <2>4, <2>5, <2>6 DEF FormsInv
<1>4. ASSUME NEW picture \in Pictures, NEW link \in Links,
             NEW s \in Sliders, AddSlider(s, picture, link)
      PROVE  FormsInv'
  <2> DEFINE made == [at |-> "there", picture |-> picture, link |-> link]
  <2>1. /\ slider' = [slider EXCEPT ![s] = made] /\ slider[s].at = "new"
        /\ UNCHANGED <<dropped, connectionVars, bankVars, submitted, opened>>
    BY <1>4 DEF AddSlider
  <2>2. made \in SliderRow
    BY DEF SliderRow, Presence
  <2>. HIDE DEF made
  <2>3. OwnerFormsTypeOK'
    BY <1>1, <2>1, <2>2 DEF OwnerFormsTypeOK, connectionVars, bankVars
  <2>4. DroppedUnread'
    BY <1>1, <2>1 DEF FormsInv, DroppedUnread
  <2>5. ActiveIsReviewed' /\ LockedAsRead' /\ AccountsStand'
    BY <2>1 DEF FormsInv, ActiveIsReviewed, LockedAsRead, AccountsStand, connectionVars, bankVars
  <2>. QED BY <2>3, <2>4, <2>5 DEF FormsInv
<1>5. ASSUME NEW picture \in Pictures, NEW link \in Links,
             NEW r \in Posts, SubmitSlider(r, picture, link)
      PROVE  FormsInv'
  <2> DEFINE made == [at |-> "there", picture |-> picture, link |-> link]
             s == submitted[r].of
  <2>1. /\ slider' = [slider EXCEPT ![s] = made] /\ submitted[r].form = "slider"
        /\ submitted' = [submitted EXCEPT ![r] = Idle]
        /\ UNCHANGED <<dropped, connectionVars, bankVars, opened>>
    BY <1>5 DEF SubmitSlider
  <2>2. made \in SliderRow
    BY DEF SliderRow, Presence
  <2>. HIDE DEF made
  <2>3. OwnerFormsTypeOK'
    BY <1>1, <2>1, <2>2, FormsMade DEF OwnerFormsTypeOK, connectionVars, bankVars
  <2>4. \A q \in Posts : submitted'[q] = submitted[q] \/ submitted'[q] = Idle
    BY <1>1, <2>1
  <2>5. s \notin dropped /\ Idle.form = "none"
    BY <2>1 DEF FormsInv, DroppedUnread, Idle
  <2>6. DroppedUnread'
    BY <1>1, <2>1, <2>4, <2>5 DEF FormsInv, DroppedUnread
  <2>7. ActiveIsReviewed' /\ AccountsStand'
    BY <2>1 DEF FormsInv, ActiveIsReviewed, AccountsStand, connectionVars, bankVars
  <2>8. LockedAsRead'
    BY <2>1, <2>4, <2>5 DEF FormsInv, LockedAsRead, bankVars
  <2>. QED BY <2>3, <2>6, <2>7, <2>8 DEF FormsInv
<1>. QED BY <1>2, <1>3, <1>4, <1>5 DEF SlidersNext

(* A step that writes one account, and leaves the requests but its own,    *)
(* keeps the invariant: nobody else holds the account's lock.              *)
LEMMA AccountKeeps ==
  ASSUME FormsInv, NEW b \in Accounts, NEW new \in AccountRow, NEW heard \in AccountRow,
         account' = [account EXCEPT ![b] = new], told' = [told EXCEPT ![b] = heard],
         heard.at = "there" => new = heard,
         UNCHANGED <<connectionVars, sliderVars>>, opened' \in Forms,
         \/ AccountFree(b) /\ submitted' = submitted
         \/ \E r \in Posts : /\ submitted[r].form = "account" /\ submitted[r].of = b
                             /\ submitted' = [submitted EXCEPT ![r] = Idle]
  PROVE  FormsInv'
<1>1. /\ OwnerFormsTypeOK /\ submitted \in [Posts -> Forms]
      /\ account \in [Accounts -> AccountRow] /\ told \in [Accounts -> AccountRow]
  BY DEF FormsInv, OwnerFormsTypeOK
<1>2. Idle.form = "none" /\ Idle \in Forms
  BY FormsMade DEF Idle
<1>3. \A q \in Posts : submitted'[q] = submitted[q] \/ submitted'[q] = Idle
  BY <1>1
<1>4. OwnerFormsTypeOK'
  <2>1. submitted' \in [Posts -> Forms]
    BY <1>1, <1>2
  <2>. QED BY <1>1, <2>1 DEF OwnerFormsTypeOK, connectionVars, sliderVars
<1>5. ActiveIsReviewed' /\ DroppedUnread'
  BY <1>2, <1>3 DEF FormsInv, ActiveIsReviewed, DroppedUnread, connectionVars, sliderVars
<1>6. AccountsStand'
  BY <1>1 DEF FormsInv, AccountsStand
<1>7. ASSUME NEW q \in Posts, submitted'[q].form = "account"
      PROVE  submitted'[q] = submitted[q] /\ submitted[q].of # b
  <2>1. submitted'[q] = submitted[q]
    BY <1>2, <1>3, <1>7
  <2>2. CASE AccountFree(b)
    BY <1>7, <2>1, <2>2 DEF AccountFree
  <2>3. ASSUME NEW r \in Posts, submitted[r].form = "account", submitted[r].of = b,
               submitted' = [submitted EXCEPT ![r] = Idle]
        PROVE  submitted[q].of # b
    <3>1. q # r
      BY <1>1, <1>2, <1>7, <2>3
    <3>. QED BY <1>7, <2>1, <2>3, <3>1 DEF FormsInv, LockedAsRead
  <2>. QED BY <2>1, <2>2, <2>3
<1>8. LockedAsRead'
  <2>1. ASSUME NEW q \in Posts, submitted'[q].form = "account"
        PROVE  /\ account'[submitted'[q].of] = submitted'[q].read
               /\ submitted'[q].read.at = "there"
    <3>1. submitted'[q] = submitted[q] /\ submitted[q].of # b
      BY <1>7, <2>1
    <3>2. submitted[q].of \in Accounts
      BY <1>1, <2>1, <3>1, FormFields
    <3>3. account'[submitted[q].of] = account[submitted[q].of]
      BY <1>1, <3>1, <3>2
    <3>. QED BY <2>1, <3>1, <3>3 DEF FormsInv, LockedAsRead
  <2>2. ASSUME NEW p \in Posts, NEW q \in Posts, submitted'[p].form = "account",
               submitted'[q].form = "account", submitted'[q].of = submitted'[p].of
        PROVE  q = p
    BY <1>7, <2>2 DEF FormsInv, LockedAsRead
  <2>. QED BY <2>1, <2>2 DEF LockedAsRead
<1>. QED BY <1>4, <1>5, <1>6, <1>8 DEF FormsInv

(* A step that leaves the rows as they are, and a request behind. *)
LEMMA LeavePostKeeps ==
  ASSUME FormsInv, NEW r \in Posts, submitted' = [submitted EXCEPT ![r] = Idle],
         UNCHANGED <<connectionVars, sliderVars, bankVars, opened>>
  PROVE  FormsInv'
<1>1. Idle.form = "none" /\ Idle \in Forms
  BY FormsMade DEF Idle
<1>2. opened' \in Forms
  BY DEF FormsInv, OwnerFormsTypeOK
<1>. QED BY <1>1, <1>2, PostKeeps

LEMMA AccountsKeep ==
  ASSUME FormsInv, AccountsNext
  PROVE  FormsInv'
<1>1. /\ OwnerFormsTypeOK /\ submitted \in [Posts -> Forms] /\ opened \in Forms
      /\ account \in [Accounts -> AccountRow] /\ told \in [Accounts -> AccountRow]
  BY DEF FormsInv, OwnerFormsTypeOK
<1>2. CASE SaveSheetOf
  <2> DEFINE b == opened.of
  <2>1. opened.form = "account" /\ AccountFree(b) /\ opened' = Idle
        /\ UNCHANGED <<connectionVars, sliderVars, submitted>>
    BY <1>2 DEF SaveSheetOf
  <2>2. b \in Accounts /\ opened.read \in AccountRow /\ Idle \in Forms
    BY <1>1, <2>1, FormFields, FormsMade
  <2>3. CASE /\ account' = [account EXCEPT ![b] = opened.read]
             /\ told' = [told EXCEPT ![b] = Untold]
    <3>1. Untold \in AccountRow /\ Untold.at # "there"
      BY EmptyRows
    <3>. QED BY <2>1, <2>2, <2>3, <3>1, AccountKeeps
  <2>4. CASE UNCHANGED bankVars
    BY <2>1, <2>2, <2>4, PageKeeps
  <2>. QED BY <1>2, <2>3, <2>4 DEF SaveSheetOf
<1>3. ASSUME NEW b \in Accounts, RemoveAccount(b)
      PROVE  FormsInv'
  <2> DEFINE gone == [Untold EXCEPT !.at = "gone"]
  <2>1. gone \in AccountRow /\ Untold \in AccountRow /\ Untold.at # "there"
    BY EmptyRows
  <2>2. /\ account' = [account EXCEPT ![b] = gone] /\ told' = [told EXCEPT ![b] = Untold]
        /\ AccountFree(b) /\ submitted' = submitted
        /\ UNCHANGED <<connectionVars, sliderVars>> /\ opened' \in Forms
    BY <1>1, <1>3 DEF RemoveAccount
  <2>. HIDE DEF gone
  <2>. QED BY <2>1, <2>2, AccountKeeps
<1>4. ASSUME NEW b \in Accounts, OpenSheetOf(b)
      PROVE  FormsInv'
  <2>1. opened' \in Forms
    BY <1>1, <1>4, FormsMade DEF OpenSheetOf
  <2>. QED BY <1>4, <2>1, PageKeeps DEF OpenSheetOf
<1>5. ASSUME NEW b \in Accounts, NEW r \in Posts, OpenAccount(r, b)
      PROVE  FormsInv'
  <2> DEFINE f == [form |-> "account", of |-> b, read |-> account[b]]
  <2>1. f \in Forms /\ f.form = "account" /\ f.of = b /\ f.read = account[b]
    BY <1>1, FormsMade
  <2>2. /\ submitted' = [submitted EXCEPT ![r] = f] /\ opened' \in Forms
        /\ UNCHANGED <<connectionVars, sliderVars, bankVars>>
        /\ AccountFree(b) /\ account[b].at = "there"
    BY <1>1, <1>5 DEF OpenAccount
  <2>. HIDE DEF f
  <2>. QED BY <2>1, <2>2, PostKeeps
<1>6. ASSUME NEW number \in CardNumbers, NEW iban \in Ibans, NEW b \in Accounts,
             AddAccount(b, number, iban)
      PROVE  FormsInv'
  <2> DEFINE new == [at |-> "there", card |-> number, iban |-> iban]
  <2>1. new \in AccountRow
    BY DEF AccountRow, Presence
  <2>2. /\ account' = [account EXCEPT ![b] = new] /\ account[b].at = "new"
        /\ told' = [told EXCEPT ![b] = account'[b]]
        /\ submitted' = submitted
        /\ UNCHANGED <<connectionVars, sliderVars>> /\ opened' \in Forms
    BY <1>1, <1>6 DEF AddAccount
  <2>. HIDE DEF new
  <2>3. account'[b] = new
    BY <1>1, <2>2
  <2>4. AccountFree(b)
    BY <2>2 DEF FormsInv, LockedAsRead, AccountFree
  <2>5. told' = [told EXCEPT ![b] = new]
    BY <2>2, <2>3
  <2>. QED BY <2>1, <2>2, <2>4, <2>5, AccountKeeps
<1>7. ASSUME NEW number \in CardNumbers, NEW iban \in Ibans, NEW r \in Posts,
             SubmitAccount(r, number, iban)
      PROVE  FormsInv'
  <2> DEFINE f == submitted[r]
             b == submitted[r].of
  <2>1. /\ f.form = "account" /\ submitted' = [submitted EXCEPT ![r] = Idle]
        /\ UNCHANGED <<connectionVars, sliderVars, opened>>
        /\ number = f.read.card \/ iban = f.read.iban
    BY <1>7 DEF SubmitAccount
  <2>2. b \in Accounts /\ account[b] = f.read /\ account[b].at = "there"
    BY <1>1, <2>1, FormFields DEF FormsInv, LockedAsRead
  <2>3. CASE UNCHANGED bankVars
    BY <2>1, <2>3, LeavePostKeeps
  <2> DEFINE new == [at |-> account[b].at, card |-> number, iban |-> iban]
             heard == [at |-> told[b].at,
                       card |-> IF number = f.read.card THEN told[b].card ELSE number,
                       iban |-> IF iban = f.read.iban THEN told[b].iban ELSE iban]
  <2>4. CASE account' = [account EXCEPT ![b] = new] /\ told' = [told EXCEPT ![b] = heard]
    <3>1. account[b] \in AccountRow /\ told[b] \in AccountRow
      BY <1>1, <2>2
    <3>2. new \in AccountRow /\ heard \in AccountRow
      BY <3>1 DEF AccountRow
    <3>3. heard.at = "there" => new = heard
      BY <2>2 DEF FormsInv, AccountsStand
    <3>4. opened' \in Forms
      BY <1>1, <2>1
    <3>5. account' = [account EXCEPT ![b] = new] /\ told' = [told EXCEPT ![b] = heard]
      BY <2>4
    <3>. HIDE DEF new, heard
    <3>. QED BY <2>1, <2>2, <3>2, <3>3, <3>4, <3>5, AccountKeeps
  <2>. QED BY <1>7, <2>3, <2>4 DEF SubmitAccount
<1>. QED BY <1>2, <1>3, <1>4, <1>5, <1>6, <1>7 DEF AccountsNext

LEMMA FormsInvHolds == OwnerFormsSpec => []FormsInv
<1>1. OwnerFormsInit => FormsInv
  <2> SUFFICES ASSUME OwnerFormsInit PROVE FormsInv
    OBVIOUS
  <2>1. OwnerFormsTypeOK
    BY EmptyRows, FormsMade DEF OwnerFormsInit, OwnerFormsTypeOK
  <2>2. ActiveIsReviewed /\ AccountsStand
    BY DEF OwnerFormsInit, ActiveIsReviewed, AccountsStand
  <2>3. DroppedUnread /\ LockedAsRead
    BY DEF OwnerFormsInit, DroppedUnread, LockedAsRead, Idle
  <2>. QED BY <2>1, <2>2, <2>3 DEF FormsInv
<1>2. FormsInv /\ [ConnectionNext \/ SlidersNext \/ AccountsNext]_ownerFormsVars => FormsInv'
  <2> SUFFICES ASSUME FormsInv,
                      [ConnectionNext \/ SlidersNext \/ AccountsNext]_ownerFormsVars
               PROVE  FormsInv'
    OBVIOUS
  <2>1. CASE UNCHANGED ownerFormsVars
    <3>1. opened' \in Forms
      BY <2>1 DEF ownerFormsVars, FormsInv, OwnerFormsTypeOK
    <3>. QED BY <2>1, <3>1, PageKeeps DEF ownerFormsVars
  <2>. QED BY <2>1, ConnectionKeeps, SlidersKeep, AccountsKeep
<1>. QED BY <1>1, <1>2, PTL DEF OwnerFormsSpec

(* However requests and the pages of staff interleave: an active           *)
(* connection is one that staff confirmed as it is, a picture that was     *)
(* removed while no request had read it stays away, and an account is what *)
(* its user was told of it.                                                *)
THEOREM FormsAlwaysStand == OwnerFormsSpec => []FormsStand
<1>1. FormsInv => FormsStand
  BY DEF FormsInv, FormsStand, DroppedUnread, RemovedStays
<1>. QED BY FormsInvHolds, <1>1, PTL

----------------------------------------------------------------------------
(* The shelf, for any themes, products and layouts.  A replacement keeps   *)
(* the number of slots it has read, which is still the theme's because     *)
(* every replacement keeps it; a place that an edit has read was a slot,   *)
(* and is one as long as its theme stands; a theme that was removed never  *)
(* returns.  That a place has no other product is not among these: it is   *)
(* the database that looks, when the place is written.                     *)

InSlot(p) == Made(p) /\ place[p].theme \in Themes

Slotted == \A p \in Shelved : InSlot(p) => HasSlot(p, place[p])

Alone ==
  \A p \in Shelved : \A q \in Shelved \ {p} :
    InSlot(p) /\ Made(q) /\ place[q].theme = place[p].theme =>
      place[q].index # place[p].index

FitsAt(p, spot) ==
  spot.theme \in Themes =>
    /\ spot.index > 0 /\ StoreOf[spot.theme] = StoreOf[p]
    /\ theme[spot.theme] # NotMade
    /\ Stands(spot.theme) => spot.index <= SlotCount(theme[spot.theme])

DrawnStill ==
  \A t \in Themes :
    /\ theme[t] = NotMade => drawn[t] = {}
    /\ \A n \in drawn[t] : Stands(t) => n = SlotCount(theme[t])

ShelfInv ==
  /\ ShelfTypeOK
  /\ DrawnStill
  /\ \A p \in Shelved : onForm[p] # NotRead => FitsAt(p, onForm[p])
  /\ Slotted /\ Alone

LEMMA SlotCounts == \A order \in Layouts : SlotCount(order) \in 1..3
<1>1. ASSUME NEW order \in 0..17 PROVE SlotCount(order) \in 1..3
  BY DEF SlotCount
<1>. QED BY <1>1, ShelfAssumption

(* A step that leaves the products alone, and of each theme its number of  *)
(* slots, or that removes it when nothing is placed there.                 *)
LEMMA ThemeStepKeeps ==
  ASSUME ShelfInv, ShelfTypeOK', DrawnStill', UNCHANGED onForm,
         \A p \in Shelved : place'[p] = place[p] \/ ~InSlot(p)',
         \A t \in Themes :
           \/ theme'[t] = theme[t]
           \/ theme[t] = NotMade
           \/ Stands(t) /\ Stands(t)' /\ SlotCount(theme'[t]) = SlotCount(theme[t])
           \/ theme'[t] = Removed /\ \A p \in Shelved : place'[p].theme # t \/ ~Made(p)'
  PROVE  ShelfInv'
<1>1. NotMade \notin Layouts /\ Removed \notin Layouts /\ NotMade # Removed
  BY ShelfAssumption
<1>2. ASSUME NEW p \in Shelved, NEW spot, FitsAt(p, spot) PROVE FitsAt(p, spot)'
  BY <1>1, <1>2 DEF FitsAt, Stands
<1>3. ASSUME NEW p \in Shelved, onForm'[p] # NotRead PROVE FitsAt(p, onForm[p])'
  BY <1>2, <1>3 DEF ShelfInv
<1>4. ASSUME NEW p \in Shelved, InSlot(p)' PROVE HasSlot(p, place[p])'
  <2>1. place'[p] = place[p] /\ InSlot(p) /\ HasSlot(p, place[p])
    BY <1>4 DEF ShelfInv, Slotted, InSlot, Made
  <2> DEFINE t == place[p].theme
  <2>2. t \in Themes /\ Made(p)'
    BY <2>1, <1>4 DEF InSlot
  <2>3. Stands(t)' /\ SlotCount(theme'[t]) = SlotCount(theme[t])
    BY <1>1, <2>1, <2>2 DEF HasSlot, Stands
  <2>. QED BY <2>1, <2>3 DEF HasSlot
<1>5. Alone'
  <2> SUFFICES ASSUME NEW p \in Shelved, NEW q \in Shelved \ {p}, InSlot(p)', Made(q)',
                      place'[q].theme = place'[p].theme
               PROVE  place'[q].index # place'[p].index
    BY DEF Alone
  <2>1. InSlot(q)'
    BY DEF InSlot
  <2>2. place'[p] = place[p] /\ place'[q] = place[q]
    BY <2>1
  <2>. QED BY <2>2 DEF ShelfInv, Alone, InSlot, Made
<1>6. onForm' = onForm
  OBVIOUS
<1>. QED BY <1>3, <1>4, <1>5, <1>6 DEF ShelfInv, Slotted

LEMMA ThemesKeep ==
  ASSUME ShelfInv, NEW t \in Themes,
         \/ CreateTheme(t) \/ ReadLayout(t) \/ ClearTheme(t) \/ RemoveTheme(t)
         \/ \E order \in Layouts : ReplaceLayout(t, order)
  PROVE  ShelfInv'
<1>1. NotMade \notin Layouts /\ Removed \notin Layouts /\ NotMade # Removed
      /\ NoTheme \notin Themes
  BY ShelfAssumption
<1>2. /\ theme \in [Themes -> Layouts \cup {NotMade, Removed}]
      /\ place \in [Shelved -> Spot \cup {NotMade}]
      /\ drawn \in [Themes -> SUBSET (1..3)]
      /\ clearing \in [Themes -> (SUBSET Shelved) \cup {NotRead}]
      /\ ShelfTypeOK /\ DrawnStill
  BY DEF ShelfInv, ShelfTypeOK
<1>3. CASE CreateTheme(t)
  <2>1. PICK order \in Layouts : theme' = [theme EXCEPT ![t] = order]
    BY <1>3 DEF CreateTheme
  <2>2. theme[t] = NotMade /\ UNCHANGED <<place, onForm, drawn, clearing>>
    BY <1>3 DEF CreateTheme
  <2>3. ShelfTypeOK'
    BY <1>2, <2>1, <2>2 DEF ShelfTypeOK
  <2>4. DrawnStill'
    BY <1>2, <2>1, <2>2, <1>1 DEF DrawnStill, Stands
  <2>. QED BY <1>2, <2>1, <2>2, <2>3, <2>4, ThemeStepKeeps
<1>4. CASE ReadLayout(t)
  <2>1. /\ drawn' = [drawn EXCEPT ![t] = @ \cup {SlotCount(theme[t])}] /\ Stands(t)
        /\ UNCHANGED <<theme, place, onForm, clearing>>
    BY <1>4 DEF ReadLayout
  <2>2. SlotCount(theme[t]) \in 1..3
    BY <2>1, SlotCounts DEF Stands
  <2>3. ShelfTypeOK'
    BY <1>2, <2>1, <2>2 DEF ShelfTypeOK
  <2>4. DrawnStill'
    BY <1>1, <1>2, <2>1 DEF DrawnStill, Stands
  <2>. QED BY <2>1, <2>3, <2>4, ThemeStepKeeps
<1>5. CASE ClearTheme(t)
  <2>1. PlacedIn(t) \in SUBSET Shelved
    BY DEF PlacedIn
  <2>2. ShelfTypeOK'
    BY <1>2, <1>5, <2>1 DEF ClearTheme, ShelfTypeOK
  <2>3. DrawnStill'
    BY <1>2, <1>5 DEF ClearTheme, DrawnStill, Stands
  <2>. QED BY <1>5, <2>2, <2>3, ThemeStepKeeps DEF ClearTheme
<1>6. CASE RemoveTheme(t)
  <2>1. /\ theme' = [theme EXCEPT ![t] = Removed]
        /\ clearing' = [clearing EXCEPT ![t] = NotRead] /\ UNCHANGED <<onForm, drawn>>
    BY <1>6 DEF RemoveTheme
  <2>2. /\ place' \in [Shelved -> Spot \cup {NotMade}]
        /\ \A p \in Shelved :
             /\ place'[p] = place[p] \/ place'[p].theme = NoTheme
             /\ place'[p].theme # t \/ ~Made(p)'
    <3>1. \A p \in Shelved : place'[p] =
            IF p \in clearing[t] THEN Nowhere
            ELSE IF p \in PlacedIn(t) THEN [place[p] EXCEPT !.theme = NoTheme]
            ELSE place[p]
      BY <1>6 DEF RemoveTheme
    <3>2. Nowhere \in Spot /\ Nowhere.theme = NoTheme
      BY ShelfAssumption DEF Nowhere, Spot
    <3>3. ASSUME NEW p \in Shelved, Made(p)
          PROVE  /\ [place[p] EXCEPT !.theme = NoTheme] \in Spot
                 /\ [place[p] EXCEPT !.theme = NoTheme].theme = NoTheme
      <4>1. place[p] \in Spot
        BY <1>2, <3>3 DEF Made
      <4>. QED BY <4>1 DEF Spot
    <3>4. ASSUME NEW p \in Shelved
          PROVE  /\ place'[p] \in Spot \cup {NotMade}
                 /\ place'[p] = place[p] \/ place'[p].theme = NoTheme
                 /\ place'[p].theme # t \/ ~Made(p)'
      <4>1. CASE p \in clearing[t]
        BY <1>1, <3>1, <3>2, <4>1
      <4>2. CASE p \notin clearing[t] /\ p \in PlacedIn(t)
        <5>1. Made(p)
          BY <4>2 DEF PlacedIn
        <5>. QED BY <1>1, <3>1, <3>3, <4>2, <5>1
      <4>3. CASE p \notin clearing[t] /\ p \notin PlacedIn(t)
        <5>1. place'[p] = place[p] /\ (Made(p)' <=> Made(p))
          BY <3>1, <4>3 DEF Made
        <5>. QED BY <1>2, <4>3, <5>1 DEF PlacedIn
      <4>. QED BY <4>1, <4>2, <4>3
    <3>5. place' = [p \in Shelved |-> place'[p]]
      BY <1>6 DEF RemoveTheme
    <3>. QED BY <3>4, <3>5
  <2>3. ShelfTypeOK'
    BY <1>2, <2>1, <2>2 DEF ShelfTypeOK
  <2>4. DrawnStill'
    BY <1>1, <1>2, <2>1 DEF DrawnStill, Stands
  <2>5. \A p \in Shelved : place'[p] = place[p] \/ ~InSlot(p)'
    BY <1>1, <2>2 DEF InSlot
  <2>. QED BY <1>2, <2>1, <2>2, <2>3, <2>4, <2>5, ThemeStepKeeps
<1>7. ASSUME NEW order \in Layouts, ReplaceLayout(t, order)
      PROVE  ShelfInv'
  <2>1. /\ theme' = [theme EXCEPT ![t] = order] /\ Stands(t)
        /\ UNCHANGED <<place, onForm, drawn, clearing>>
    BY <1>7 DEF ReplaceLayout
  <2>2. SlotCount(order) = SlotCount(theme[t])
    BY <1>2, <1>7 DEF ReplaceLayout, DrawnStill
  <2>3. ShelfTypeOK'
    BY <1>2, <2>1 DEF ShelfTypeOK
  <2>4. DrawnStill'
    BY <1>1, <1>2, <2>1, <2>2 DEF DrawnStill, Stands
  <2>5. Stands(t)'
    BY <1>2, <2>1 DEF Stands
  <2>6. theme'[t] = order /\ \A u \in Themes \ {t} : theme'[u] = theme[u]
    BY <1>2, <2>1
  <2>. QED BY <2>1, <2>2, <2>3, <2>4, <2>5, <2>6, ThemeStepKeeps
<1>. QED BY <1>3, <1>4, <1>5, <1>6, <1>7

(* A step that puts one product in a spot the database accepts. *)
LEMMA PutsKeeps ==
  ASSUME ShelfInv, NEW p \in Shelved, NEW spot \in Spot, Puts(p, spot),
         Accepted(p, spot), FitsAt(p, spot),
         onForm' \in [Shelved -> Spot \cup {NotRead}],
         \A q \in Shelved : onForm'[q] = onForm[q] \/ onForm'[q] = NotRead
  PROVE  ShelfInv'
<1>1. /\ place \in [Shelved -> Spot \cup {NotMade}] /\ NoTheme \notin Themes
      /\ place' = [place EXCEPT ![p] = spot] /\ UNCHANGED <<theme, drawn, clearing>>
  BY ShelfAssumption DEF ShelfInv, ShelfTypeOK, Puts
<1>2. ShelfTypeOK'
  BY <1>1 DEF ShelfInv, ShelfTypeOK
<1>3. DrawnStill'
  BY <1>1 DEF ShelfInv, DrawnStill, Stands
<1>4. ASSUME NEW q \in Shelved, onForm'[q] # NotRead
      PROVE  FitsAt(q, onForm[q])'
  <2>1. onForm'[q] = onForm[q] /\ FitsAt(q, onForm[q])
    BY <1>4 DEF ShelfInv
  <2>. QED BY <1>1, <2>1 DEF FitsAt, Stands
<1>5. ASSUME NEW q \in Shelved, InSlot(q)'
      PROVE  HasSlot(q, place[q])'
  <2>1. CASE q = p
    <3>1. place'[q] = spot /\ spot.theme \in Themes
      BY <1>1, <1>5, <2>1 DEF InSlot
    <3>2. Stands(spot.theme)
      BY <1>1, <3>1 DEF Accepted
    <3>3. HasSlot(q, spot)
      BY <1>1, <2>1, <3>1, <3>2 DEF FitsAt, HasSlot
    <3>. QED BY <1>1, <3>1, <3>3 DEF HasSlot, Stands
  <2>2. CASE q # p
    <3>1. place'[q] = place[q] /\ InSlot(q)
      BY <1>1, <1>5, <2>2 DEF InSlot, Made
    <3>2. HasSlot(q, place[q])
      BY <3>1 DEF ShelfInv, Slotted
    <3>. QED BY <1>1, <3>1, <3>2 DEF HasSlot, Stands
  <2>. QED BY <2>1, <2>2
<1>6. Alone'
  <2> SUFFICES ASSUME NEW q \in Shelved, NEW r \in Shelved \ {q}, InSlot(q)', Made(r)',
                      place'[r].theme = place'[q].theme
               PROVE  place'[r].index # place'[q].index
    BY DEF Alone
  <2>1. \A x \in Shelved \ {p} :
          spot.theme \in Themes /\ Made(x) /\ place[x].theme = spot.theme =>
            place[x].index # spot.index
    BY <1>1 DEF Accepted, PlacedIn
  <2>2. CASE q = p
    <3>1. place'[q] = spot /\ place'[r] = place[r] /\ Made(r) /\ spot.theme \in Themes
      BY <1>1, <2>2 DEF Made, InSlot
    <3>. QED BY <2>1, <2>2, <3>1
  <2>3. CASE r = p
    <3>1. place'[r] = spot /\ place'[q] = place[q] /\ Made(q) /\ spot.theme \in Themes
      BY <1>1, <2>3 DEF Made, InSlot
    <3>. QED BY <2>1, <2>3, <3>1
  <2>4. CASE q # p /\ r # p
    <3>1. place'[r] = place[r] /\ place'[q] = place[q] /\ InSlot(q) /\ Made(r)
      BY <1>1, <2>4 DEF Made, InSlot
    <3>. QED BY <3>1 DEF ShelfInv, Alone
  <2>. QED BY <2>2, <2>3, <2>4
<1>. QED BY <1>2, <1>3, <1>4, <1>5, <1>6 DEF ShelfInv, Slotted

(* A slot is a place that an edit may read and put back later. *)
LEMMA SlotFits ==
  ASSUME NEW p \in Shelved, NEW spot, HasSlot(p, spot)
  PROVE  FitsAt(p, spot)
BY ShelfAssumption DEF HasSlot, FitsAt, Stands

LEMMA NowhereFits ==
  ASSUME NEW p \in Shelved
  PROVE  Nowhere \in Spot /\ FitsAt(p, Nowhere) /\ Accepted(p, Nowhere)
BY ShelfAssumption DEF Nowhere, Spot, FitsAt, Accepted

LEMMA ProductsKeep ==
  ASSUME ShelfInv, NEW p \in Shelved,
         \/ TakeProduct(p) \/ OpenProduct(p) \/ SaveProduct(p)
         \/ \E spot \in Spot : CreateProduct(p, spot) \/ PlaceProduct(p, spot)
  PROVE  ShelfInv'
<1>1. /\ place \in [Shelved -> Spot \cup {NotMade}]
      /\ onForm \in [Shelved -> Spot \cup {NotRead}] /\ ShelfTypeOK
  BY DEF ShelfInv, ShelfTypeOK
<1>2. CASE TakeProduct(p)
  <2>1. Puts(p, Nowhere) /\ onForm' = onForm
    BY <1>2 DEF TakeProduct
  <2>. QED BY <1>1, <2>1, NowhereFits, PutsKeeps
<1>3. ASSUME NEW spot \in Spot, CreateProduct(p, spot) \/ PlaceProduct(p, spot)
      PROVE  ShelfInv'
  <2>1. Puts(p, spot) /\ onForm' = onForm /\ Accepted(p, spot)
        /\ (spot = Nowhere \/ HasSlot(p, spot))
    BY <1>3 DEF CreateProduct, PlaceProduct
  <2>2. FitsAt(p, spot)
    BY <2>1, NowhereFits, SlotFits
  <2>. QED BY <1>1, <2>1, <2>2, PutsKeeps
<1>4. CASE OpenProduct(p)
  <2>1. /\ onForm' = [onForm EXCEPT ![p] = place[p]] /\ place[p] \in Spot
        /\ UNCHANGED <<theme, place, drawn, clearing>> /\ Made(p)
    BY <1>1, <1>4 DEF OpenProduct, Made
  <2>2. ShelfTypeOK'
    BY <1>1, <2>1 DEF ShelfTypeOK
  <2>3. FitsAt(p, place[p])
    <3>1. CASE place[p].theme \in Themes
      BY <2>1, <3>1, SlotFits DEF ShelfInv, Slotted, InSlot
    <3>2. CASE place[p].theme \notin Themes
      BY <3>2 DEF FitsAt
    <3>. QED BY <3>1, <3>2
  <2>4. ASSUME NEW q \in Shelved, onForm'[q] # NotRead PROVE FitsAt(q, onForm[q])'
    <3>1. FitsAt(q, onForm'[q])
      BY <1>1, <2>1, <2>3, <2>4 DEF ShelfInv
    <3>. QED BY <2>1, <3>1 DEF FitsAt, Stands
  <2>5. DrawnStill' /\ Slotted' /\ Alone'
    BY <2>1 DEF ShelfInv, DrawnStill, Slotted, Alone, InSlot, Made, HasSlot, Stands
  <2>. QED BY <2>2, <2>4, <2>5 DEF ShelfInv
<1>5. CASE SaveProduct(p)
  <2>1. onForm[p] \in Spot /\ onForm' = [onForm EXCEPT ![p] = NotRead]
        /\ FitsAt(p, onForm[p])
    BY <1>1, <1>5 DEF SaveProduct, ShelfInv
  <2>2. /\ onForm' \in [Shelved -> Spot \cup {NotRead}]
        /\ \A q \in Shelved : onForm'[q] = onForm[q] \/ onForm'[q] = NotRead
    BY <1>1, <2>1
  <2>3. CASE Accepted(p, onForm[p]) /\ Puts(p, onForm[p])
    <3> DEFINE spot == onForm[p]
    <3>1. spot \in Spot /\ Puts(p, spot) /\ Accepted(p, spot) /\ FitsAt(p, spot)
      BY <2>1, <2>3
    <3>. HIDE DEF spot
    <3>. QED BY <2>2, <3>1, PutsKeeps
  <2>4. CASE UNCHANGED <<theme, place, drawn, clearing>>
    <3>1. ShelfTypeOK'
      BY <1>1, <2>2, <2>4 DEF ShelfTypeOK
    <3>2. DrawnStill' /\ Slotted' /\ Alone'
      BY <2>4 DEF ShelfInv, DrawnStill, Slotted, Alone, InSlot, Made, HasSlot, Stands
    <3>3. ASSUME NEW q \in Shelved, onForm'[q] # NotRead PROVE FitsAt(q, onForm[q])'
      <4>1. FitsAt(q, onForm'[q])
        BY <2>2, <3>3 DEF ShelfInv
      <4>. QED BY <2>4, <4>1 DEF FitsAt, Stands
    <3>. QED BY <3>1, <3>2, <3>3 DEF ShelfInv
  <2>. QED BY <1>5, <2>3, <2>4 DEF SaveProduct
<1>. QED BY <1>2, <1>3, <1>4, <1>5

LEMMA ShelfInvHolds == ShelfSpec => []ShelfInv
<1>1. ShelfInit => ShelfInv
  <2> SUFFICES ASSUME ShelfInit PROVE ShelfInv
    OBVIOUS
  <2>1. ShelfTypeOK
    BY DEF ShelfInit, ShelfTypeOK
  <2>2. DrawnStill /\ Slotted /\ Alone
    BY ShelfAssumption DEF ShelfInit, DrawnStill, Stands, Slotted, Alone, InSlot, Made
  <2>. QED BY <2>1, <2>2 DEF ShelfInit, ShelfInv
<1>2. ShelfInv /\ [ShelfNext]_shelfVars => ShelfInv'
  <2> SUFFICES ASSUME ShelfInv, [ShelfNext]_shelfVars PROVE ShelfInv'
    OBVIOUS
  <2>1. CASE UNCHANGED shelfVars
    BY <2>1 DEF shelfVars, ShelfInv, ShelfTypeOK, DrawnStill, FitsAt, Slotted, Alone, InSlot,
                Made, HasSlot, Stands
  <2>2. CASE ShelfNext
    BY <2>2, ThemesKeep, ProductsKeep DEF ShelfNext
  <2>. QED BY <2>1, <2>2
<1>. QED BY <1>1, <1>2, PTL DEF ShelfSpec

(* Whatever edits put back, and layouts are replaced or removed meanwhile, *)
(* a product placed in a theme has a slot of it to itself.                 *)
THEOREM PlacedInLayoutAlways == ShelfSpec => []PlacedInLayout
<1>1. ShelfInv => PlacedInLayout
  <2> SUFFICES ASSUME ShelfInv, NEW t \in Themes, NEW p \in PlacedIn(t)
               PROVE  /\ HasSlot(p, place[p])
                      /\ \A q \in PlacedIn(t) \ {p} : place[q].index # place[p].index
    BY DEF PlacedInLayout
  <2>1. p \in Shelved /\ InSlot(p) /\ place[p].theme = t
    BY DEF PlacedIn, InSlot
  <2>2. HasSlot(p, place[p])
    BY <2>1 DEF ShelfInv, Slotted
  <2>3. ASSUME NEW q \in PlacedIn(t) \ {p} PROVE place[q].index # place[p].index
    <3>1. q \in Shelved \ {p} /\ Made(q) /\ place[q].theme = place[p].theme
      BY <2>1 DEF PlacedIn
    <3>. QED BY <2>1, <3>1 DEF ShelfInv, Alone
  <2>. QED BY <2>2, <2>3
<1>. QED BY ShelfInvHolds, <1>1, PTL

----------------------------------------------------------------------------
(* Wallets and business cards, for any users, cards and payments.  A       *)
(* payment that is not complete has made no entry; one that is pending for *)
(* a card is the only one, and what it asked for is still the card's,      *)
(* unless staff wrote over it.                                             *)

PaymentEntries ==
  \A y \in Payments :
    entry[y] = IF payment[y].status = "complete" /\ Target(y) \in Holders
               THEN [action |-> "charge", from |-> Target(y), to |-> Target(y),
                     amount |-> payment[y].amount]
               ELSE NoEntry

WalletsAdd ==
  \A u \in Holders :
    /\ IsFiniteSet(UnitsOf(Entering(u))) /\ IsFiniteSet(UnitsOf(Leaving(u)))
    /\ wallet[u] = Cardinality(UnitsOf(Entering(u))) - Cardinality(UnitsOf(Leaving(u)))

CardsGiven ==
  \A y \in Payments :
    Target(y) \in Cards =>
      /\ payment[y].status = "pending" =>
           /\ bought[y].written \/ card[Target(y)].days = bought[y].asked
           /\ \A z \in Payments :
                payment[z].status = "pending" /\ Target(z) = Target(y) => z = y
      /\ payment[y].status = "complete" =>
           bought[y].written \/ bought[y].given = bought[y].asked

AccountInv ==
  /\ AccountTypeOK
  /\ \A i \in Entries : entry[i].action = "none" => entry[i] = NoEntry
  /\ \A c \in Cards : sheet[c] # NoSheet => sheet[c].days \in Nat
  /\ PaymentEntries /\ WalletsAdd
  /\ CardsGiven

LEMMA AccountFacts ==
  /\ IsFiniteSet(Entries) /\ Payments \cap Moves = {}
  /\ NoTarget \notin Holders /\ NoTarget \notin Cards /\ Holders \cap Cards = {}
  /\ Sums \subseteq Nat /\ NoEntry \in EntryRow /\ Payments \subseteq Entries
  /\ Moves \subseteq Entries /\ Holders \subseteq Targets /\ Cards \subseteq Targets
<1>1. IsFiniteSet(Entries)
  BY AccountAssumption, GatewayAssumption, FS_Union DEF Entries
<1>. QED BY <1>1, AccountAssumption, GatewayAssumption DEF NoEntry, EntryRow, Action, Entries

(* Units of money *)
LEMMA Units ==
  ASSUME NEW i, NEW n \in Nat
  PROVE  IsFiniteSet({i} \X (1..n)) /\ Cardinality({i} \X (1..n)) = n
<1>1. IsFiniteSet(1..n) /\ Cardinality(1..n) = n
  BY FS_Interval
<1>2. IsFiniteSet({i}) /\ Cardinality({i}) = 1
  BY FS_Singleton
<1>. QED BY <1>1, <1>2, FS_Product

LEMMA Disjoint ==
  ASSUME NEW A, NEW B, IsFiniteSet(A), IsFiniteSet(B), A \cap B = {}
  PROVE  IsFiniteSet(A \cup B) /\ Cardinality(A \cup B) = Cardinality(A) + Cardinality(B)
<1>1. Cardinality(A) \in Nat /\ Cardinality(B) \in Nat /\ Cardinality(A \cap B) = 0
  BY FS_CardinalityType, FS_EmptySet
<1>2. /\ IsFiniteSet(A \cup B)
      /\ Cardinality(A \cup B) = Cardinality(A) + Cardinality(B) - Cardinality(A \cap B)
  BY FS_Union, Zenon
<1>. QED BY <1>1, <1>2

LEMMA MoreUnits ==
  ASSUME NEW some, IsFiniteSet(UnitsOf(some)), NEW i, i \notin some,
         \A x \in some : entry'[x].amount = entry[x].amount, entry'[i].amount \in Nat
  PROVE  /\ IsFiniteSet(UnitsOf(some \cup {i})')
         /\ Cardinality(UnitsOf(some \cup {i})')
              = Cardinality(UnitsOf(some)) + entry'[i].amount
<1> DEFINE more == {i} \X (1..entry'[i].amount)
<1>1. UnitsOf(some \cup {i})' = UnitsOf(some) \cup more
  BY DEF UnitsOf
<1>2. UnitsOf(some) \cap more = {}
  BY DEF UnitsOf
<1>3. IsFiniteSet(more) /\ Cardinality(more) = entry'[i].amount
  BY Units
<1>. HIDE DEF more
<1>. QED BY <1>1, <1>2, <1>3, Disjoint

(* A new entry adds its amount to what entered the wallet it names, and to *)
(* what left the other.                                                    *)
Grows(old, new, by) ==
  IsFiniteSet(old) /\ IsFiniteSet(new) /\ Cardinality(new) = Cardinality(old) + by

LEMMA EntryAdds ==
  ASSUME AccountTypeOK, NEW i \in Entries, NEW new \in EntryRow, entry[i] = NoEntry,
         entry' = [entry EXCEPT ![i] = new], NEW u \in Holders,
         IsFiniteSet(UnitsOf(Entering(u))), IsFiniteSet(UnitsOf(Leaving(u)))
  PROVE  /\ Grows(UnitsOf(Entering(u)), UnitsOf(Entering(u))',
                  IF new.to = u /\ new.action # "spend" THEN new.amount ELSE 0)
         /\ Grows(UnitsOf(Leaving(u)), UnitsOf(Leaving(u))',
                  IF new.from = u /\ new.action # "charge" THEN new.amount ELSE 0)
<1>1. /\ entry \in [Entries -> EntryRow] /\ entry'[i] = new
      /\ \A x \in Entries \ {i} : entry'[x] = entry[x]
  BY DEF AccountTypeOK
<1>2. /\ i \notin Entering(u) /\ i \notin Leaving(u)
      /\ \A x \in Entering(u) : entry'[x].amount = entry[x].amount
      /\ \A x \in Leaving(u) : entry'[x].amount = entry[x].amount
  BY <1>1, AccountFacts DEF Entering, Leaving, NoEntry
<1>3. new.amount \in Nat
  BY DEF EntryRow
<1>4. Entering(u)' = IF new.to = u /\ new.action # "spend" THEN Entering(u) \cup {i}
                     ELSE Entering(u)
  BY <1>1, <1>2 DEF Entering
<1>5. Leaving(u)' = IF new.from = u /\ new.action # "charge" THEN Leaving(u) \cup {i}
                    ELSE Leaving(u)
  BY <1>1, <1>2 DEF Leaving
<1>6. ASSUME NEW some, i \notin some, IsFiniteSet(UnitsOf(some)),
             \A x \in some : entry'[x].amount = entry[x].amount,
             NEW later, NEW joins \in BOOLEAN,
             later = IF joins THEN some \cup {i} ELSE some
      PROVE  Grows(UnitsOf(some), UNION {{x} \X (1..entry'[x].amount) : x \in later},
                   IF joins THEN new.amount ELSE 0)
  <2> DEFINE first == UnitsOf(some)
             grown == UnitsOf(some \cup {i})'
             units == UNION {{x} \X (1..entry'[x].amount) : x \in later}
  <2>1. IsFiniteSet(first) /\ Cardinality(first) \in Nat
    BY <1>6, FS_CardinalityType
  <2>2. ASSUME joins PROVE Grows(first, units, new.amount)
    <3>1. units = grown
      BY <1>6, <2>2 DEF UnitsOf
    <3>2. entry'[i].amount = new.amount
      BY <1>1
    <3>3. IsFiniteSet(grown) /\ Cardinality(grown) = Cardinality(first) + new.amount
      BY <1>3, <1>6, <3>2, MoreUnits
    <3>. HIDE DEF first, grown, units
    <3>. QED BY <2>1, <3>1, <3>3 DEF Grows
  <2>3. ASSUME ~joins PROVE Grows(first, units, 0)
    <3>1. units = first
      BY <1>6, <2>3 DEF UnitsOf
    <3>. HIDE DEF first, grown, units
    <3>. QED BY <2>1, <3>1 DEF Grows
  <2>. QED BY <2>2, <2>3
<1>7. /\ UnitsOf(Entering(u))' = UNION {{x} \X (1..entry'[x].amount) : x \in Entering(u)'}
      /\ UnitsOf(Leaving(u))' = UNION {{x} \X (1..entry'[x].amount) : x \in Leaving(u)'}
  BY DEF UnitsOf
<1>8. Grows(UnitsOf(Entering(u)), UnitsOf(Entering(u))',
            IF new.to = u /\ new.action # "spend" THEN new.amount ELSE 0)
  <2> DEFINE joins == new.to = u /\ new.action # "spend"
  <2>1. joins \in BOOLEAN /\ Entering(u)' = IF joins THEN Entering(u) \cup {i} ELSE Entering(u)
    BY <1>4
  <2>. HIDE DEF joins
  <2>2. Grows(UnitsOf(Entering(u)), UnitsOf(Entering(u))', IF joins THEN new.amount ELSE 0)
    BY <1>2, <1>6, <1>7, <2>1
  <2>. QED BY <2>2 DEF joins
<1>9. Grows(UnitsOf(Leaving(u)), UnitsOf(Leaving(u))',
            IF new.from = u /\ new.action # "charge" THEN new.amount ELSE 0)
  <2> DEFINE joins == new.from = u /\ new.action # "charge"
  <2>1. joins \in BOOLEAN /\ Leaving(u)' = IF joins THEN Leaving(u) \cup {i} ELSE Leaving(u)
    BY <1>5
  <2>. HIDE DEF joins
  <2>2. Grows(UnitsOf(Leaving(u)), UnitsOf(Leaving(u))', IF joins THEN new.amount ELSE 0)
    BY <1>2, <1>6, <1>7, <2>1
  <2>. QED BY <2>2 DEF joins
<1>. QED BY <1>8, <1>9

(* A step that leaves the wallets, their entries and what was paid alone.  *)
LEMMA MoneyStays ==
  ASSUME AccountInv, UNCHANGED <<wallet, entry>>,
         \A y \in Payments :
           \/ /\ payment'[y].status = payment[y].status
              /\ payment'[y].target = payment[y].target
              /\ payment'[y].amount = payment[y].amount
           \/ /\ payment[y].status # "complete"
              /\ payment'[y].status # "complete" \/ payment'[y].target \notin Holders
  PROVE  PaymentEntries' /\ WalletsAdd'
         /\ (\A i \in Entries : entry[i].action = "none" => entry[i] = NoEntry)'
<1>1. wallet' = wallet /\ entry' = entry
  OBVIOUS
<1>2. PaymentEntries'
  BY <1>1 DEF AccountInv, PaymentEntries, Target
<1>3. ASSUME NEW u \in Holders
      PROVE  UnitsOf(Entering(u))' = UnitsOf(Entering(u))
             /\ UnitsOf(Leaving(u))' = UnitsOf(Leaving(u))
  BY <1>1, Zenon DEF UnitsOf, Entering, Leaving
<1>4. WalletsAdd'
  BY <1>1, <1>3 DEF AccountInv, WalletsAdd
<1>5. (\A i \in Entries : entry[i].action = "none" => entry[i] = NoEntry)'
  BY <1>1 DEF AccountInv
<1>. QED BY <1>2, <1>4, <1>5

(* A step that writes a new entry, and leaves the payments alone or        *)
(* completes the one it is for.                                            *)
LEMMA EntryKeeps ==
  ASSUME AccountInv, NEW i \in Entries, NEW new \in EntryRow, entry[i] = NoEntry,
         entry' = [entry EXCEPT ![i] = new], new.action # "none",
         \A u \in Holders : wallet'[u] =
           wallet[u] + (IF new.to = u /\ new.action # "spend" THEN new.amount ELSE 0)
                     - (IF new.from = u /\ new.action # "charge" THEN new.amount ELSE 0)
  PROVE  /\ WalletsAdd'
         /\ (\A x \in Entries : entry[x].action = "none" => entry[x] = NoEntry)'
<1>1. AccountTypeOK /\ entry \in [Entries -> EntryRow] /\ wallet \in [Holders -> Nat]
  BY DEF AccountInv, AccountTypeOK
<1>2. ASSUME NEW u \in Holders
      PROVE  /\ IsFiniteSet(UnitsOf(Entering(u))') /\ IsFiniteSet(UnitsOf(Leaving(u))')
             /\ wallet'[u] = Cardinality(UnitsOf(Entering(u))')
                               - Cardinality(UnitsOf(Leaving(u))')
  <2> DEFINE in == IF new.to = u /\ new.action # "spend" THEN new.amount ELSE 0
             out == IF new.from = u /\ new.action # "charge" THEN new.amount ELSE 0
             a == UnitsOf(Entering(u))
             b == UnitsOf(Leaving(u))
  <2>1. /\ IsFiniteSet(a) /\ IsFiniteSet(b) /\ wallet[u] = Cardinality(a) - Cardinality(b)
    BY DEF AccountInv, WalletsAdd
  <2>2. Grows(a, a', in) /\ Grows(b, b', out)
    BY <1>1, <2>1, EntryAdds
  <2>3. in \in Nat /\ out \in Nat
    BY DEF EntryRow
  <2>4. wallet'[u] = wallet[u] + in - out
    OBVIOUS
  <2>5. Cardinality(a) \in Nat /\ Cardinality(b) \in Nat
    BY <2>1, FS_CardinalityType
  <2> HIDE DEF in, out, a, b
  <2>6. /\ IsFiniteSet(a') /\ IsFiniteSet(b')
        /\ wallet'[u] = Cardinality(a') - Cardinality(b')
    BY <2>1, <2>2, <2>3, <2>4, <2>5 DEF Grows
  <2>. QED BY <2>6 DEF a, b
<1>3. \A x \in Entries : entry'[x].action = "none" => entry'[x] = NoEntry
  BY <1>1 DEF AccountInv
<1>. QED BY <1>2, <1>3 DEF WalletsAdd

(* Cards *)
LEMMA CardsStay ==
  ASSUME AccountInv, UNCHANGED bought, \A c \in Cards : card'[c].days = card[c].days,
         \A y \in Payments : /\ payment'[y].target = payment[y].target
                             /\ \/ payment'[y].status = payment[y].status
                                \/ payment'[y].status \in {"failed", "canceled"}
  PROVE  CardsGiven'
BY DEF AccountInv, CardsGiven, Target

(* Transfers and purchases. *)
LEMMA MovesKeep ==
  ASSUME AccountInv, NEW i \in Moves, NEW u \in Holders, NEW amount \in 1..MaxBalance,
         DecreaseBalance(u, i, amount) \/ \E v \in Holders : Transfer(u, v, i, amount)
  PROVE  AccountInv'
<1>1. /\ AccountTypeOK /\ entry \in [Entries -> EntryRow] /\ wallet \in [Holders -> Nat]
      /\ i \in Entries /\ amount \in Nat /\ i \notin Payments
  BY AccountFacts, AccountAssumption DEF AccountInv, AccountTypeOK
<1>2. /\ UNCHANGED <<payment, worker, session, card, bought, tariff, sheet, today>>
      /\ entry[i] = NoEntry
  BY <1>1 DEF DecreaseBalance, Transfer, AccountInv, deskVars
<1> DEFINE Moved(new) ==
      /\ entry' = [entry EXCEPT ![i] = new] /\ new.action # "none"
      /\ wallet' \in [Holders -> Nat]
      /\ \A w \in Holders : wallet'[w] =
           wallet[w] + (IF new.to = w /\ new.action # "spend" THEN new.amount ELSE 0)
                     - (IF new.from = w /\ new.action # "charge" THEN new.amount ELSE 0)
<1>3. PICK new \in EntryRow : Moved(new)
  <2>1. CASE DecreaseBalance(u, i, amount)
    <3> DEFINE new == [action |-> "spend", from |-> u, to |-> u, amount |-> amount]
    <3>1. /\ new \in EntryRow /\ new.action = "spend" /\ new.from = u /\ new.amount = amount
      BY <1>1 DEF EntryRow, Action
    <3>2. /\ entry' = [entry EXCEPT ![i] = new] /\ wallet[u] >= amount
          /\ wallet' = [wallet EXCEPT ![u] = @ - amount]
      BY <2>1 DEF DecreaseBalance
    <3>. HIDE DEF new
    <3>3. wallet' \in [Holders -> Nat]
      BY <1>1, <3>2
    <3>4. Moved(new)
      BY <1>1, <3>1, <3>2, <3>3
    <3>. HIDE DEF Moved
    <3>. QED BY <3>1, <3>4
  <2>2. ASSUME NEW v \in Holders, Transfer(u, v, i, amount)
        PROVE  \E new \in EntryRow : Moved(new)
    <3> DEFINE new == [action |-> "exchange", from |-> u, to |-> v, amount |-> amount]
    <3>1. /\ new \in EntryRow /\ new.action = "exchange" /\ new.from = u /\ new.to = v
          /\ new.amount = amount
      BY <1>1 DEF EntryRow, Action
    <3>2. /\ entry' = [entry EXCEPT ![i] = new] /\ wallet[u] >= amount /\ u # v
          /\ wallet' = [wallet EXCEPT ![u] = @ - amount, ![v] = @ + amount]
      BY <2>2 DEF Transfer
    <3>. HIDE DEF new
    <3>3. \A w \in Holders : wallet'[w] = IF w = u THEN wallet[u] - amount
                                          ELSE IF w = v THEN wallet[v] + amount ELSE wallet[w]
      BY <1>1, <3>2
    <3>4. wallet' \in [Holders -> Nat]
      BY <1>1, <3>2
    <3>5. Moved(new)
      BY <1>1, <3>1, <3>2, <3>3, <3>4
    <3>. HIDE DEF Moved
    <3>. QED BY <3>1, <3>5
  <2>. QED BY <2>1, <2>2
<1>4. AccountTypeOK'
  BY <1>1, <1>2, <1>3 DEF AccountTypeOK, GatewayTypeOK
<1>5. WalletsAdd' /\ (\A x \in Entries : entry[x].action = "none" => entry[x] = NoEntry)'
  BY <1>1, <1>2, <1>3, EntryKeeps
<1>6. PaymentEntries'
  BY <1>1, <1>2, <1>3, AccountFacts DEF AccountInv, PaymentEntries, Target
<1>7. CardsGiven' /\ (\A c \in Cards : sheet[c] # NoSheet => sheet[c].days \in Nat)'
  BY <1>2 DEF AccountInv, CardsGiven, Target
<1>. QED BY <1>4, <1>5, <1>6, <1>7 DEF AccountInv

LEMMA AccountTypes ==
  ASSUME AccountInv
  PROVE  /\ AccountTypeOK /\ GatewayTypeOK
         /\ \A y \in Payments : payment[y] \in PaymentRow /\ bought[y] \in Bought
         /\ \A c \in Cards : card[c] \in CardRow /\ sheet[c] \in Sheet
         /\ wallet \in [Holders -> Nat] /\ entry \in [Entries -> EntryRow]
         /\ card \in [Cards -> CardRow] /\ bought \in [Payments -> Bought]
         /\ sheet \in [Cards -> Sheet]
BY DEF AccountInv, AccountTypeOK, GatewayTypeOK

(* Opening a session. *)
LEMMA OpenKeeps ==
  ASSUME AccountInv, NEW y \in Payments,
         \/ \E u \in Holders, amount \in Sums : PayIntoWallet(u, y, amount)
         \/ \E c \in Cards : PayForCard(c, y)
  PROVE  AccountInv'
<1>1. CASE \E u \in Holders, amount \in Sums : PayIntoWallet(u, y, amount)
  <2>1. PICK u \in Holders, amount \in Sums : PayIntoWallet(u, y, amount)
    BY <1>1
  <2>2. /\ CreatePayment(y, u, amount)
        /\ UNCHANGED <<wallet, entry, card, bought, tariff, sheet, today>>
    BY <2>1 DEF PayIntoWallet, rowVars, deskVars
  <2>3. GatewayTypeOK'
    BY <2>2, AccountTypes, AccountFacts, GatewayTypes
  <2>4. AccountTypeOK'
    BY <2>2, <2>3, AccountTypes DEF AccountTypeOK
  <2>5. /\ payment[y].status = "absent" /\ payment'[y].status = "pending"
        /\ payment'[y].target = u
        /\ \A z \in Payments \ {y} : payment'[z] = payment[z]
    BY <2>2, AccountTypes DEF CreatePayment, GatewayTypeOK
  <2>6. PaymentEntries' /\ WalletsAdd'
        /\ (\A i \in Entries : entry[i].action = "none" => entry[i] = NoEntry)'
    BY <2>2, <2>5, MoneyStays
  <2>7. u \notin Cards
    BY AccountFacts
  <2>8. CardsGiven'
    BY <2>2, <2>5, <2>7 DEF AccountInv, CardsGiven, Target
  <2>. QED BY <2>2, <2>4, <2>6, <2>8 DEF AccountInv
<1>2. CASE \E c \in Cards : PayForCard(c, y)
  <2>1. PICK c \in Cards : PayForCard(c, y)
    BY <1>2
  <2> DEFINE days == DaysOf[tariff]
  <2>2. /\ CreatePayment(y, c, FeeOf[tariff]) /\ tariff \in Tariffs
        /\ PendingFor(c) = {}
        /\ card' = [card EXCEPT ![c].days = days]
        /\ bought' = [bought EXCEPT ![y].asked = days]
        /\ UNCHANGED <<wallet, entry, tariff, sheet, today>>
    BY <2>1, AccountTypes DEF PayForCard, CardPayable, deskVars, AccountTypeOK
  <2>3. days \in Nat /\ FeeOf[tariff] \in Sums
    BY <2>2, AccountAssumption
  <2>. HIDE DEF days
  <2>4. GatewayTypeOK'
    BY <2>2, <2>3, AccountTypes, AccountFacts, GatewayTypes
  <2>5. /\ card' \in [Cards -> CardRow] /\ card'[c].days = days
        /\ \A d \in Cards \ {c} : card'[d] = card[d]
    BY <2>2, <2>3, AccountTypes DEF CardRow
  <2>6. /\ bought' \in [Payments -> Bought] /\ bought'[y].asked = days
        /\ \A z \in Payments \ {y} : bought'[z] = bought[z]
    BY <2>2, <2>3, AccountTypes DEF Bought
  <2>7. AccountTypeOK'
    BY <2>2, <2>4, <2>5, <2>6, AccountTypes DEF AccountTypeOK
  <2>8. /\ payment[y].status = "absent" /\ payment'[y].status = "pending"
        /\ payment'[y].target = c
        /\ \A z \in Payments \ {y} : payment'[z] = payment[z]
    BY <2>2, AccountTypes DEF CreatePayment, GatewayTypeOK
  <2>9. PaymentEntries' /\ WalletsAdd'
        /\ (\A i \in Entries : entry[i].action = "none" => entry[i] = NoEntry)'
    BY <2>2, <2>8, MoneyStays
  <2>10. \A z \in Payments : ~(payment[z].target = c /\ payment[z].status = "pending")
    BY <2>2 DEF PendingFor
  <2>11. CardsGiven'
    BY <2>5, <2>6, <2>8, <2>10 DEF AccountInv, CardsGiven, Target
  <2>. QED BY <2>2, <2>7, <2>9, <2>11 DEF AccountInv
<1>. QED BY <1>1, <1>2

(* A verification that succeeds. *)
LEMMA PaidKeeps ==
  ASSUME AccountInv, NEW y \in Payments, AccountPaid(y)
  PROVE  AccountInv'
<1>1. /\ Ends(y, {"complete"}) /\ GatewayTypeOK'
      /\ UNCHANGED <<tariff, sheet, today>> /\ Fulfilled(y)
  BY AccountTypes, SessionEffects, GatewayTypes DEF AccountPaid, deskVars
<1>2. /\ payment[y].status = "pending" /\ payment'[y].status = "complete"
      /\ payment'[y].target = payment[y].target /\ payment'[y].amount = payment[y].amount
      /\ \A z \in Payments \ {y} : payment'[z] = payment[z]
  BY <1>1 DEF Ends
<1>3. entry[y] = NoEntry /\ y \in Entries /\ payment[y].amount \in Nat
  BY <1>2, AccountTypes, AccountFacts DEF AccountInv, PaymentEntries, PaymentRow
<1>4. CASE Target(y) \in Holders
  <2> DEFINE u == payment[y].target
             n == payment[y].amount
             new == [action |-> "charge", from |-> u, to |-> u, amount |-> n]
  <2>1. /\ wallet' = [wallet EXCEPT ![u] = @ + n]
        /\ entry' = [entry EXCEPT ![y] = new] /\ UNCHANGED <<card, bought>>
    BY <1>1, <1>4, AccountFacts DEF Fulfilled, IncreaseBalance, Target
  <2>2. /\ new \in EntryRow /\ new.action = "charge" /\ new.to = u /\ new.from = u
        /\ new.amount = n
    BY <1>3, <1>4 DEF EntryRow, Action, Target
  <2>3. u \in Holders /\ n \in Nat /\ u \notin Cards
    BY <1>3, <1>4, AccountFacts DEF Target
  <2>4. PaymentEntries'
    <3>1. entry'[y] = new /\ \A z \in Payments \ {y} : entry'[z] = entry[z]
      BY <1>3, <2>1, AccountTypes, AccountFacts
    <3>. QED BY <1>2, <1>4, <3>1 DEF AccountInv, PaymentEntries, Target
  <2>. HIDE DEF new, u, n
  <2>5. AccountTypeOK'
    BY <1>1, <1>3, <2>1, <2>2, <2>3, AccountTypes DEF AccountTypeOK
  <2>6. \A w \in Holders : wallet'[w] =
          wallet[w] + (IF new.to = w /\ new.action # "spend" THEN new.amount ELSE 0)
                    - (IF new.from = w /\ new.action # "charge" THEN new.amount ELSE 0)
    BY <2>1, <2>2, <2>3, AccountTypes
  <2>7. WalletsAdd' /\ (\A x \in Entries : entry[x].action = "none" => entry[x] = NoEntry)'
    BY <1>3, <2>1, <2>2, <2>6, EntryKeeps
  <2>8. CardsGiven'
    BY <1>2, <2>1, <2>3 DEF AccountInv, CardsGiven, Target, u
  <2>. QED BY <1>1, <2>1, <2>4, <2>5, <2>7, <2>8 DEF AccountInv
<1>5. CASE Target(y) \in Cards
  <2> DEFINE c == payment[y].target
             start == IF card[c].end > today THEN card[c].end ELSE today
             end == start + card[c].days
             new == [card[c] EXCEPT !.paid = TRUE, !.end = end]
  <2>1. /\ card' = [card EXCEPT ![c] = new]
        /\ bought' = [bought EXCEPT ![y].given = end - start] /\ UNCHANGED <<wallet, entry>>
    BY <1>1, <1>5, AccountFacts DEF Fulfilled, ExtendSubscription, Target
  <2>2. card[c] \in CardRow /\ c \in Cards /\ c \notin Holders
    BY <1>5, AccountTypes, AccountFacts DEF Target
  <2>3. card[c].end \in Int /\ card[c].days \in Nat /\ today \in Int
    BY <2>2, AccountTypes, AccountAssumption DEF CardRow, AccountTypeOK
  <2>4. end \in Int /\ end - start = card[c].days
    BY <2>3
  <2>. HIDE DEF end, start
  <2>5. new \in CardRow /\ new.days = card[c].days
    BY <2>2, <2>4 DEF CardRow
  <2>. HIDE DEF new
  <2>6. /\ bought' \in [Payments -> Bought] /\ bought'[y].given = card[c].days
        /\ bought'[y].asked = bought[y].asked /\ bought'[y].written = bought[y].written
        /\ \A z \in Payments \ {y} : bought'[z] = bought[z]
    BY <2>1, <2>3, <2>4, AccountTypes DEF Bought
  <2>7. /\ card' \in [Cards -> CardRow] /\ \A d \in Cards : card'[d].days = card[d].days
    BY <2>1, <2>2, <2>5, AccountTypes
  <2>8. AccountTypeOK'
    BY <1>1, <2>1, <2>6, <2>7, AccountTypes DEF AccountTypeOK
  <2>9. PaymentEntries' /\ WalletsAdd'
        /\ (\A i \in Entries : entry[i].action = "none" => entry[i] = NoEntry)'
    BY <1>2, <2>1, <2>2, MoneyStays
  <2>10. CardsGiven'
    BY <1>2, <1>5, <2>6, <2>7 DEF AccountInv, CardsGiven, Target
  <2>. QED BY <1>1, <2>8, <2>9, <2>10 DEF AccountInv
<1>. QED BY <1>1, <1>4, <1>5 DEF Fulfilled

(* Everything else that happens to a payment. *)
LEMMA SessionKeeps ==
  ASSUME AccountInv, NEW y \in Payments,
         AccountUnpaid(y) \/ (GatewayStep(y) /\ UNCHANGED <<rowVars, deskVars>>)
  PROVE  AccountInv'
<1>1. /\ UNCHANGED <<wallet, entry, card, bought, tariff, sheet, today>>
      /\ \/ AbandonPayment(y) \/ VerifyRejected(y) \/ CallbackCancels(y)
         \/ GatewayStep(y)
  BY DEF AccountUnpaid, rowVars, deskVars
<1>2. GatewayTypeOK'
  BY <1>1, AccountTypes, GatewayTypes
<1>3. AccountTypeOK'
  BY <1>1, <1>2, AccountTypes DEF AccountTypeOK
<1>4. \A z \in Payments :
        /\ payment'[z].target = payment[z].target /\ payment'[z].amount = payment[z].amount
        /\ \/ payment'[z].status = payment[z].status
           \/ /\ payment[z].status = "pending"
              /\ payment'[z].status = "failed" \/ payment'[z].status = "canceled"
  <2>1. CASE GatewayStep(y)
    BY <2>1, AccountTypes, SessionEffects
  <2>2. CASE ~GatewayStep(y)
    <3>1. Ends(y, {"failed", "canceled"})
      BY <1>1, <2>2, AccountTypes, SessionEffects
    <3>. QED BY <3>1 DEF Ends
  <2>. QED BY <2>1, <2>2
<1>5. PaymentEntries' /\ WalletsAdd'
      /\ (\A i \in Entries : entry[i].action = "none" => entry[i] = NoEntry)'
  <2>1. \A z \in Payments :
          \/ /\ payment'[z].status = payment[z].status
             /\ payment'[z].target = payment[z].target
             /\ payment'[z].amount = payment[z].amount
          \/ /\ payment[z].status # "complete"
             /\ payment'[z].status # "complete" \/ payment'[z].target \notin Holders
    BY <1>4
  <2>. QED BY <1>1, <2>1, MoneyStays
<1>6. CardsGiven'
  BY <1>1, <1>4, CardsStay
<1>. QED BY <1>1, <1>3, <1>5, <1>6 DEF AccountInv

(* The owner of a card, staff and the clock. *)
LEMMA DeskKeeps ==
  ASSUME AccountInv, UNCHANGED <<payment, worker, session, wallet, entry>>, AccountTypeOK',
         (\A c \in Cards : sheet[c] # NoSheet => sheet[c].days \in Nat)',
         UNCHANGED bought, \A c \in Cards : card'[c].days = card[c].days
  PROVE  AccountInv'
<1>1. PaymentEntries' /\ WalletsAdd'
      /\ (\A i \in Entries : entry[i].action = "none" => entry[i] = NoEntry)'
  BY MoneyStays
<1>2. CardsGiven'
  BY CardsStay
<1>. QED BY <1>1, <1>2 DEF AccountInv

LEMMA CardsKeep ==
  ASSUME AccountInv, NEW c \in Cards,
         \/ CompleteCard(c)
         \/ \E status \in {"queue", "private"} : CardLifecycle(c, status)
         \/ \E status \in {"published", "private"} : DecideCard(c, status)
         \/ OpenSheet(c)
         \/ \E status \in CardStatus, paid \in BOOLEAN : SaveSheet(c, status, paid)
  PROVE  AccountInv'
<1>1. ASSUME NEW status \in CardStatus, CardLifecycle(c, status) \/ DecideCard(c, status)
      PROVE  AccountInv'
  <2>1. /\ card' = [card EXCEPT ![c].status = status]
        /\ UNCHANGED <<payment, worker, session, wallet, entry, bought, tariff, sheet, today>>
    BY <1>1 DEF CardLifecycle, DecideCard, gatewayVars, deskVars
  <2>2. card' \in [Cards -> CardRow] /\ \A d \in Cards : card'[d].days = card[d].days
    BY <2>1, AccountTypes DEF CardRow
  <2>3. AccountTypeOK'
    BY <2>1, <2>2, AccountTypes DEF AccountTypeOK, GatewayTypeOK
  <2>. QED BY <2>1, <2>2, <2>3, DeskKeeps DEF AccountInv
<1>2. CASE CompleteCard(c)
  <2>1. /\ card' = [card EXCEPT ![c].complete = TRUE]
        /\ UNCHANGED <<payment, worker, session, wallet, entry, bought, tariff, sheet, today>>
    BY <1>2 DEF CompleteCard, gatewayVars, deskVars
  <2>2. card' \in [Cards -> CardRow] /\ \A d \in Cards : card'[d].days = card[d].days
    BY <2>1, AccountTypes DEF CardRow
  <2>3. AccountTypeOK'
    BY <2>1, <2>2, AccountTypes DEF AccountTypeOK, GatewayTypeOK
  <2>. QED BY <2>1, <2>2, <2>3, DeskKeeps DEF AccountInv
<1>3. CASE OpenSheet(c)
  <2> DEFINE new == [end |-> card[c].end, days |-> card[c].days]
  <2>1. /\ sheet' = [sheet EXCEPT ![c] = new]
        /\ UNCHANGED <<payment, worker, session, wallet, entry, card, bought, tariff, today>>
    BY <1>3 DEF OpenSheet, gatewayVars, rowVars
  <2>2. new \in Sheet /\ new.days \in Nat
    BY AccountTypes DEF Sheet, CardRow
  <2>. HIDE DEF new
  <2>3. AccountTypeOK'
    BY <2>1, <2>2, AccountTypes DEF AccountTypeOK, GatewayTypeOK
  <2>4. (\A d \in Cards : sheet[d] # NoSheet => sheet[d].days \in Nat)'
    BY <2>1, <2>2, AccountTypes DEF AccountInv
  <2>. QED BY <2>1, <2>3, <2>4, DeskKeeps
<1>4. ASSUME NEW status \in CardStatus, NEW paid \in BOOLEAN, SaveSheet(c, status, paid)
      PROVE  AccountInv'
  <2> DEFINE new == [status |-> status, paid |-> paid, end |-> sheet[c].end,
                     days |-> sheet[c].days, complete |-> card[c].complete]
             Over(y) == y \in PendingFor(c) /\ sheet[c].days # card[c].days
  <2>1. /\ card' = [card EXCEPT ![c] = new] /\ sheet' = [sheet EXCEPT ![c] = NoSheet]
        /\ bought' = [y \in Payments |-> IF Over(y)
                        THEN [bought[y] EXCEPT !.written = TRUE] ELSE bought[y]]
        /\ UNCHANGED <<payment, worker, session, wallet, entry, tariff, today>>
    BY <1>4 DEF SaveSheet, gatewayVars
  <2>2. /\ sheet[c].days \in Nat /\ sheet[c].end \in Int /\ card[c].complete \in BOOLEAN
    BY <1>4, AccountTypes DEF SaveSheet, AccountInv, Sheet, CardRow
  <2>3. new \in CardRow /\ new.days = sheet[c].days
    BY <2>2 DEF CardRow
  <2>. HIDE DEF new
  <2>4. /\ card' \in [Cards -> CardRow] /\ card'[c].days = sheet[c].days
        /\ \A d \in Cards \ {c} : card'[d] = card[d]
    BY <2>1, <2>3, AccountTypes
  <2>5. ASSUME NEW y \in Payments
        PROVE  /\ bought'[y] \in Bought
               /\ bought'[y].asked = bought[y].asked /\ bought'[y].given = bought[y].given
               /\ bought[y].written => bought'[y].written
               /\ Over(y) => bought'[y].written
    BY <2>1, AccountTypes DEF Bought
  <2>6. bought' \in [Payments -> Bought]
    BY <2>1, <2>5
  <2>7. NoSheet \in Sheet
    BY DEF NoSheet, NoDate, Sheet
  <2>8. AccountTypeOK'
    BY <2>1, <2>4, <2>6, <2>7, AccountTypes DEF AccountTypeOK, GatewayTypeOK
  <2>9. (\A d \in Cards : sheet[d] # NoSheet => sheet[d].days \in Nat)'
    BY <2>1, AccountTypes DEF AccountInv
  <2>10. PaymentEntries' /\ WalletsAdd'
         /\ (\A i \in Entries : entry[i].action = "none" => entry[i] = NoEntry)'
    BY <2>1, MoneyStays
  <2>11. \A y \in Payments : payment[y].status = "pending" /\ Target(y) = c =>
           bought'[y].written \/ card'[c].days = card[c].days
    BY <2>4, <2>5 DEF PendingFor, Target
  <2>12. CardsGiven'
    BY <2>1, <2>4, <2>5, <2>11 DEF AccountInv, CardsGiven, Target
  <2>. QED BY <2>8, <2>9, <2>10, <2>12 DEF AccountInv
<1>. QED BY <1>1, <1>2, <1>3, <1>4 DEF CardStatus

LEMMA AccountInvHolds == AccountSpec => []AccountInv
<1>1. AccountInit => AccountInv
  <2> SUFFICES ASSUME AccountInit PROVE AccountInv
    OBVIOUS
  <2>1. \A y \in Payments : payment[y].status = "absent" /\ payment[y].target = NoTarget
    BY DEF AccountInit, GatewayInit, NoPayment
  <2>2. AccountTypeOK
    <3>1. GatewayTypeOK
      BY GatewayInitTypes DEF AccountInit
    <3>. QED BY <3>1, AccountFacts, AccountAssumption
         DEF AccountInit, AccountTypeOK, NewCard, CardRow, CardStatus, NoDate, NoSheet, Sheet,
             Bought
  <2>3. PaymentEntries /\ CardsGiven
    BY <2>1, AccountFacts DEF AccountInit, PaymentEntries, CardsGiven, Target
  <2>4. \A u \in Holders : Entering(u) = {} /\ Leaving(u) = {} /\ wallet[u] = 0
    BY AccountFacts DEF AccountInit, Entering, Leaving, NoEntry
  <2>5. UnitsOf({}) = {}
    BY DEF UnitsOf
  <2>6. IsFiniteSet({}) /\ Cardinality({}) = 0
    BY FS_EmptySet
  <2>7. WalletsAdd
    BY <2>4, <2>5, <2>6 DEF WalletsAdd
  <2>. QED BY <2>2, <2>3, <2>7 DEF AccountInit, AccountInv, NoEntry
<1>2. AccountInv /\ [AccountNext]_accountVars => AccountInv'
  <2> SUFFICES ASSUME AccountInv, [AccountNext]_accountVars PROVE AccountInv'
    OBVIOUS
  <2>1. CASE UNCHANGED accountVars
    <3>1. AccountTypeOK'
      BY <2>1, AccountTypes DEF accountVars, AccountTypeOK, GatewayTypeOK
    <3>. QED BY <2>1, <3>1, DeskKeeps DEF accountVars, AccountInv
  <2>2. CASE (\E f \in Tariffs \cup {NoTariff} : ChangeTariff(f)) \/ DayPasses
    <3>1. /\ UNCHANGED <<payment, worker, session, wallet, entry, card, bought, sheet>>
          /\ tariff' \in Tariffs \cup {NoTariff} /\ today' \in 0..LastDay
      BY <2>2, AccountTypes, AccountAssumption
      DEF ChangeTariff, DayPasses, gatewayVars, rowVars, AccountTypeOK
    <3>2. AccountTypeOK'
      BY <3>1, AccountTypes DEF AccountTypeOK, GatewayTypeOK
    <3>. QED BY <3>1, <3>2, DeskKeeps DEF AccountInv
  <2>3. CASE \E y \in Payments :
               \/ \E u \in Holders, amount \in Sums : PayIntoWallet(u, y, amount)
               \/ \E c \in Cards : PayForCard(c, y)
               \/ AccountPaid(y) \/ AccountUnpaid(y)
               \/ GatewayStep(y) /\ UNCHANGED <<rowVars, deskVars>>
    BY <2>3, OpenKeeps, PaidKeeps, SessionKeeps
  <2>. QED BY <2>1, <2>2, <2>3, MovesKeep, CardsKeep DEF AccountNext
<1>. QED BY <1>1, <1>2, PTL DEF AccountSpec

(* However often and late payments are verified, and whatever staff save   *)
(* meanwhile, what is charged arrives in the wallet or on the card.        *)
THEOREM ChargesAlwaysArrive == AccountSpec => []ChargesArrive
<1>1. AccountInv => ChargesArrive
  <2> SUFFICES ASSUME AccountInv PROVE ChargesArrive
    OBVIOUS
  <2>1. WalletsFollowLedger
    BY DEF AccountInv, PaymentEntries, WalletsAdd, WalletsFollowLedger
  <2>2. ASSUME NEW y \in Payments, Target(y) \in Cards
        PROVE  Cardinality(PendingFor(Target(y))) <= 1
    <3>1. CASE PendingFor(Target(y)) = {}
      BY <3>1, FS_EmptySet
    <3>2. ASSUME NEW z \in PendingFor(Target(y)) PROVE Cardinality(PendingFor(Target(y))) <= 1
      <4>1. PendingFor(Target(y)) = {z}
        BY <2>2, <3>2 DEF AccountInv, CardsGiven, PendingFor, Target
      <4>2. Cardinality({z}) = 1
        BY FS_Singleton
      <4>. QED BY <4>1, <4>2
    <3>. QED BY <3>1, <3>2
  <2>3. CardGetsWhatWasCharged
    BY <2>2 DEF AccountInv, CardsGiven, CardGetsWhatWasCharged
  <2>. QED BY <2>1, <2>3 DEF ChargesArrive
<1>. QED BY AccountInvHolds, <1>1, PTL
=============================================================================
