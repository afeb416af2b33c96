-------------------------- MODULE AffiliateListings ---------------------------
(***************************************************************************)
(* One affiliate product (apps/affiliate): a listing, in a reseller's      *)
(* store, of another seller's product.  The seller sets the range of its   *)
(* price, the reseller names the price and describes it, staff publish it  *)
(* in the admin site, and customers order it meanwhile.  What the staff's  *)
(* form holds of a listing is stood for by its price; its images are rows  *)
(* of their own and are left out.                                          *)
(***************************************************************************)
EXTENDS Naturals

CONSTANTS
  Prices,
  NoPrice,
  Sales     \* order items that the listing may be put in

ASSUME ListingAssumption == Prices \subseteq Nat \ {0} /\ NoPrice \notin Prices

VARIABLES
  source,    \* the seller's product
  shop,      \* the reseller's store is published
  listing,   \* the AffiliateProduct row
  desk,      \* the price on the form that staff have open, if any
  reviewed,  \* history: the price that staff last published
  sale       \* sale[s]: an order item

listingVars == <<source, shop, listing, desk, reviewed, sale>>

(* "open": marked for affiliates, published, in a published store. *)
SourceRow == [open: BOOLEAN, low: Prices, high: Prices]
(* "withheld": not published, or inactive. *)
ListingStatus == {"none", "draft", "queue", "published", "needs_editing", "withheld"}
ListingRow == [status: ListingStatus, price: Prices \cup {NoPrice}]
NoListing == [status |-> "none", price |-> NoPrice]

(* "seen": history, the price the order was frozen for had been reviewed. *)
SaleRow == [stage: {"none", "cart", "frozen", "reserved", "paid", "failed"},
            unit: Prices \cup {NoPrice}, settlement: Prices \cup {NoPrice},
            seen: BOOLEAN]
NoSale == [stage |-> "none", unit |-> NoPrice, settlement |-> NoPrice, seen |-> FALSE]

ListingTypeOK ==
  /\ source \in SourceRow /\ shop \in BOOLEAN
  /\ listing \in ListingRow
  /\ listing.status # "none" => listing.price \in Prices
  /\ desk \in Prices \cup {NoPrice} /\ reviewed \in Prices \cup {NoPrice}
  /\ sale \in [Sales -> SaleRow]

ListingInit ==
  /\ source \in SourceRow /\ source.low <= source.high
  /\ shop = TRUE
  /\ listing = NoListing
  /\ desk = NoPrice /\ reviewed = NoPrice
  /\ sale = [s \in Sales |-> NoSale]

InRange(price) == source.low <= price /\ price <= source.high

----------------------------------------------------------------------------
(* The two stores *)

(* The seller's form keeps the range in order; the admin form of a product *)
(* does not ask.                                                           *)
SourceEdited ==
  /\ source' \in SourceRow
  /\ UNCHANGED <<shop, listing, desk, reviewed, sale>>

ShopToggles ==
  /\ shop' = ~shop
  /\ UNCHANGED <<source, listing, desk, reviewed, sale>>

----------------------------------------------------------------------------
(* The reseller *)

CreateListing(price) ==
  /\ listing.status = "none"
  /\ shop /\ source.open /\ InRange(price)
  /\ listing' = [status |-> "draft", price |-> price]
  /\ UNCHANGED <<source, shop, desk, reviewed, sale>>

(* Fault: an edit of a listing leaves its status alone. *)
UpdateInPlace(price) ==
  /\ listing.status # "none" /\ InRange(price)
  /\ listing' = [listing EXCEPT !.price = price]
  /\ UNCHANGED <<source, shop, desk, reviewed, sale>>

(* Under the row's lock; whatever was decided about it is taken back. *)
UpdateListing(price) ==
  /\ listing.status # "none" /\ InRange(price)
  /\ listing' = [status |-> "draft", price |-> price]
  /\ UNCHANGED <<source, shop, desk, reviewed, sale>>

SubmitListing ==
  /\ listing.status \in {"draft", "needs_editing"}
  /\ listing' = [listing EXCEPT !.status = "queue"]
  /\ UNCHANGED <<source, shop, desk, reviewed, sale>>

(* Items and commissions protect what they refer to. *)
DeleteListing ==
  /\ listing.status # "none"
  /\ \A s \in Sales : sale[s].stage = "none"
  /\ listing' = NoListing
  /\ UNCHANGED <<source, shop, desk, reviewed, sale>>

----------------------------------------------------------------------------
(* Staff: the admin form shows every field, and writes all of them back    *)
(* with whatever status is chosen, however old it is.                      *)

StaffOpenForm ==
  /\ listing.status # "none"
  /\ desk' = listing.price
  /\ UNCHANGED <<source, shop, listing, reviewed, sale>>

StaffSaveForm(status) ==
  /\ desk # NoPrice /\ listing.status # "none"
  /\ listing' = [status |-> status, price |-> desk]
  /\ reviewed' = IF status = "published" THEN desk ELSE reviewed
  /\ desk' = NoPrice
  /\ UNCHANGED <<source, shop, sale>>

----------------------------------------------------------------------------
(* Customers *)

(* validate_catalog_target *)
Buyable ==
  /\ listing.status = "published" /\ shop
  /\ source.open /\ InRange(listing.price)

Sells(s, row) ==
  /\ sale' = [sale EXCEPT ![s] = row]
  /\ UNCHANGED <<source, shop, listing, desk, reviewed>>

AddListing(s) ==
  /\ sale[s].stage = "none" /\ Buyable
  /\ Sells(s, [NoSale EXCEPT !.stage = "cart"])

RemoveListing(s) == sale[s].stage = "cart" /\ Sells(s, NoSale)

(* Fault: a discount is given whatever the seller is to get. *)
SnapshotAnyDiscount(s, unit) ==
  /\ sale[s].stage = "cart" /\ Buyable
  /\ unit <= listing.price
  /\ Sells(s, [stage |-> "frozen", unit |-> unit, settlement |-> source.low,
               seen |-> listing.price = reviewed])

(* snapshot_order: a discount may lower the price, not below what the      *)
(* seller is to get.                                                       *)
Snapshot(s, unit) ==
  /\ sale[s].stage = "cart" /\ Buyable
  /\ source.low <= unit /\ unit <= listing.price
  /\ Sells(s, [stage |-> "frozen", unit |-> unit, settlement |-> source.low,
               seen |-> listing.price = reviewed])

(* reserve_order_inventory looks at the listing again; the frozen shares   *)
(* stay.                                                                   *)
ReserveSale(s) ==
  /\ sale[s].stage = "frozen" /\ Buyable
  /\ Sells(s, [sale[s] EXCEPT !.stage = "reserved"])

(* A refused debit gives the reservation back, and the order may be paid   *)
(* for again.                                                              *)
SaleEnds(s) ==
  \/ /\ sale[s].stage = "reserved"
     /\ \E stage \in {"paid", "frozen"} : Sells(s, [sale[s] EXCEPT !.stage = stage])
  \/ /\ sale[s].stage \in {"frozen", "reserved"}
     /\ Sells(s, [sale[s] EXCEPT !.stage = "failed"])

----------------------------------------------------------------------------
ListingNext ==
  \/ SourceEdited \/ ShopToggles
  \/ \E price \in Prices : CreateListing(price) \/ UpdateListing(price)
  \/ SubmitListing \/ DeleteListing \/ StaffOpenForm
  \/ \E status \in ListingStatus \ {"none"} : StaffSaveForm(status)
  \/ \E s \in Sales :
       \/ AddListing(s) \/ RemoveListing(s) \/ ReserveSale(s) \/ SaleEnds(s)
       \/ \E unit \in Prices : Snapshot(s, unit)

ListingSpec == ListingInit /\ [][ListingNext]_listingVars
----------------------------------------------------------------------------
(* accrue_order_commissions: what the reseller and the platform share. *)
Gross(s) == sale[s].unit - sale[s].settlement

(* Customers are shown, and order, what staff have looked at, although the *)
(* reseller edits it while a form is open and while it is queued; and what *)
(* they are asked for covers what the seller is to get, whatever range the *)
(* seller has by then.                                                     *)
SoldAsReviewed ==
  /\ listing.status = "published" => listing.price = reviewed
  /\ \A s \in Sales :
       sale[s].stage \in {"frozen", "reserved", "paid"} =>
         sale[s].seen /\ Gross(s) \in Nat
=============================================================================
