---------------------- MODULE MCAffiliateCommissions ------------------------
(***************************************************************************)
(* What a store has to offer beside its own sales: the commissions of its  *)
(* affiliate sales, an affiliate listing, the shelf of its page, the price *)
(* inquiries it answers, its wallet, its business card, and the forms that *)
(* its owner fills in.  They share no variable, those forms only the       *)
(* requests and the page under way: a behaviour of this module moves one   *)
(* of them, and the others stay as they begin.                             *)
(***************************************************************************)
EXTENDS AffiliateCommissions, AffiliateListings, ProductShelf,
  AccountPayments, OwnerForms, TLC

CONSTANTS o1, o2, i1, i2, i3, seller, reseller, t1, t2, p1, p2,
  card1, fee1, fee2, pay1, pay2

(* Two items of one order, and one of another for which the two users      *)
(* change sides: nobody resells a product of their own.                    *)
MCOrderOf == [i \in Items |-> IF i = i3 THEN o2 ELSE o1]
MCParty ==
  [role \in Roles |-> [i \in Items |->
     IF (role = "marketer") = (i = i3) THEN seller ELSE reseller]]
MCShare ==
  [role \in Roles |-> [i \in Items |-> IF role = "seller" \/ i = i2 THEN 2 ELSE 1]]

(* One store. *)
MCStoreOf == [x \in Themes \cup Shelved |-> seller]

(* Both tariffs cost the same, and one of them buys twice as much. *)
MCTargets == Users \cup {card1}
MCHolderOf == [c \in Cards |-> seller]
MCFeeOf == [f \in Tariffs |-> 1]
MCDaysOf == [f \in Tariffs |-> IF f = fee1 THEN 1 ELSE 2]

Alike == Permutations({pay1, pay2})

VARIABLE part   \* the part that moves

allVars == <<part, vars, listingVars, shelfVars, inquiryVars,
             accountVars, ownerFormsVars>>

AllInit ==
  /\ part \in {"commissions", "listing", "shelf", "inquiry", "account", "connection",
       "sliders", "bank"}
  /\ Init /\ ListingInit /\ ShelfInit /\ InquiryInit /\ AccountInit
  /\ OwnerFormsInit
  /\ part # "listing" =>
       source.open /\ \A p \in Prices : source.low <= p /\ p <= source.high

AllNext ==
  /\ part' = part
  /\ \/ part = "commissions" /\ Next
        /\ UNCHANGED <<listingVars, shelfVars, inquiryVars, accountVars, ownerFormsVars>>
     \/ part = "listing" /\ ListingNext
        /\ UNCHANGED <<vars, shelfVars, inquiryVars, accountVars, ownerFormsVars>>
     \/ part = "shelf" /\ ShelfNext
        /\ UNCHANGED <<vars, listingVars, inquiryVars, accountVars, ownerFormsVars>>
     \/ part = "inquiry" /\ InquiryNext
        /\ UNCHANGED <<vars, listingVars, shelfVars, accountVars, ownerFormsVars>>
     \/ part = "account" /\ AccountNext
        /\ UNCHANGED <<vars, listingVars, shelfVars, inquiryVars, ownerFormsVars>>
     \/ part = "connection" /\ ConnectionNext
        /\ UNCHANGED <<vars, listingVars, shelfVars, inquiryVars, accountVars>>
     \/ part = "sliders" /\ SlidersNext
        /\ UNCHANGED <<vars, listingVars, shelfVars, inquiryVars, accountVars>>
     \/ part = "bank" /\ AccountsNext
        /\ UNCHANGED <<vars, listingVars, shelfVars, inquiryVars, accountVars>>

AllSpec == AllInit /\ [][AllNext]_allVars
=============================================================================
