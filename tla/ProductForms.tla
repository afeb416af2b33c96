----------------------------- MODULE ProductForms -----------------------------
(***************************************************************************)
(* The forms through which a product's row is written (apps/product): the  *)
(* API's, which reads the row, checks it together with what is asked for   *)
(* and writes all of it back; the revision of a published product, checked *)
(* when it is handed in and again when it is approved; and the staff's     *)
(* form of the admin site, which writes what it showed, unchecked.  The    *)
(* row is stood for by two prices that depend on each other, and by its    *)
(* automatic discount; then, beside the carts and payments of              *)
(* OrderPayment, by its stock.                                             *)
(***************************************************************************)
EXTENDS OrderPayment

CONSTANTS
  PriceLevels,
  Drafts,   \* requests to edit the product
  NoTerms,
  Nothing   \* no number of units

ASSUME FormAssumption == PriceLevels \subseteq Nat \ {0}

VARIABLES
  good,      \* the Product row
  draft,     \* draft[e]: the row as e will write it
  proposal,  \* the pending ProductRevision
  form,      \* whether staff have the form open, and what it showed
  vettedTerms,  \* history: the prices that staff last wrote or approved
  byHand     \* history: they were written through the admin site

formVars == <<good, draft, proposal, form, vettedTerms, byHand>>

(* marketer_price and maximum_sell_price of a product for resale.          *)
Terms == [low: PriceLevels, high: PriceLevels]
Coherent(terms) == terms.low <= terms.high

(* What a request says of the discount; a PATCH may "keep" it.             *)
Wish == {"keep", "none", "some"}

GoodRow == [there: BOOLEAN, public: BOOLEAN, terms: Terms \cup {NoTerms},
            discounted: BOOLEAN]
NoGood == [there |-> FALSE, public |-> FALSE, terms |-> NoTerms, discounted |-> FALSE]

DraftState == [terms: Terms \cup {NoTerms}, discount: Wish, public: BOOLEAN,
               staff: BOOLEAN]
NoDraft == [terms |-> NoTerms, discount |-> "keep", public |-> FALSE, staff |-> FALSE]

(* A payload names some of the fields; "full": all that are required.      *)
Payload == UNION {[named -> PriceLevels] : named \in SUBSET {"low", "high"}}
Proposal == [there: BOOLEAN, payload: Payload, discount: Wish, full: BOOLEAN]
NothingGiven == [x \in {} |-> 0]
NoProposal == [there |-> FALSE, payload |-> NothingGiven, discount |-> "keep", full |-> FALSE]

FormTypeOK ==
  /\ good \in GoodRow /\ proposal \in Proposal
  /\ draft \in [Drafts -> DraftState]
  /\ {form, vettedTerms} \subseteq Terms \cup {NoTerms}
  /\ byHand \in BOOLEAN

FormInit ==
  /\ good = NoGood /\ proposal = NoProposal
  /\ draft = [e \in Drafts |-> NoDraft]
  /\ form = NoTerms /\ vettedTerms = NoTerms /\ byHand = FALSE

(* The row's own values stand for what a request does not name.            *)
Merged(payload, terms) ==
  [f \in {"low", "high"} |-> IF f \in DOMAIN payload THEN payload[f] ELSE terms[f]]

Discounted(wish) == IF wish = "keep" THEN good.discounted ELSE wish = "some"

----------------------------------------------------------------------------
(* The owner, or staff through the API *)

CreateGood(terms, wish) ==
  /\ ~good.there /\ Coherent(terms) /\ wish # "keep"
  /\ good' = [there |-> TRUE, public |-> FALSE, terms |-> terms,
              discounted |-> wish = "some"]
  /\ UNCHANGED <<draft, proposal, form, vettedTerms, byHand>>

(* A PUT says something of every field: "none" is the discount's default.  *)
BeginDraft(e, payload, wish, staff) ==
  LET terms == Merged(payload, good.terms) IN
  /\ good.there /\ draft[e] = NoDraft
  /\ Coherent(terms)
  /\ ~good.public \/ staff
  /\ draft' = [draft EXCEPT ![e] =
       [terms |-> terms, discount |-> wish, public |-> good.public, staff |-> staff]]
  /\ UNCHANGED <<good, proposal, form, vettedTerms, byHand>>

WrittenDraft(e, public) ==
  /\ draft[e] # NoDraft
  /\ good' = [there |-> TRUE, public |-> public, terms |-> draft[e].terms,
              discounted |-> Discounted(draft[e].discount)]
  /\ vettedTerms' = IF draft[e].staff THEN draft[e].terms ELSE vettedTerms
  /\ byHand' = FALSE
  /\ draft' = [draft EXCEPT ![e] = NoDraft]
  /\ UNCHANGED <<proposal, form>>

(* Fault: the row is written without its status. *)
EndDraftOfContent(e) == WrittenDraft(e, good.public)

(* The whole row, its status as it was read.                               *)
EndDraft(e) == WrittenDraft(e, draft[e].public)

(* For a published product: the pending revision is made or replaced.      *)
Propose(payload, wish, full) ==
  /\ good.there /\ good.public
  /\ Coherent(Merged(payload, good.terms))
  /\ proposal' = [there |-> TRUE, payload |-> payload, discount |-> wish, full |-> full]
  /\ UNCHANGED <<good, draft, form, vettedTerms, byHand>>

----------------------------------------------------------------------------
(* Staff *)

Decided(terms, wish) ==
  /\ good' = [good EXCEPT !.terms = terms, !.discounted = wish = "some"]
  /\ vettedTerms' = terms /\ byHand' = FALSE
  /\ proposal' = NoProposal
  /\ UNCHANGED <<draft, form>>

(* Fault: what was checked when it was handed in is not checked again. *)
ApproveAsHandedIn ==
  /\ proposal.there /\ proposal.full
  /\ Decided(Merged(proposal.payload, good.terms), proposal.discount)

(* As if it were a PUT: it is checked with the row as it is now, refused   *)
(* unless it names all that a product needs, and a discount it does not    *)
(* name is taken away.                                                     *)
Approve ==
  /\ proposal.there /\ proposal.full
  /\ Coherent(Merged(proposal.payload, good.terms))
  /\ Decided(Merged(proposal.payload, good.terms), proposal.discount)

Reject ==
  /\ proposal.there
  /\ proposal' = NoProposal
  /\ UNCHANGED <<good, draft, form, vettedTerms, byHand>>

OpenForm ==
  /\ good.there
  /\ form' = good.terms
  /\ UNCHANGED <<good, draft, proposal, vettedTerms, byHand>>

(* All of it is written, with whatever status and discount are chosen.     *)
SaveForm(terms, public, discounted) ==
  /\ form # NoTerms
  /\ good' = [there |-> TRUE, public |-> public, terms |-> terms,
              discounted |-> discounted]
  /\ vettedTerms' = terms /\ byHand' = TRUE
  /\ form' = NoTerms
  /\ UNCHANGED <<draft, proposal>>

FormNext ==
  \/ \E terms \in Terms, wish \in Wish : CreateGood(terms, wish)
  \/ \E payload \in Payload, wish \in Wish :
       \/ \E e \in Drafts, staff \in BOOLEAN : BeginDraft(e, payload, wish, staff)
       \/ \E full \in BOOLEAN : Propose(payload, wish, full)
  \/ \E e \in Drafts : EndDraft(e)
  \/ Approve \/ Reject \/ OpenForm
  \/ \E terms \in Terms, public, discounted \in BOOLEAN :
       SaveForm(terms, public, discounted)

FormSpec == FormInit /\ [][FormNext]_formVars

----------------------------------------------------------------------------
(* Properties *)

(* However edits, reviews and forms cross each other: what is for sale is  *)
(* what staff last wrote or approved, and a product's prices fit each      *)
(* other unless it was staff who wrote them past the check                 *)
(* (ProductUpdateAPIView, review_product_revision, ProductAdmin).          *)
SoldIsVetted ==
  /\ good.public => good.terms = vettedTerms
  /\ good.there => Coherent(good.terms) \/ byHand
----------------------------------------------------------------------------
(* The stock in the row that the staff's update (ProductUpdateAPIView) and *)
(* a revision carry, while the product is being sold.  Neither is meant to *)
(* change it: each carries the number it was shown.                        *)

VARIABLES
  shown,     \* shown[p]: the stock in the row a staff request has read
  revision   \* revision[p]: the stock in p's pending ProductRevision

editVars == <<shown, revision>>

EditInit ==
  /\ Init
  /\ shown = [p \in Products |-> Nothing]
  /\ revision = [p \in Products |-> Nothing]

(* The row is read without a lock ... *)
StaffReads(p) ==
  /\ shown[p] = Nothing
  /\ shown' = [shown EXCEPT ![p] = stock[p]]
  /\ UNCHANGED <<vars, revision>>

(* ... and every field of it is saved, in the serializer's transaction.    *)
StaffSaves(p) ==
  /\ shown[p] # Nothing
  /\ stock' = [stock EXCEPT ![p] = shown[p]]
  /\ shown' = [shown EXCEPT ![p] = Nothing]
  /\ UNCHANGED <<order, promotion, offered, gatewayVars, balance, revision>>

(* update_or_create: a new submission replaces the pending one.            *)
SubmitRevision(p) ==
  /\ revision' = [revision EXCEPT ![p] = stock[p]]
  /\ UNCHANGED <<vars, shown>>

(* review_product_revision applies the payload under the row's lock.       *)
ApproveRevision(p) ==
  /\ revision[p] # Nothing
  /\ stock' = [stock EXCEPT ![p] = revision[p]]
  /\ revision' = [revision EXCEPT ![p] = Nothing]
  /\ UNCHANGED <<order, promotion, offered, gatewayVars, balance, shown>>

RejectRevision(p) ==
  /\ revision[p] # Nothing
  /\ revision' = [revision EXCEPT ![p] = Nothing]
  /\ UNCHANGED <<vars, shown>>

EditNext ==
  \/ Next /\ UNCHANGED editVars
  \/ \E p \in Products :
       \/ StaffReads(p) \/ StaffSaves(p)
       \/ SubmitRevision(p) \/ ApproveRevision(p) \/ RejectRevision(p)

EditSpec == EditInit /\ [][EditNext]_<<vars, editVars>>

(* "The real inventory authority is the locked Product.stock /             *)
(* AffiliateProduct.stock transition in apps.cart.services"                *)
(* (docs/current/AUDIT.md): every unit sold or put aside there is missing  *)
(* from the stock, whatever else is done to the product.                   *)
CartOwnsStock == StockConservation
=============================================================================
