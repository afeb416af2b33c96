----------------------------- MODULE ProductShelf ------------------------------
(***************************************************************************)
(* The themes (layouts) of a store's page and the products placed in their *)
(* slots (apps/product).  A product's row names its theme and its index    *)
(* there.  Some requests lock the rows they read, others write a row that  *)
(* they read without a lock.                                               *)
(***************************************************************************)
EXTENDS Naturals

CONSTANTS
  Themes,
  Shelved,   \* products
  StoreOf,   \* StoreOf[x]: the store of a theme or of a product
  Layouts,   \* the orders in use
  MaxSlots,  \* the largest index that is accepted
  NoTheme, NotRead, NotMade, Removed   \* what there is instead of a value

ASSUME ShelfAssumption ==
  /\ MaxSlots \in Nat /\ Layouts \subseteq 0..17
  /\ NotMade # Removed /\ NoTheme \notin Themes
  /\ {NotMade, Removed} \cap Layouts = {}

VARIABLES
  theme,     \* theme[t]: its layout, or what it is instead of one
  place,     \* place[p]: where the product's row puts it
  onForm,    \* onForm[p]: the place in the row that an edit has read
  drawn,     \* drawn[t]: the slot counts that requests to replace it have read
  clearing   \* clearing[t]: the products that its removal has locked

shelfVars == <<theme, place, onForm, drawn, clearing>>

Spot == [theme: Themes \cup {NoTheme}, index: 0..MaxSlots]  \* index 0 is null
Nowhere == [theme |-> NoTheme, index |-> 0]

(* Layouts of three, two and one slots. *)
SlotCount(order) ==
  CASE order \in 0..5 \cup 12..14 -> 3
    [] order \in 6..8 \cup 15..17 -> 2
    [] order \in 9..11 -> 1

ShelfTypeOK ==
  /\ theme \in [Themes -> Layouts \cup {NotMade, Removed}]
  /\ place \in [Shelved -> Spot \cup {NotMade}]
  /\ onForm \in [Shelved -> Spot \cup {NotRead}]
  /\ drawn \in [Themes -> SUBSET (1..3)]
  /\ clearing \in [Themes -> (SUBSET Shelved) \cup {NotRead}]

ShelfInit ==
  /\ theme = [t \in Themes |-> NotMade]
  /\ place = [p \in Shelved |-> NotMade]
  /\ onForm = [p \in Shelved |-> NotRead]
  /\ drawn = [t \in Themes |-> {}]
  /\ clearing = [t \in Themes |-> NotRead]

Stands(t) == theme[t] \in Layouts
Made(p) == place[p] # NotMade
PlacedIn(t) == {p \in Shelved : Made(p) /\ place[p].theme = t}

(* A row that a removal has written stays locked until it commits. *)
Locked(p) == \E t \in Themes : clearing[t] # NotRead /\ p \in clearing[t]

(* The foreign key and uniq_product_theme_slot. *)
Accepted(p, spot) ==
  spot.theme # NoTheme =>
    /\ Stands(spot.theme)
    /\ \A q \in PlacedIn(spot.theme) \ {p} : place[q].index # spot.index

Puts(p, spot) ==
  /\ place' = [place EXCEPT ![p] = spot]
  /\ UNCHANGED <<theme, drawn, clearing>>

----------------------------------------------------------------------------
(* Themes *)

CreateTheme(t) ==
  /\ theme[t] = NotMade
  /\ \E order \in Layouts : theme' = [theme EXCEPT ![t] = order]
  /\ UNCHANGED <<place, onForm, drawn, clearing>>

(* The theme is read without a lock ... *)
ReadLayout(t) ==
  /\ Stands(t)
  /\ drawn' = [drawn EXCEPT ![t] = @ \cup {SlotCount(theme[t])}]
  /\ UNCHANGED <<theme, place, onForm, clearing>>

(* Fault: the new layout may be smaller. *)
ReplaceByAny(t, order) ==
  /\ Stands(t) /\ drawn[t] # {}
  /\ theme' = [theme EXCEPT ![t] = order]
  /\ UNCHANGED <<place, onForm, drawn, clearing>>

(* ... and its order saved, whatever it is by then. *)
ReplaceLayout(t, order) ==
  /\ Stands(t) /\ SlotCount(order) \in drawn[t]
  /\ theme' = [theme EXCEPT ![t] = order]
  /\ UNCHANGED <<place, onForm, drawn, clearing>>

(* One transaction: the products' rows are written first ... *)
ClearTheme(t) ==
  /\ Stands(t) /\ clearing[t] = NotRead
  /\ \A p \in PlacedIn(t) : ~Locked(p)
  /\ clearing' = [clearing EXCEPT ![t] = PlacedIn(t)]
  /\ UNCHANGED <<theme, place, onForm, drawn>>

(* ... and the deletion of the theme takes it from a product placed        *)
(* meanwhile, which keeps its index.                                       *)
RemoveTheme(t) ==
  /\ clearing[t] # NotRead
  /\ \A p \in PlacedIn(t) \ clearing[t] : ~Locked(p)
  /\ theme' = [theme EXCEPT ![t] = Removed]
  /\ place' = [p \in Shelved |->
       IF p \in clearing[t] THEN Nowhere
       ELSE IF p \in PlacedIn(t) THEN [place[p] EXCEPT !.theme = NoTheme]
       ELSE place[p]]
  /\ clearing' = [clearing EXCEPT ![t] = NotRead]
  /\ UNCHANGED <<onForm, drawn>>

----------------------------------------------------------------------------
(* Products *)

HasSlot(p, spot) ==
  /\ spot.theme # NoTheme /\ spot.index > 0
  /\ Stands(spot.theme)
  /\ StoreOf[spot.theme] = StoreOf[p]
  /\ spot.index <= SlotCount(theme[spot.theme])

(* The serializer checks the slot before the row is inserted: what has     *)
(* changed in between, but for the capacity, the database refuses.         *)
CreateProduct(p, spot) ==
  /\ ~Made(p)
  /\ spot = Nowhere \/ HasSlot(p, spot)
  /\ Accepted(p, spot)
  /\ Puts(p, spot) /\ UNCHANGED onForm

(* Under the locks of the theme and of the product. *)
PlaceProduct(p, spot) ==
  /\ Made(p) /\ ~Locked(p)
  /\ HasSlot(p, spot) /\ Accepted(p, spot)
  /\ Puts(p, spot) /\ UNCHANGED onForm

TakeProduct(p) ==
  /\ Made(p) /\ ~Locked(p)
  /\ Puts(p, Nowhere) /\ UNCHANGED onForm

(* An edit of the product reads its row without a lock ... *)
OpenProduct(p) ==
  /\ Made(p)
  /\ onForm' = [onForm EXCEPT ![p] = place[p]]
  /\ UNCHANGED <<theme, place, drawn, clearing>>

(* ... and writes all of it, its place included.  A place that the         *)
(* database refuses by then fails the edit.                                *)
SaveProduct(p) ==
  /\ onForm[p] # NotRead /\ ~Locked(p)
  /\ onForm' = [onForm EXCEPT ![p] = NotRead]
  /\ \/ Accepted(p, onForm[p]) /\ Puts(p, onForm[p])
     \/ ~Accepted(p, onForm[p]) /\ UNCHANGED <<theme, place, drawn, clearing>>

----------------------------------------------------------------------------
ShelfNext ==
  \/ \E t \in Themes :
       \/ CreateTheme(t) \/ ReadLayout(t) \/ ClearTheme(t) \/ RemoveTheme(t)
       \/ \E order \in Layouts : ReplaceLayout(t, order)
  \/ \E p \in Shelved :
       \/ TakeProduct(p) \/ OpenProduct(p) \/ SaveProduct(p)
       \/ \E spot \in Spot : CreateProduct(p, spot) \/ PlaceProduct(p, spot)

ShelfSpec == ShelfInit /\ [][ShelfNext]_shelfVars
----------------------------------------------------------------------------
(* A product placed in a theme has a slot of it to itself: the theme is    *)
(* there, of the product's store, and its layout has the slot, although    *)
(* edits put back places they read long ago and layouts are replaced and   *)
(* removed while products are placed in them.                              *)
PlacedInLayout ==
  \A t \in Themes : \A p \in PlacedIn(t) :
    /\ HasSlot(p, place[p])
    /\ \A q \in PlacedIn(t) \ {p} : place[q].index # place[p].index
=============================================================================
