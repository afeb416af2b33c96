------------------------ MODULE MCReservationPayment -----------------------
(***************************************************************************)
(* What the visitors of a store do beside their orders, in small           *)
(* instances for TLC: they book appointments, pay for and cancel them, and *)
(* the owner changes what is booked; they mark the pages, report them and  *)
(* comment.  The parts share no variable, those of the pages only which    *)
(* pages are open: a behaviour of this module moves one of them, and the   *)
(* others stay as they begin.                                              *)
(***************************************************************************)
EXTENDS ReservationPayment, AppointmentSetup, Storefront, TLC

CONSTANTS c1, long, short, m1

(* A long service with a fee, whose bookings the owner confirms, and a     *)
(* short free one: their slots overlap without starting together.          *)
MCClient == [r \in Bookings |-> c1]
MCLength == [s \in Services |-> IF s = long THEN 2 ELSE 1]
MCCapacity == [s \in Services |-> 1]
MCFee == [s \in Services |-> IF s = long THEN 1 ELSE 0]
MCAsksOwner == [s \in Services |-> s = long]
MCNotice == [s \in Services |-> IF s = long THEN 1 ELSE 0]
MCShopOf == [s \in ShopServices |-> m1]

(* A bookmark of the store and a like of its product; staff have theirs.   *)
MCMarks == {StoreBookmark, <<"like", "product">>}

Alike == Permutations(Calls)

VARIABLE part   \* the part that moves

allVars == <<part, vars, setupVars, storefrontVars>>

AllInit ==
  /\ part \in {"bookings", "setup", "reports", "marks", "comments"}
  /\ Init /\ SetupInit /\ StorefrontInit

AllNext ==
  /\ part' = part
  /\ \/ part = "bookings" /\ Next /\ UNCHANGED <<setupVars, storefrontVars>>
     \/ part = "setup" /\ SetupNext /\ UNCHANGED <<vars, storefrontVars>>
     \/ part = "reports" /\ ReportsNext /\ UNCHANGED <<vars, setupVars>>
     \/ part = "marks" /\ MarksNext /\ UNCHANGED <<vars, setupVars>>
     \/ part = "comments" /\ CommentsNext /\ UNCHANGED <<vars, setupVars>>

AllSpec == AllInit /\ [][AllNext]_allVars

LostSpec == AllInit /\ part = "bookings" /\ [][AllNext]_allVars /\ Fairness
=============================================================================
