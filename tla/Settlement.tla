----------------------------- MODULE Settlement ----------------------------
(***************************************************************************)
(* What paying for orders promises, without carts, sessions or promotions: *)
(* every order is settled at most once and for good, and the goods it      *)
(* needs leave the stock when it is locked or bought and come back only if *)
(* it fails.  OrderPayment implements this specification.                  *)
(***************************************************************************)
EXTENDS Integers

CONSTANTS Orders, Products, Supply

VARIABLES
  outcome,  \* outcome[o]: "open", "locked", "paid" or "closed"
  need,     \* need[o][p]: the units of p that order o asks for
  goods     \* goods[p]: the units of p that can be promised

ledgerVars == <<outcome, need, goods>>

LedgerInit ==
  /\ outcome = [o \in Orders |-> "open"]
  /\ need = [o \in Orders |-> [p \in Products |-> 0]]
  /\ goods = Supply

Enough(o) == \A p \in Products : need[o][p] <= goods[p]
Less(o) == [p \in Products |-> goods[p] - need[o][p]]
More(o) == [p \in Products |-> goods[p] + need[o][p]]

(* The customer changes what an open order asks for. *)
Shop(o) ==
  /\ outcome[o] = "open"
  /\ need' \in [Orders -> [Products -> Nat]]
  /\ \A x \in Orders \ {o} : need'[x] = need[x]
  /\ UNCHANGED <<outcome, goods>>

(* The goods are put aside while a payment is in progress. *)
Lock(o) ==
  /\ outcome[o] = "open" /\ Enough(o)
  /\ outcome' = [outcome EXCEPT ![o] = "locked"]
  /\ goods' = Less(o)
  /\ UNCHANGED need

Pay(o) ==
  /\ outcome[o] = "locked"
  /\ outcome' = [outcome EXCEPT ![o] = "paid"]
  /\ UNCHANGED <<need, goods>>

Fail(o) ==
  /\ outcome[o] = "locked"
  /\ outcome' = [outcome EXCEPT ![o] = "closed"]
  /\ goods' = More(o)
  /\ UNCHANGED need

(* Paid from the wallet, or accepted for cash, in one transaction. *)
Buy(o) ==
  /\ outcome[o] = "open" /\ Enough(o)
  /\ outcome' = [outcome EXCEPT ![o] = "paid"]
  /\ goods' = Less(o)
  /\ UNCHANGED need

Decline(o) ==
  /\ outcome[o] = "open"
  /\ outcome' = [outcome EXCEPT ![o] = "closed"]
  /\ UNCHANGED <<need, goods>>

LedgerNext ==
  \E o \in Orders :
    Shop(o) \/ Lock(o) \/ Pay(o) \/ Fail(o) \/ Buy(o) \/ Decline(o)

LedgerSpec == LedgerInit /\ [][LedgerNext]_ledgerVars
=============================================================================
