-------------------------- MODULE MCReconciliation -------------------------
(* A small instance of Reconciliation for TLC. *)
EXTENDS Reconciliation

CONSTANTS u1, p1

(* One customer with two orders, for a unit each.                           *)
MCBuyer == [o \in Orders |-> u1]
MCSource == [l \in Listings |-> l]
MCSeller == [p \in Products |-> p]
MCSupply == [p \in Products |-> 2]
MCCovers == [d \in Promotions |-> {p1}]
MCEligible == [d \in Promotions |-> Users]
MCLimit == [d \in Promotions |-> 1]
MCBalance == [u \in Users |-> 0]
=============================================================================
