--------------------------- MODULE MCOrderPayment --------------------------
(* Small instances of OrderPayment for TLC. *)
EXTENDS OrderPayment, FiniteSetsExt, TLC

CONSTANTS o1, o2, u1, p1, p2, a1, d1, g1

(* One customer, whose orders compete for a product's last units and for a *)
(* promotion they may use once; p1 can also be bought through a1.          *)
MCBuyer == [o \in Orders |-> u1]
MCSource == [l \in Listings |-> IF l = a1 THEN p1 ELSE l]
MCSeller == [p \in Products |-> p]
MCSupply == [p \in Products |-> IF p = p1 THEN 2 ELSE 1]
MCScarce == [p \in Products |-> 1]
MCCovers == [d \in Promotions |-> {p1}]
MCEligible == [d \in Promotions |-> Users]
MCLimit == [d \in Promotions |-> IF d \in Codes THEN 0 ELSE 1]
MCBalance == [u \in Users |-> 1]
MCPurse == [u \in Users |-> 3]
=============================================================================
