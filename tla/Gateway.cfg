SPECIFICATION Spec
CONSTANTS
  o1 = o1 o2 = o2 u1 = u1 p1 = p1 p2 = p2 a1 = a1 d1 = d1 g1 = g1 y1 = y1 y2 = y2
  Orders = {o1, o2}
  Users = {u1}
  Buyer <- MCBuyer
  Products = {p1}
  Listings = {p1}
  Affiliates = {}
  Source <- MCSource
  Seller <- MCSeller
  MaxQty = 2
  Supply <- MCSupply
  Promotions = {d1, g1}
  Codes = {d1}
  Covers <- MCCovers
  Eligible <- MCEligible
  Limit <- MCLimit
  Amounts = {1}
  Payments = {y1, y2}
  Targets = {o1, o2}
  NoTarget = NoTarget
  Sums = {0, 1}
  OpeningBalance <- MCBalance
INVARIANTS PromotionsAgree PaymentsAgree
PROPERTY ImplementsSettlement
