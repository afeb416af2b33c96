SPECIFICATION FairSpec
CONSTANTS
  o1 = o1 o2 = o2 u1 = u1 p1 = p1 g1 = g1 y1 = y1 y2 = y2 x1 = x1
  Orders = {o1, o2}
  Users = {u1}
  Buyer <- MCBuyer
  Products = {p1}
  Listings = {p1}
  Affiliates = {}
  Source <- MCSource
  Seller <- MCSeller
  MaxQty = 1
  Supply <- MCSupply
  Promotions = {}
  Codes = {}
  Covers <- MCCovers
  Eligible <- MCEligible
  Limit <- MCLimit
  Amounts = {1}
  Payments = {y1, y2}
  Targets = {o1, o2}
  NoTarget = NoTarget
  Sums = {0, 1}
  OpeningBalance <- MCBalance
  Others = {x1}
  BatchLimit = 2
PROPERTY SessionsSettle
