SPECIFICATION EditedSpec
CONSTANTS
  o1 = o1 o2 = o2 u1 = u1 p1 = p1 p2 = p2 a1 = a1 d1 = d1 g1 = g1 y1 = y1 y2 = y2
  Orders = {o1, o2}
  Users = {u1}
  Buyer <- MCBuyer
  Products = {p1}
  Listings = {p1}
  Affiliates = {}
  Source <- MCSource
  Seller <- MCSeller
  MaxQty = 1
  Supply <- MCScarce
  Promotions = {g1}
  Codes = {}
  Covers <- MCCovers
  Eligible <- MCEligible
  Limit <- MCLimit
  Amounts = {1}
  Payments = {y1, y2}
  Targets = {o1, o2}
  NoTarget = NoTarget
  Nothing = Nothing
  Sums = {0, 1}
  OpeningBalance <- MCBalance
  q1 = q1 q2 = q2 b1 = b1 b2 = b2 b3 = b3 f1 = f1 c1 = c1 c2 = c2 own = own l1 = l1
  Posts = {q1}
  Poster <- MCPoster
  Form <- MCForm
  Allowed <- MCAllowed
  Texts = {k1, k2}
  Baskets = {b1}
  BuyerOf <- MCBuyerOf
  Toggles = {t1}
  UseLimit = 1
  NoCode = NoCode
  Items = {p1}
  Wares = {p1}
  WareOf <- MCWareOf
  Checkouts = {o1}
  QuantityOf <- MCQuantityOf
  Methods = {h1}
  MethodEdits = {e1}
  MethodDeletions = {x1}
  Asked = {2, 3}
  Fees = {0, 1}
  Percents = {0, 50}
  SaleTerms <- MCSaleTerms
  PlatformFee = 50
  Whole = 2
  PriceLevels = {1, 2}
  Drafts = {e1}
  NoTerms = NoTerms
INVARIANT CartOwnsStock
