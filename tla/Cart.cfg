SPECIFICATION CartsSpec
CONSTANTS
  o1 = o1 o2 = o2 u1 = u1 p1 = p1 p2 = p2 a1 = a1 d1 = d1 g1 = g1 y1 = y1 y2 = y2
  Orders = {o1, o2}
  Users = {u1}
  Buyer <- MCBuyer
  Products = {p1, p2}
  Listings = {p1, a1, p2}
  Affiliates = {a1}
  Source <- MCSource
  Seller <- MCSeller
  MaxQty = 1
  Supply <- MCSupply
  Promotions = {g1}
  Codes = {}
  Covers <- MCCovers
  Eligible <- MCEligible
  Limit <- MCLimit
  Amounts = {1, 2}
  Payments = {}
  Targets = {o1, o2}
  NoTarget = NoTarget
  Sums = {0, 1, 2}
  OpeningBalance <- MCPurse
  q1 = q1 q2 = q2 b1 = b1 b2 = b2 b3 = b3 f1 = f1 c1 = c1 c2 = c2 own = own l1 = l1
  Nothing = Nothing
  Posts = {q1, q2}
  Poster <- MCPoster
  Form <- MCForm
  Allowed <- MCAllowed
  Texts = {k1, k2}
  Baskets = {b1, b2, b3}
  BuyerOf <- MCBuyerOf
  Toggles = {t1}
  UseLimit = 1
  NoCode = NoCode
  Items = {p1, l1}
  Wares = {p1}
  WareOf <- MCWareOf
  Checkouts = {o1, o2}
  QuantityOf <- MCQuantityOf
  Methods = {h1}
  MethodEdits = {e1}
  MethodDeletions = {x1}
  Asked = {2, 3}
  Fees = {0, 1}
  Percents = {0, 50}
  SaleTerms <- MCSaleTerms
  PlatformFee = 50
  Whole = 2
  PriceLevels = {1, 2}
  Drafts = {e1}
  NoTerms = NoTerms
INVARIANTS WalletAccounts StockConservation UsesAreCounted BillStands SoldIsVetted

CHECK_DEADLOCK FALSE
