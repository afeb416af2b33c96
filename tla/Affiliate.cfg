SPECIFICATION AllSpec
CONSTANTS
  o1 = o1 o2 = o2 i1 = i1 i2 = i2 i3 = i3 seller = seller reseller = reseller
  t1 = t1 t2 = t2 p1 = p1 p2 = p2
  Orders = {o1, o2}
  Items = {i1, i2, i3}
  OrderOf <- MCOrderOf
  Users = {seller, reseller}
  Party <- MCParty
  Share <- MCShare
  Approved = {seller, reseller}
  Requests = {1, 2, 3}
  MaxPayouts = 3
  Prices = {1, 2, 3}
  NoPrice = nothing
  Sales = {i1}
  Themes = {t1, t2}
  Shelved = {p1, p2}
  StoreOf <- MCStoreOf
  Layouts = {6, 7, 9}
  MaxSlots = 2
  NoTheme = none NotRead = unread NotMade = unmade Removed = removed
  Answerers = {seller, reseller}
  MaxVersion = 3
  card1 = card1 fee1 = fee1 fee2 = fee2 pay1 = pay1 pay2 = pay2
  Payments = {pay1, pay2}
  Targets <- MCTargets
  NoTarget = NoTarget
  Sums = {0, 1}
  Holders = {seller, reseller}
  Cards = {card1}
  HolderOf <- MCHolderOf
  Moves = {move1}
  Tariffs = {fee1, fee2}
  FeeOf <- MCFeeOf
  DaysOf <- MCDaysOf
  NoTariff = NoTariff
  MaxBalance = 1
  LastDay = 1
  Posts = {post1, post2}
  Codes = {code1, code2}
  Sliders = {s1, s2}
  Pictures = {pic1, pic2}
  Links = {link1, link2}
  Accounts = {b1, b2}
  CardNumbers = {n1, n2}
  Ibans = {iban1, iban2}
INVARIANTS PayoutsAgree EarnedOnDelivery SoldAsReviewed PlacedInLayout AnsweredAsAsked
  ChargesArrive FormsStand
SYMMETRY Alike
CHECK_DEADLOCK FALSE
