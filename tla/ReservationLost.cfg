SPECIFICATION LostSpec
CONSTANTS
  c1 = c1 long = long short = short m1 = m1
  Bookings = {r1, r2}
  Customers = {c1}
  Client <- MCClient
  Services = {long, short}
  Specialists = {w1}
  Length <- MCLength
  Capacity <- MCCapacity
  Fee <- MCFee
  AsksOwner <- MCAsksOwner
  Notice <- MCNotice
  Starts = {2, 3}
  HoldTime = 1
  Horizon = 3
  Payments = {y1}
  Targets = {r1, r2}
  NoTarget = NoTarget
  Sums = {0, 1}
  Shops = {m1}
  ShopServices = {s1, s2}
  ShopSpecialists = {q1}
  FixedTimes = {f1}
  Visits = {v1}
  ShopOf <- MCShopOf
  Days = {1}
  Hours = {1, 2, 3}
  Nobody = Nobody
  Visitors = {v1, v2}
  Keepers = {v1}
  Calls = {call1, call2}
  Marks <- MCMarks
  MaxComments = 2
  RootLimit = 1
  Texts = {words}
PROPERTY PaidSessionsComplete
CHECK_DEADLOCK FALSE
