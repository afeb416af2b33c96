SPECIFICATION BackOfficeSpec
CONSTANTS
  c1 = c1 c2 = c2 u1 = u1 u2 = u2  g1 = g1 o1 = o1 a1 = a1 i1 = i1 i2 = i2
  Users = {u1, u2}
  Campaigns = {c1, c2}
  Owner <- MCOwner
  Cost <- MCCost
  Workers = {w1, w2}
  Nothing = Nothing
  Opening <- MCOpening
  Copies = {r1, r2}
  Lines = {n1}
  Keys = {k1}
  Attempts = {y1, y2}
  Words = {m1, m2}
  NoText = NoText
  NoKey = NoKey
  Kinds = {"a", "b"}
  Nobody = Nobody
  People = {u1, u2, a1}
  Customer = u1
  Staff = {a1}
  Edits = {e1}
  Unassigned = Unassigned
  Readers = {u1, u2}
  Devices = {d1}
  Pushes = {n1}
  AddresseeOf <- MCAddresseeOf
  Adjustments = {e1}
  WriterOf <- MCWriterOf
  Removals = {x1}
  Topics = {t1}
  Clock = 3
  Habits <- MCHabits
  Zones = {0, 1}
  Sales = {o1}
  GoodOf <- MCGoodOf
  SellerOf <- MCSellerOf
  Platform = Platform
  Builders = {j1, j2}
  Window = 2
  WindowTime = 2
  Callers = {c1, c2}
  Counters = {i1, i2}
  CountersOf <- MCCountersOf
  Limit <- MCLimit
  Askers = {c1}
  Rooms = {p1, p2}
  Tickets = {t1}
  Connections = {k1, k2}
  LifeTime = 2
  LastMoment = 2
  MaxOutages = 1
  Absent = Absent
  LastDate = 2
  Trainers = {z1, z2}
  Errors = {1, 2, 3}
  NoOne = NoOne
  NoModel = NoModel
INVARIANTS MoneyIsKept SendingAgrees PayableIsApproved
  ActiveAreVetted AccessIsRationed AnswersAreAppointed ShownToItsUser FiguresAreSold
PROPERTY ActiveNeverWorse
SYMMETRY Alike
CHECK_DEADLOCK FALSE
