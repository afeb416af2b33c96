SPECIFICATION Spec
CONSTANTS
  f1 = f1 f2 = f2 w1 = w1 w2 = w2 w3 = w3
  Sections = {"contact", "theme"}
  Required = {"contact"}
  Forms = {f1, f2}
  Revisions = {v1, v2}
  NoRevision = NoRevision
  Sessions = {p1, p2}
  Codes = {c1, c2}
  NoCode = NoCode
  Verifiers = {r1, r2}
  MaxAttempts = 3
  People = {w1, w2, w3}
  Nobody = Nobody
  Staff = {w1}
  Links = {l1, l2}
  NoLink = NoLink
  Depth = 2
  LevelSets = {{2}, {1, 2}}
INVARIANTS PublicIsReviewed StoreChargedOnce OneSignInPerCode GuessesBounded
  ReferrersCameFirst CommissionsFollowUplines
SYMMETRY Alike
CHECK_DEADLOCK FALSE
