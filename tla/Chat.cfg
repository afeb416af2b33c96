SPECIFICATION Spec
CONSTANTS
  s1 = s1 s2 = s2 s3 = s3 u1 = u1
  Users = {u1, u2, u3}
  Limits = {2, 3}
  PlatformCap = 3
  MaxForms = 1
  Clients = {u1}
  Sockets = {s1, s2, s3}
  UserOf <- MCUserOf
  MaxFaults = 1
  Readers = {u2}
  Sender = sender
  Requests = {r1, r2}
  Texts = {x1}
  MaxMishaps = 2
INVARIANTS OneOwnerOnRecord
PROPERTIES SocketsSettle MessagesAnswered
CHECK_DEADLOCK FALSE
