SPECIFICATION MCSpec
CONSTANTS
  n1 = n1 n2 = n2 w1 = w1
  Notifications = {n1, n2}
  Priority <- MCPriority
  BatchSize = 1
  Workers = {w1, w2}
  Request = Request
  MaxRetries = 2
  MaxFaults = 1
INVARIANTS DeliveryAgrees
PROPERTY QueueDrains
CHECK_DEADLOCK FALSE
