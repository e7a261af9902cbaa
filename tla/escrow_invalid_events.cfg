SPECIFICATION Spec
CONSTANTS
  Ids = {a, b}
  Orders = {o1}
  Milestones = {m1}
  OrderOf <- OneOrder
  Nonces = {n1}
  None = None
  MaxMilestonesPerOrder = 2
  MaxMilestoneCredits = 1
  AcceptanceWindow = 1
  DisputeTimeout = 1
  Expiries = {3}
  MaxMinted = 2
  MaxTime = 1
  MaxAmends = 0
  MaxRejected = 1
  MaxLoss = 0
CHECK_DEADLOCK FALSE
PROPERTIES
  InvalidEventsInert
