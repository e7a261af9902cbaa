SPECIFICATION Spec
CONSTANTS
  Ids = {a, b}
  Orders = {o1}
  Milestones = {m1, m2}
  OrderOf <- OneOrder
  Nonces = {n1, n2}
  None = None
  MaxMilestonesPerOrder = 2
  MaxMilestoneCredits = 1
  AcceptanceWindow = 1
  DisputeTimeout = 1
  Expiries = {2}
  MaxMinted = 2
  MaxTime = 2
  MaxAmends = 0
  MaxRejected = 1
  MaxLoss = 0
CHECK_DEADLOCK FALSE
SYMMETRY Symmetry
INVARIANTS
  RightStepIsAsked
PROPERTIES
  OutcomeIsFinal
  AcceptedInWindow
