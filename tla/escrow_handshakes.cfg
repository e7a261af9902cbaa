SPECIFICATION FairSpec
CONSTANTS
  Ids = {a, b}
  Orders = {o1}
  Milestones = {m1}
  OrderOf <- OneOrder
  Nonces = {n1, n2}
  None = None
  MaxMilestonesPerOrder = 2
  MaxMilestoneCredits = 2
  AcceptanceWindow = 1
  DisputeTimeout = 1
  Expiries = {1}
  MaxMinted = 2
  MaxTime = 2
  MaxAmends = 2
  MaxRejected = 0
  MaxLoss = 1
CHECK_DEADLOCK FALSE
INVARIANTS
  TypeOK
  CreditsConserved
  EscrowLedger
  PayoutsMatchOutcome
  HandshakesWellFormed
  ExitNeedsBothParties
PROPERTIES
  DisputesEnd
  TermsNeedBothParties
  ImplementsIdealEscrow
