SPECIFICATION Spec
CONSTANTS
  Keys = {a, b, c}
  Founders = {a, b}
  ClaimIds = {x, y}
  None = None
  Weights = {1, 3}
  Expiries = {1}
  Amounts = {1}
  ProviderThreshold = 3
  AttestorThreshold = 1
  ApprovalThreshold = 1
  IssuanceWindow = 2
  MaxPerWindow = 1
  MaxRead = 2
  MaxTime = 2
  Budgets <- Mixes
CHECK_DEADLOCK FALSE
SYMMETRY Symmetry
INVARIANTS
  KeysActForTheirIdentity
  VotesAreOfOthers
  MintsAreBacked
  RateIsKept
  EligibilityIsTrue
