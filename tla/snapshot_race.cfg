SPECIFICATION Spec
CONSTANTS
  dispute = dispute
  settle = settle
  note = note
  cancel = cancel
  SettledAt = 2
  Events <- Log
  Replayed <- ReplayKinds
  Created <- LogCreated
  EventId <- LogIds
  Disputes = {dispute}
  Settles <- LogSettles
  DisputeTimeout = 2
  Skew = 0
  PastSnapshots = FALSE
  SnapshotsAlone = FALSE
  Threads = {t1}
  None = None
  MaxTime = 4
  MaxSnapshots = 2
CHECK_DEADLOCK FALSE
INVARIANTS
  ReplayEquivalence
