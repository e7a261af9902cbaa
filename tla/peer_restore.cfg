SPECIFICATION Spec
CONSTANTS
  p1 = p1
  p2 = p2
  e1 = e1
  e2 = e2
  e3 = e3
  Peers = {p1, p2}
  Commands = {c}
  Events = {e1, e2, e3}
  Created <- CreatedAt
  Offers <- TwoPeers
  Own = {e3}
  Refused = {}
  Limit = 1
  MaxPages = 2
  MaxParallel = 1
  Interval = 2
  MaxDelay = 2
  TimelySnapshots = TRUE
  MaxFaults = 1
  MaxCommands = 1
CHECK_DEADLOCK FALSE
INVARIANTS
  RestorePreserved
