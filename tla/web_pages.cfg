SPECIFICATION WebSpec
CONSTANTS
  Tabs = {t1, t2}
  k1 = k1
  k2 = k2
  o1 = o1
  o2 = o2
  m1 = m1
  m2 = m2
  t1 = t1
  a = a
  b = b
  n = n
  None = None
  Empty = Empty
  Keys = {k1, k2}
  Orders = {o1}
  Provider <- ProviderOf
  Buyer <- BuyerOf
  Notes = {n}
  Acks = {a, b}
  Begun <- Prepared
  Linked = o1
  MaxSigns = 2
  MaxOps = 3
  DealIds = {o1, o2}
  Milestones = {m1, m2}
  Links <- DealLinks
  Stored <- StoredEvents
  Modes = {"offer", "delivery", "accept", "dispute", "settle"}
  MaxSubmits = 1
  MaxEdits = 5
  Requests = {q1, q2}
  Cleaners = {c1}
  MinKeep = 1
  RetainRecent = 0
  RetainFailed = 1
  KeepRecent = 1
  PruneRetention = 0
  MaxDay = 1
  MaxClicks = 3
  MaxCleanups = 1
CHECK_DEADLOCK FALSE
INVARIANTS
  StoredPairMatches
  EvidenceIsWhole
  QueueKeepsEvents
  SentAsChecked
  ChecklistAccepted
  AuditIsKept
  NewestRunsStay
PROPERTIES
  RegistersIdentity
  ButtonsAreReleased
