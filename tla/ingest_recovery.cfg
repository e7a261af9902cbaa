SPECIFICATION MCFairSpec
CONSTANTS
  Processes = {server}
  Threads = {t1, t2}
  ProcessOf <- OneServer
  Events = {e1, e2}
  Malformed = {bad}
  ChainEnabled = TRUE
  None = None
  EOL = EOL
  MaxCrashes = 1
  MaxFailures = 1
CHECK_DEADLOCK FALSE
INVARIANTS
  StoredIsLogged
  FeedFollowsLog
  IngestedOnce
  ChainFollowsLog
PROPERTIES
  RejectedOnlyByFailure
  RequestsEnd
