SPECIFICATION MCSpec
CONSTANTS
  Processes = {server}
  Threads = {t1}
  ProcessOf <- OneServer
  Events = {e1}
  Malformed = {bad}
  ChainEnabled = FALSE
  None = None
  EOL = EOL
  MaxCrashes = 1
  MaxFailures = 0
CHECK_DEADLOCK FALSE
INVARIANTS
  PresentIsServed
