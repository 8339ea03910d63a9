CONSTANTS
  Performers = {p1}
  Waiters = {}
  MaxFailures = 0
SPECIFICATION FairSpec
PROPERTY AcceptedCallbacksRun
CHECK_DEADLOCK FALSE
