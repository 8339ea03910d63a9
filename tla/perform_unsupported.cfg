CONSTANTS
  Performers = {p1}
  Waiters = {}
  MaxFailures = 2
SPECIFICATION FairSpec
PROPERTY UnsupportedIsReturned
CHECK_DEADLOCK FALSE
