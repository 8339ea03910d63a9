CONSTANTS
  Performers = {p1, p2}
  Waiters = {w1}
  MaxFailures = 0
SPECIFICATION FairSpec
PROPERTIES DrainsEnd TakenCallbacksRun WaitersReturn
CHECK_DEADLOCK FALSE
