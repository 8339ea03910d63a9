CONSTANTS
  Tasks = {t1, t2, t3}
  MaxFailures = 1
SPECIFICATION FairSpec
PROPERTIES DrainsInOrder AcceptedTasksRun WaitersReturn
CHECK_DEADLOCK FALSE
