CONSTANTS
  Tasks = {t1}
  MaxFailures = 1
SPECIFICATION Spec
INVARIANT ErrorMeansNotRun
CHECK_DEADLOCK FALSE
