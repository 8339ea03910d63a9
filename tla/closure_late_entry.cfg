CONSTANTS
  Hooks = {h1}
  Threads = {t1, t2}
  MaxDepth = 2
  MaxFailures = 0
  NestedTeardown = FALSE
SPECIFICATION Spec
INVARIANT FreedMeansInactive
CHECK_DEADLOCK FALSE
