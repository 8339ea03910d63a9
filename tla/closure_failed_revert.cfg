CONSTANTS
  Hooks = {h1}
  Threads = {t1}
  MaxDepth = 2
  MaxFailures = 1
  NestedTeardown = FALSE
SPECIFICATION Spec
INVARIANT InstalledMeansOpen
CHECK_DEADLOCK FALSE
