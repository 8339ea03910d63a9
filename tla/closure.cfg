CONSTANTS
  Hooks = {h1, h2}
  Threads = {t1, t2}
  MaxDepth = 2
  MaxFailures = 1
  NestedTeardown = TRUE
SPECIFICATION FairSpec
INVARIANTS TypeOK CountsExact CallbackFence NoLostWakeup PatchedMeansMapped
PROPERTIES ImplementsContract TeardownsEnd
CHECK_DEADLOCK FALSE
