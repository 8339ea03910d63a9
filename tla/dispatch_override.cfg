CONSTANTS
  Threads = {t1}
  Methods = {"m"}
  Overridden = {"m"}
  AttachMayFail = FALSE
  MaxDepth = 4
SPECIFICATION Spec
INVARIANTS CallOriginalReachesOriginal
