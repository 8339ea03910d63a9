CONSTANTS
  Methods = {m1, m2}
  Replacements = {r1, r2}
  Requests = {d1, d2}
  OvertakesPrepared = FALSE
SPECIFICATION DeoptSpec
SYMMETRY Symmetry
INVARIANTS RegisteredIsMapped ClonesAreCurrent ImageIsMapped UnregisteredIsOriginal
PROPERTIES OnlyItsRevertUnregisters ReplacedIsNotDeoptimized OneDebugger
CHECK_DEADLOCK FALSE
