CONSTANTS
  Performers = {p1, p2}
  Waiters = {w1}
  MaxFailures = 2
SPECIFICATION Spec
SYMMETRY Symmetry
INVARIANTS OneDrain RunsAtMostOnce 
CHECK_DEADLOCK FALSE
