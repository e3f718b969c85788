\* Two runs of the job of one anchor, the first without its lock.
CONSTANTS
  Runs = {p1,p2}
  MaxStalls = 1
  MaxTime = 3
  Hours = 2
  Span = 2
  MaxIn = 1
SPECIFICATION Spec
INVARIANT OnePerWindow
\* Runs are finite, and so is time.
CHECK_DEADLOCK FALSE
