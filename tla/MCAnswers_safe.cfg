\* A tap and a fallback on two slots, and everything that may go wrong; a comment
\* on one slot, with refusals and Redis errors, or two faults with the token too.
CONSTANTS
  MaxTaps = 1
  Named = {}
  Workers = {w1, w2}
  MaxAttempts = 2
  MaxStalls = 1
  Limit = 1
  MaxFaults = 2
  Events = {"reject", "lost", "unknown", "db", "crash"}
  Slot = w1
  Idle = Idle
SPECIFICATION MCSpec
INVARIANTS
  AnswersHold
  CountsHold
PROPERTIES
  SentGivesWay
  GateHolds
  TapAnswered
