\* A lost webhook call, and the sweep.
CONSTANTS
  MaxWrites = 1
  Acks = {}
  Wordless = {}
  PageSize = 20
  Workers = {w1}
  MaxPatches = 0
  Events = {"lost", "sweep"}
SPECIFICATION FairSpec
PROPERTY ProspectIsAnswered
CHECK_DEADLOCK FALSE
