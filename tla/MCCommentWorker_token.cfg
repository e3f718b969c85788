\* A public reply is refused, and the token cannot be read when the run comes back.
CONSTANTS
  NumCampaigns = 1
  NumComments = 1
  Public = {1}
  Linked = {}
  Workers = {w1}
  NoJob = NoJob
  MaxAttempts = 2
  MaxStalls = 1
  MaxRequeues = 1
  MaxPolls = 1
  MaxPerSweep = 1
  Limit = 2
  SlotLimit = 1
  MaxFaults = 2
  Events = {"reject", "token"}
SPECIFICATION Spec
PROPERTY SentStays
