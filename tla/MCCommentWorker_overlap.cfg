\* Two slots compete for a window of one, and one of everything that may go
\* wrong does.
CONSTANTS
  NumCampaigns = 1
  NumComments = 1
  Public = {1}
  Linked = {1}
  Workers = {w1,w2}
  NoJob = NoJob
  MaxAttempts = 2
  MaxStalls = 1
  MaxRequeues = 1
  MaxPolls = 1
  MaxPerSweep = 1
  Limit = 2
  SlotLimit = 1
  MaxFaults = 1
  Events = {"reject", "lost", "db", "redis", "crash", "token"}
SPECIFICATION FairSpec
INVARIANT LogIsTrue
PROPERTY MissedIsAnswered
