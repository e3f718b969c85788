\* An inbound job dies after storing its draft.
CONSTANTS
  Drafts = {r}
  Nudges = {}
  Workers = {w1}
  Approvals = {}
  Dismissals = {}
  NoDraft = NoDraft
  NoWorker = NoWorker
  MaxAttempts = 2
  MaxStalls = 1
  Limit = 2
  Events = {"crash"}
SPECIFICATION FairSpec
PROPERTY PendingResolves
\* Jobs and clicks are finite: when they are done the system rests.
CHECK_DEADLOCK FALSE
