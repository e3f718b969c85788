\* One nudge, and everything that may go wrong but a lost lock and a slow send;
\* and a reply and a nudge with the same two clicks for one unit of the quota,
\* where a lock may be lost too.
CONSTANTS
  Drafts = {n}
  Nudges = {n}
  Rivals = {r,n}
  Workers = {w1,w2}
  Approvals = {a1,a2}
  Dismissals = {c}
  NoDraft = NoDraft
  NoWorker = NoWorker
  MaxAttempts = 3
  MaxStalls = 1
  Limit = 2
  Events = {"crash", "db", "gate"}
SPECIFICATION MCSpec
SYMMETRY Symmetry
INVARIANTS
  IInv
  OneSender
  UnsureIsWarned
  
  QuotaHolds
PROPERTIES
  AutoSendsOnce
  OutboxSpec
\* Jobs and clicks are finite: when they are done the system rests.
CHECK_DEADLOCK FALSE
