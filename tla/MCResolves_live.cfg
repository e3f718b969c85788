\* Two requests of the webhook at a time and any one thing that goes wrong; a
\* nudge whose handlers may die.
CONSTANTS
  Body <- MCBody
  Openings = {o1, o2}
  Handlers = {h1, h2}
  MaxFaults = 1
  MaxEdits = 1
  Events = {"db", "redis", "crash", "late", "job"}
  Nudge = n
  Slots = {w1,w2}
  Click = a1
  Dismissal = c
  NoDraft = NoDraft
  NoWorker = NoWorker
SPECIFICATION MCSpec
INVARIANTS
  QueueHolds
PROPERTIES
  EventsAreQueued
  DraftsResolve
\* Deliveries, jobs and clicks are finite: the system comes to rest.
CHECK_DEADLOCK FALSE
