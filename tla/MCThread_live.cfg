\* Lost webhook calls and the sweep, humans and campaigns in the thread; the
\* third may be a bare thanks, the second has no text.  Two clicks in the inbox page.
CONSTANTS
  MaxWrites = 2
  Acks = {3}
  Wordless = {2}
  PageSize = 2
  Workers = {w1, w2}
  MaxPatches = 0
  Events = {"human", "campaign", "lost", "sweep", "llm"}
SPECIFICATION MCSpec
PROPERTIES
  MirrorCompletes
  HeardIsAnswered
  ScreenSettles
CHECK_DEADLOCK FALSE
