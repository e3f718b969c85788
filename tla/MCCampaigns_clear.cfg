\* Two requests, one after the other or at once, over one campaign with two links.
CONSTANTS
  Requests = {q1,q2}
  MaxCampaigns = 3
  MaxMedia = 3
  Window = 2
SPECIFICATION Spec
SYMMETRY Symmetry
INVARIANT ClearedIsGone
\* Requests are finite.
CHECK_DEADLOCK FALSE
