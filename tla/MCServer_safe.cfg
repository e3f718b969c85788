\* Two requests over the members; two of everything else, requests, workspaces, readers,
\* slots, senders; all of them and a fifth as jobs of the limiter, two as runs of the nudge.
CONSTANTS
  Users = {f,d,n}
  Founder = f
  Deputy = d
  Requests = {q1,q2}
  Workspaces = {1,2}
  NoUser = NoUser
  Callers = {p1,p2}
  MaxCampaigns = 3
  MaxMedia = 3
  Page = 2
  Tenants = {p1,p2}
  Nowhere = Nowhere
  Life = 3
  Margin = 2
  MaxTokens = 3
  MaxDay = 3
  Changes <- MCChanges
  Least = 0
  Most = 1
  Jobs = {q1,q2,p1,p2,j1}
  Max = 2
  Window = 2
  MaxAttempts = 3
  MaxTime = 5
  Sending = {"job"}
  Approvals = {"click"}
  Limit = 1
  LastMonth = 1
  LateHosts = {}
  Runs = {p1,p2}
  MaxStalls = 1
  Clock = 3
  Hours = 2
  Span = 2
  MaxIn = 2
SPECIFICATION ServerSpec
SYMMETRY Symmetry
INVARIANTS
  TypesOK
  RolesHold
  CampaignsHold
  TokenHolds
  LimitHolds
  CounterHolds
  NudgeHolds
PROPERTIES
  OpenInvitationOnly
  SlugStays
  AccountStays
  HistoryHolds
\* Requests are finite, and so is time: the system may come to rest.
CHECK_DEADLOCK FALSE
