\* Two accounts; three conversations, a draft, two posts, two campaigns;
\* a thread of two messages beside the setter's own.
CONSTANTS
  Accounts = {"a","b"}
  Threads = {"t1","t2","t3"}
  AccountOf <- MCAccountOf
  None = "none"
  MaxClicks = 3
  MaxFlying = 3
  MaxDrafts = 2
  Replies = {"r"}
  ReplyOwner <- MCReplyOwner
  First = "a"
  Posts = {"pa","pb"}
  PostOwner <- MCPostOwner
  MaxRows = 2
  MaxSaves = 3
  FormClicks = 5
  Owners <- MCOwners
  All = "all"
  MaxMade = 3
  MaxWrites = 2
  Acks = {2}
  Wordless = {1}
  PageSize = 2
  Slots = {w1,w2}
  MaxPatches = 1
  Events = {"human","campaign","lost","sweep","early","llm"}
SPECIFICATION MCSpec
SYMMETRY Symmetry
INVARIANTS
  TypesOK
  InboxHolds
  SetterHolds
  FormHolds
  ListHolds
  MatchIsByWords
  TableIsRecovered
PROPERTIES
  EditKeepsFields
  ThreadHolds
\* The owner may stop clicking.
CHECK_DEADLOCK FALSE
