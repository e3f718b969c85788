------------------------------- MODULE Server -------------------------------
(***************************************************************************)
(* What requests, cron runs and jobs do to one another's rows, table by    *)
(* table: the members of workspaces, campaigns and their links, the        *)
(* Instagram account and its token, the follower history, the hourly       *)
(* limiter, the counter of the monthly quota and the nudge of a window.    *)
(* The parts share nothing these modules tell apart: a behaviour shows     *)
(* one, while the others stay where they begin.                            *)
(***************************************************************************)
EXTENDS Members, Integers

CONSTANTS
  Callers,                        \* requests over campaigns, and over the history
  MaxCampaigns, MaxMedia, Page,   \* of the campaigns
  Tenants, Nowhere,               \* workspaces that connect the account
  Life, Margin, MaxTokens,        \* of its token
  MaxDay, Changes, Least, Most,   \* of the history
  Jobs, Max, Window, MaxAttempts, MaxTime,        \* of the hour
  Sending, Approvals, Limit, LastMonth, LateHosts, \* of the month
  Runs, MaxStalls, Clock, Hours, Span, MaxIn      \* of the nudge

VARIABLES
  part,  \* which of them this behaviour shows
  campaignRows, campaignConnected, campaignMedia, campaignLinks,
  campaignSlugs, campaignPc, campaignReq,
  accountManages, accountRow, accountId, accountIssued, accountDead,
  accountPc, accountReq, accountCron, accountRead, accountRefused,
  accountUndone, accountRemoved,
  followerToday, followerFollowers, followerGained, followerSnapshot,
  followerPc, followerSeen,
  limiterNow, limiterCount, limiterExpires, limiterDue, limiterAttempt,
  limiterState, limiterGranted, limiterBlocked,
  usageRow, usagePending, usageLock, usageClock, usagePc, usageStart,
  usageSeen, usageCharged,
  nudgeNow, nudgeArriving, nudgeInbound, nudgeOutbound, nudgeLastIn,
  nudgeLastNudge, nudgeTakeover, nudgeMode, nudgeJobs, nudgeRow, nudgePc,
  nudgeAnchor, nudgeHeard, nudgeNudges, nudgeUnsure

C == INSTANCE Campaigns WITH
  Requests <- Callers, Window <- Page,
  rows <- campaignRows, connected <- campaignConnected,
  media <- campaignMedia, links <- campaignLinks, slugs <- campaignSlugs,
  pc <- campaignPc, req <- campaignReq

A == INSTANCE Accounts WITH
  Workspaces <- Tenants,
  manages <- accountManages, row <- accountRow, id <- accountId,
  issued <- accountIssued, dead <- accountDead, pc <- accountPc,
  req <- accountReq, cron <- accountCron, read <- accountRead,
  refused <- accountRefused, undone <- accountUndone,
  removed <- accountRemoved

F == INSTANCE Followers WITH
  today <- followerToday, followers <- followerFollowers,
  gained <- followerGained, snapshot <- followerSnapshot, pc <- followerPc,
  seen <- followerSeen

L == INSTANCE RateLimiter WITH
  now <- limiterNow, count <- limiterCount, expires <- limiterExpires,
  due <- limiterDue, attempt <- limiterAttempt, state <- limiterState,
  granted <- limiterGranted, blocked <- limiterBlocked

U == INSTANCE WorkspaceUsage WITH
  Jobs <- Sending, NoOne <- Nowhere,
  row <- usageRow, pending <- usagePending, lock <- usageLock,
  clock <- usageClock, pc <- usagePc, start <- usageStart, seen <- usageSeen,
  charged <- usageCharged

N == INSTANCE WindowNudge WITH
  MaxTime <- Clock,
  now <- nudgeNow, arriving <- nudgeArriving, inbound <- nudgeInbound,
  outbound <- nudgeOutbound, lastIn <- nudgeLastIn, lastNudge <- nudgeLastNudge,
  takeover <- nudgeTakeover, mode <- nudgeMode, jobs <- nudgeJobs, row <- nudgeRow,
  pc <- nudgePc, anchor <- nudgeAnchor, heard <- nudgeHeard, nudges <- nudgeNudges,
  unsure <- nudgeUnsure

-----------------------------------------------------------------------------
(* What the constants may be *)

\* A token is renewed some days before it ends, and lives longer than that.
AccountBounds == A!NowhereIsNoWorkspace /\ A!TokenBounds /\ A!MarginWithinLife

\* The limits are numbers above zero, and a job is put back often enough to
\* wait for the end of a window.
HourBounds ==
  /\ Max \in Nat \ {0} /\ Window \in Nat \ {0} /\ MaxTime \in Nat
  /\ MaxAttempts \in Nat /\ Window <= MaxAttempts

\* One time zone for all hosts: a month starts once.
OneZone == LateHosts \in {{}, U!Hosts}

\* A job's lock is lost at most once, BullMQ's default.
NudgeBounds ==
  /\ Clock \in Nat \ {0}
  /\ IsFiniteSet(Runs)
  /\ MaxStalls \in {0, 1}

ASSUME ServerBounds ==
  /\ C!CampaignBounds /\ F!HistoryBounds
  /\ AccountBounds /\ HourBounds /\ NudgeBounds /\ U!QuotaBounds /\ OneZone

-----------------------------------------------------------------------------
(* The specification *)

campaignVars ==
  <<campaignRows, campaignConnected, campaignMedia, campaignLinks,
    campaignSlugs, campaignPc, campaignReq>>
accountVars ==
  <<accountManages, accountRow, accountId, accountIssued, accountDead,
    accountPc, accountReq, accountCron, accountRead, accountRefused,
    accountUndone, accountRemoved>>
followerVars ==
  <<followerToday, followerFollowers, followerGained, followerSnapshot,
    followerPc, followerSeen>>
limiterVars ==
  <<limiterNow, limiterCount, limiterExpires, limiterDue, limiterAttempt,
    limiterState, limiterGranted, limiterBlocked>>
usageVars ==
  <<usageRow, usagePending, usageLock, usageClock, usagePc, usageStart,
    usageSeen, usageCharged>>
nudgeVars ==
  <<nudgeNow, nudgeArriving, nudgeInbound, nudgeOutbound, nudgeLastIn,
    nudgeLastNudge, nudgeTakeover, nudgeMode, nudgeJobs, nudgeRow, nudgePc,
    nudgeAnchor, nudgeHeard, nudgeNudges, nudgeUnsure>>
serverVars ==
  <<part, vars, campaignVars, accountVars, followerVars, limiterVars,
    usageVars, nudgeVars>>

Parts == {"members", "campaigns", "account", "followers", "limiter", "usage", "nudge"}

ServerInit ==
  /\ part \in Parts
  /\ Init /\ C!Init /\ A!Init /\ F!Init /\ L!Init /\ U!Init /\ N!Init
  /\ part = "followers" \/ followerFollowers = Least
  /\ part = "limiter" \/ \A j \in Jobs: limiterDue[j] = 0
  /\ part = "nudge" \/ nudgeMode = "AUTO"

\* A step of part p leaves the other parts alone.
Others(p) ==
  /\ UNCHANGED part
  /\ part = p
  /\ IF p = "members" THEN TRUE ELSE UNCHANGED vars
  /\ IF p = "campaigns" THEN TRUE ELSE UNCHANGED campaignVars
  /\ IF p = "account" THEN TRUE ELSE UNCHANGED accountVars
  /\ IF p = "followers" THEN TRUE ELSE UNCHANGED followerVars
  /\ IF p = "limiter" THEN TRUE ELSE UNCHANGED limiterVars
  /\ IF p = "usage" THEN TRUE ELSE UNCHANGED usageVars
  /\ IF p = "nudge" THEN TRUE ELSE UNCHANGED nudgeVars

ServerNext ==
  \/ Others("members") /\ Next
  \/ Others("campaigns") /\ C!Next
  \/ Others("account") /\ A!Next
  \/ Others("followers") /\ F!Next
  \/ Others("limiter") /\ L!Next
  \/ Others("usage") /\ U!Next
  \/ Others("nudge") /\ N!Next

ServerSpec == ServerInit /\ [][ServerNext]_serverVars

-----------------------------------------------------------------------------
(* The properties of the parts, as their modules state them *)

\* Every variable of every part has its type.
TypesOK ==
  /\ TypeOK /\ C!TypeOK /\ A!TypeOK /\ F!TypeOK /\ L!TypeOK /\ N!TypeOK

\* The routes, the import and the cron leave a campaign one target and its links.
CampaignsHold == C!CampaignsHold
\* A report's URL, once made, is replaced only by a list that began before.
SlugStays == C!SlugStays
\* The token in the row works, and does not run out for one refused pass.
TokenHolds == A!TokenHolds
\* An account passes to a workspace only past the check that it was free.
AccountStays == A!AccountStays
\* A reconstructed total is that of its day; no observed day is replaced.
HistoryHolds == F!HistoryHolds
\* No window lets too many out, no job is given up for one full window.
LimitHolds == L!LimitHolds
\* The counter of the month forgets no send and lets no more through than it may.
CounterHolds == U!CounterHolds
\* A window is nudged once, and nobody who had written since.
NudgeHolds == N!NudgeHolds
=============================================================================
