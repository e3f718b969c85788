# OpenSetter in TLA+

OpenSetter (`dm-setter`) answers Instagram DMs with a language model and runs
comment-to-DM campaigns. A Next.js app takes Meta's webhooks and serves the
dashboard; a worker process runs BullMQ jobs and two polling sweeps; Postgres
(through Prisma) and Redis hold the state; Instagram is behind the Graph API.
What is hard here is hardly in any one function: it is that a webhook, a
delayed job, its retry, a sweep, a click and a dead process all touch the same
row, and that a DM that left cannot be taken back.

Paths below are relative to `src/`.

## 1. The system

| Part | State | Operations | Talks to |
|---|---|---|---|
| AI reply delivery: `lib/ai-setter/send.ts`, `app/api/ai-setter/replies/[id]/route.ts` | `AiReplyLog` (status, reasons, sentMid), conversation anchors | `sendAiReply` (claim, quota, slot, Meta call, record), `recoverInterruptedSends`, approve, dismiss | quota, rate limiter, Meta, mirror, queue (nudge) |
| AI setter pipeline: `lib/queue/ai-setter-worker.ts` | `DmMessage` (the mirror), `DmConversation` | `processInboundDm`, `processWindowNudge`, `deliverDraft`, `recordSkip` | delivery, draft generation, queue |
| DM reconciler: `lib/polling/dm-reconciler.ts` | the mirror, the anchors | `reconcileDms` every ten minutes | Meta, queue |
| Comment campaigns: `lib/queue/dm-worker.ts` | `DmLog` per campaign and comment | `processComment`, `processPostback` | quota, rate limiter, Meta, queue (requeue) |
| Comment reconciler: `lib/polling/comment-reconciler.ts` | reads `DmLog` | `reconcileComments` every five minutes | Meta, queue |
| Webhook: `app/api/webhook/route.ts`, `lib/meta/webhook.ts` | `WebhookEvent` | POST: comments, messages and echoes, taps, reads become jobs | queue |
| Queue and worker process: `lib/queue/client.ts`, `worker/dm-worker.ts` | BullMQ jobs in Redis | deterministic ids, 3 attempts, 5 slots, stall detection, timers, shutdown | all handlers |
| Quota: `lib/billing/usage.ts` | `Workspace.usagePeriodStart`, `dmsSentThisPeriod` | reserve (a transaction), release, monthly reset (also by a cron) | every sender |
| Rate limiter: `lib/utils/rate-limiter.ts` | a Redis counter per account, one hour to live | `reserveDMSlot`, requeue decision | comment worker, setter |
| Thread switches: `app/api/ai-setter/conversations/route.ts` | mode, `aiEnabled`, `humanTakeoverAt` | PATCH | pipeline |
| Drafts: `lib/ai-setter/{generate,llm,prompt,knowledge*,campaign-opener}.ts` | none (an index on disk) | retrieval, prompt, model call, parsing | model, embeddings |
| Safety, keywords: `lib/ai-setter/safety.ts`, `lib/utils/keyword-matcher.ts` | none | pure decisions over texts | pipeline, campaigns |
| Crons: `app/api/cron/*` | tokens, campaign post, follower snapshots | refresh tokens, attach next reel, snapshot followers | Meta, and the rows the dashboard edits |
| Accounts: `app/api/instagram/{connect,callback,disconnect}`, `lib/instagram-accounts.ts` | `InstagramAccount` | connect, callback, disconnect | Meta, token cron |
| Workspaces: `lib/workspace*.ts`, `app/api/workspace/*` | `Workspace`, `WorkspaceMember`, `WorkspaceInvitation` | sign up, invite, accept, change role, remove, revoke | auth |
| Campaign management: `app/api/automations/*` | `Automation`, `TrackedLink` | create, import, edit, delete, list | crons, pages |
| Pages: inbox, AI setter, campaign builder and import, campaign list | the state of one tab, session and browser storage | clicks, polls, answers | the routes above |
| Tracking, reports, marketing pages | clicks | inserts, reads | dashboard |

What makes each part correct:

- **Delivery**: one handler delivers a draft at a time; a draft goes out twice
  only when a human saw the warning that it may be in the thread; no claim and
  no stored draft is left behind; the quota covers what was sent.
- **Pipeline**: a burst gets one answer and never none; the setter keeps out of
  a thread a human has taken; the nudge of a window is sent once, in that window.
- **DM reconciler**: every message with a text gets into the mirror, and a missed
  one is answered.
- **Campaigns and their reconciler**: one DM and one public reply for each
  campaign and comment, a row that says what happened, and an answer to every
  comment in the end.
- **Quota, limiter**: no month and no window over its maximum, nothing forgotten
  at the month's change, every unit that was not used given back.
- **Workspaces**: nobody has a role no manager gave him, a closed invitation
  admits nobody, a workspace keeps its owner.
- **Accounts, crons**: what a cron read before a call to Meta is not written over
  what a user did during the call, or the harm has a name and a bound.
- **Campaign management**: a campaign has one target and the links it was given;
  a file makes each campaign once.
- **Pages**: what is shown, approved or saved belongs to the account, thread,
  draft or row it is shown, approved or saved under, in whatever order answers
  come.

`PROJECT.json` lists the parts under `components`, and under `hazards`, with
its line, everything in this code that is hard to test.

## 2. The modules

| Module | Models | Extends or uses |
|---|---|---|
| `ReplyDelivery` | the life of setter drafts: job runs, `sendAiReply`, approve, dismiss, recovery sweep | `Outbox` (refinement) |
| `Outbox` | what delivery promises: a further copy of a draft only under the warning | |
| `ReplyDeliveryProofs` | the theorems about `ReplyDelivery` | `ReplyDelivery`, `Counting` |
| `Counting` | lemmas the proofs share: numbers of processes at places, sets that grow or shrink by one, induction and recursion on numbers | TLAPS |
| `WorkspaceUsage` | the quota's row, its transactions, the change of month | |
| `CommentWorker` | comments: webhook, sweep, `processComment`, limiter, requeue | |
| `CommentWorkerProofs` | the theorems about `CommentWorker` | `CommentWorker`, `Counting` |
| `Reveal` | one opening DM: taps, the read fallback, `processPostback`, the follow gate | |
| `RevealProofs` | the theorems about `Reveal` | `Reveal`, `Counting` |
| `Webhook` | the POST route and its parsers: deliveries, redeliveries, the jobs they become | |
| `WebhookProofs` | the theorems about `Webhook` | `Webhook`, `Counting` |
| `SetterInbox` | one thread: webhook, `processInboundDm`, echoes, DM sweep, owner | |
| `WindowNudge` | the nudge of one thread: `processWindowNudge` against a moving thread | |
| `RateLimiter` | the hourly window with its clock, requeues, the skip | |
| `Members` | sign-up, workspaces, members, invitations | |
| `MembersProofs` | the theorems about `Members` | `Members`, `Counting` |
| `Server` | the rows of the web app and its worker, part beside part | `Members`; `Campaigns`, `Accounts`, `Followers`, `RateLimiter`, `WorkspaceUsage`, `WindowNudge` |
| `ServerProofs` | the theorems about all parts of `Server` but `Members`, and about `Server` itself | `Server`, `MembersProofs` |
| `Campaigns` | the campaign routes, the import, the next-reel cron | |
| `Accounts` | OAuth callback, disconnect, token cron over one account | |
| `Followers` | snapshot, backfill and reconstruction of the follower history | |
| `KeywordMatcher` | `matchKeywords` as operators, and words as reference | |
| `InboxPage` | the inbox in one tab, and the routes it calls | |
| `SetterPage` | the AI setter's page in one tab: settings, drafts | |
| `CampaignForm` | the campaign builder, the post picker and the import queue | |
| `CampaignList` | the list of campaigns and a campaign's own page | |
| `Csv` | `parseCsv` as operators, and writing a table as reference | |
| `Dashboard` | the pages and the thread, part beside part | `InboxPage`; `SetterPage`, `CampaignForm`, `CampaignList`, `SetterInbox` |
| `DashboardProofs` | the theorems about all parts of `Dashboard` | `Dashboard` |
| `MCReplyDelivery` | one nudge, and two drafts that compete for the quota | `ReplyDelivery`, twice |
| `MCAnswers` | what the worker sends to who taps and who comments | `Reveal`; `CommentWorker`, twice |
| `MCCommentWorker`, `MCSetterInbox`, `MCWorkspaceUsage`, `MCCampaigns` | one module for TLC | the module of the name |
| `MCResolves` | webhook and deliveries, with fairness | `Webhook`; `ReplyDelivery` |
| `MCThread` | the setter's thread and the page, with fairness | `SetterInbox`; `InboxPage` |
| `MCServer` | a small instance of `Server` | `Server` |
| `MCDashboard` | a small instance of `Dashboard`, and two texts | `Dashboard`; `KeywordMatcher`, `Csv` |

Conventions of all modules: a handler is a process with a place (`pc`) and the
locals it carries across an `await`; every database write, Redis call and Meta
call is a step of its own, and reads that nothing separates are merged with the
step that uses them, never across an `await` that another process could use.
A message, text or row id is a member of a small set; texts, logging and alerts
are left out. What may go wrong is a set `Events` of the run, so that a run says
which fault it needs. A definition with the comment "Mutant" or "A slip" is a
plausible slip in a definition that follows it; no specification uses it.

`Server`, `Dashboard`, `MCReplyDelivery`, `MCAnswers`, `MCResolves` and `MCThread` hold several
instances, each on variables of its own, and they (of `Dashboard`, `MCDashboard`) a variable `part` that says which of them a behaviour shows: the
others stay where they begin, and idle choices of an `Init` are pinned. This
checks the parts one beside the other, not their interleaving, and is meant
where the parts share nothing the modules tell apart: an interleaving of theirs
would project onto the behaviours checked. (Of `Server`, `PartsRun` proves that each
part goes by its own specification, and the theorems about the parts do not ask which
others move.) Where components do interact, the
interaction is in one module (`CommentWorker` has its sweep, its webhook, the
quota and the window; `Campaigns` its cron and its import; a page module the
routes it calls).

**ReplyDelivery.** A draft is its `inboundMid`. `status` is the enum of the
schema with `NONE` for no row; `warned` is the presence of
`AMBIGUOUS_SEND_REASON` in `reasons`; `dms` counts the copies on Instagram and
exists in no row. `TakeJob` to `GiveBackJob` are `processInboundDm`,
`processWindowNudge` and `deliverDraft`; `ReadDraft` to `Quarantine` are
`sendAiReply` line by line, shared by jobs and approvals; `FindInterrupted` and
`QuarantineFound` are the sweep's read and write, apart because a row may change
between them. `Crash` drops the process, and the job comes back as BullMQ's
stalled jobs do; `Stall` lets a job be taken again while its run goes on.

**WorkspaceUsage.** The row and one open transaction's version of it, at
READ COMMITTED: a first write takes the row, later writers wait and look again.
`Begin`/`Reset`/`Renew`/`Read`/`Increment`/`Commit` are the statements of
`reserveWorkspaceDMSend`; `monthStart` is computed twice, as in the code, from
the clock of the host that asks. Hosts come to a new month each at its own
moment. `charged` observes which period a sender's unit was counted in.

**CommentWorker.** The rows `log`, the jobs by id (the webhook's, the sweep's
fresh ones, the requeue's `_retry_n`), the handler's loop over the campaigns
(`at`), the quota and the window's counter. `Look` reads `existingLog`, which
the run uses to its end. `Call` is one Meta call: it arrives, is refused, or
arrives and loses its answer. `TokenFails` is the decryption before anything else
is looked at: it writes FAILED over whatever the row has, SENT of a DM included, if the run
comes back for the public reply only. So with the event `token` a campaign with a
public reply may send its DM again; `Firm` are the campaigns whose SENT nothing
takes.

**Reveal.** One user and one campaign with a SENT opening DM; `Init` chooses
whether its button says followcheck or reveal, whether the campaign has tracked
links and a follow-up, and whether it is gated, which the owner may switch. `Find` to
`MarkFailed` are `processPostback`; `row` is the `DmLog` row of
`reveal:<user>`, which taps and fallback share. `reveals` counts the links that
arrived, `entitled` whether the user ever followed (or Instagram would not say),
`clean` whether a lost answer, a query or a death has made the counts drift.

**Webhook.** Deliveries are batches of items; `IsComment` to `IsRead` are the
filters of `lib/meta/webhook.ts` over what they look at (who, to whom, whole or
not). A request goes through its items one await at a time (`QueueNext`,
`DropMessage`, `ExpandRead`), ends PROCESSED (`Close`) or FAILED (`Fail`), or
dies; Meta delivers again until it hears 200. `job` is BullMQ's memory of an id,
which absorbs what is queued twice. The other modules take the jobs as they come.

**SetterInbox.** `thread` is what Instagram holds, a message's place is its
timestamp. `Upsert` sets the anchor and takes the snapshot (`snap`) that all
gates look at; `MirrorMessage` stops at a message that is mirrored; then arming,
gates, debounce, draft, `DeliverDraft`, `Send`, `RecordReply`, `MarkSent`. The
sweep walks the messages of its page (`PageSize`, 20 at Meta), passes over those
without text (`Wordless`, which the webhook's path stores as `[media]`), writes
twice for each that is missing, and hands the newest missed one over. A sweep
reads the 25 threads of the newest messages (`lib/polling/dm-reconciler.ts:29`): one
that does not reach this thread is no step of the module, so what is said of the
mirror is said of a thread some sweep reaches. A model call may throw (`llm`), and the
job is queued again. The failures of a send are ReplyDelivery's and left out here.

**WindowNudge.** A nudge is known by its anchor, the `lastInboundAt` it was armed
with. A run goes through `Load` (the thread and the config), `LastMessage`,
`FindRow`, `Draft`, `Hold`, `Check`, `Skip`, `Claim`, `Send`, `Refuse`, `Note` and
`Record` with a step each, while the prospect writes, messages are processed late, the owner
answers, switches, approves and dismisses, and another run of the same job goes
on: a run whose lock was lost stays alive beside the next (`Live`), and BullMQ lets
that happen `MaxStalls` times, once by default. `Quarantine` is what follows when the answer
of the call or a record after it is lost: the draft is HELD with its warning, which a
second run that has looked at the row before may claim (`send.ts:136`). `unsure`
observes just that case. An approval is one step here, of what it leaves behind;
its own steps are in `SetterPage` and `ReplyDelivery`.

**RateLimiter.** The Lua script is one step; a job is blocked, due again half a
window later, and skipped after its last attempt. The clock counts half windows.

**Members.** A request is a process: `Context` finds its workspace (which may
accept invitations or make a workspace, query by query), then its handler reads,
decides and writes by id. `Ask` is a request of the dashboard, `Follow` an
invitation link. `rank` is id and `createdAt` at once. `chosen`, `named` and
`late` observe what managers asked for and who was under way.

**Campaigns.** The rows with target, links and slug, media in the order of their
posting, and the requests over them: `Create` with both links at once, `ImportRead` to `ImportEnds`,
`Update` to `Answer` (the PATCH with its four queries for the links), `Delete`,
`List` to `Listed`, and the cron's `Pending`, `Media`, `Bind`, `Bound`. A link has the
time it was made (`made`), which two links of one create share; the code orders by it
alone, so `Firsts` and `Seconds` are the links either query may find. A list's
missing slugs are written in any order, and a campaign that is gone stops none of the
others (`Slug`).

**Accounts.** One account, the callbacks of two workspaces (`Callback`, `Check`,
`Subscribe`, `Write`) and the cron (`Pick`, `Ask`, `Store`). Tokens are numbered;
removing the app kills all issued so far. Days pass by `NextDay`.

**Followers.** A row per day. `ReadCount` to `Backfill` are the cron and the
overview page, which run the same steps; `Totals` is the reconstruction.

**KeywordMatcher, Csv.** Pure: the code's algorithm, and beside it what it is for,
said without it: the words of a text; a table as a spreadsheet would write it,
in every quoting and line end. Characters are those the code tells apart.

**InboxPage, SetterPage, CampaignForm, CampaignList.** One tab: its React state,
the caches, the requests under way with what they were asked for, and the rows
of the server they touch. A click is guarded by what the page disables; an
answer does what its handler does, whatever the tab shows by then. An effect's
cleanup is modelled where the code has one (a cancelled load answers nobody).
Observations (`hasty`, `doubtful`, `muddled`, `early`, `astray`) name the
behaviours in which the code makes no promise, and every property that has such
an exception says so in its comment. In `SetterPage` an approval or dismissal is the
handler's steps, `ReadRow` to `RecordSent`: the row is read, then written by id, or read
again, claimed, sent and recorded, while other requests do the same, the connection
may break (`Break`) and the outcome be lost (`Quarantine`); the sweep that comes
two minutes later is ReplyDelivery's. In `CampaignForm` a PATCH keeps the
campaign's account (`Made`), whatever account the form shows; the import page stages
for any account; and the fields a row does not fill (`campaign-builder.tsx:320`
leaves the follow gate, the follow-up, the second link, the link's label and the AI
flag) are not modelled, nor is what the owner types.

## 3. The runs

Passing runs:

| Run | Bounds | Shows |
|---|---|---|
| `delivery_safe` | one nudge, 2 slots, 2 approvals, 1 dismissal, 3 attempts; crash, database errors, gates. Beside it a reply and a nudge, 2 slots, 2 clicks, 2 attempts, no stall forgiven, 1 unit; crash, lost lock, db, gate | `OneSender`, `UnsureIsWarned`, `AutoSendsOnce`, the refinement of `Outbox`, and `IInv`, the invariant of the proofs; `QuotaCoversSends`, `QuotaHolds` (the same of the two drafts): a leak may overstate the counter, nothing understates it |
| `answers` | comment: 2 campaigns, 1 slot, 3 attempts, 1 requeue; 3 refusals or Redis errors, or 2 faults with unreadable tokens. Link: one button, one fallback, 2 slots, 2 attempts, limit 1, 2 faults: refusals, lost answers, unreadable follow status, queries, crashes | `AnswersHold` (`OneDm`, `OneReply`, `QuotaExact`): without overlaps and lost outcomes the guards suffice; `SentGivesWay`: only an unreadable token takes SENT from a row; `GateHolds`, `CountsHold` (`LogIsTrue`, `QuotaExact`), `TapAnswered` |
| `comment_overlap` | 1 campaign, 2 slots, window of one, 1 requeue, any one fault | `LogIsTrue`: whatever overlaps, a row claims nothing that did not arrive; `MissedIsAnswered` |
| `resolves` | webhook: 3 deliveries of 8 items, 2 campaigns with an opening DM, 2 requests, one change of the account, one fault of any kind; deliveries: one nudge, 2 slots, approval, dismissal, crash | `QueueHolds` (`ProcessedMeansQueued`, `EventRunsOnce`), `EventsAreQueued`; `DraftsResolve` (`SendingResolves`, `PendingResolves`) |
| `thread` | setter: 2 messages beside the replies, the second without text, 2 slots, jobs in any order, human, campaign, lost calls, failing model calls, the sweep with pages of 2; page: 2 accounts, 3 threads, 2 clicks, 3 requests under way, one draft | `MirrorCompletes`; `HeardIsAnswered`: messages of a burst never all yield, and what goes unanswered ends in a named dead end, a bare thanks or a job that finds its message in the mirror, put there by the sweep or by its own first attempt; `ScreenSettles` |
| `server` | members: 3 users, 2 requests, 2 workspaces; campaigns: 2 requests, 3 campaigns, 3 media, a page of 2; account: 2 workspaces, 3 tokens of 3 days, a margin of 2; followers: 2 callers, 3 days, 0 or 1 followers; limiter: 5 jobs, maximum 2, a window of 2, 3 attempts, 5 ticks; usage: a job, an approval and the cron, 2 months, limit 1, one time zone; thread of the nudge: 2 runs at once and after one another, 3 hours, 2 messages, a lost answer or record anywhere | `TypesOK`; `RolesHold` (`RolesAreChosen`, `OwnerKept`), `OpenInvitationOnly`; `CampaignsHold` (`OneTarget`, `BoundIsNext`, `ButtonsAsAsked`, `FileRowsApart`), `SlugStays`; `TokenHolds` (`TokenIsGood`, `MarginIsKept`), `AccountStays`; `HistoryHolds` (`TotalsAreTrue`, `ObservedStays`); `LimitHolds` (`WindowCap`, `SkippedMetTwoWindows`); `CounterHolds` (`CoversSends`, `MonthlyCap`); `NudgeHolds` (`OneNudge`, `NudgesTheQuiet`) |
| `dashboard` | 2 accounts everywhere; inbox: 3 threads, 2 drafts, 3 clicks, 3 requests; setter: a draft, 3 clicks, 3 requests, each decision in its handler's steps; form: 2 posts, 2 rows, 3 saves, 5 clicks; list: 2 campaigns and a third, 3 clicks, 3 requests; thread: 2 messages beside the replies, 2 slots, one change of mode, human, campaign, the sweep, early echoes, failing model; keyword: 6 characters in all of 6 kinds; file: tables of 5 characters, cells and rows, in 12 ways to write them | `InboxHolds` (`CachesAreTrue`, `ApprovedTextIsItsOwn`); `SetterHolds` (`OwnSettings`, `SavedIsTrue`, `StaleCardIsHarmless`); `FormHolds` (`RowsAreKept`, `OnceEach`, `PostIsOwn`, `UsedIsFlagged`), `EditKeepsFields`; `ListHolds` (`ShownIsTrue`, `PicturesAreOfList`); `ThreadHolds` (`SetterStepsAside`); `MatchIsByWords`, `TableIsRecovered` |

A name with others behind it in brackets is their conjunction, with the type
invariant of its module where no other property of the run has it. The modules
have a slip for each conjunct, which breaks that one; `PROJECT.json` lists one
mutant per property.

Runs that end in a violation: each checks what the code, a comment, a doc or a
test says, and finds the steps that break it. `findings` in `PROJECT.json` has
the quotes.

| Run | What happens |
|---|---|
| `delivery_inbound_resume` | the retry of an inbound job stops at its own mirror row; the draft stays PENDING |
| `inbox_missed` | a message the sweep backfilled is never answered |
| `comment_token` | a pass that returns for the public reply meets an unreadable token and writes FAILED over SENT (`lib/queue/dm-worker.ts:194`) |
| `nudge_twice` | the second of two overlapping runs claims the nudge the first has quarantined, and sends it again (`lib/ai-setter/send.ts:136`) |
| `campaign_clear` | a PATCH that clears both links of a campaign leaves the second (`app/api/automations/route.ts:574`) |

Beside these runs stand narrower questions, each a property that TLC refutes.
They say which fault a passing run must leave out, and why. Ask with
`tlc -config C.cfg M`, `M` the module before the `_` of `C`, after the changes the
column names; "alone" is the property in place of those of the configuration.

| Configuration `C`, and what to change in it | Property | What TLC finds |
|---|---|---|
| `ReplyDelivery_slow` | `OneSender` | the sweep quarantines a live send after two minutes (`lib/ai-setter/send.ts:88`); an approval sends beside it |
| `ReplyDelivery_slow`, no `Events` | `SendingIsInFlight` alone | a refused approval restores SENDING, which it had read before its claim (`send.ts:132`) |
| `ReplyDelivery_stall` | `AutoSendsOnce` | the second of two overlapping runs claims the draft the first has quarantined (`send.ts:136`) |
| `MCServer_safe`, three `Runs`, `MaxStalls = 2`, which `NudgeBounds` must allow | `NudgeHolds` alone | a run that goes by an older mode holds the draft another is sending (`ai-setter-worker.ts:134`), and a third claims and sends it again |
| `ReplyDelivery_slow`, `Approvals = {a1}`, `Dismissals = {c}`, no `Events` | `SentStays` alone | a dismissal overwrites SENT (`replies/[id]/route.ts:57`) |
| `MCWorkspaceUsage_zones` | `CoversSends` | a host whose month starts later zeroes the counter again (`lib/billing/usage.ts:12`) |
| `MCWorkspaceUsage_zones`, no `LateHosts` | `RefusedOnlyAtLimit` alone | the month changes between two readings of the clock; a DM is refused below the limit (`usage.ts:54`) |
| `MCWorkspaceUsage_zones`, no `LateHosts` | `ReleaseGivesBack` alone | a release looks for the period of before the lock and gives nothing back (`usage.ts:60`) |
| `MCCommentWorker_twice` | `OneDm` | webhook job and sweep job of one comment, with different ids, send a DM each (`lib/polling/comment-reconciler.ts:233`, which calls re-processing safe) |
| `MCCommentWorker_twice`, one worker, `Public = {1}`, `Events = {"db"}` | `OneReply` alone | a public reply whose record failed is posted again (`lib/queue/dm-worker.ts:276`) |
| `MCCommentWorker_twice`, one worker, `Linked = {1}`, `Events = {"lost"}` | `FallbackAfterRejection` alone | the text fallback follows a template that arrived (`dm-worker.ts:485`) |
| `MCCommentWorker_starve` | `MissedIsAnswered` | a comment that is never handled keeps its place under the sweep's cap (`lib/polling/comment-reconciler.ts:225`) |
| `MCCommentWorker_starve`, `MaxRequeues = 3`, `Limit = 2`, `SlotLimit = 1`, no `Events` | `RetryIsScheduled` alone | "retry scheduled" without a job (`dm-worker.ts:378`) |
| `MCCampaigns_clear`, `Requests = {q1}` | `SecondIsNotFirst` alone | the two links one create made have one `createdAt`; the second, looked for at index 1 after the first was found by a query of its own, may be the same one (`app/api/automations/route.ts:570`; :567 says it is always the one at index 1) |
| `Reveal_read` | `FallbackNeeded` | the fallback looks for a SENT reveal before the tap's run has written it, and sends the link again (`dm-worker.ts:593`; `app/api/webhook/route.ts:189` says it no-ops) |
| `MCSetterInbox_missed`, two messages and workers, `Acks = {2}`, no `Events` | `ProspectIsAnswered` | a question superseded by "thanks" is answered by nobody (`lib/queue/ai-setter-worker.ts:433`) |
| `MCSetterInbox_burst` | `OneReplyPerBurst` | two queued messages are both answered: the mirror learns of the second only when its own delayed job runs (`ai-setter-worker.ts:425`; `docs/ai-setter.md:163` says they collapse) |
| `MCSetterInbox_burst`, two workers | `StaleNudgeHasNewer` alone | `lastInboundAt` goes back and the newest window's nudge is dropped (`ai-setter-worker.ts:356`) |
| `MCSetterInbox_burst`, two workers, `Events = {"early"}` or `{"campaign"}` | `EchoIsHuman` alone | the echo of our own send is stored as a human's (`send.ts:192`, `ai-setter-worker.ts:367`) |
| `MCSetterInbox_burst`, `Events = {"human", "sweep"}` | `HumanIsHeard` alone | the sweep mirrors a human's reply first and the takeover is lost (`lib/polling/dm-reconciler.ts:97`) |
| `MCSetterInbox_burst`, two workers, `Events = {"human"}` | `NoReplyUnderTakeover` alone | a reply leaves after a human's takeover was recorded (`ai-setter-worker.ts:407`) |

**Why the bounds suffice.** The hazards are races of two, sometimes three,
handlers over one row: two slots and a click or two reach every pair, a third
approval or slot repeats one (`MCWorkspaceUsage_zones` without `LateHosts` has three
senders, and `CounterHolds` there too). Rows of different drafts, comments or threads
meet only in the quota, the window and the sweep's cap, and each has a run with
two rows. Attempts, requeues and stalls are bounded as in the code or one lower;
two of each is the least that has a first, a repeated and a last one. The part of
`delivery_safe` about the quota gives a job up at its first lost lock (`MaxStalls = 0`) to
have room for two clicks beside it; `QuotaCovers` is proved for every value. Five jobs of
the limiter are what it takes: with a maximum of 2, four fill two windows and the fifth
meets both full, is put back twice and skipped. Two months
have one change. Two messages are a burst (the debounce compares pairs), or
one before and one under a takeover (`ThreadHolds` holds of three, too, without the
sweep, in a run of 1.6 million states of its own). A page needs an
account or thread to leave, one to come to, and as many clicks as it takes to go
there and act; three requests under way let two cross beside a poll. Two
requests over the members let one find what the other changes; that a third undoes it is
left to `RolesAreHeld` and `OnlyInvited`, which hold of any number. A cell of a
quote, a comma or a line end beside another cell and row is what a CSV reader can
get wrong, and needs five characters at most.

Bounds by name: `MaxAttempts`, `MaxStalls`, `MaxRequeues`, `MaxPerSweep`,
`Limit`, `SlotLimit` are parameters of the code. `MaxPolls` (sweep jobs of one
comment at once), `MaxFaults` (things that go wrong in a behaviour), `LastMonth`,
`MaxWrites` (messages the setter does not write), `MaxPatches`, `MaxTaps` and
`MaxEdits` (times the account comes or goes) are the models', and so are
`MaxClicks`, `MaxFlying` (requests under way), `MaxDrafts`, `MaxRows` and
`MaxSaves` of the pages, `MaxCampaigns`, `MaxMedia`, `MaxTokens`, `MaxDay`,
`MaxTime`, `MaxIn` of the rows, and `MaxTyped` and `MaxTable` of the two texts.
`Window` is 25 media in the code and 2 here, `Life` 60 days and 3, `Margin` 10 and
2, the limiter's `Window` an hour and two halves of it. One fault is
enough for `Webhook`, whose faults all end in a redelivery; two in `Reveal` make
a refused template and a refused text. `CHECK_DEADLOCK FALSE` stands where jobs, clicks and messages are
finite and the system rests when they are done; `CommentWorker` never rests, its
sweep goes on, and is checked for deadlock.

**Fairness.** Weak fairness of the steps of a slot (BullMQ gives a free slot a
waiting job, Node runs a started handler on), of a request that has started, of
the sweeps (interval timers that never stop while the worker lives) and, in
`SetterInbox` where no call may be lost, of Meta's webhook calls. In
`CommentWorker` the window's end is fair (Redis expiry), and a waiting job is
taken in the end even if slots are busy again and again, strong fairness: the
queue is first in, first out.
In `Reveal` it is the same: steps weakly fair, a waiting job's turn strongly.
In `Webhook` a request's steps are weakly fair and Meta's redelivery strongly:
it repeats until it hears 200.
In `InboxPage` the polls of list and thread and the answers of what is open are
strongly fair (intervals that never stop while the tab is open, and a server
that does answer now and then, though any one request may fail), the end of
other requests weakly (a request ends). In a module of several parts each part
has its own fairness, where it is the one that moves.
Nobody has to write, comment, tap, follow or click. Faults are bounded there or counted, so a
liveness property says "once no more goes wrong". A crash restarts the worker,
as the deployment does (Docker `restart`, Railway).

## 4. The proofs

The theorems hold of every value of the constants that the modules' assumptions
allow, and are checked by TLAPS to the last leaf. The assumptions are what the code
gives: bounds are numbers, markers for "nobody" are nobody, sets of slots, clicks
and drafts that are counted are finite (`FiniteWorkers`, `FinitelyMany`); and for
`Webhook`, that a batch is a sequence of items of the four kinds and that an id of
Meta's has one author (`Batches`, `OneAuthor`). What a theorem assumes beyond
that stands in its own `ASSUME`, and in this table:

| Module | Theorem | States | Beyond the constants' assumptions |
|---|---|---|---|
| `ReplyDeliveryProofs` | `Invariance` | `Spec => []IInv` | `Orderly` |
| | `TypeCorrect` | `Spec => []TypeOK` | `Orderly` |
| | `OneSenderHolds` | `Spec => []OneSender` | `Orderly` |
| | `UnsureIsWarnedHolds` | `Spec => []UnsureIsWarned` | `Orderly` |
| | `AutoSendsOnceHolds` | `Spec => AutoSendsOnce` | `Orderly` |
| | `ImplementsOutbox` | `Spec => OutboxSpec` | `Orderly` |
| | `QuotaCovers` | `Spec => []QuotaCoversSends` | |
| `RevealProofs` | `GateIsHeld` | `Spec => GateHolds` | |
| | `LogHolds` | `Spec => []LogIsTrue` | |
| | `CountsAreHeld` | `Spec => []CountsHold` | |
| `WebhookProofs` | `QueueIsKept` | `Spec => []QueueHolds` | |
| `CommentWorkerProofs` | `TypeCorrect` | `Spec => []TypeOK` | |
| | `LogHolds` | `Spec => []LogIsTrue` | |
| | `AnswersAreKept` | `Spec /\ []Apart => []AnswersHold` | `NothingLost` |
| | `SentIsKept` | `Spec /\ []Apart => SentGivesWay` | `NothingLost` |
| | `ReadableSentStays` | `Spec /\ []Apart => SentStays` | `NothingLost`, no `token` |
| | `OneSlotIsEnough` | `Spec => []AnswersHold /\ SentGivesWay` | `NothingLost`, one slot |
| `MembersProofs` | `MembersTypeCorrect` | `Spec => []TypeOK` | |
| | `RolesAreHeld` | `Spec => []RolesHold` | |
| | `OnlyInvited` | `Spec => OpenInvitationOnly` | |
| `DashboardProofs` | `InboxTypeCorrect` | `Spec => []TypeOK` | |
| | `InboxIsKept` | `Spec => []InboxHolds` | |
| | `SetterIsKept` | `S!Spec => [](S!TypeOK /\ SetterHolds)` | |
| | `FormIsKept` | `B!Spec => [](B!TypeOK /\ FormHolds)` | |
| | `EditIsKept` | `B!Spec => EditKeepsFields` | |
| | `ListIsKept` | `L!Spec => [](L!TypeOK /\ ListHolds)` | |
| | `ThreadIsKept` | `I!Spec => ThreadHolds` | |
| | `DashboardTypes` | `Spec /\ S!Spec /\ B!Spec /\ L!Spec => []TypesOK` | |
| `ServerProofs` | `CounterIsHeld` | `U!Spec => []CounterHolds` | `QuotaBounds`, `OneZone` |
| | `LimitIsHeld` | `L!Spec => [](L!TypeOK /\ LimitHolds)` | `HourBounds` |
| | `NudgeIsHeld` | `N!Spec => [](N!TypeOK /\ NudgeHolds)` | `NudgeBounds` |
| | `TokenIsHeld` | `A!Spec => [](A!TypeOK /\ TokenHolds)` | `AccountBounds` |
| | `AccountIsKept` | `A!Spec => AccountStays` | `AccountBounds` |
| | `HistoryIsKept` | `F!Spec => []F!TypeOK /\ HistoryHolds` | `HistoryBounds` |
| | `CampaignsAreKept` | `C!Spec => [](C!TypeOK /\ CampaignsHold)` | `CampaignBounds` |
| | `SlugIsKept` | `C!Spec => SlugStays` | `CampaignBounds` |
| | `ServerIsSafe` | `ServerSpec =>` all of the above, with the three of `Members` | `ServerBounds`, these bounds together |

The table leaves out the invariants some of these rest on, which are theorems of
their own (`QuotaInvariance`, `HourInvariance`, `NudgeInvariance`, `HistoryInvariance`,
`CampaignInvariance`; `SetterInvariance`, `FormInvariance`, `ListInvariance`, `ThreadInvariance`).

**Delivery.** `Orderly`: no job loses its lock under a live run and no send
outlives the sweep's two minutes. `ReplyDelivery_stall.cfg` and
`ReplyDelivery_slow.cfg` show that both are needed. Crashes, database errors, closing
gates, refusals and lost answers are in.

None of the properties is inductive. The claim is an update by status, so what
excludes a second sender is not the claim alone: it is that a row in SENDING has
a sender or an interrupted one, that nobody restores a claimable status into a
row somebody else has claimed, and that the sweep's list holds no row with a
live sender. `IInv` says so: `PlacesFit` and `JobsFit` tie handlers to
their roles and a run to its job's lock; `RunsFit` says what a job run knows of
its row at each place (fresh, not warned, PENDING until claimed, no approval on
it); `ApprovalsFit` that approvals work on rows that left PENDING for good, which
is why an approval never restores PENDING and a job never claims behind one;
`ApprovalsAlone` that approvals exclude each other; `FoundFits` that the sweep's
list is of interrupted or dismissed rows; `FreshFits` and `UnsureFits` where a
copy may be without a warning. TLC checks `IInv` in `delivery_safe`.

Layout: lemmas `ControlOf...` (what the shared endings of a handler do to places
and jobs), one lemma per group of actions that `IInv` survives it
(`JobStepInv`, `SendStepInv`, `TakeJobInv`, ...), `NextInv`, then the theorems;
the refinement goes by `AcceptDelivers` (the step that delivers), `WarningFlags`
(the steps that warn) and `StepMaps`.

The quota's bound is independent of all that. `UnitsInv` says that a handler
holds a unit only between its reservation and its record, and that what is
recorded and what is held are within `used`: a row gets SENT by a holder, which
gives its unit away with it. Overlapping runs and slow sends can only lose
units, which overstates the counter. So `QuotaCovers` needs no `Orderly`.

**Reveal.** What matters is what a run may assume at its place.
`Guarded` says that a run past a gate it had to check is of an entitled user,
and that who follows now is entitled; `Backed` that a run between the send
and its end has a link behind it, which is what lets `Record` write SENT beside
runs that fail, die or write FAILED. `OnlySendsReveal` finds the step in which a
link arrives. `GateHolds` speaks of runs that found the campaign gated and check
it, which a tap on a `reveal:` button does not: a gate switched on later does not
reach the buttons already sent (`lib/queue/dm-worker.ts:625`). The quota has an
invariant of its own, `CountInv`: `used` is at least the number of runs at places
with a unit, and exactly the links that arrived and the units not yet used while
`clean`; `Number` of `Counting` counts the runs, and `NumberAfter` what one step
does to the count.

**Webhook.** `LoopKeepsPromise`: in a request's loop, what its delivery promises
is queued, dropped for want of an account, or still among what is left to do
(`todo`); `Close` writes PROCESSED when nothing is left. `RunsFit` gives
`EventRunsOnce`: a job has run as often as it was given up, and once more if it
completed. The lists are built by recursion over a batch (`Kept`), and that each
filtered list has the items it should is proved by `Recursion` and `Induction` of
`Counting`.

**CommentWorker.** `WorkerInv` holds of everything: a run that is about to write
SENT or `publicReplySentAt` has its message (`ClaimsFit`), an active job has one
run, a unit is behind every place that may give one back. The stronger guarantees
need two things. `NothingLost`: no run dies or misses what became of a call or of a
write; Meta's refusals, Redis errors and unreadable tokens may happen. `Apart`: no two
slots run the same comment at once, which a property of the behaviour states, since
nothing in the code guarantees it. Then `RunFits` keeps the row as a run read it,
`RecordFits` finds each message on record or in the run that is to record it, and
one DM, one reply and the exact quota follow; an unreadable token is the one thing
that can part a DM from its record, so of the DMs `RecordFits` and `OneDm` speak for the
campaigns in `Firm`, which no run comes back to for a public reply, and the quota is
exact where there is no such event. `SentIsKept` says that this is all a token can do:
each step that takes SENT is a `TokenFails` of a run that came back for the reply only,
which the run `comment_token` shows to happen. `OneSlotIsEnough` discharges `Apart` for
one slot. The runs of `MCCommentWorker_twice` show that without either condition all of
it fails.

**Members.** `MembersInv` is about what a request carries over its awaits: at
each place `UseFits` says what it read that is still true, or was when the request
began. It needs no order of the requests, since the routes that write by id
re-create nothing: an invitation that was ever made stays "named" and its role
"chosen". `Invited` is the core: an invitation in a request's hands is open, or was
closed while the request was under way (`late`). The first attempt to prove it
failed, and for a reason: an expired invitation may be renewed between its
reading and the write of EXPIRED, which goes by id
(`app/api/workspace/invitations/accept/route.ts:36`), so this write may close an open invitation. The model
had not counted it among the closings, and with four requests
`OpenInvitationOnly` was false of it; `MarkExpired` and `Revoke` now go through
`Close`, which notes who is late exactly where an open invitation closes.

**InboxPage.** A request knows its account and thread (`FlyingFits`), and a cache
is written under them and not under what is open (`CachesFit`); a draft's number
is never ahead of the last (`DraftsFit`). No assumption on clicks or answers.

**SetterPage.** The owner who waits has one load or one save under way, and it is the
one of the account selected (`OneLoad`, `OneSave`); a save that was answered has put into
the row just what the form still shows (`Waited`). That a draft goes out once needs no
waiting: a card may be stale, but whoever sends has claimed the row. `SentOnce` says what
that comes to: of a draft whose sends all had an outcome, one handler at most is between
claim and record, its row is SENDING or was dismissed under it, and after the
message left the row is never claimable again. Of a draft dismissed while no send was
under way (`dropped`), nobody has the claim, and no handler gets it, for the row stays
DISMISSED: only a handler that had claimed may write over it.

**CampaignForm.** The rows to come stand in three places, the storage, the form and
every save's closure, and each of them must keep the import: `RowsStay` says that any queue
that may yet be written back, with what was skipped and what is a campaign, has all rows. So
whichever write comes last, no row is lost. `RowsOnce` is the opposite direction: a row
with a campaign is in no queue, unless its own save is answered and unheard (`Saving`),
or it is the last and the builder on its way out; and a save that is sent has a content no
campaign has. `SavesFit` ties the save that the builder waits for to the form's own queue.
`FormFlags` holds of a builder that loads or has no account because it has used no post.
`OwnPost` is what `PostIsOwn` says of a campaign, and it is inductive over a PATCH only with its
exception: an edit keeps the account of the campaign, which need not be the form's.

The attempt to prove `OnceEach` failed, and for a reason: a save under way when the
builder is left outlives it, and its answer writes the rows after its own into the
storage (`components/campaign-builder.tsx:457`). If the import was resumed meanwhile and the
next row saved, that row is offered again and makes a second campaign. It takes more
saves than the run has; the property promised once for such rows too. They are in
`doubtful` now (`AtStake`), as were before those whose own save was under way. TLC has
checked the whole invariant with three rows, four saves and six clicks (3.4 million
states) before it was proved.

**CampaignList.** While nothing has gone astray (`Calm`), the screen and the rows differ
at one campaign only by what is under way about it (`Alike`): switches all in one
direction, a deletion done and unheard. `CalmFits` is about all changes at once, so each
answer's step is compared with every other request; that is why answers may be applied
alone and without a look at the row. Thumbnails are asked for by the list that shows
(`PicturesFit`).

**SetterInbox.** `StandsAside`: a message written under a takeover (`quiet`) is either
before the gates with a snapshot that shows the takeover, or ended by them, and no run past
the gates has one. The snapshot is read after the message is in the thread, and a
takeover only goes when the owner hands the thread back, which empties `quiet`. The rest says why the numbers of messages
suffice: the setter answers each message once (`OneAnswerEach`), so the thread ends
before its bound (`Bounded`), and the invariant needs no bound on slots.

**WorkspaceUsage.** `OneZone`: the hosts agree when a month starts;
`MCWorkspaceUsage_zones.cfg` shows that without it the counter is zeroed
twice. `PendingFits`: whoever holds the row has it as it was committed or has begun
a later month, with its own unit in it before it commits. `SenderFits`: a sender
was charged in a month no later than the row's, and its release looks for a
month that is no later than that. `CommitKeeps` and `ReleaseKeeps` are where
the charged units of a month are counted before and after; all others leave
counter and charged alone, or start a month in which nobody is charged
(`NoneLater`). TLC has checked this invariant with three senders and three months (15
million states) before it was proved.

**RateLimiter.** `HourBounds`: maximum and window are above zero, and the attempts
of a job outlast a window (`Window <= MaxAttempts`), as the code's do. `Since(t)` is
the sum of the slots given since `t`. `EndedFits` and `LivingFits` say what a key
and the one before it gave: the one that lives what it counts, both together the
limit and what it counts; so a window across two lives gives one fewer than twice the limit at
most. `JobFits` is the other direction: while a job was refused in one window
only, it is due as many delays after that window's start as it was put back, so
its attempts cannot run out before the window does. No assumption on how late a
job runs.

**WindowNudge.** `NudgeBounds`: the runs are finite, and at most one stall is allowed a
job (`maxStalledCount`, whose default the code keeps). The attempt to prove `OneNudge` without that
failed for a reason: of three runs of one job, one that had loaded DRAFT may write
HELD over the SENDING of the second, and the third, past its late check, claims and
sends again. Two runs cannot, unless the first loses the outcome of its send
(`nudge_twice`): `TwoLive` says that no three are under way, and `AnchorFits`, of every anchor
but the `unsure` ones, that the draft has one sender, who has not sent it before, that no run is about to
claim what was sent or is being sent while its row is HELD or FAILED, that the row
never again looks as if nobody had decided on it, and that once a nudge is out, one run
at most may still write to its row. An anchor whose outcome was lost with nobody about to claim keeps
all of this: the row is HELD, and a run that comes to it later finds it decided.
`RunStep` collects what a step of a run has to respect; the lemmas about the
actions show that it does. `QuietFits` carries the late check to the send.

**Accounts.** `AccountBounds`: the margin is above zero and shorter than a token's
life. `ChecksFit` carries the check of a callback to its write, over whatever the row
became. `MarginFits` is why one refused pass is not the end: the days left and the
passes refused together make up the margin before the pass of a day, and exceed it
after; what the cron has read may be another row by then, but a row made anew
has its life. `TokenIsGood` is inductive with the types alone, by the exception it states.

**Followers.** A row filled in for a day gone by is true when the count and the changes
it came from were read with nothing between. `HistoryInv` says where such a read can
come from: whoever fills up the days before has recorded a day of its own, all of them
the same one (`SameDay`), and its row is observed (`RowFits`), so no other caller
replaces it; what the series says of a day gone by is what that day gained
(`SeriesFits`), and what is about to be written is the count less the gains since
(`TotalsFit`). That the reconstruction, a walk from the last day back, gives just that
difference of sums is `Induction` over the days. `HistoryBounds`: there is a day, changes
are integers and numbers of followers natural ones.

**Campaigns.** `CampaignInv` says what each request may rely on at its place. For an edit
that is `KnowsLinks`: as long as nobody else wrote its campaign (`Undisturbed`), it finds
the links as they were, then the first one set or gone, then both, where the two it
found were made at different times (`Plain`, `Apart`): then the order by `createdAt` is one
order. `RowsAreGood` says
of a row that its links have numbers of their own below the last one given, that it
has one way to choose posts unless the cron undid an edit, and that a reel it is bound to
is the first since it was made, as far as a page of media showed. `ImportFits`
carries the posts an import has used to its next row, `ListFits` that a slug made since the
list was read is newer than the list, `BindFits` what the cron's page held, over media that
are published meanwhile. `Rewritten` and `Appended` say once what a change of one row or
one more row leaves of what other requests know.

The first attempt to prove `ButtonsAsAsked` failed, and for a reason. Two edits of one
campaign at once, each of which finds fewer than two links, make a third; then a later
edit, alone, writes the first two and leaves the third where it is
(`app/api/automations/route.ts:574` looks at the second only). The property spoke of
every edit nobody had disturbed, and three requests would have broken it; it now speaks of
those that found two links at most, and the hazard at that line names the third link. Of the
other exceptions, an edit that clears the first of two links is the run `campaign_clear`, and two
links made by one create, whose `createdAt` is one, `SecondIsNotFirst` beside the runs.

**Server.** The parts share no variable, and `ServerBounds` has the bounds of each.
`PartsRun`: a step of the server is a step of the part that moves and leaves the
others alone, so a behaviour of the server is one of every part's specification, and
what is proved of the parts is true of it.

`Counting` holds what these proofs share. The library's induction theorems take an
operator as a parameter, which the provers here cannot instantiate; `Induction`
and `Recursion` say the same of sets and functions, from the well-founded order of
the numbers, and so recursion over data (the loops of `Webhook`, the sums of
`RateLimiter`) could be proved about after all.

**Dashboard.** The parts share no variable; `DashboardBounds` has the bounds of each, and
`DashboardTypes` puts their types together.

Only model-checked: liveness (outside the prover's reach, as is everything with
fairness, and `ENABLED`); and `KeywordMatcher` and `Csv`, whose two ways to read
a text TLC compares on every short one: that they agree on every text is an induction
over it for each of the recursive functions of both, which nobody has written. Every other safety
property of a passing run is a theorem.

## 5. Not modelled

- Texts: prompts, templates, tracking links, safety patterns; what is decided by
  them is nondeterministic or constant. Keywords and the importer's files are
  modelled character by character, because the decision is the point.
- Draft generation, retrieval and the model: one nondeterministic answer.
- Tracking and reports: one insert per click and read-only aggregation.
- Time, beyond what an order of steps says: the six hours of the takeover pause
  and the 24 of the window are longer than a behaviour of `SetterInbox`; delays
  and backoff are "later". `WindowNudge`, `RateLimiter`, `Followers` and `Accounts`
  have clocks of their own, in the units they need.
- `Reveal`: edits of a campaign other than its gate, and its pausing.
- `Webhook`: the thousand-job limit on BullMQ's memory of completed ids.
- `SetterInbox`: crashes (those of a job's run are in `ReplyDelivery`), sweeps
  that overlap (they would differ by mirror rows only), several accounts, and which
  threads are among the 25 a sweep reads.
- `CampaignForm`: the fields no import row fills, and what is typed into a form.
- `Members`: a DELETE that carries both ids is asked as one of the two at a time.
- `Campaigns`: columns that are one update among others, the names of imported
  rows, media of a second account.
- Page modules: layout, filters and search, menus, the preview, error texts, a
  second tab (the server's rows may change, but nobody else clicks).
- Marketing pages, settings and log pages, statistics: they show what they loaded.

## 6. The plan

In order; what comes first matters most.

1. `ReplyDelivery`, `Outbox`, `Reveal`, with proofs: done.
2. `WorkspaceUsage`, `CommentWorker`, `SetterInbox`, `Webhook`: modelled and checked.
3. `WindowNudge`, `RateLimiter`, `Members`, `Campaigns`, `Accounts`, `Followers`,
   `KeywordMatcher`: modelled and checked (`server`, `dashboard`), and put side by side in `Server`.
4. `InboxPage`, `SetterPage`, `CampaignForm`, `CampaignList`, `Csv`: modelled and
   checked (`dashboard`, `thread`).
5. Proofs. Done: `ReplyDelivery`, `Reveal`, `Webhook`, `CommentWorker`, `Members`,
   `InboxPage`, `WorkspaceUsage`, `RateLimiter`, `WindowNudge`, `Accounts`,
   `Followers`, `Campaigns`, `Server`, `SetterPage`, `CampaignForm`, `CampaignList`,
   `SetterInbox` (section 4). To come: that `matchKeywords` finds the words, and that
   a file written is read back, by induction with `Counting`.
6. Not planned: the several accounts of the DM sweep, whose threads meet only in
   the time a sweep takes.
