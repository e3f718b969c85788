--------------------------- MODULE CommentWorker ---------------------------
(***************************************************************************)
(* Campaign replies to comments: the webhook and the polling sweep that    *)
(* queue a comment, and the worker's processComment, which posts the       *)
(* public reply and sends the private one for each matching campaign, in   *)
(* order of creation, under the monthly quota and the hourly rate limit.   *)
(*                                                                         *)
(* Every campaign is active and matches every comment; what the DM says    *)
(* (opener, follow prompt, reveal) is left out, except that a campaign     *)
(* with links tries a button template first and plain text after it.  Each *)
(* database write, Redis call and Meta call is a step.                     *)
(***************************************************************************)
EXTENDS Naturals, FiniteSets

CONSTANTS
  NumCampaigns,  \* the campaigns are 1..NumCampaigns, oldest first
  NumComments,   \* the comments are 1..NumComments, oldest first
  Public,        \* campaigns with publicReplyEnabled and a reply text
  Linked,        \* campaigns whose DM carries tracked links
  Workers,       \* concurrent job slots of the worker
  NoJob,         \* what an idle slot works on
  MaxAttempts,   \* attempts of a job (3 in the code)
  MaxStalls,     \* BullMQ's maxStalledCount (its default, 1)
  MaxRequeues,   \* MAX_REQUEUE_ATTEMPTS (3 in the code)
  MaxPolls,      \* bound: sweep jobs queued at once for one comment
  MaxPerSweep,   \* MAX_NEW_PER_SWEEP
  Limit,         \* the monthly quota
  SlotLimit,     \* RATE_LIMIT_MAX, private replies per window
  MaxFaults,     \* bound: things that go wrong in one behaviour
  Events         \* what may go wrong, a subset of AllEvents

(***************************************************************************)
(* reject: Meta refuses a call.  lost: a call arrives and its answer does  *)
(* not.  db: a query throws.  redis: the slot reservation throws.  crash:  *)
(* the process of a handler dies.  token: the stored token cannot be       *)
(* decrypted with the worker's key.                                        *)
(***************************************************************************)
AllEvents == {"reject", "lost", "db", "redis", "crash", "token"}

ASSUME CountsAreNat ==
  /\ {NumCampaigns, NumComments, MaxAttempts, MaxPerSweep} \subseteq Nat \ {0}
  /\ {MaxStalls, MaxRequeues, MaxPolls, Limit, SlotLimit, MaxFaults} \subseteq Nat

Campaigns == 1..NumCampaigns
Comments == 1..NumComments

ASSUME KindsOfCampaigns == Public \subseteq Campaigns /\ Linked \subseteq Campaigns
ASSUME EventsAreEvents == Events \subseteq AllEvents
ASSUME FiniteWorkers == IsFiniteSet(Workers)

\* A job by its id: the webhook's is the comment's, a requeue's adds the
\* attempt to it, and each of the sweep's gets a fresh one.
JobIds ==
  [comment: Comments, source: {"webhook"}, n: {0}]
    \cup [comment: Comments, source: {"poll"}, n: 1..MaxPolls]
    \cup [comment: Comments, source: {"retry"}, n: 1..MaxRequeues]
ASSUME NoJobIsNoJob == NoJob \notin JobIds

VARIABLES
  log,      \* log[a][c]: the DmLog row, status "NONE" while there is none
  dms,      \* dms[a][c]: private replies that arrived, 2 for "several"
  posts,    \* posts[a][c]: public replies that arrived, 2 for "several"
  job,      \* job[j]: the BullMQ job with id j
  pc,       \* pc[w]: where the handler in slot w is
  on,       \* on[w]: the job slot w runs
  at,       \* at[w]: the campaign of the loop in slot w
  prior,    \* prior[w]: existingLog
  arrived,  \* arrived[w]: the DM w has last tried reached Instagram
  used,     \* Workspace.dmsSentThisPeriod
  slots,    \* Redis counter of the account's current window
  listed,   \* listed[a]: comments a sweep of campaign a has read
  faults    \* things that went wrong so far

handlerVars == <<pc, on, at, prior, arrived>>
vars == <<log, dms, posts, job, handlerVars, used, slots, listed, faults>>

Statuses == {"NONE", "PENDING", "SENT", "FAILED", "SKIPPED_RATE_LIMIT",
             "SKIPPED_PLAN_LIMIT"}
Holding == {"slot", "denied", "send", "resend", "sent", "undo"}
Places == {"idle", "look", "log", "reply", "posted", "reserve", "reschedule",
           "requeue", "fail", "skip"} \cup Holding

-----------------------------------------------------------------------------
(* Helpers *)

Goto(w, place) == pc' = [pc EXCEPT ![w] = place]
More(n) == IF n < 2 THEN n + 1 ELSE 2
Comment(w) == on[w].comment
Row(w) == log[at[w]][Comment(w)]
SetRow(w, row) == log' = [log EXCEPT ![at[w]][Comment(w)] = row]
SetStatus(w, s) ==
  SetRow(w, [Row(w) EXCEPT !.status = s, !.promise = FALSE])

\* Something on the list of Events goes wrong.
Fault(e) == e \in Events /\ faults < MaxFaults /\ faults' = faults + 1

RequeueAttempt(j) == IF j.source = "retry" THEN j.n ELSE 0

\* queue.add under job id j: a job kept under that id absorbs it.
Add(jobs, j) ==
  IF jobs[j].state = "absent" THEN [jobs EXCEPT ![j].state = "waiting"] ELSE jobs

NoLog == [status |-> "NONE", replied |-> FALSE, promise |-> FALSE]
NewJob == [state |-> "absent", attempts |-> 0, stalls |-> 0]

\* The job of slot w leaves it; the id of a sweep's job is never used again.
JobLeaves(w, jobs, state, attempts, stalls) ==
  LET over == state \in {"completed", "failed"}
  IN  job' = [jobs EXCEPT ![on[w]] =
                IF over /\ on[w].source = "poll" THEN NewJob
                ELSE [state |-> state, attempts |-> attempts, stalls |-> stalls]]

Rest(w) ==
  /\ pc' = [pc EXCEPT ![w] = "idle"]
  /\ on' = [on EXCEPT ![w] = NoJob]
  /\ at' = [at EXCEPT ![w] = 1]
  /\ prior' = [prior EXCEPT ![w] = NoLog]
  /\ arrived' = [arrived EXCEPT ![w] = FALSE]

\* The loop goes on with the next campaign, or the handler returns.
Continue(w, jobs) ==
  \/ /\ at[w] < NumCampaigns
     /\ Goto(w, "look")
     /\ at' = [at EXCEPT ![w] = @ + 1]
     /\ prior' = [prior EXCEPT ![w] = NoLog]
     /\ arrived' = [arrived EXCEPT ![w] = FALSE]
     /\ job' = jobs
     /\ UNCHANGED on
  \/ /\ at[w] = NumCampaigns
     /\ Rest(w)
     /\ JobLeaves(w, jobs, "completed", 0, 0)

\* The handler throws: BullMQ retries the job while it has attempts left.
Throw(w) ==
  LET tried == job[on[w]].attempts + 1
  IN  /\ Rest(w)
      /\ JobLeaves(w, job, IF tried < MaxAttempts THEN "waiting" ELSE "failed",
                   tried, job[on[w]].stalls)

Init ==
  /\ log = [a \in Campaigns |-> [c \in Comments |-> NoLog]]
  /\ dms = [a \in Campaigns |-> [c \in Comments |-> 0]]
  /\ posts = [a \in Campaigns |-> [c \in Comments |-> 0]]
  /\ job = [j \in JobIds |-> NewJob]
  /\ pc = [w \in Workers |-> "idle"]
  /\ on = [w \in Workers |-> NoJob]
  /\ at = [w \in Workers |-> 1]
  /\ prior = [w \in Workers |-> NoLog]
  /\ arrived = [w \in Workers |-> FALSE]
  /\ used = 0
  /\ slots = 0
  /\ listed = [a \in Campaigns |-> {}]
  /\ faults = 0

-----------------------------------------------------------------------------
(* The queue and what feeds it *)

\* The webhook delivers a comment, maybe again, maybe never.
Deliver(c) ==
  /\ job' = Add(job, [comment |-> c, source |-> "webhook", n |-> 0])
  /\ UNCHANGED <<log, dms, posts, handlerVars, used, slots, listed, faults>>

\* The account answered c under the post, in whatever campaign's name.
OwnerReplied(c) == \E a \in Campaigns: posts[a][c] > 0

\* A sweep of campaign a reads the comments without an answer from Instagram.
SweepRead(a) ==
  /\ listed[a] = {}
  /\ listed' = [listed EXCEPT ![a] = {c \in Comments: ~OwnerReplied(c)}]
  /\ UNCHANGED <<log, dms, posts, job, handlerVars, used, slots, faults>>

\* A bug: the sweep takes any row in the log for an answered comment.
HandledOnceLogged(a, c) == log[a][c].status # "NONE"

\* The campaign has nothing more to do for c.
Handled(a, c) ==
  IF a \in Public THEN log[a][c].replied ELSE log[a][c].status = "SENT"

\* Then it queues the oldest of those its campaign has not handled; the model
\* lets a sweep wait for a free job id.
SweepAdd(a) ==
  /\ listed[a] # {}
  /\ LET open == {c \in listed[a]: ~Handled(a, c)}
         fresh == {c \in open: Cardinality({d \in open: d < c}) < MaxPerSweep}
     IN  \E ids \in [fresh -> {j \in JobIds: j.source = "poll"}]:
           /\ \A c \in fresh: ids[c].comment = c /\ job[ids[c]].state = "absent"
           /\ job' = [j \in JobIds |->
                        IF \E c \in fresh: ids[c] = j
                          THEN [NewJob EXCEPT !.state = "waiting"] ELSE job[j]]
  /\ listed' = [listed EXCEPT ![a] = {}]
  /\ UNCHANGED <<log, dms, posts, handlerVars, used, slots, faults>>

\* BullMQ drops a finished job it has kept (the last 1000, or 300 seconds).
Forget(j) ==
  /\ job[j].state \in {"completed", "failed"}
  /\ job' = [job EXCEPT ![j] = NewJob]
  /\ UNCHANGED <<log, dms, posts, handlerVars, used, slots, listed, faults>>

\* The rate limiter's key expires, an hour after its first reservation.
WindowEnds ==
  /\ slots > 0
  /\ slots' = 0
  /\ UNCHANGED <<log, dms, posts, job, handlerVars, used, listed, faults>>

\* A free slot takes a job.  A delay is no time here: a requeued job may
\* start before the run that queued it is over.
TakeJob(w, j) ==
  /\ pc[w] = "idle" /\ job[j].state = "waiting"
  /\ job' = [job EXCEPT ![j].state = "active"]
  /\ on' = [on EXCEPT ![w] = j]
  /\ Goto(w, "look")
  /\ UNCHANGED <<log, dms, posts, at, prior, arrived, used, slots, listed, faults>>

-----------------------------------------------------------------------------
(* processComment, for the campaign the loop is at *)

\* findUnique existingLog, and the rows that need nothing more.
Look(w) ==
  /\ pc[w] = "look"
  /\ LET row == Row(w)
         answered == row.status = "SENT" /\ (row.replied \/ at[w] \notin Public)
     IN  \/ /\ row.status = "SKIPPED_PLAN_LIMIT" \/ answered
            /\ Continue(w, job)
         \/ /\ row.status # "SKIPPED_PLAN_LIMIT" /\ ~answered
            /\ prior' = [prior EXCEPT ![w] = row]
            /\ Goto(w, "log")
            /\ UNCHANGED <<job, on, at, arrived>>
  /\ UNCHANGED <<log, dms, posts, used, slots, listed, faults>>

\* The token cannot be read: the row becomes FAILED, a SENT one of a run that
\* came back for the public reply too.
TokenFails(w) ==
  /\ pc[w] = "log"
  /\ Fault("token")
  /\ SetStatus(w, "FAILED")
  /\ Continue(w, job)
  /\ UNCHANGED <<dms, posts, used, slots, listed>>

\* A bug: a run that comes back for the reply leg sends the DM as well.
NeedsDmAlways(w) == prior[w].status # "SKIPPED_PLAN_LIMIT"

NeedsDm(w) == prior[w].status # "SENT"
\* A bug: the reply leg does not look at publicReplySentAt.
NeedsReplyAlways(w) == at[w] \in Public

NeedsReply(w) == at[w] \in Public /\ ~prior[w].replied

\* A bug: every run sets the row back to PENDING.
ResetLog(w) ==
  /\ pc[w] = "log"
  /\ SetStatus(w, "PENDING")
  /\ Goto(w, IF NeedsReply(w) THEN "reply" ELSE "reserve")
  /\ UNCHANGED <<dms, posts, job, on, at, prior, arrived, used, slots, listed, faults>>

\* The row is created, or set back to PENDING if its DM is still to be sent.
WriteLog(w) ==
  /\ pc[w] = "log"
  /\ \/ /\ prior[w] # NoLog \/ Row(w) = NoLog
        /\ IF NeedsDm(w) THEN SetStatus(w, "PENDING") ELSE UNCHANGED log
        /\ Goto(w, IF NeedsReply(w) THEN "reply" ELSE "reserve")
        /\ UNCHANGED <<job, on, at, prior, arrived>>
     \/ /\ prior[w] = NoLog /\ Row(w) # NoLog     \* unique key: create throws
        /\ Throw(w)
        /\ UNCHANGED log
  /\ UNCHANGED <<dms, posts, used, slots, listed, faults>>

CountPost(w) == posts' = [posts EXCEPT ![at[w]][Comment(w)] = More(@)]
CountDm(w) == dms' = [dms EXCEPT ![at[w]][Comment(w)] = More(@)]

\* A bug: the reply's outcome is not awaited.
PostReplyUnawaited(w) ==
  /\ pc[w] = "reply"
  /\ Goto(w, "posted")
  /\ \/ CountPost(w) /\ UNCHANGED faults
     \/ Fault("reject") /\ UNCHANGED posts
  /\ UNCHANGED <<log, dms, job, on, at, prior, arrived, used, slots, listed>>

\* sendCommentReply; its failures are noted and stop nothing.
PostReply(w) ==
  /\ pc[w] = "reply"
  /\ \/ CountPost(w) /\ Goto(w, "posted") /\ UNCHANGED faults
     \/ Fault("lost") /\ CountPost(w) /\ Goto(w, "reserve")
     \/ Fault("reject") /\ Goto(w, "reserve") /\ UNCHANGED posts
  /\ UNCHANGED <<log, dms, job, on, at, prior, arrived, used, slots, listed>>

\* publicReplySentAt is written, or the write fails and is only noted.
RecordPost(w) ==
  /\ pc[w] = "posted"
  /\ \/ SetRow(w, [Row(w) EXCEPT !.replied = TRUE]) /\ UNCHANGED faults
     \/ Fault("db") /\ UNCHANGED log
  /\ Goto(w, "reserve")
  /\ UNCHANGED <<dms, posts, job, on, at, prior, arrived, used, slots, listed>>

\* The DM had been sent: the reply leg was all this run was for.
NoDmNeeded(w) ==
  /\ pc[w] = "reserve" /\ ~NeedsDm(w)
  /\ Continue(w, job)
  /\ UNCHANGED <<log, dms, posts, used, slots, listed, faults>>

ReserveQuota(w) ==
  /\ pc[w] = "reserve" /\ NeedsDm(w)
  /\ \/ used < Limit /\ used' = used + 1 /\ Goto(w, "slot")
     \/ used >= Limit /\ Goto(w, "skip") /\ UNCHANGED used
  /\ UNCHANGED <<log, dms, posts, job, on, at, prior, arrived, slots, listed, faults>>

SkipForPlan(w) ==
  /\ pc[w] = "skip"
  /\ SetStatus(w, "SKIPPED_PLAN_LIMIT")
  /\ Continue(w, job)
  /\ UNCHANGED <<dms, posts, used, slots, listed, faults>>

ReserveSlot(w) ==
  /\ pc[w] = "slot"
  /\ \/ slots < SlotLimit /\ slots' = slots + 1 /\ Goto(w, "send") /\ UNCHANGED faults
     \/ slots >= SlotLimit /\ Goto(w, "denied") /\ UNCHANGED <<slots, faults>>
     \/ Fault("redis") /\ Goto(w, "undo") /\ UNCHANGED slots
  /\ UNCHANGED <<log, dms, posts, job, on, at, prior, arrived, used, listed>>

\* A bug: a rate-limited run keeps its reservation.
KeepDenied(w) ==
  /\ pc[w] = "denied"
  /\ Goto(w, "reschedule")
  /\ UNCHANGED <<log, dms, posts, job, on, at, prior, arrived, used, slots, listed,
                 faults>>

ReleaseDenied(w) ==
  /\ pc[w] = "denied"
  /\ used' = used - 1
  /\ Goto(w, "reschedule")
  /\ UNCHANGED <<log, dms, posts, job, on, at, prior, arrived, slots, listed, faults>>

\* Rate limited for good, or "retry scheduled" on the row ...
Reschedule(w) ==
  /\ pc[w] = "reschedule"
  /\ \/ /\ RequeueAttempt(on[w]) >= MaxRequeues
        /\ SetStatus(w, "SKIPPED_RATE_LIMIT")
        /\ Continue(w, job)
     \/ /\ RequeueAttempt(on[w]) < MaxRequeues
        /\ SetRow(w, [Row(w) EXCEPT !.status = "PENDING", !.promise = TRUE])
        /\ Goto(w, "requeue")
        /\ UNCHANGED <<job, on, at, prior, arrived>>
  /\ UNCHANGED <<dms, posts, used, slots, listed, faults>>

\* ... and then the retry is queued, under the id of its attempt.
Requeue(w) ==
  /\ pc[w] = "requeue"
  /\ LET retry == [comment |-> Comment(w), source |-> "retry",
                   n |-> RequeueAttempt(on[w]) + 1]
     IN  Continue(w, Add(job, retry))
  /\ UNCHANGED <<log, dms, posts, used, slots, listed, faults>>

\* A call of the DM's Meta endpoint: taken, refused, or taken without answer.
Call(w, failed) ==
  \/ /\ CountDm(w) /\ Goto(w, "sent")
     /\ arrived' = [arrived EXCEPT ![w] = TRUE]
     /\ UNCHANGED faults
  \/ /\ Fault("lost") /\ CountDm(w) /\ Goto(w, failed)
     /\ arrived' = [arrived EXCEPT ![w] = TRUE]
  \/ /\ Fault("reject") /\ Goto(w, failed)
     /\ arrived' = [arrived EXCEPT ![w] = FALSE]
     /\ UNCHANGED dms

\* The private reply; with links, its button template.
Send(w) ==
  /\ pc[w] = "send"
  /\ Call(w, IF at[w] \in Linked THEN "resend" ELSE "undo")
  /\ UNCHANGED <<log, posts, job, on, at, prior, used, slots, listed>>

\* The button template failed in any way: the same DM as plain text.
Resend(w) ==
  /\ pc[w] = "resend"
  /\ Call(w, "undo")
  /\ UNCHANGED <<log, posts, job, on, at, prior, used, slots, listed>>

\* The row becomes SENT; if that write fails the DM is taken for failed.
MarkSent(w) ==
  /\ pc[w] = "sent"
  /\ \/ /\ SetStatus(w, "SENT")
        /\ Continue(w, job)
        /\ UNCHANGED faults
     \/ /\ Fault("db")
        /\ Goto(w, "undo")
        /\ UNCHANGED <<log, job, on, at, prior, arrived>>
  /\ UNCHANGED <<dms, posts, used, slots, listed>>

\* The catch block: release the reservation ...
Undo(w) ==
  /\ pc[w] = "undo"
  /\ used' = used - 1
  /\ Goto(w, "fail")
  /\ UNCHANGED <<log, dms, posts, job, on, at, prior, arrived, slots, listed, faults>>

\* A bug: the reservation is released once more with the FAILED row.
MarkFailedReleasing(w) ==
  /\ pc[w] = "fail"
  /\ SetStatus(w, "FAILED")
  /\ Throw(w)
  /\ used' = used - 1
  /\ UNCHANGED <<dms, posts, slots, listed, faults>>

\* ... write FAILED, and throw: later campaigns wait for the retry.
MarkFailed(w) ==
  /\ pc[w] = "fail"
  /\ SetStatus(w, "FAILED")
  /\ Throw(w)
  /\ UNCHANGED <<dms, posts, used, slots, listed, faults>>

\* A query outside the try blocks is rejected, or the queue's Redis is.
QueryFails(w) ==
  /\ \/ pc[w] \in {"look", "log", "reserve", "skip", "denied", "reschedule",
                   "undo", "fail"} /\ Fault("db")
     \/ pc[w] = "requeue" /\ Fault("redis")
  /\ Throw(w)
  /\ UNCHANGED <<log, dms, posts, used, slots, listed>>

\* The process dies; BullMQ finds the job stalled, and gives up if it was before.
Crash(w) ==
  /\ pc[w] # "idle" /\ Fault("crash")
  /\ Rest(w)
  /\ LET j == job[on[w]]
     IN  JobLeaves(w, job, IF j.stalls < MaxStalls THEN "waiting" ELSE "failed",
                   j.attempts, IF j.stalls < MaxStalls THEN j.stalls + 1 ELSE j.stalls)
  /\ UNCHANGED <<log, dms, posts, used, slots, listed>>

Process(w) ==
  \/ Look(w) \/ WriteLog(w) \/ PostReply(w) \/ RecordPost(w) \/ NoDmNeeded(w)
  \/ ReserveQuota(w) \/ SkipForPlan(w) \/ ReserveSlot(w) \/ ReleaseDenied(w)
  \/ Reschedule(w) \/ Requeue(w) \/ Send(w) \/ Resend(w) \/ MarkSent(w)
  \/ Undo(w) \/ MarkFailed(w)

Next ==
  \/ \E w \in Workers: Process(w) \/ TokenFails(w) \/ QueryFails(w) \/ Crash(w)
  \/ \E w \in Workers, j \in JobIds: TakeJob(w, j)
  \/ \E c \in Comments: Deliver(c)
  \/ \E a \in Campaigns: SweepRead(a) \/ SweepAdd(a)
  \/ \E j \in JobIds: Forget(j)
  \/ WindowEnds

Spec == Init /\ [][Next]_vars

(***************************************************************************)
(* The worker runs its handlers on and the sweep's timer keeps firing; the *)
(* queue is first in, first out, so no waiting job is passed over for      *)
(* ever; Redis expires the window.  Nothing is promised of the webhook.    *)
(***************************************************************************)
FairSpec ==
  /\ Spec
  /\ \A w \in Workers: WF_vars(Process(w))
  /\ \A j \in JobIds: SF_vars(\E w \in Workers: TakeJob(w, j))
  /\ \A a \in Campaigns: WF_vars(SweepRead(a)) /\ WF_vars(SweepAdd(a))
  /\ WF_vars(WindowEnds)

-----------------------------------------------------------------------------
(* Properties *)

\* Every variable stays in its domain, and a slot works on a campaign of its
\* job's loop; above all, no error path takes the quota below zero.
TypeOK ==
  /\ log \in [Campaigns -> [Comments -> [status: Statuses, replied: BOOLEAN,
                                         promise: BOOLEAN]]]
  /\ dms \in [Campaigns -> [Comments -> 0..2]]
  /\ posts \in [Campaigns -> [Comments -> 0..2]]
  /\ job \in [JobIds -> [state: {"absent", "waiting", "active", "completed",
                                 "failed"},
                         attempts: 0..MaxAttempts, stalls: 0..MaxStalls]]
  /\ pc \in [Workers -> Places]
  /\ on \in [Workers -> JobIds \cup {NoJob}]
  /\ at \in [Workers -> Campaigns]
  /\ arrived \in [Workers -> BOOLEAN]
  /\ used \in 0..Limit
  /\ slots \in 0..SlotLimit
  /\ listed \in [Campaigns -> SUBSET Comments]
  /\ faults \in 0..MaxFaults

\* The campaigns whose SENT no unreadable token can take: a run comes back over
\* a SENT row for the public reply alone.
Firm == IF "token" \in Events THEN Campaigns \ Public ELSE Campaigns

\* "Re-processing a comment is safe": however often a comment is delivered,
\* swept, requeued and retried, a campaign sends it one private reply, unless
\* an unreadable token has hidden that it did.
OneDm == \A a \in Firm, c \in Comments: dms[a][c] <= 1

\* "Idempotent across retries via publicReplySentAt": and one public reply.
OneReply == \A a \in Campaigns, c \in Comments: posts[a][c] <= 1

\* What the log claims has happened: a SENT row had its DM, a row with
\* publicReplySentAt its public reply.
LogIsTrue ==
  \A a \in Campaigns, c \in Comments:
    /\ log[a][c].status = "SENT" => dms[a][c] > 0
    /\ log[a][c].replied => posts[a][c] > 0

\* The quota counts the DMs sent and the reservations held, no more: every
\* way out of the handler gives back what it did not use.
QuotaExact ==
  used = Cardinality({p \in Campaigns \X Comments: dms[p[1]][p[2]] > 0})
         + Cardinality({w \in Workers: pc[w] \in Holding \ {"sent"}})

\* "So a prior SENT is never clobbered while we come back just to retry the
\* public reply": what dm-worker.ts says of its rows.
SentStays ==
  [][\A a \in Campaigns, c \in Comments:
       log[a][c].status = "SENT" => log'[a][c].status = "SENT"]_vars

\* What is so: where runs of a comment do not overlap and no outcome is lost,
\* only a run that came back over a SENT row for a public reply still owed, and
\* could not read the token, takes the SENT, and it says FAILED.  No refused,
\* requeued, retried or swept run sets a sent row back.
OnlyTokensTake ==
  \A a \in Campaigns, c \in Comments:
    log[a][c].status = "SENT" /\ log'[a][c].status # "SENT" =>
      /\ a \in Public /\ ~log[a][c].replied
      /\ log'[a][c].status = "FAILED" /\ "token" \in Events
SentGivesWay == [][OnlyTokensTake]_vars

\* A row that says "retry scheduled" has a retry of its comment in the queue,
\* or one that is being run or queued.
RetryIsScheduled ==
  \A a \in Campaigns, c \in Comments:
    log[a][c].promise =>
      \/ \E j \in JobIds: j.comment = c /\ job[j].state \in {"waiting", "active"}
      \/ \E w \in Workers: pc[w] = "requeue" /\ Comment(w) = c

\* The plain-text fallback is for a template that was rejected: it never
\* follows one that arrived.
FallbackAfterRejection == \A w \in Workers: pc[w] = "resend" => ~arrived[w]

\* A comment the webhook missed is answered after all: once no more goes
\* wrong, the sweep brings every campaign to SENT, unless the account has a
\* public reply under the comment or the month's quota is spent.
MissedIsAnswered ==
  \A a \in Campaigns, c \in Comments:
    <>(\/ log[a][c].status \in {"SENT", "SKIPPED_PLAN_LIMIT"}
       \/ OwnerReplied(c))

\* Where runs of a comment do not overlap and no outcome is lost, the guards on the
\* row suffice: one DM, one reply, and, if every token can be read, every unit of
\* the quota accounted for.
AnswersHold ==
  TypeOK /\ OneDm /\ OneReply /\ ("token" \notin Events => QuotaExact)
=============================================================================
