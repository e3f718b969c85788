--------------------------- MODULE ReplyDelivery ---------------------------
(***************************************************************************)
(* The life of AI setter drafts (rows of AiReplyLog) from the worker job   *)
(* that writes one to the DM that leaves for Instagram: the BullMQ job     *)
(* runs of processInboundDm and processWindowNudge, the shared send path   *)
(* sendAiReply, the approve and dismiss handlers of the dashboard, and the *)
(* sweep recoverInterruptedSends.                                          *)
(*                                                                         *)
(* A draft is named by its inboundMid: the prospect's message it answers,  *)
(* or "nudge:<conversation>:<anchor>".  Each has one job (the job id is    *)
(* derived from it).  Every database write, Redis call and Meta call of a  *)
(* handler is a step of its own; reads that nothing separates are merged.  *)
(***************************************************************************)
EXTENDS Naturals, FiniteSets

CONSTANTS
  Drafts,       \* drafts, by inboundMid
  Nudges,       \* the drafts whose job is a window nudge
  Workers,      \* concurrent job slots of the BullMQ worker(s)
  Approvals,    \* approve requests of the dashboard, one click each
  Dismissals,   \* dismiss requests of the dashboard, one click each
  NoDraft,      \* a process at rest has this draft
  NoWorker,     \* a job nobody runs has this holder
  MaxAttempts,  \* attempts of a job (3 in the code)
  MaxStalls,    \* BullMQ's maxStalledCount (its default, 1)
  Limit,        \* MONTHLY_DM_LIMIT
  Events        \* what may go wrong, a subset of AllEvents

(***************************************************************************)
(* crash: the process of a handler dies.  stall: a running job loses its   *)
(* lock and is queued again.  db: a Postgres call throws.  gate: the       *)
(* thread stops taking replies (mode OFF, human takeover, new message...). *)
(* slow: a send outlives the two minutes after which the sweep takes it    *)
(* for interrupted; without it the model assumes none does.                *)
(***************************************************************************)
AllEvents == {"crash", "stall", "db", "gate", "slow"}

ASSUME ProcessesDisjoint ==
  /\ Workers \cap Approvals = {}
  /\ (Workers \cup Approvals) \cap Dismissals = {}
ASSUME NudgesAreDrafts == Nudges \subseteq Drafts
ASSUME NobodyIsNobody == NoDraft \notin Drafts /\ NoWorker \notin Workers
ASSUME BoundsAreNat ==
  MaxAttempts \in Nat \ {0} /\ MaxStalls \in Nat /\ Limit \in Nat
ASSUME EventsAreEvents == Events \subseteq AllEvents
\* Rows, job slots and clicks are finitely many.
ASSUME FinitelyMany ==
  IsFiniteSet(Drafts) /\ IsFiniteSet(Workers) /\ IsFiniteSet(Approvals)

Senders == Workers \cup Approvals
Processes == Senders \cup Dismissals

VARIABLES
  status,    \* status[d]: AiReplyLog.status, "NONE" while there is no row
  warned,    \* warned[d]: reasons contains AMBIGUOUS_SEND_REASON
  onThread,  \* onThread[d]: the send is on DmConversation (lastOutboundAt,
             \* and lastNudgeAt for a nudge)
  mirrored,  \* mirrored[d]: the inbound message has its DmMessage row
  dms,       \* dms[d]: DMs of d that reached Instagram (observation only)
  job,       \* job[d]: the BullMQ job of d
  pc,        \* pc[p]: where the handler run by p is
  on,        \* on[p]: the draft p works on
  prev,      \* prev[p]: previousStatus, as sendAiReply read it
  note,      \* note[p]: the warning was among the reasons p's job read
  made,      \* made[p]: job.attemptsMade when p took the job
  holding,   \* holding[p]: p holds a reservation of the monthly quota
  used,      \* Workspace.dmsSentThisPeriod
  found      \* rows the recovery sweep has read and not yet written

rowVars == <<status, warned, onThread, mirrored>>
procVars == <<pc, on, prev, note, made, holding>>
vars == <<rowVars, dms, job, procVars, used, found>>

Statuses == {"NONE", "PENDING", "SENDING", "SENT", "HELD", "SKIPPED",
             "FAILED", "DISMISSED"}
Claimable == {"PENDING", "HELD", "FAILED"}

\* Places inside sendAiReply after a won claim, in the order of the code.
BeforeMeta == {"quota", "slot", "release", "revert"}
AtMeta == {"send", "accepted", "recorded", "rejected", "lost"}
AfterFailure == {"undo", "quarantine"}
InFlight == BeforeMeta \cup AtMeta \cup AfterFailure
\* Places of a job run before and after sendAiReply.
Preparing == {"begin", "gates", "generate", "safety"}
Settling == {"hold", "failed", "throw"}
Places == {"idle", "done", "read", "claim", "dismiss"}
          \cup InFlight \cup Preparing \cup Settling

-----------------------------------------------------------------------------
(* Helpers *)

Goto(p, place) == pc' = [pc EXCEPT ![p] = place]
SetStatus(d, s) == status' = [status EXCEPT ![d] = s]

\* p's handler is over; a job slot takes jobs again, a request does not.
Rest(p) ==
  /\ pc' = [pc EXCEPT ![p] = IF p \in Workers THEN "idle" ELSE "done"]
  /\ on' = [on EXCEPT ![p] = NoDraft]
  /\ prev' = [prev EXCEPT ![p] = "NONE"]
  /\ note' = [note EXCEPT ![p] = FALSE]
  /\ made' = [made EXCEPT ![p] = 0]
  /\ holding' = [holding EXCEPT ![p] = FALSE]

OwnsJob(p) == p \in Workers /\ on[p] \in Drafts /\ job[on[p]].holder = p

\* The job leaves p: BullMQ ignores a run that lost its lock.
JobLeaves(p, state, attempts, stalls) ==
  job' = IF OwnsJob(p)
           THEN [job EXCEPT ![on[p]] = [state |-> state, holder |-> NoWorker,
                                        attempts |-> attempts,
                                        stalls |-> stalls]]
           ELSE job

\* The handler returns: BullMQ completes the job, the route answers.
Finish(p) ==
  /\ Rest(p)
  /\ LET j == job[on[p]] IN JobLeaves(p, "finished", j.attempts, j.stalls)

\* The handler throws: BullMQ retries the job while it has attempts left.
Throw(p) ==
  /\ Rest(p)
  /\ LET j == job[on[p]]
         again == j.attempts + 1 < MaxAttempts
     IN  JobLeaves(p, IF again THEN "waiting" ELSE "finished",
                   j.attempts + 1, j.stalls)

Busy(p, d) == on[p] = d /\ pc[p] \notin {"idle", "done"}
Sending(p, d) == on[p] = d /\ pc[p] \in InFlight

Init ==
  /\ status = [d \in Drafts |-> "NONE"]
  /\ warned = [d \in Drafts |-> FALSE]
  /\ onThread = [d \in Drafts |-> FALSE]
  /\ mirrored = [d \in Drafts |-> FALSE]
  /\ dms = [d \in Drafts |-> 0]
  /\ job = [d \in Drafts |-> [state |-> "waiting", holder |-> NoWorker,
                              attempts |-> 0, stalls |-> 0]]
  /\ pc = [p \in Processes |-> "idle"]
  /\ on = [p \in Processes |-> NoDraft]
  /\ prev = [p \in Processes |-> "NONE"]
  /\ note = [p \in Processes |-> FALSE]
  /\ made = [p \in Processes |-> 0]
  /\ holding = [p \in Processes |-> FALSE]
  /\ used = 0
  /\ found = {}

-----------------------------------------------------------------------------
(* The job: processInboundDm and processWindowNudge *)

\* A free slot takes a waiting job.
TakeJob(w, d) ==
  /\ pc[w] = "idle"
  /\ job[d].state = "waiting"
  /\ job' = [job EXCEPT ![d].state = "active", ![d].holder = w]
  /\ on' = [on EXCEPT ![w] = d]
  /\ made' = [made EXCEPT ![w] = job[d].attempts]
  /\ Goto(w, IF d \in Nudges THEN "gates" ELSE "begin")
  /\ UNCHANGED <<rowVars, dms, prev, note, holding, used, found>>

\* An inbound message is mirrored; its second delivery stops at the unique mid.
MirrorInbound(w) ==
  /\ pc[w] = "begin"
  /\ mirrored' = [mirrored EXCEPT ![on[w]] = TRUE]
  /\ IF mirrored[on[w]]
       THEN Finish(w)
       ELSE Goto(w, "gates") /\ UNCHANGED <<job, on, prev, note, made, holding>>
  /\ UNCHANGED <<status, warned, onThread, dms, used, found>>

\* A gate is closed: the job returns, and for an inbound message the gates
\* after the mode and block list leave a SKIPPED row behind (recordSkip).
CloseGate(w) ==
  /\ "gate" \in Events
  /\ pc[w] = "gates"
  /\ Finish(w)
  /\ \/ UNCHANGED status
     \/ /\ on[w] \notin Nudges
        /\ status[on[w]] = "NONE"
        /\ SetStatus(on[w], "SKIPPED")
  /\ UNCHANGED <<warned, onThread, mirrored, dms, used, found>>

\* Mutant: a stored draft is taken for a finished one, whatever its status.
NeverResume(w) ==
  /\ pc[w] = "gates"
  /\ IF status[on[w]] = "NONE"
       THEN Goto(w, "generate") /\ UNCHANGED <<job, on, prev, note, made, holding>>
       ELSE Finish(w)
  /\ UNCHANGED <<rowVars, dms, used, found>>

\* The gates are open; the row of the draft, if any, is read.  A nudge whose
\* send is on the thread already is not sent again.
FindDraft(w) ==
  /\ pc[w] = "gates"
  /\ LET d == on[w]
         sentAlready == d \in Nudges /\ onThread[d]
         place == CASE sentAlready -> "idle"
                    [] status[d] = "NONE" -> "generate"
                    [] status[d] = "PENDING" -> "safety"
                    [] OTHER -> "idle"
     IN  \/ /\ place = "idle"
            /\ Finish(w)
         \/ /\ place # "idle"
            /\ Goto(w, place)
            /\ note' = [note EXCEPT ![w] = warned[d]]
            /\ UNCHANGED <<job, on, prev, made, holding>>
  /\ UNCHANGED <<rowVars, dms, used, found>>

\* The model answers and the draft is stored; a second row for the same
\* message violates the unique inboundMid and ends the run.
StoreDraft(w) ==
  /\ pc[w] = "generate"
  /\ IF status[on[w]] = "NONE"
       THEN /\ SetStatus(on[w], "PENDING")
            /\ note' = [note EXCEPT ![w] = FALSE]
            /\ Goto(w, "safety")
            /\ UNCHANGED <<job, on, prev, made, holding>>
       ELSE Finish(w) /\ UNCHANGED status
  /\ UNCHANGED <<warned, onThread, mirrored, dms, used, found>>

\* The model call fails.
GenerationFails(w) ==
  /\ pc[w] = "generate"
  /\ Throw(w)
  /\ UNCHANGED <<rowVars, dms, used, found>>

\* Draft mode or a safety reason: the draft is held for review.  The reasons
\* written are those the job read, plus the new ones.
HoldForReview(w) ==
  /\ pc[w] = "safety"
  /\ SetStatus(on[w], "HELD")
  /\ warned' = [warned EXCEPT ![on[w]] = note[w]]
  /\ Finish(w)
  /\ UNCHANGED <<onThread, mirrored, dms, used, found>>

\* The prospect wrote again while the draft was generated.
SupersedeLate(w) ==
  /\ pc[w] = "safety"
  /\ SetStatus(on[w], "SKIPPED")
  /\ warned' = [warned EXCEPT ![on[w]] = note[w]]
  /\ Finish(w)
  /\ UNCHANGED <<onThread, mirrored, dms, used, found>>

\* The draft may be sent automatically.
PassSafety(w) ==
  /\ pc[w] = "safety"
  /\ Goto(w, "read")
  /\ UNCHANGED <<rowVars, dms, job, on, prev, note, made, holding, used, found>>

-----------------------------------------------------------------------------
(* The dashboard *)

\* An approval reads the row and goes on only if it is held or failed.
Approve(a, d) ==
  /\ pc[a] = "idle"
  /\ status[d] \in {"HELD", "FAILED"}
  /\ on' = [on EXCEPT ![a] = d]
  /\ Goto(a, "read")
  /\ UNCHANGED <<rowVars, dms, job, prev, note, made, holding, used, found>>

\* A dismissal reads the row and goes on unless it was sent ...
Dismiss(c, d) ==
  /\ pc[c] = "idle"
  /\ status[d] \notin {"NONE", "SENT"}
  /\ on' = [on EXCEPT ![c] = d]
  /\ Goto(c, "dismiss")
  /\ UNCHANGED <<rowVars, dms, job, prev, note, made, holding, used, found>>

\* ... and writes DISMISSED whatever the row has become.
WriteDismissed(c) ==
  /\ pc[c] = "dismiss"
  /\ SetStatus(on[c], "DISMISSED")
  /\ Finish(c)
  /\ UNCHANGED <<warned, onThread, mirrored, dms, used, found>>

-----------------------------------------------------------------------------
(* sendAiReply *)

\* The row is read; its status is what a reverted claim will restore.
ReadDraft(p) ==
  /\ pc[p] = "read"
  /\ prev' = [prev EXCEPT ![p] = status[on[p]]]
  /\ Goto(p, "claim")
  /\ UNCHANGED <<rowVars, dms, job, on, note, made, holding, used, found>>

\* The text as edited in the dashboard is empty.
RefuseEmpty(a) ==
  /\ pc[a] = "read"
  /\ a \in Approvals
  /\ Finish(a)
  /\ UNCHANGED <<rowVars, dms, used, found>>

\* Mutant: the claim is written by id alone.
ClaimBlindly(p) ==
  /\ pc[p] = "claim"
  /\ SetStatus(on[p], "SENDING")
  /\ Goto(p, "quota")
  /\ UNCHANGED <<warned, onThread, mirrored, dms, job, on, prev, note, made,
                 holding, used, found>>

\* The atomic claim, won ...
Claim(p) ==
  /\ pc[p] = "claim"
  /\ status[on[p]] \in Claimable
  /\ SetStatus(on[p], "SENDING")
  /\ Goto(p, "quota")
  /\ UNCHANGED <<warned, onThread, mirrored, dms, job, on, prev, note, made,
                 holding, used, found>>

\* ... or lost to another run or click.
LoseClaim(p) ==
  /\ pc[p] = "claim"
  /\ status[on[p]] \notin Claimable
  /\ Finish(p)
  /\ UNCHANGED <<rowVars, dms, used, found>>

\* Mutant: the limit itself is let through.
ReserveUpToLimit(p) ==
  /\ pc[p] = "quota"
  /\ IF used <= Limit
       THEN /\ used' = used + 1
            /\ holding' = [holding EXCEPT ![p] = TRUE]
            /\ Goto(p, "slot")
       ELSE Goto(p, "revert") /\ UNCHANGED <<used, holding>>
  /\ UNCHANGED <<rowVars, dms, job, on, prev, note, made, found>>

\* A unit of the monthly quota is reserved, or the claim goes back.
ReserveQuota(p) ==
  /\ pc[p] = "quota"
  /\ IF used < Limit
       THEN /\ used' = used + 1
            /\ holding' = [holding EXCEPT ![p] = TRUE]
            /\ Goto(p, "slot")
       ELSE Goto(p, "revert") /\ UNCHANGED <<used, holding>>
  /\ UNCHANGED <<rowVars, dms, job, on, prev, note, made, found>>

\* The hourly limiter grants a slot, or denies it (an error of Redis too).
ReserveSlot(p) ==
  /\ pc[p] = "slot"
  /\ \/ Goto(p, "send")
     \/ Goto(p, "release")
  /\ UNCHANGED <<rowVars, dms, job, on, prev, note, made, holding, used, found>>

\* The quota unit is returned, after a denied slot or a failed send.
ReleaseQuota(p) ==
  /\ pc[p] \in {"release", "rejected", "lost"}
  /\ used' = IF used > 0 THEN used - 1 ELSE 0
  /\ holding' = [holding EXCEPT ![p] = FALSE]
  /\ Goto(p, CASE pc[p] = "release" -> "revert"
               [] pc[p] = "rejected" -> "undo"
               [] OTHER -> "quarantine")
  /\ UNCHANGED <<rowVars, dms, job, on, prev, note, made, found>>

\* revertClaim: the row gets its former status back if it is still SENDING;
\* a database error here is swallowed.
RevertClaim(p) ==
  /\ pc[p] = "revert"
  /\ \/ status' = IF status[on[p]] = "SENDING"
                    THEN [status EXCEPT ![on[p]] = prev[p]] ELSE status
     \/ "db" \in Events /\ UNCHANGED status
  /\ IF p \in Workers
       THEN Goto(p, "hold") /\ UNCHANGED <<job, on, prev, note, made, holding>>
       ELSE Finish(p)
  /\ UNCHANGED <<warned, onThread, mirrored, dms, used, found>>

\* Instagram takes the DM; its answer is on the way.
Accept(p) ==
  /\ pc[p] = "send"
  /\ dms' = [dms EXCEPT ![on[p]] = @ + 1]
  /\ Goto(p, "accepted")
  /\ UNCHANGED <<rowVars, job, on, prev, note, made, holding, used, found>>

\* Instagram answers with an error (MetaApiError).
Reject(p) ==
  /\ pc[p] = "send"
  /\ Goto(p, "rejected")
  /\ UNCHANGED <<rowVars, dms, job, on, prev, note, made, holding, used, found>>

\* Mutant: every exception counts as Instagram's refusal.
TakeForRefusal(p) ==
  /\ pc[p] \in {"send", "accepted", "recorded"}
  /\ Goto(p, "rejected")
  /\ UNCHANGED <<rowVars, dms, job, on, prev, note, made, holding, used, found>>

\* No answer, or an exception after it: before the DM was taken or after.
LoseAnswer(p) ==
  /\ pc[p] \in {"send", "accepted", "recorded"}
  /\ Goto(p, "lost")
  /\ UNCHANGED <<rowVars, dms, job, on, prev, note, made, holding, used, found>>

\* The answer came: the DM is mirrored and put on the conversation.
RecordOnThread(p) ==
  /\ pc[p] = "accepted"
  /\ onThread' = [onThread EXCEPT ![on[p]] = TRUE]
  /\ Goto(p, "recorded")
  /\ UNCHANGED <<status, warned, mirrored, dms, job, on, prev, note, made,
                 holding, used, found>>

\* The row becomes SENT; the reservation stays spent.
RecordSent(p) ==
  /\ pc[p] = "recorded"
  /\ SetStatus(on[p], "SENT")
  /\ Finish(p)
  /\ UNCHANGED <<warned, onThread, mirrored, dms, used, found>>

\* After an error answer the row gets its former status back, whatever it
\* has become.
UndoClaim(p) ==
  /\ pc[p] = "undo"
  /\ SetStatus(on[p], prev[p])
  /\ IF p \in Workers
       THEN Goto(p, "failed") /\ UNCHANGED <<job, on, prev, note, made, holding>>
       ELSE Finish(p)
  /\ UNCHANGED <<warned, onThread, mirrored, dms, used, found>>

\* Mutant: an unknown outcome is held without a warning.
HoldSilently(p) ==
  /\ pc[p] = "quarantine"
  /\ SetStatus(on[p], "HELD")
  /\ Finish(p)
  /\ UNCHANGED <<warned, onThread, mirrored, dms, used, found>>

\* Mutant: a status the enum does not have.
HoldAsUnknown(p) ==
  /\ pc[p] = "quarantine"
  /\ SetStatus(on[p], "UNKNOWN")
  /\ warned' = [warned EXCEPT ![on[p]] = TRUE]
  /\ Finish(p)
  /\ UNCHANGED <<onThread, mirrored, dms, used, found>>

\* After an unknown outcome the row is held with the warning.
Quarantine(p) ==
  /\ pc[p] = "quarantine"
  /\ SetStatus(on[p], "HELD")
  /\ warned' = [warned EXCEPT ![on[p]] = TRUE]
  /\ Finish(p)
  /\ UNCHANGED <<onThread, mirrored, dms, used, found>>

-----------------------------------------------------------------------------
(* What the job run does with a failed send *)

\* Quota or slot denied: held for a human, with the reasons the job read.
HoldAfterLimit(w) ==
  /\ pc[w] = "hold"
  /\ SetStatus(on[w], "HELD")
  /\ warned' = [warned EXCEPT ![on[w]] = note[w]]
  /\ Finish(w)
  /\ UNCHANGED <<onThread, mirrored, dms, used, found>>

\* The last attempt marks the row FAILED ...
MarkFailed(w) ==
  /\ pc[w] = "failed"
  /\ IF made[w] + 1 >= MaxAttempts
       THEN SetStatus(on[w], "FAILED") ELSE UNCHANGED status
  /\ Goto(w, "throw")
  /\ UNCHANGED <<warned, onThread, mirrored, dms, job, on, prev, note, made,
                 holding, used, found>>

\* ... and every attempt throws.
GiveBackJob(w) ==
  /\ pc[w] = "throw"
  /\ Throw(w)
  /\ UNCHANGED <<rowVars, dms, used, found>>

-----------------------------------------------------------------------------
(* Mishaps and the recovery sweep *)

\* Places whose next step is a database call that lets its exception out.
DbPlaces == {"begin", "gates", "safety", "read", "claim", "quota", "release",
             "rejected", "lost", "undo", "quarantine", "hold", "failed",
             "dismiss"}

\* A database call throws out of the handler.
DatabaseFails(p) ==
  /\ "db" \in Events
  /\ pc[p] \in DbPlaces
  /\ IF p \in Workers THEN Throw(p) ELSE Finish(p)
  /\ UNCHANGED <<rowVars, dms, used, found>>

\* The process of p dies.  BullMQ finds the job stalled and queues it again,
\* or fails it after MaxStalls times.
Crash(p) ==
  /\ "crash" \in Events
  /\ pc[p] \notin {"idle", "done"}
  /\ Rest(p)
  /\ LET j == job[on[p]]
     IN  JobLeaves(p, IF j.stalls < MaxStalls THEN "waiting" ELSE "finished",
                   j.attempts, j.stalls + 1)
  /\ UNCHANGED <<rowVars, dms, used, found>>

\* A running job loses its lock (its run could not renew it in time) and is
\* queued again, or failed, while its run goes on.
Stall(d) ==
  /\ "stall" \in Events
  /\ job[d].state = "active"
  /\ job' = [job EXCEPT
       ![d].state = IF job[d].stalls < MaxStalls THEN "waiting" ELSE "finished",
       ![d].holder = NoWorker,
       ![d].stalls = @ + 1]
  /\ UNCHANGED <<rowVars, dms, procVars, used, found>>

\* Mutant: the sweep takes every SENDING row for interrupted.
FindAnySending(d) ==
  /\ d \notin found
  /\ status[d] = "SENDING"
  /\ found' = found \cup {d}
  /\ UNCHANGED <<rowVars, dms, job, procVars, used>>

\* Mutant: the sweep looks for the drafts that were never claimed.
FindUnclaimed(d) ==
  /\ d \notin found
  /\ status[d] = "PENDING"
  /\ \A p \in Senders: ~Busy(p, d)
  /\ found' = found \cup {d}
  /\ UNCHANGED <<rowVars, dms, job, procVars, used>>

\* recoverInterruptedSends reads the rows SENDING for two minutes ...
FindInterrupted(d) ==
  /\ d \notin found
  /\ status[d] = "SENDING"
  /\ "slow" \in Events \/ \A p \in Senders: ~Busy(p, d)
  /\ found' = found \cup {d}
  /\ UNCHANGED <<rowVars, dms, job, procVars, used>>

\* Mutant: the sweep holds the row and forgets the warning.
RecoverSilently(d) ==
  /\ d \in found
  /\ SetStatus(d, "HELD")
  /\ found' = found \ {d}
  /\ UNCHANGED <<warned, onThread, mirrored, dms, job, procVars, used>>

\* ... and writes each, whatever it has become.
QuarantineFound(d) ==
  /\ d \in found
  /\ SetStatus(d, "HELD")
  /\ warned' = [warned EXCEPT ![d] = TRUE]
  /\ found' = found \ {d}
  /\ UNCHANGED <<onThread, mirrored, dms, job, procVars, used>>

-----------------------------------------------------------------------------
JobStep(w) ==
  \/ MirrorInbound(w) \/ CloseGate(w) \/ FindDraft(w) \/ StoreDraft(w)
  \/ GenerationFails(w) \/ HoldForReview(w) \/ SupersedeLate(w)
  \/ PassSafety(w) \/ HoldAfterLimit(w) \/ MarkFailed(w) \/ GiveBackJob(w)

SendStep(p) ==
  \/ ReadDraft(p) \/ RefuseEmpty(p) \/ Claim(p) \/ LoseClaim(p)
  \/ ReserveQuota(p) \/ ReserveSlot(p) \/ ReleaseQuota(p) \/ RevertClaim(p)
  \/ Accept(p) \/ Reject(p) \/ LoseAnswer(p) \/ RecordOnThread(p)
  \/ RecordSent(p) \/ UndoClaim(p) \/ Quarantine(p)

TakeAnyJob(w) == \E d \in Drafts: TakeJob(w, d)
WorkerStep(w) == TakeAnyJob(w) \/ JobStep(w) \/ SendStep(w)
Sweep(d) == FindInterrupted(d) \/ QuarantineFound(d)

Next ==
  \/ \E w \in Workers: WorkerStep(w)
  \/ \E a \in Approvals: (\E d \in Drafts: Approve(a, d)) \/ SendStep(a)
  \/ \E c \in Dismissals: (\E d \in Drafts: Dismiss(c, d)) \/ WriteDismissed(c)
  \/ \E p \in Processes: DatabaseFails(p) \/ Crash(p)
  \/ \E d \in Drafts: Stall(d) \/ Sweep(d)

Spec == Init /\ [][Next]_vars

(***************************************************************************)
(* Worker slots keep running handlers, a request that started keeps        *)
(* running, and the sweep's interval timer keeps firing.                   *)
(***************************************************************************)
Fairness ==
  /\ \A w \in Workers: WF_vars(WorkerStep(w))
  /\ \A a \in Approvals: WF_vars(SendStep(a))
  /\ \A d \in Drafts: WF_vars(FindInterrupted(d)) /\ WF_vars(QuarantineFound(d))

FairSpec == Spec /\ Fairness

-----------------------------------------------------------------------------
(* Properties *)

\* The columns of the rows keep their types.
RowsOK ==
  /\ status \in [Drafts -> Statuses]
  /\ warned \in [Drafts -> BOOLEAN]
  /\ onThread \in [Drafts -> BOOLEAN]
  /\ mirrored \in [Drafts -> BOOLEAN]
  /\ dms \in [Drafts -> Nat]

\* The jobs and the locals of the handlers keep theirs.
HandlersOK ==
  /\ job \in [Drafts -> [state : {"waiting", "active", "finished"},
                         holder : Workers \cup {NoWorker},
                         attempts : Nat, stalls : Nat]]
  /\ pc \in [Processes -> Places]
  /\ on \in [Processes -> Drafts \cup {NoDraft}]
  /\ prev \in [Processes -> Statuses]
  /\ note \in [Processes -> BOOLEAN]
  /\ made \in [Processes -> Nat]
  /\ holding \in [Processes -> BOOLEAN]

\* Every variable holds what the code puts there.
TypeOK == RowsOK /\ HandlersOK /\ used \in Nat /\ found \subseteq Drafts

\* At most one handler is delivering a draft at a time: "exactly one caller
\* may move this draft into SENDING" (sendAiReply's claim).
OneSender ==
  \A d \in Drafts: \A p, q \in Senders:
    Sending(p, d) /\ Sending(q, d) => p = q

\* A draft that anyone could claim, and whose text may be in the prospect's
\* thread already, carries the warning to check the thread first.
UnsureIsWarned ==
  \A d \in Drafts: dms[d] > 0 /\ status[d] \in Claimable => warned[d]

\* Only a human's approval puts a further copy of a draft in the thread: a
\* job run sends a draft that never left, and never one that was quarantined.
AutoSendsOnce ==
  [][\A w \in Workers: \A d \in Drafts:
       on[w] = d /\ pc[w] = "send" /\ pc'[w] = "accepted"
         => dms[d] = 0 /\ ~warned[d]]_vars

\* The send path implements Outbox: a further copy only under the warning,
\* and the warning is never taken back.
Out == INSTANCE Outbox WITH copies <- dms, flagged <- warned
OutboxSpec == Out!Spec

\* The monthly counter covers every draft recorded as sent and every
\* reservation still held by a handler, and never passes the limit.
QuotaCoversSends ==
  /\ Cardinality({d \in Drafts: status[d] = "SENT"})
       + Cardinality({p \in Senders: holding[p]}) <= used
  /\ used <= Limit

\* A claimed draft is eventually released: sent, held, failed or restored.
SendingResolves == \A d \in Drafts: status[d] = "SENDING" ~> status[d] # "SENDING"

\* BullMQ gave the job up: it used its attempts or stalled too often.
GivenUp(d) == job[d].attempts >= MaxAttempts \/ job[d].stalls > MaxStalls

\* A stored draft does not stay PENDING, the status no human can act on,
\* unless BullMQ gave its job up.
PendingResolves ==
  \A d \in Drafts: status[d] = "PENDING" ~> status[d] # "PENDING" \/ GivenUp(d)

\* SENDING means "Claimed for delivery; the Meta send call is in flight".
SendingIsInFlight ==
  \A d \in Drafts: status[d] = "SENDING" => \E p \in Senders: Sending(p, d)

\* A reply recorded as sent stays so: dismissing one is refused with "This
\* reply was already sent."
SentStays ==
  [][\A d \in Drafts: status[d] = "SENT" => status'[d] = "SENT"]_vars

-----------------------------------------------------------------------------
(***************************************************************************)
(* The inductive invariant behind OneSender, UnsureIsWarned, AutoSendsOnce *)
(* and OutboxSpec.  It holds when no job loses its lock under a live run   *)
(* and no send outlives the sweep's threshold.                             *)
(***************************************************************************)
Orderly == "stall" \notin Events /\ "slow" \notin Events

\* Places at which a job run is in charge of the row, and those of any sender
\* at which the DM may have left since its claim.
InCharge == {"safety", "read", "claim"} \cup InFlight \cup {"hold", "failed"}
MayHaveLeft == {"accepted", "recorded", "lost", "quarantine"}

\* A process has a draft exactly while it runs, at a place of its own role.
PlacesFit ==
  \A p \in Processes:
    /\ on[p] = NoDraft <=> pc[p] \in {"idle", "done"}
    /\ p \in Workers => pc[p] \notin {"done", "dismiss"}
    /\ p \in Approvals => pc[p] \in {"idle", "done", "read", "claim"} \cup InFlight
    /\ p \in Dismissals => pc[p] \in {"idle", "done", "dismiss"}

\* A running job is locked by its run.
JobsFit ==
  \A w \in Workers: \A d \in Drafts:
    on[w] = d => job[d].state = "active" /\ job[d].holder = w

\* A run in charge of a row works on a fresh draft nobody else touches, a
\* dismissal apart.
RunsFit ==
  \A w \in Workers: \A d \in Drafts:
    on[w] = d /\ pc[w] \in InCharge =>
      /\ d \notin found
      /\ ~warned[d] /\ ~note[w]
      /\ \A a \in Approvals: on[a] # d
      /\ pc[w] \notin MayHaveLeft => dms[d] = 0
      /\ pc[w] \in {"safety", "read", "failed"} => status[d] \in {"PENDING", "DISMISSED"}
      /\ pc[w] = "claim" => \/ status[d] = "DISMISSED"
                            \/ status[d] = "PENDING" /\ prev[w] = "PENDING"
      /\ pc[w] \in InFlight => status[d] \in {"SENDING", "DISMISSED"} /\ prev[w] = "PENDING"
      /\ pc[w] = "hold" => status[d] \in {"PENDING", "SENDING", "DISMISSED"}

\* An approval works on a row that left PENDING for good.
ApprovalsFit ==
  \A a \in Approvals: \A d \in Drafts:
    on[a] = d =>
      /\ d \notin found
      /\ status[d] \notin {"NONE", "PENDING"}
      /\ pc[a] # "read" => prev[a] \notin {"NONE", "PENDING"}
      /\ pc[a] \in InFlight => status[d] \in {"SENDING", "DISMISSED"}

\* Approvals exclude each other.
ApprovalsAlone ==
  \A a, b \in Approvals: \A d \in Drafts: Sending(a, d) /\ Sending(b, d) => a = b

\* What the sweep has found is still interrupted, or dismissed.
FoundFits == \A d \in found: status[d] \in {"SENDING", "DISMISSED"}

\* A draft without a row, or pending, has never left.
FreshFits ==
  \A d \in Drafts: status[d] \in {"NONE", "PENDING"} => dms[d] = 0 /\ ~warned[d]

\* A draft that left without a warning is recorded, dismissed, or in the
\* hands of a sender that has yet to learn or record the outcome.
UnsureFits ==
  \A d \in Drafts: dms[d] > 0 /\ ~warned[d] =>
    /\ status[d] \in {"SENT", "SENDING", "DISMISSED"}
    /\ \A p \in Senders: Sending(p, d) => pc[p] \in MayHaveLeft

IInv ==
  /\ TypeOK /\ PlacesFit /\ JobsFit /\ RunsFit /\ ApprovalsFit
  /\ ApprovalsAlone /\ FoundFits /\ FreshFits /\ UnsureFits

\* Whatever begins comes to an end: a claim, and a nudge that was stored.
DraftsResolve == SendingResolves /\ PendingResolves
=============================================================================
