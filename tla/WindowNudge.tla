---------------------------- MODULE WindowNudge -----------------------------
(***************************************************************************)
(* The nudge of one Instagram thread: a job armed by every message of the  *)
(* prospect and fired hours later, which writes once more if he has been   *)
(* quiet since.  The job may be run again after a crash, and beside runs   *)
(* that lost its lock; each query, call and write of a run is a step.      *)
(* Messages are processed in any order, and the owner may switch the       *)
(* setter, approve a draft or dismiss it at any time.                      *)
(***************************************************************************)
EXTENDS Naturals, FiniteSets

CONSTANTS
  Runs,      \* executions of nudge jobs, each used once
  MaxStalls, \* BullMQ's maxStalledCount (its default, 1)
  MaxTime,   \* bound on the clock
  Hours,     \* windowNudgeHours
  Span,     \* the 24 hours of the window, less its margin
  MaxIn      \* bound on messages of the prospect

VARIABLES
  now,        \* the clock
  arriving,   \* sentAt of messages of the prospect not yet processed
  inbound,    \* DmMessage rows of the prospect
  outbound,   \* DmMessage rows of ours, by sentAt
  lastIn,     \* lastInboundAt, or 0
  lastNudge,  \* lastNudgeAt, or 0
  takeover,   \* humanTakeoverAt, or 0
  mode,       \* the effective mode of the thread
  jobs,       \* anchors of the jobs armed
  row,        \* row[a]: status of the AiReplyLog row of the nudge of anchor a
  pc, anchor, \* pc[r], anchor[r]: where run r is, and the anchor of its job
  heard,      \* heard[r]: the messages stored when r loaded the thread (observation)
  nudges,     \* nudges[a]: how often the setter nudged by itself (observation)
  unsure      \* anchors whose draft was held in doubt of its first send while another
              \* run was about to claim it (observation)

thread == <<now, arriving, inbound, outbound, lastIn, lastNudge, takeover, mode>>
ghosts == <<heard, nudges, unsure>>
vars == <<thread, jobs, row, pc, anchor, ghosts>>

Times == 1..MaxTime
Latest(s) == CHOOSE t \in s : \A u \in s : u <= t
Goto(r, place) == pc' = [pc EXCEPT ![r] = place]

Init ==
  /\ now = 1
  /\ arriving = {} /\ inbound = {} /\ outbound = {}
  /\ lastIn = 0 /\ lastNudge = 0 /\ takeover = 0
  /\ mode \in {"DRAFT", "AUTO"}
  /\ jobs = {}
  /\ row = [a \in Times |-> "ABSENT"]
  /\ pc = [r \in Runs |-> "new"] /\ anchor = [r \in Runs |-> 0]
  /\ heard = [r \in Runs |-> {}] /\ nudges = [a \in Times |-> 0] /\ unsure = {}

-----------------------------------------------------------------------------
(* The thread *)

Tick ==
  /\ now < MaxTime /\ now' = now + 1
  /\ UNCHANGED <<arriving, inbound, outbound, lastIn, lastNudge, takeover, mode, jobs, row, pc, anchor, ghosts>>

Write ==
  /\ now \notin arriving \cup inbound /\ Cardinality(arriving \cup inbound) < MaxIn
  /\ arriving' = arriving \cup {now}
  /\ UNCHANGED <<now, inbound, outbound, lastIn, lastNudge, takeover, mode, jobs, row, pc, anchor, ghosts>>

\* scheduleWindowNudge.
Armed(a) == IF mode # "OFF" /\ a # 0 /\ now < a + Hours /\ Hours <= Span THEN jobs \cup {a} ELSE jobs

\* processInboundDm: the message processed last is the last one, and arms its nudge.
ProcessInboundDm(t) ==
  /\ t \in arriving
  /\ arriving' = arriving \ {t}
  /\ inbound' = inbound \cup {t}
  /\ lastIn' = t
  /\ jobs' = Armed(t)
  /\ UNCHANGED <<now, outbound, lastNudge, takeover, mode, row, pc, anchor, ghosts>>

\* A reply of the setter, which arms the nudge of the message it saw last; or one of
\* the owner by hand, which takes the thread over.
Answer(human) ==
  /\ inbound # {} /\ now \notin outbound
  /\ outbound' = outbound \cup {now}
  /\ IF human THEN takeover' = now /\ UNCHANGED jobs
              ELSE jobs' = Armed(lastIn) /\ UNCHANGED takeover
  /\ UNCHANGED <<now, arriving, inbound, lastIn, lastNudge, mode, row, pc, anchor, ghosts>>

\* The owner changes the mode, of the thread or of the account.
SetMode(m) ==
  /\ mode' = m /\ m # mode
  /\ UNCHANGED <<now, arriving, inbound, outbound, lastIn, lastNudge, takeover, jobs, row, pc, anchor, ghosts>>

\* The owner approves a draft, which sendAiReply sends: in one step here, for what it
\* leaves behind, SENT or the status it had, is all the runs can tell (SetterPage has
\* its steps).
Approve(a) ==
  /\ row[a] \in {"HELD", "FAILED"}
  /\ row' = [row EXCEPT ![a] = "SENT"]
  /\ outbound' = outbound \cup {now} /\ lastNudge' = now
  /\ UNCHANGED <<now, arriving, inbound, lastIn, takeover, mode, jobs, pc, anchor, ghosts>>

\* He dismisses it.  The route has looked whether it was sent before it writes, so it
\* may write over a claim, or over SENT.
Dismiss(a) ==
  /\ row[a] # "ABSENT"
  /\ row' = [row EXCEPT ![a] = "DISMISSED"]
  /\ UNCHANGED <<thread, jobs, pc, anchor, ghosts>>

\* A run that won the claim, until it has recorded what became of the draft.
Claimed == {"send", "sent", "noted"}

\* recoverInterruptedSends, two minutes after the claim: longer than a run takes from
\* finding the draft to recording what became of it.
Recover(a) ==
  /\ row[a] = "SENDING"
  /\ \A r \in Runs : pc[r] \in {"check", "claim"} \cup Claimed => anchor[r] # a
  /\ row' = [row EXCEPT ![a] = "HELD"]
  /\ UNCHANGED <<thread, jobs, pc, anchor, ghosts>>

-----------------------------------------------------------------------------
(* processWindowNudge *)

Goes(r, place) == Goto(r, place) /\ UNCHANGED <<thread, jobs, row, anchor, ghosts>>
Ends(r) == Goes(r, "done")

\* Runs of the job of anchor a that are under way.
Live(a) == {r \in Runs : anchor[r] = a /\ pc[r] \notin {"new", "done"}}

\* The delay is over: the thread is loaded, and most reasons not to nudge are in it.
\* Each run that goes on beside this one has lost the lock of the job.
Load(r, a) ==
  /\ pc[r] = "new" /\ a \in jobs /\ now >= a + Hours
  /\ Cardinality(Live(a)) <= MaxStalls
  /\ anchor' = [anchor EXCEPT ![r] = a]
  /\ heard' = [heard EXCEPT ![r] = inbound]
  /\ IF mode # "OFF" /\ lastIn = a /\ lastNudge < a /\ takeover < a /\ now <= a + Span
       THEN Goto(r, mode) ELSE Goto(r, "done")
  /\ UNCHANGED <<thread, jobs, row, nudges, unsure>>

\* The last message must be ours.  The mode the run goes by is the one it loaded.
LastMessage(r) ==
  /\ pc[r] \in {"DRAFT", "AUTO"}
  /\ LET last == Latest(inbound) IN
       IF \E t \in outbound : t >= last
         THEN Goes(r, IF pc[r] = "AUTO" THEN "find AUTO" ELSE "find DRAFT") ELSE Ends(r)

\* A slip: a draft of an earlier run is delivered whatever became of it.
FindAnyRow(r) ==
  /\ pc[r] \in {"find AUTO", "find DRAFT"}
  /\ IF row[anchor[r]] # "ABSENT"
       THEN Goes(r, IF pc[r] = "find AUTO" THEN "check" ELSE "hold")
       ELSE Goes(r, IF pc[r] = "find AUTO" THEN "draft AUTO" ELSE "draft DRAFT")

\* A draft that an earlier run left pending is delivered; one that was decided is not.
FindRow(r) ==
  /\ pc[r] \in {"find AUTO", "find DRAFT"}
  /\ CASE row[anchor[r]] = "ABSENT" ->
            Goes(r, IF pc[r] = "find AUTO" THEN "draft AUTO" ELSE "draft DRAFT")
       [] row[anchor[r]] = "PENDING" ->
            Goes(r, IF pc[r] = "find AUTO" THEN "check" ELSE "hold")
       [] OTHER -> Ends(r)

\* generateWindowNudge answers, and the draft becomes the row of the window: there is
\* only one.  The draft may not be fit to be sent.
Draft(r) ==
  /\ pc[r] \in {"draft AUTO", "draft DRAFT"}
  /\ IF row[anchor[r]] # "ABSENT" THEN Ends(r)
     ELSE /\ row' = [row EXCEPT ![anchor[r]] = "PENDING"]
          /\ \/ pc[r] = "draft AUTO" /\ Goto(r, "check")
             \/ Goto(r, "hold")
          /\ UNCHANGED <<thread, jobs, anchor, ghosts>>

\* deliverDraft of a draft that is not sent by itself.
Hold(r) ==
  /\ pc[r] = "hold"
  /\ row' = [row EXCEPT ![anchor[r]] = "HELD"]
  /\ Goto(r, "done")
  /\ UNCHANGED <<thread, jobs, anchor, ghosts>>

\* A slip: what the prospect wrote since is not looked at.
CheckNothing(r) == pc[r] = "check" /\ Goes(r, "claim")

\* The late check: has the prospect written since the anchor?
Check(r) ==
  /\ pc[r] = "check"
  /\ IF \E t \in inbound : t > anchor[r] THEN Goes(r, "skip") ELSE Goes(r, "claim")

Skip(r) ==
  /\ pc[r] = "skip"
  /\ row' = [row EXCEPT ![anchor[r]] = "SKIPPED"]
  /\ Goto(r, "done")
  /\ UNCHANGED <<thread, jobs, anchor, ghosts>>

\* The claim of sendAiReply, or the end of the run where another has it.
Claim(r) ==
  /\ pc[r] = "claim"
  /\ IF row[anchor[r]] \in {"PENDING", "HELD", "FAILED"}
       THEN /\ row' = [row EXCEPT ![anchor[r]] = "SENDING"]
            /\ Goto(r, "send")
            /\ UNCHANGED <<thread, jobs, anchor, ghosts>>
       ELSE Ends(r)

\* The message is sent, or the quota, the limiter or Meta refuses it, and the row gets
\* back the status it was claimed with.
Send(r) ==
  /\ pc[r] = "send"
  /\ \/ /\ nudges' = [nudges EXCEPT ![anchor[r]] = @ + 1]
        /\ Goto(r, "sent")
        /\ UNCHANGED row
     \/ /\ \E status \in {"PENDING", "HELD", "FAILED"} : row' = [row EXCEPT ![anchor[r]] = status]
        /\ Goto(r, "refused")
        /\ UNCHANGED nudges
  /\ UNCHANGED <<thread, jobs, anchor, heard, unsure>>

\* The answer of the call is lost, whether the message arrived or not, or a record of it
\* fails: the draft is held with a warning, and the run ends without a retry.  A second
\* run that has looked at the row before may claim it now.
Quarantine(r) ==
  /\ pc[r] \in Claimed
  /\ nudges' \in {nudges, [nudges EXCEPT ![anchor[r]] = @ + 1]}
  /\ pc[r] # "send" => UNCHANGED nudges
  /\ row' = [row EXCEPT ![anchor[r]] = "HELD"]
  /\ unsure' = IF \E s \in Live(anchor[r]) : pc[s] \in {"check", "claim"}
                 THEN unsure \cup {anchor[r]} ELSE unsure
  /\ Goto(r, "done")
  /\ UNCHANGED <<thread, jobs, anchor, heard>>

\* deliverDraft of a refused draft: it is held, or failed after the last attempt, or
\* left for the next one.
Refuse(r) ==
  /\ pc[r] = "refused"
  /\ \E status \in {row[anchor[r]], "HELD", "FAILED"} : row' = [row EXCEPT ![anchor[r]] = status]
  /\ Goto(r, "done")
  /\ UNCHANGED <<thread, jobs, anchor, ghosts>>

\* What was sent is recorded: in the mirror, which may fail unnoticed, and in the
\* thread,
Note(r) ==
  /\ pc[r] = "sent"
  /\ outbound' \in {outbound, outbound \cup {now}} /\ lastNudge' = now
  /\ Goto(r, "noted")
  /\ UNCHANGED <<now, arriving, inbound, lastIn, takeover, mode, jobs, row, anchor, ghosts>>

\* and in the row.
Record(r) ==
  /\ pc[r] = "noted"
  /\ row' = [row EXCEPT ![anchor[r]] = "SENT"]
  /\ Goto(r, "done")
  /\ UNCHANGED <<thread, jobs, anchor, ghosts>>

\* The worker dies; the job may be run again.
Crash(r) ==
  /\ pc[r] \notin {"new", "done"}
  /\ Ends(r)

Next ==
  \/ Tick \/ Write
  \/ \E t \in arriving : ProcessInboundDm(t)
  \/ \E human \in BOOLEAN : Answer(human)
  \/ \E m \in {"OFF", "DRAFT", "AUTO"} : SetMode(m)
  \/ \E a \in Times : Approve(a) \/ Dismiss(a) \/ Recover(a)
  \/ \E r \in Runs :
       \/ \E a \in jobs : Load(r, a)
       \/ LastMessage(r) \/ FindRow(r) \/ Draft(r) \/ Hold(r) \/ Check(r) \/ Skip(r)
       \/ Claim(r) \/ Send(r) \/ Quarantine(r) \/ Refuse(r) \/ Note(r) \/ Record(r)
       \/ Crash(r)

Spec == Init /\ [][Next]_vars

-----------------------------------------------------------------------------
(* Properties *)

\* Every variable has its type.
TypeOK ==
  /\ now \in Times /\ arriving \cup inbound \cup outbound \cup jobs \subseteq Times
  /\ \A a \in Times : row[a] \in {"ABSENT", "PENDING", "SENDING", "HELD", "FAILED", "SKIPPED",
                                  "SENT", "DISMISSED"}

\* "One nudge per window, even across worker restarts" (ai-setter-worker.ts): the setter
\* nudges once, however often the job is armed and run.
OnePerWindow == \A a \in Times : nudges[a] <= 1

\* It does not: where the answer or the record of the first send was lost under the eyes
\* of a second run of the job, that one claims the draft held in doubt.  Nothing else
\* nudges twice: no crash, recovery, refusal or decision of the owner, nor two runs that
\* overlap.  (Beside a third, one that holds the draft under another mode gives the
\* second a draft to claim again.)
OneNudge == \A a \in Times \ unsure : nudges[a] <= 1

\* The setter nudges nobody who had written after the anchor by the time the job loaded
\* the thread, although a message processed late may have set the anchor back.
NudgesTheQuiet ==
  \A r \in Runs : pc[r] \in Claimed => \A t \in heard[r] : t <= anchor[r]

\* Who is nudged is nudged once in his window, but for that, and had gone quiet.
NudgeHolds == OneNudge /\ NudgesTheQuiet
=============================================================================
