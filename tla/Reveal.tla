------------------------------- MODULE Reveal -------------------------------
(***************************************************************************)
(* What follows an opening DM: the user taps its button, or reads it and   *)
(* does not, and processPostback sends the campaign's link, behind the     *)
(* follow gate if the campaign has one.                                    *)
(*                                                                         *)
(* One user and one campaign, whose opening DM is SENT.  Its button says   *)
(* followcheck if the campaign was gated when it was sent, reveal if not;  *)
(* the owner may switch the gate since.  The DmLog row is the one of       *)
(* commentId "reveal:<user>".  The token decrypts, and the campaign stays  *)
(* active.                                                                 *)
(***************************************************************************)
EXTENDS Naturals, FiniteSets

CONSTANTS
  MaxTaps,      \* bound: taps on the buttons of the thread
  Named,        \* the taps whose webhook event carries a mid
  Workers,      \* concurrent job slots of the worker
  MaxAttempts,  \* BullMQ attempts of a job
  MaxStalls,    \* BullMQ maxStalledCount
  Limit,        \* the monthly quota
  MaxFaults,    \* bound: things that go wrong in one behaviour
  Events        \* what may go wrong, a subset of AllEvents

(***************************************************************************)
(* reject: Instagram refuses a message.  lost: it takes one, and its       *)
(* answer is lost.  unknown: the follow status cannot be read.  db: a      *)
(* query fails.  crash: the worker dies and its job is found stalled.      *)
(***************************************************************************)
AllEvents == {"reject", "lost", "unknown", "db", "crash"}

Taps == 1..MaxTaps

ASSUME RevealBounds ==
  /\ {MaxTaps, MaxStalls, Limit, MaxFaults} \subseteq Nat
  /\ MaxAttempts \in Nat \ {0}
ASSUME RevealInputs == Named \subseteq Taps /\ Events \subseteq AllEvents
\* The worker's concurrency is a number.
ASSUME FiniteWorkers == IsFiniteSet(Workers)

\* Job ids: postback_<user>_<mid>, or _<payload> without a mid, and
\* read_fallback_<user>_<campaign>.
ByPayload == 0
Fallback == MaxTaps + 1
NoJob == MaxTaps + 2
JobOf(t) == IF t \in Named THEN t ELSE ByPayload
JobIds == {JobOf(t): t \in Taps} \cup {Fallback}

VARIABLES
  campaign,    \* [checks, gated, linked, followUp]: the button says
               \* followcheck, requireFollow, tracked links, ...
  follows,     \* the user follows the account
  row,         \* status of the DmLog row, "NONE" without one
  used,        \* dmsSentThisPeriod
  job,         \* job[j]: state, attempts and stalls of the BullMQ job
  pc,          \* pc[w]: where the run in slot w is
  on,          \* on[w]: its job
  gate,        \* gate[w]: it found the campaign gated
  reveals,     \* links that arrived (observation only)
  out,         \* out[j]: what job j has come to (observation only)
  entitled,    \* the user has followed once, or the status was not readable
               \* (observation only)
  clean,       \* no answer was lost, no query failed behind a reservation, no
               \* worker died (observation only)
  faults       \* things that went wrong so far

slots == <<job, pc, on, gate>>
seen == <<reveals, out, entitled, clean>>
vars == <<campaign, follows, row, used, slots, seen, faults>>

RowStates == {"NONE", "SENT", "FAILED", "SKIPPED_PLAN_LIMIT"}
Holding == {"template", "text", "thanks", "record", "release"}
Places == {"idle", "find", "check", "prompt", "reserve", "failed", "return"}
            \cup Holding
Outcomes == {"none", "revealed", "prompted", "muted", "skipped", "limited"}

-----------------------------------------------------------------------------
(* Helpers *)

Goto(w, place) == pc' = [pc EXCEPT ![w] = place]
Stay == UNCHANGED <<job, on, gate>>
ByFallback(w) == on[w] = Fallback
ComesTo(w, o) == out' = [out EXCEPT ![on[w]] = o]
Spoil == clean' = FALSE

Fault(e) == e \in Events /\ faults < MaxFaults /\ faults' = faults + 1

\* queue.add: a job kept under the id absorbs it.
Add(j) ==
  job' = IF job[j].state = "absent" THEN [job EXCEPT ![j].state = "waiting"]
         ELSE job

Rest(w) ==
  /\ Goto(w, "idle")
  /\ on' = [on EXCEPT ![w] = NoJob]
  /\ gate' = [gate EXCEPT ![w] = FALSE]

\* The handler returns.
Finish(w) ==
  /\ Rest(w)
  /\ job' = [job EXCEPT ![on[w]].state = "completed"]

\* The handler throws: BullMQ retries the job while it has attempts left.
Throw(w) ==
  LET tried == job[on[w]].attempts + 1
  IN  /\ Rest(w)
      /\ job' = [job EXCEPT ![on[w]].attempts = tried,
                   ![on[w]].state = IF tried < MaxAttempts THEN "waiting"
                                    ELSE "failed"]

NewJob == [state |-> "absent", attempts |-> 0, stalls |-> 0]

Init ==
  /\ campaign \in [checks: BOOLEAN, gated: BOOLEAN, linked: BOOLEAN,
                    followUp: BOOLEAN]
  /\ follows \in BOOLEAN
  /\ row = "NONE"
  /\ used = 0
  /\ job = [j \in JobIds |-> NewJob]
  /\ pc = [w \in Workers |-> "idle"]
  /\ on = [w \in Workers |-> NoJob]
  /\ gate = [w \in Workers |-> FALSE]
  /\ reveals = 0
  /\ out = [j \in JobIds |-> "none"]
  /\ entitled = follows
  /\ clean = TRUE
  /\ faults = 0

-----------------------------------------------------------------------------
(* The user, the webhook and the queue *)

\* The user follows or unfollows.
ChangeFollow ==
  /\ follows' = ~follows
  /\ entitled' = TRUE
  /\ UNCHANGED <<campaign, row, used, slots, reveals, out, clean, faults>>

\* The owner switches the gate.
SwitchGate ==
  /\ campaign' = [campaign EXCEPT !.gated = ~@]
  /\ UNCHANGED <<follows, row, used, slots, seen, faults>>

\* The event of a tap comes, maybe again; without a mid the payload names it.
Tap(t) ==
  /\ Add(JobOf(t))
  /\ UNCHANGED <<campaign, follows, row, used, pc, on, gate, seen, faults>>

\* A read event comes, maybe again: the opening DM is SENT, so the fallback
\* is queued, to run five minutes later.
ReadEvent ==
  /\ Add(Fallback)
  /\ UNCHANGED <<campaign, follows, row, used, pc, on, gate, seen, faults>>

\* BullMQ removes a failed job after five minutes.
Forget(j) ==
  /\ job[j].state = "failed"
  /\ job' = [job EXCEPT ![j] = NewJob]
  /\ UNCHANGED <<campaign, follows, row, used, pc, on, gate, seen, faults>>

TakeJob(w, j) ==
  /\ pc[w] = "idle"
  /\ job[j].state = "waiting"
  /\ job' = [job EXCEPT ![j].state = "active"]
  /\ on' = [on EXCEPT ![w] = j]
  /\ Goto(w, "find")
  /\ UNCHANGED <<campaign, follows, row, used, gate, seen, faults>>

-----------------------------------------------------------------------------
(* processPostback *)

\* The run has the campaign as it is now.
LoadCampaign(w) ==
  /\ gate' = [gate EXCEPT ![w] = campaign.gated]
  /\ UNCHANGED <<job, on>>

\* Mutant: the gate is for taps only.
FindUngated(w) ==
  /\ pc[w] = "find"
  /\ IF ByFallback(w) /\ row = "SENT"
       THEN Finish(w) /\ ComesTo(w, "skipped")
       ELSE /\ Goto(w, IF campaign.gated /\ campaign.checks /\ ~ByFallback(w)
                         THEN "check" ELSE "reserve")
            /\ LoadCampaign(w) /\ UNCHANGED out
  /\ UNCHANGED <<campaign, follows, row, used, reveals, entitled, clean, faults>>

MustCheck(w) == campaign.checks \/ ByFallback(w)

\* Mutant: nobody gets the link a second time, a tapping user neither.
FindOncePerUser(w) ==
  /\ pc[w] = "find"
  /\ IF row = "SENT"
       THEN Finish(w) /\ UNCHANGED out
       ELSE /\ Goto(w, IF campaign.gated /\ MustCheck(w) THEN "check"
                       ELSE "reserve")
            /\ LoadCampaign(w) /\ UNCHANGED out
  /\ UNCHANGED <<campaign, follows, row, used, reveals, entitled, clean, faults>>

\* A fallback ends if the row is SENT; the fallback of a gated campaign, or a
\* tap on a followcheck button, goes through the gate.
Find(w) ==
  /\ pc[w] = "find"
  /\ IF ByFallback(w) /\ row = "SENT"
       THEN Finish(w) /\ ComesTo(w, "skipped")
       ELSE /\ Goto(w, IF campaign.gated /\ MustCheck(w) THEN "check"
                       ELSE "reserve")
            /\ LoadCampaign(w) /\ UNCHANGED out
  /\ UNCHANGED <<campaign, follows, row, used, reveals, entitled, clean, faults>>

\* The gate: a follower passes, and whoever's status cannot be read; of the
\* others a tap gets the prompt again, a fallback nothing.
Check(w) ==
  /\ pc[w] = "check"
  /\ \/ /\ follows
        /\ Goto(w, "reserve") /\ Stay
        /\ UNCHANGED <<out, entitled, faults>>
     \/ /\ Fault("unknown")
        /\ entitled' = TRUE
        /\ Goto(w, "reserve") /\ Stay
        /\ UNCHANGED out
     \/ /\ ~follows /\ ~ByFallback(w)
        /\ Goto(w, "prompt") /\ Stay
        /\ UNCHANGED <<out, entitled, faults>>
     \/ /\ ~follows /\ ByFallback(w)
        /\ Finish(w) /\ ComesTo(w, "skipped")
        /\ UNCHANGED <<entitled, faults>>
  /\ UNCHANGED <<campaign, follows, row, used, reveals, clean>>

\* Mutant: the prompt gives back a unit it never reserved.
PromptReleasing(w) ==
  /\ pc[w] = "prompt"
  /\ used' = used - 1
  /\ ComesTo(w, "prompted")
  /\ Finish(w)
  /\ UNCHANGED <<campaign, follows, row, reveals, entitled, clean, faults>>

\* The prompt is sent, and no failure of it reaches the queue.
Prompt(w) ==
  /\ pc[w] = "prompt"
  /\ \/ ComesTo(w, "prompted") /\ UNCHANGED faults
     \/ ComesTo(w, "muted") /\ Fault("reject")
  /\ Finish(w)
  /\ UNCHANGED <<campaign, follows, row, used, reveals, entitled, clean>>

\* Mutant: the row is written before the link leaves.
ReserveRecording(w) ==
  /\ pc[w] = "reserve"
  /\ used < Limit
  /\ used' = used + 1
  /\ row' = "SENT"
  /\ Goto(w, IF campaign.linked THEN "template" ELSE "text") /\ Stay
  /\ UNCHANGED <<campaign, follows, seen, faults>>

\* A unit of the quota; without one the row says so.
Reserve(w) ==
  /\ pc[w] = "reserve"
  /\ \/ /\ used < Limit
        /\ used' = used + 1
        /\ Goto(w, IF campaign.linked THEN "template" ELSE "text") /\ Stay
        /\ UNCHANGED <<row, out>>
     \/ /\ used >= Limit
        /\ row' = "SKIPPED_PLAN_LIMIT"
        /\ ComesTo(w, "limited")
        /\ Finish(w)
        /\ UNCHANGED used
  /\ UNCHANGED <<campaign, follows, reveals, entitled, clean, faults>>

AfterLink == IF campaign.followUp THEN "thanks" ELSE "record"

\* One call that carries the link: it arrives, is refused, or arrives and
\* its answer is lost; any error sends the handler to place "or".
SendLink(w, or) ==
  /\ \/ /\ reveals' = reveals + 1
        /\ Goto(w, AfterLink)
        /\ UNCHANGED <<clean, faults>>
     \/ /\ Fault("reject")
        /\ Goto(w, or)
        /\ UNCHANGED <<reveals, clean>>
     \/ /\ Fault("lost") /\ Spoil
        /\ reveals' = reveals + 1
        /\ Goto(w, or)
  /\ Stay
  /\ UNCHANGED <<campaign, follows, row, used, out, entitled>>

\* The link as a button template; any error of it leads to the text.
SendTemplate(w) == pc[w] = "template" /\ SendLink(w, "text")

SendText(w) == pc[w] = "text" /\ SendLink(w, "release")

\* The follow-up goes out or not; nothing depends on it.
SendThanks(w) ==
  /\ pc[w] = "thanks"
  /\ Goto(w, "record") /\ Stay
  /\ UNCHANGED <<campaign, follows, row, used, seen, faults>>

\* The row becomes SENT; a failing query takes the way of a failed send.
Record(w) ==
  /\ pc[w] = "record"
  /\ \/ /\ row' = "SENT"
        /\ ComesTo(w, "revealed")
        /\ Goto(w, "return")
        /\ UNCHANGED <<clean, faults>>
     \/ /\ Fault("db") /\ Spoil
        /\ Goto(w, "release")
        /\ UNCHANGED <<row, out>>
  /\ Stay
  /\ UNCHANGED <<campaign, follows, used, reveals, entitled>>

Return(w) ==
  /\ pc[w] = "return"
  /\ Finish(w)
  /\ UNCHANGED <<campaign, follows, row, used, seen, faults>>

\* Mutant: a failed send keeps its unit.
ReleaseNothing(w) ==
  /\ pc[w] = "release"
  /\ Goto(w, "failed") /\ Stay
  /\ UNCHANGED <<campaign, follows, row, used, seen, faults>>

\* The unit is given back; if that fails the row is not written.
Release(w) ==
  /\ pc[w] = "release"
  /\ \/ /\ used' = used - 1
        /\ Goto(w, "failed") /\ Stay
        /\ UNCHANGED <<clean, faults>>
     \/ /\ Fault("db") /\ Spoil
        /\ Throw(w)
        /\ UNCHANGED used
  /\ UNCHANGED <<campaign, follows, row, reveals, out, entitled>>

\* The row becomes FAILED, whatever it was, and the job is tried again.
MarkFailed(w) ==
  /\ pc[w] = "failed"
  /\ \/ row' = "FAILED" /\ UNCHANGED <<clean, faults>>
     \/ Fault("db") /\ Spoil /\ UNCHANGED row
  /\ Throw(w)
  /\ UNCHANGED <<campaign, follows, used, reveals, out, entitled>>

\* A query before the send fails: the job is tried again, and nothing of the
\* run is left.
QueryFails(w) ==
  /\ pc[w] \in {"find", "reserve"}
  /\ Fault("db")
  /\ Throw(w)
  /\ UNCHANGED <<campaign, follows, row, used, seen>>

\* The worker dies; the job is found stalled and waits again, or is failed
\* after too many stalls.
Crash(w) ==
  /\ pc[w] # "idle"
  /\ Fault("crash") /\ Spoil
  /\ Rest(w)
  /\ LET stalls == job[on[w]].stalls + 1
     IN  job' = [job EXCEPT ![on[w]].stalls = stalls,
                   ![on[w]].state = IF stalls > MaxStalls THEN "failed"
                                    ELSE "waiting"]
  /\ UNCHANGED <<campaign, follows, row, used, reveals, out, entitled>>

-----------------------------------------------------------------------------
(* The specification *)

Run(w) ==
  \/ Find(w) \/ Check(w) \/ Prompt(w) \/ Reserve(w)
  \/ SendTemplate(w) \/ SendText(w) \/ SendThanks(w)
  \/ Record(w) \/ Return(w) \/ Release(w) \/ MarkFailed(w)

Next ==
  \/ ChangeFollow
  \/ SwitchGate
  \/ \E t \in Taps: Tap(t)
  \/ ReadEvent
  \/ \E j \in JobIds: Forget(j)
  \/ \E w \in Workers, j \in JobIds: TakeJob(w, j)
  \/ \E w \in Workers: Run(w) \/ QueryFails(w) \/ Crash(w)

Spec == Init /\ [][Next]_vars

(***************************************************************************)
(* A started run goes on, and the queue is first in, first out: a waiting  *)
(* job is not passed over for ever.  Nobody has to tap, read or follow.    *)
(***************************************************************************)
FairSpec ==
  /\ Spec
  /\ \A w \in Workers: WF_vars(Run(w))
  /\ \A j \in JobIds: SF_vars(\E w \in Workers: TakeJob(w, j))

-----------------------------------------------------------------------------
(* Properties *)

\* The state of the row, the jobs and the runs; above all, no way through
\* the handler takes the quota below zero or over its limit.
TypeOK ==
  /\ campaign \in [checks: BOOLEAN, gated: BOOLEAN, linked: BOOLEAN,
                    followUp: BOOLEAN]
  /\ follows \in BOOLEAN
  /\ row \in RowStates
  /\ used \in 0..Limit
  /\ job \in [JobIds -> [state: {"absent", "waiting", "active", "completed",
                                 "failed"},
                         attempts: 0..MaxAttempts, stalls: 0..(MaxStalls + 1)]]
  /\ pc \in [Workers -> Places]
  /\ on \in [Workers -> JobIds \cup {NoJob}]
  /\ gate \in [Workers -> BOOLEAN]
  /\ reveals \in Nat
  /\ out \in [JobIds -> Outcomes]
  /\ entitled \in BOOLEAN
  /\ clean \in BOOLEAN
  /\ faults \in 0..MaxFaults

\* The gate is not bypassed: by tapping again, by reading and waiting, by
\* retries, dead workers or a gate switched on and off, no run that found the
\* campaign gated sends the link to a user who never followed, unless
\* Instagram would not say whether they do; but for taps on a button that was
\* sent without the check.
GateHolds ==
  [][\A w \in Workers:
       /\ gate[w] /\ MustCheck(w)
       /\ pc[w] # pc'[w] /\ reveals' > reveals
       => entitled]_vars

\* A row that says SENT stands for a link that arrived, whatever overlaps.
LogIsTrue == row = "SENT" => reveals > 0

\* While no answer is lost, no query fails after a send and no worker dies,
\* the quota counts the links that arrived and the runs under way, and nothing else.
QuotaExact ==
  clean =>
    used = reveals + Cardinality({w \in Workers:
                       pc[w] \in {"template", "text", "release"}})

\* "Every button tap re-sends the reveal": a queued tap comes to a link, a
\* prompt or a skip for the quota, unless the prompt is refused, which no
\* retry follows, or the job has used its attempts.
TapAnswered ==
  \A t \in Taps:
    job[JobOf(t)].state = "waiting"
      ~> out[JobOf(t)] # "none" \/ job[JobOf(t)].state = "failed"

\* "The worker no-ops this delayed job if a real button tap has already
\* delivered the reveal."
FallbackNeeded ==
  [][\A w \in Workers:
       ByFallback(w) /\ pc[w] = "reserve" /\ pc'[w] \in {"template", "text"}
         => \A t \in Taps: out[JobOf(t)] # "revealed"]_vars

\* Every way through a tap returns the unit it reserved, and only that; and the
\* row says SENT of a link that arrived.
CountsHold == TypeOK /\ LogIsTrue /\ QuotaExact
=============================================================================
