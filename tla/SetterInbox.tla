----------------------------- MODULE SetterInbox ----------------------------
(***************************************************************************)
(* One Instagram thread as the AI setter sees it: the webhook that queues  *)
(* its messages, processInboundDm, which mirrors a message and decides     *)
(* whether to answer it, the echoes by which a human's reply is noticed,   *)
(* the sweep reconcileDms that backfills what the webhook missed, and the  *)
(* owner's switches.                                                       *)
(*                                                                         *)
(* A message is named by its place in the thread, which is also its        *)
(* timestamp.  The setter is configured with pauseOnHumanReply and the     *)
(* nudge on; every reply passes the safety gate and every send succeeds    *)
(* (ReplyDelivery has the ways it fails).  A behaviour spans less than the *)
(* six hours of the pause and the twenty-four of the reply window.  A      *)
(* sweep that reads the thread is a step; one that does not, the thread    *)
(* being past the 25 newest, is none.                                      *)
(***************************************************************************)
EXTENDS Naturals, Sequences, FiniteSets

CONSTANTS
  MaxWrites,    \* bound: messages the setter does not write
  Acks,         \* places where the prospect writes a bare "ok" or "danke"
  Wordless,     \* places of messages without text, a picture or a voice message
  PageSize,     \* messages that getConversationMessages returns, 20 at Meta
  Workers,      \* concurrent job slots of the worker
  MaxPatches,   \* bound: times the owner changes the mode
  Events        \* what may happen besides, a subset of AllEvents

(***************************************************************************)
(* human: a human of the account writes in the thread.  campaign: a        *)
(* campaign sends its DM into it, of which no row is mirrored.  lost: a    *)
(* webhook call never comes.  sweep: reconcileDms runs.  early: the echo   *)
(* of a setter reply is delivered before its send is recorded.  llm: the   *)
(* model call throws.                                                      *)
(***************************************************************************)
AllEvents == {"human", "campaign", "lost", "sweep", "early", "llm"}

ASSUME BoundsAreNat == MaxWrites \in Nat /\ MaxPatches \in Nat

\* The setter replies once to a message, so the thread has room for it.
Mids == 1..(2 * MaxWrites)
Times == 0..(2 * MaxWrites)

ASSUME AcksAreMessages == Acks \subseteq Mids /\ Wordless \subseteq Mids
ASSUME PagesHold == PageSize \in Nat \ {0}
ASSUME EventsAreEvents == Events \subseteq AllEvents

VARIABLES
  thread,    \* the messages on Instagram, each [by |-> author, to |-> mid]
  mirror,    \* mirror[m]: source of the DmMessage row, "NONE" without one
  lastIn,    \* DmConversation.lastInboundAt, 0 for null
  lastOut,   \* DmConversation.lastOutboundAt
  takeover,  \* DmConversation.humanTakeoverAt
  mode,      \* the effective mode of the thread, OFF when aiEnabled is not set
  job,       \* job[m]: the BullMQ job dm_<m>
  armed,     \* anchors with a nudge job
  row,       \* row[m]: status of the AiReplyLog row, "NONE" without one
  pc,        \* pc[w]: where the job in slot w is
  on,        \* on[w]: its message
  snap,      \* snap[w]: the conversation row its upsert returned
  sent,      \* sent[w]: the DM it has sent, 0 before
  sweep,     \* the sweep: where it is, and what it has read and missed
  burst,     \* burst[w]: a newer message was queued when w took its job
             \* (observation only)
  quiet,     \* messages written under a recorded takeover (observation only)
  patches    \* changes of the mode so far

conversation == <<lastIn, lastOut, takeover, mode>>
slots == <<pc, on, snap, sent, burst>>
vars == <<thread, mirror, conversation, job, armed, row, slots, sweep, quiet,
          patches>>

Authors == {"prospect", "human", "campaign", "setter"}
Sources == {"NONE", "PARTICIPANT", "HUMAN", "AI", "CAMPAIGN"}
Modes == {"OFF", "DRAFT", "AUTO"}
Places == {"idle", "upsert", "mirror", "takeover", "arm", "gates", "debounce",
           "draft", "deliver", "send", "record", "mark"}

-----------------------------------------------------------------------------
(* Helpers *)

Written == 1..Len(thread)
Inbound(m) == m \in Written /\ thread[m].by = "prospect"
FromProspect == {m \in Written: Inbound(m)}
HasText(m) == m \notin Wordless \/ thread[m].by = "setter"

\* Mutant: a message supersedes itself.
NewerOrEqual(m) == \E n \in Mids: n >= m /\ mirror[n] = "PARTICIPANT"

\* The mirror holds a later message of the prospect.
NewerInbound(m) == \E n \in Mids: n > m /\ mirror[n] = "PARTICIPANT"

Conversation == [takeover |-> takeover, mode |-> mode, lastIn |-> lastIn]
NoSnap == [takeover |-> 0, mode |-> "OFF", lastIn |-> 0]
NoSweep == [pc |-> "idle", seen |-> 0, at |-> 0, missed |-> 0]

Goto(w, place) == pc' = [pc EXCEPT ![w] = place]
Stay == UNCHANGED <<job, on, snap, sent, burst>>

\* The job of slot w leaves it, and the slot is free again.
Leave(w, state) ==
  /\ job' = [job EXCEPT ![on[w]] = state]
  /\ Goto(w, "idle")
  /\ on' = [on EXCEPT ![w] = 0]
  /\ snap' = [snap EXCEPT ![w] = NoSnap]
  /\ sent' = [sent EXCEPT ![w] = 0]
  /\ burst' = [burst EXCEPT ![w] = FALSE]

Finish(w) == Leave(w, "done")

\* recordSkip: a row, unless the message has one.
Skip(w) ==
  /\ row' = [row EXCEPT ![on[w]] = IF @ = "NONE" THEN "SKIPPED" ELSE @]
  /\ Finish(w)

Init ==
  /\ thread = << >>
  /\ mirror = [m \in Mids |-> "NONE"]
  /\ lastIn = 0 /\ lastOut = 0 /\ takeover = 0
  /\ mode \in {"DRAFT", "AUTO"}
  /\ job = [m \in Mids |-> "none"]
  /\ armed = {}
  /\ row = [m \in Mids |-> "NONE"]
  /\ pc = [w \in Workers |-> "idle"]
  /\ on = [w \in Workers |-> 0]
  /\ snap = [w \in Workers |-> NoSnap]
  /\ sent = [w \in Workers |-> 0]
  /\ burst = [w \in Workers |-> FALSE]
  /\ sweep = NoSweep
  /\ quiet = {}
  /\ patches = 0

-----------------------------------------------------------------------------
(* Instagram and the owner *)

Say(by, to) == thread' = Append(thread, [by |-> by, to |-> to])

MayWrite == Cardinality({m \in Written: thread[m].by # "setter"}) < MaxWrites

\* The prospect writes.
ProspectWrites ==
  /\ MayWrite
  /\ Say("prospect", 0)
  /\ quiet' = IF takeover # 0 THEN quiet \cup {Len(thread) + 1} ELSE quiet
  /\ UNCHANGED <<mirror, conversation, job, armed, row, slots, sweep, patches>>

\* A human writes from the Instagram app or the dashboard, or a campaign
\* sends its DM.
OthersWrite ==
  /\ MayWrite
  /\ \E by \in Events \cap {"human", "campaign"}: Say(by, 0)
  /\ UNCHANGED <<mirror, conversation, job, armed, row, slots, sweep, quiet,
                 patches>>

\* PATCH: the owner sets the mode; any but OFF ends the takeover.
SetMode(m) ==
  /\ patches < MaxPatches
  /\ patches' = patches + 1
  /\ mode' = m
  /\ takeover' = IF m = "OFF" THEN takeover ELSE 0
  /\ quiet' = IF m = "OFF" THEN quiet ELSE {}
  /\ UNCHANGED <<thread, mirror, lastIn, lastOut, job, armed, row, slots, sweep>>

-----------------------------------------------------------------------------
(* The webhook *)

\* The event of a message comes and its job is queued; calls are not ordered.  One
\* without text is queued as "[media]".
Deliver(m) ==
  /\ m \in Written
  /\ job[m] = "none"
  /\ \A w \in Workers: sent[w] = m => "early" \in Events
  /\ job' = [job EXCEPT ![m] = "waiting"]
  /\ UNCHANGED <<thread, mirror, conversation, armed, row, slots, sweep, quiet,
                 patches>>

-----------------------------------------------------------------------------
(* processInboundDm *)

\* A free slot takes a queued message; the delay of an inbound one is over.
TakeJob(w, m) ==
  /\ pc[w] = "idle"
  /\ job[m] = "waiting"
  /\ job' = [job EXCEPT ![m] = "active"]
  /\ on' = [on EXCEPT ![w] = m]
  /\ burst' = [burst EXCEPT ![w] =
       \E n \in FromProspect: n > m /\ job[n] = "waiting"]
  /\ Goto(w, "upsert")
  /\ UNCHANGED <<thread, mirror, conversation, armed, row, snap, sent, sweep,
                 quiet, patches>>

\* The anchor of the message's direction is set to its time, whatever it
\* was, and the row comes back as the job will see it to its end.
Upsert(w) ==
  /\ pc[w] = "upsert"
  /\ IF Inbound(on[w])
       THEN lastIn' = on[w] /\ UNCHANGED lastOut
       ELSE lastOut' = on[w] /\ UNCHANGED lastIn
  /\ snap' = [snap EXCEPT ![w] =
       [takeover |-> takeover, mode |-> mode, lastIn |-> lastIn']]
  /\ Goto(w, "mirror")
  /\ UNCHANGED <<thread, mirror, takeover, mode, job, armed, row, on, sent,
                 burst, sweep, quiet, patches>>

\* The message is mirrored, an echo as a human's; if it was there already,
\* the job is over.
MirrorMessage(w) ==
  /\ pc[w] = "mirror"
  /\ LET m == on[w] IN
     IF mirror[m] # "NONE"
       THEN Finish(w) /\ UNCHANGED mirror
       ELSE /\ mirror' = [mirror EXCEPT ![m] =
                            IF Inbound(m) THEN "PARTICIPANT" ELSE "HUMAN"]
            /\ Goto(w, IF Inbound(m) THEN "arm" ELSE "takeover")
            /\ Stay
  /\ UNCHANGED <<thread, conversation, armed, row, sweep, quiet, patches>>

\* A mirrored echo is taken for a human's reply.
TakeOver(w) ==
  /\ pc[w] = "takeover"
  /\ takeover' = on[w]
  /\ Finish(w)
  /\ UNCHANGED <<thread, mirror, lastIn, lastOut, mode, armed, row, sweep,
                 quiet, patches>>

\* scheduleWindowNudge: one job per anchor, none while the mode is OFF.
Arm(w) ==
  /\ pc[w] = "arm"
  /\ armed' = IF snap[w].mode = "OFF" THEN armed ELSE armed \cup {on[w]}
  /\ Goto(w, "gates") /\ Stay
  /\ UNCHANGED <<thread, mirror, conversation, row, sweep, quiet, patches>>

\* Mutant: the pause after a human's reply is not looked at.
GatesWithoutPause(w) ==
  /\ pc[w] = "gates"
  /\ \/ /\ snap[w].mode = "OFF"
        /\ Finish(w)
        /\ UNCHANGED row
     \/ /\ snap[w].mode # "OFF"
        /\ on[w] \in Acks
        /\ Skip(w)
     \/ /\ snap[w].mode # "OFF"
        /\ on[w] \notin Acks
        /\ Goto(w, "debounce") /\ Stay
        /\ UNCHANGED row
  /\ UNCHANGED <<thread, mirror, conversation, armed, sweep, quiet, patches>>

\* The gates read the row of the upsert: a closed mode ends the job, a
\* human's recent reply and a bare acknowledgement end it with a row.
Gates(w) ==
  /\ pc[w] = "gates"
  /\ \/ /\ snap[w].mode = "OFF"
        /\ Finish(w)
        /\ UNCHANGED row
     \/ /\ snap[w].mode # "OFF"
        /\ snap[w].takeover # 0 \/ on[w] \in Acks
        /\ Skip(w)
     \/ /\ snap[w].mode # "OFF"
        /\ snap[w].takeover = 0
        /\ on[w] \notin Acks
        /\ Goto(w, "debounce") /\ Stay
        /\ UNCHANGED row
  /\ UNCHANGED <<thread, mirror, conversation, armed, sweep, quiet, patches>>

\* The debounce: a newer message in the mirror owns the reply.
Debounce(w) ==
  /\ pc[w] = "debounce"
  /\ IF NewerInbound(on[w])
       THEN Skip(w)
       ELSE Goto(w, "draft") /\ Stay /\ UNCHANGED row
  /\ UNCHANGED <<thread, mirror, conversation, armed, sweep, quiet, patches>>

\* Mutant: a status the enum does not have.
DraftUnknown(w) ==
  /\ pc[w] = "draft"
  /\ row' = [row EXCEPT ![on[w]] = "DRAFTED"]
  /\ Goto(w, "deliver") /\ Stay
  /\ UNCHANGED <<thread, mirror, conversation, armed, sweep, quiet, patches>>

\* The model answers and the draft is stored, once per message.
Draft(w) ==
  /\ pc[w] = "draft"
  /\ IF row[on[w]] = "NONE"
       THEN /\ row' = [row EXCEPT ![on[w]] = "PENDING"]
            /\ Goto(w, "deliver") /\ Stay
       ELSE Finish(w) /\ UNCHANGED row
  /\ UNCHANGED <<thread, mirror, conversation, armed, sweep, quiet, patches>>

\* The model call throws: the job is queued again.
GenerationFails(w) ==
  /\ "llm" \in Events
  /\ pc[w] = "draft"
  /\ Leave(w, "waiting")
  /\ UNCHANGED <<thread, mirror, conversation, armed, row, sweep, quiet, patches>>

\* deliverDraft: held in draft mode, skipped if the prospect has written
\* again, else claimed for sending, with the conversation read anew.
DeliverDraft(w) ==
  /\ pc[w] = "deliver"
  /\ \/ /\ snap[w].mode = "DRAFT"
        /\ row' = [row EXCEPT ![on[w]] = "HELD"]
        /\ Finish(w)
     \/ /\ snap[w].mode = "AUTO"
        /\ NewerInbound(on[w])
        /\ row' = [row EXCEPT ![on[w]] = "SKIPPED"]
        /\ Finish(w)
     \/ /\ snap[w].mode = "AUTO"
        /\ ~NewerInbound(on[w])
        /\ row' = [row EXCEPT ![on[w]] = "SENDING"]
        /\ snap' = [snap EXCEPT ![w] = Conversation]
        /\ Goto(w, "send")
        /\ UNCHANGED <<job, on, sent, burst>>
  /\ UNCHANGED <<thread, mirror, conversation, armed, sweep, quiet, patches>>

\* The reply is on Instagram; its echo is on the way.
Send(w) ==
  /\ pc[w] = "send"
  /\ Say("setter", on[w])
  /\ sent' = [sent EXCEPT ![w] = Len(thread')]
  /\ Goto(w, "record")
  /\ UNCHANGED <<mirror, conversation, job, armed, row, on, snap, burst, sweep,
                 quiet, patches>>

\* The answer came: the reply is mirrored as the setter's, unless the mirror
\* has it, ...
RecordReply(w) ==
  /\ pc[w] = "record"
  /\ mirror' = [mirror EXCEPT ![sent[w]] = IF @ = "NONE" THEN "AI" ELSE @]
  /\ Goto(w, "mark") /\ Stay
  /\ UNCHANGED <<thread, conversation, armed, row, sweep, quiet, patches>>

\* ... and put on the conversation at the local time, the row becomes SENT
\* and the nudge is armed once more.
MarkSent(w) ==
  /\ pc[w] = "mark"
  /\ lastOut' = Len(thread)
  /\ row' = [row EXCEPT ![on[w]] = "SENT"]
  /\ armed' = IF snap[w].mode = "OFF" THEN armed
              ELSE armed \cup {snap[w].lastIn}
  /\ Finish(w)
  /\ UNCHANGED <<thread, mirror, lastIn, takeover, mode, sweep, quiet, patches>>

-----------------------------------------------------------------------------
(* The sweep *)

\* The newest messages of the thread are read from Instagram.
SweepRead ==
  /\ "sweep" \in Events
  /\ sweep.pc = "idle"
  /\ thread # << >>
  /\ sweep' = [pc |-> "mirror", seen |-> Len(thread), missed |-> 0,
               at |-> IF Len(thread) > PageSize THEN Len(thread) - PageSize + 1 ELSE 1]
  /\ UNCHANGED <<thread, mirror, conversation, job, armed, row, slots, quiet,
                 patches>>

SweepGoesTo(at) ==
  [sweep EXCEPT !.at = at, !.pc = IF at > sweep.seen THEN "hand" ELSE "mirror"]

\* Mutant: only the prospect's messages are backfilled.
SweepInbound ==
  /\ sweep.pc = "mirror"
  /\ LET m == sweep.at IN
     IF mirror[m] # "NONE" \/ ~HasText(m) \/ ~Inbound(m)
       THEN sweep' = SweepGoesTo(m + 1) /\ UNCHANGED mirror
       ELSE /\ mirror' = [mirror EXCEPT ![m] = "PARTICIPANT"]
            /\ sweep' = [sweep EXCEPT !.pc = "anchor", !.missed = m]
  /\ UNCHANGED <<thread, conversation, job, armed, row, slots, quiet, patches>>

\* Oldest first, a message the mirror lacks is added to it, if it has text.
SweepMirror ==
  /\ sweep.pc = "mirror"
  /\ LET m == sweep.at IN
     IF mirror[m] # "NONE" \/ ~HasText(m)
       THEN sweep' = SweepGoesTo(m + 1) /\ UNCHANGED mirror
       ELSE /\ mirror' = [mirror EXCEPT ![m] =
                            IF Inbound(m) THEN "PARTICIPANT" ELSE "HUMAN"]
            /\ sweep' = [sweep EXCEPT !.pc = "anchor",
                                      !.missed = IF Inbound(m) THEN m ELSE 0]
  /\ UNCHANGED <<thread, conversation, job, armed, row, slots, quiet, patches>>

\* Its time becomes the anchor of its direction.
SweepAnchor ==
  /\ sweep.pc = "anchor"
  /\ IF Inbound(sweep.at)
       THEN lastIn' = sweep.at /\ UNCHANGED lastOut
       ELSE lastOut' = sweep.at /\ UNCHANGED lastIn
  /\ sweep' = SweepGoesTo(sweep.at + 1)
  /\ UNCHANGED <<thread, mirror, takeover, mode, job, armed, row, slots, quiet,
                 patches>>

\* The newest backfilled message, if the prospect's, is queued under the job
\* id of the webhook.
SweepHandOver ==
  /\ sweep.pc = "hand"
  /\ sweep' = NoSweep
  /\ job' = IF sweep.missed # 0 /\ job[sweep.missed] = "none"
              THEN [job EXCEPT ![sweep.missed] = "waiting"] ELSE job
  /\ UNCHANGED <<thread, mirror, conversation, armed, row, slots, quiet, patches>>

-----------------------------------------------------------------------------
(* The specification *)

Run(w) ==
  \/ Upsert(w)
  \/ MirrorMessage(w)
  \/ TakeOver(w)
  \/ Arm(w)
  \/ Gates(w)
  \/ Debounce(w)
  \/ Draft(w)
  \/ DeliverDraft(w)
  \/ Send(w)
  \/ RecordReply(w)
  \/ MarkSent(w)

Sweep == SweepRead \/ SweepMirror \/ SweepAnchor \/ SweepHandOver

Next ==
  \/ ProspectWrites
  \/ OthersWrite
  \/ \E m \in Modes: SetMode(m)
  \/ \E m \in Mids: Deliver(m)
  \/ \E w \in Workers, m \in Mids: TakeJob(w, m)
  \/ \E w \in Workers: Run(w)
  \/ \E w \in Workers: GenerationFails(w)
  \/ Sweep

Spec == Init /\ [][Next]_vars

(***************************************************************************)
(* BullMQ runs what is queued and a run goes on to its end; the interval   *)
(* timer starts sweep after sweep, and the thread is among those it reads; *)
(* Meta delivers every event, unless "lost" says otherwise.  Nobody has to *)
(* write.                                                                  *)
(***************************************************************************)
Fairness ==
  /\ \A m \in Mids: WF_vars("lost" \notin Events /\ Deliver(m))
  /\ \A m \in Mids: WF_vars(\E w \in Workers: TakeJob(w, m))
  /\ \A w \in Workers: WF_vars(Run(w))
  /\ WF_vars(Sweep)

FairSpec == Spec /\ Fairness

-----------------------------------------------------------------------------
(* Properties *)

\* The state of the thread and its jobs.
TypeOK ==
  /\ thread \in Seq([by: Authors, to: Times])
  /\ Len(thread) \in Times
  /\ mirror \in [Mids -> Sources]
  /\ {lastIn, lastOut, takeover} \subseteq Times
  /\ mode \in Modes
  /\ job \in [Mids -> {"none", "waiting", "active", "done"}]
  /\ armed \subseteq Mids
  /\ row \in [Mids -> {"NONE", "PENDING", "HELD", "SENDING", "SENT", "SKIPPED"}]
  /\ pc \in [Workers -> Places]
  /\ on \in [Workers -> Times]
  /\ snap \in [Workers -> [takeover: Times, mode: Modes,
                           lastIn: Times]]
  /\ sent \in [Workers -> Times]
  /\ sweep \in [pc: {"idle", "mirror", "anchor", "hand"}, seen: Times,
                at: 0..(2 * MaxWrites + 1), missed: Times]
  /\ burst \in [Workers -> BOOLEAN]
  /\ quiet \subseteq Mids
  /\ patches \in 0..MaxPatches

SetterSays == thread' # thread /\ thread'[Len(thread')].by = "setter"

\* Once a human's reply is recorded, what the prospect writes after it gets
\* no reply of the setter until the owner hands the thread back.
SetterStepsAside ==
  [][SetterSays => thread'[Len(thread')].to \notin quiet]_vars

Settled(m) == row[m] \in {"HELD", "SENT"}

Answered(m) ==
  \/ \E n \in Mids: n >= m /\ Settled(n)
  \/ takeover # 0 \/ mode = "OFF"

\* A message of the prospect that asks for an answer gets one, or a draft
\* for review, to it or to a later one, unless the thread is paused or
\* switched off: superseded messages never leave the reply to nobody.
ProspectIsAnswered ==
  \A m \in Mids \ Acks: m \in FromProspect ~> Answered(m)

\* The job of m gives no answer: m is a bare acknowledgement, or m is in the mirror
\* before its job has come that far, put there by the sweep or by an earlier attempt
\* whose model call failed.
DeadEnd(m) ==
  /\ m \in FromProspect
  /\ \/ m \in Acks
     \/ /\ mirror[m] # "NONE"
        /\ \/ job[m] = "none"
           \/ \E w \in Workers: on[w] = m /\ pc[w] \in {"upsert", "mirror"}

\* A message that got into the mirror is answered, it or a later one, unless its job
\* or that of a later one is such a dead end: whatever webhook calls are lost, model
\* calls fail and however the debounces interleave.
HeardIsAnswered ==
  \A m \in Mids \ Acks:
    <>(m \in FromProspect /\ mirror[m] # "NONE")
      => <>(m \in FromProspect /\ (Answered(m) \/ \E n \in Mids: n >= m /\ DeadEnd(n)))

\* Every message with a text, whoever sent it, gets into the mirror, be its webhook
\* call lost and its sweep late, unless newer ones fill the page before.
MirrorCompletes ==
  \A m \in Mids:
    m \in Written /\ HasText(m) ~> mirror[m] # "NONE" \/ m + PageSize <= Len(thread)

\* A row with source HUMAN is a human's message, not an API send of ours.
EchoIsHuman == \A m \in Written: mirror[m] = "HUMAN" => thread[m].by = "human"

\* A human's reply whose job is over has paused the setter, unless the owner
\* has handed the thread back.
HumanIsHeard ==
  \A m \in Written:
    thread[m].by = "human" /\ job[m] = "done" => takeover # 0 \/ patches > 0

\* A job does not reply while a newer message was waiting beside it already.
OneReplyPerBurst == \A w \in Workers: pc[w] = "send" => ~burst[w]

\* A reply of the setter is never sent under a recorded takeover.
NoReplyUnderTakeover == [][SetterSays => takeover = 0]_vars

AtRest ==
  /\ sweep.pc = "idle"
  /\ \A w \in Workers: pc[w] = "idle"
  /\ \A m \in Mids: job[m] # "waiting"

\* When a nudge fires, hours after the last message, and its anchor is not
\* lastInboundAt any more, a newer window has a job of its own.
StaleNudgeHasNewer ==
  AtRest => \A a \in armed: lastIn # a => \E b \in armed: b > a

\* The setter keeps out of a thread that a human has taken, and the thread, its
\* mirror and the jobs stay well formed.
ThreadHolds == []TypeOK /\ SetterStepsAside
=============================================================================
