---------------------------- MODULE RevealProofs ----------------------------
(***************************************************************************)
(* What Reveal says of the gate, of the row and of the quota, proved for   *)
(* any taps, job slots, attempts, limit and faults.                        *)
(***************************************************************************)
EXTENDS Reveal, Counting

\* The places of a run that has passed the gate and may still send, ...
PastGate == {"reserve", "template", "text"}
\* ... and of one whose link has arrived.
PastLink == {"thanks", "record", "return"}

RunsTyped == /\ pc \in [Workers -> Places]
             /\ gate \in [Workers -> BOOLEAN]
             /\ campaign \in [checks: BOOLEAN, gated: BOOLEAN, linked: BOOLEAN,
                              followUp: BOOLEAN]
             /\ on \in [Workers -> JobIds \cup {NoJob}]
             /\ reveals \in Nat

\* Who follows is entitled, and so is everyone whose run found the campaign
\* gated, had to check it, and is past the gate.
Guarded ==
  /\ follows => entitled
  /\ \A w \in Workers: gate[w] /\ MustCheck(w) /\ pc[w] \in PastGate => entitled

\* A SENT row and a run that is about to write one have their link.
Backed ==
  /\ row = "SENT" => reveals > 0
  /\ \A w \in Workers: pc[w] \in PastLink => reveals > 0

IInv == RunsTyped /\ Guarded /\ Backed

-----------------------------------------------------------------------------

\* Every behaviour starts with nothing sent and nothing written.
LEMMA InitInv == Init => IInv
<1>1. Init => RunsTyped
  BY DEF Init, RunsTyped, Places, Holding
<1>2. Init => Guarded
  BY DEF Init, Guarded, PastGate
<1>3. Init => Backed
  BY DEF Init, Backed, PastLink
<1>4. QED
  BY <1>1, <1>2, <1>3 DEF IInv

\* What happens outside the handler moves runs to its first step at most,
\* and a change of the follow is remembered.
LEMMA OutsideInv ==
  ASSUME IInv,
         \/ ChangeFollow
         \/ SwitchGate
         \/ \E t \in Taps: Tap(t)
         \/ ReadEvent
         \/ \E j \in JobIds: Forget(j)
         \/ \E w \in Workers, j \in JobIds: TakeJob(w, j)
  PROVE  IInv'
<1> USE DEF IInv, RunsTyped, Guarded, Backed, PastGate, PastLink, Places, Holding,
            MustCheck, ByFallback
<1>1. CASE ChangeFollow
  BY <1>1 DEF ChangeFollow, slots
<1>2. CASE SwitchGate
  BY <1>2 DEF SwitchGate, slots, seen
<1>3. ASSUME NEW t \in Taps, Tap(t) PROVE IInv'
  BY <1>3 DEF Tap, seen
<1>4. CASE ReadEvent
  BY <1>4 DEF ReadEvent, seen
<1>5. ASSUME NEW j \in JobIds, Forget(j) PROVE IInv'
  BY <1>5 DEF Forget, seen
<1>6. ASSUME NEW w \in Workers, NEW j \in JobIds, TakeJob(w, j) PROVE IInv'
  BY <1>6 DEF TakeJob, Goto, seen
<1>7. QED
  BY <1>1, <1>2, <1>3, <1>4, <1>5, <1>6

\* A run gets past the gate of a gated campaign by Check alone, which lets
\* through who follows or cannot be asked.
LEMMA GateInv ==
  ASSUME IInv, NEW w \in Workers, Find(w) \/ Check(w) \/ Prompt(w)
  PROVE  IInv'
<1> USE DEF IInv, RunsTyped, Guarded, Backed, PastGate, PastLink, Places, Holding,
            MustCheck, ByFallback
<1>1. CASE Find(w)
  <2>1. UNCHANGED <<campaign, follows, row, reveals, entitled>>
    BY <1>1 DEF Find
  <2>2. CASE ByFallback(w) /\ row = "SENT"
    <3>1. /\ pc' = [pc EXCEPT ![w] = "idle"]
          /\ gate' = [gate EXCEPT ![w] = FALSE]
          /\ on' = [on EXCEPT ![w] = NoJob]
      BY <1>1, <2>2 DEF Find, Finish, Rest, Goto
    <3>2. RunsTyped' /\ Backed'
      BY <2>1, <3>1
    <3>3. Guarded'
      BY <2>1, <3>1
    <3>4. QED
      BY <3>2, <3>3
  <2>3. CASE ~(ByFallback(w) /\ row = "SENT")
    <3>1. /\ pc' = [pc EXCEPT ![w] = IF campaign.gated /\ MustCheck(w)
                                     THEN "check" ELSE "reserve"]
          /\ gate' = [gate EXCEPT ![w] = campaign.gated]
          /\ on' = on
      BY <1>1, <2>3 DEF Find, Goto, LoadCampaign
    <3>2. campaign.gated \in BOOLEAN
      OBVIOUS
    <3>3. RunsTyped' /\ Backed'
      BY <2>1, <3>1, <3>2
    <3>4. Guarded'
      BY <2>1, <3>1
    <3>5. QED
      BY <3>3, <3>4
  <2>4. QED
    BY <2>2, <2>3
<1>2. CASE Check(w)
  BY <1>2 DEF Check, Goto, Stay, Finish, Rest, Fault
<1>3. CASE Prompt(w)
  BY <1>3 DEF Prompt, Finish, Rest, Goto, Fault
<1>4. QED
  BY <1>1, <1>2, <1>3

\* One call sends a run past the link only with a link.
LEMMA LinkInv ==
  ASSUME IInv, NEW w \in Workers, NEW or \in {"text", "release"},
         pc[w] \in {"template", "text"}, SendLink(w, or)
  PROVE  IInv'
<1> USE DEF IInv, RunsTyped, Guarded, Backed, PastGate, PastLink, Places, Holding,
            MustCheck, ByFallback
<1>1. reveals' = reveals \/ reveals' = reveals + 1
  BY DEF SendLink
<1>2. UNCHANGED <<campaign, follows, row, entitled, gate, on>>
  BY DEF SendLink, Stay
<1>3. \/ pc' = [pc EXCEPT ![w] = or]
      \/ /\ pc' = [pc EXCEPT ![w] = AfterLink]
         /\ reveals' = reveals + 1
  BY DEF SendLink, Goto
<1>4. AfterLink \in {"thanks", "record"}
  BY DEF AfterLink
<1>5. RunsTyped'
  BY <1>1, <1>2, <1>3, <1>4
<1>6. Guarded'
  BY <1>1, <1>2, <1>3, <1>4
<1>7. Backed'
  BY <1>1, <1>2, <1>3, <1>4
<1>8. QED
  BY <1>5, <1>6, <1>7

\* The rest of the handler: SENT is written behind the link only, and the
\* ways out lead to no place with a claim on it.
LEMMA EndInv ==
  ASSUME IInv, NEW w \in Workers,
         \/ Reserve(w) \/ SendThanks(w) \/ Record(w) \/ Return(w)
         \/ Release(w) \/ MarkFailed(w) \/ QueryFails(w) \/ Crash(w)
  PROVE  IInv'
<1> USE DEF IInv, RunsTyped, Guarded, Backed, PastGate, PastLink, Places, Holding,
            MustCheck, ByFallback, Goto, Stay
<1>1. CASE Reserve(w)
  BY <1>1 DEF Reserve, Finish, Rest
<1>2. CASE SendThanks(w)
  BY <1>2 DEF SendThanks, seen
<1>3. CASE Record(w)
  BY <1>3 DEF Record
<1>4. CASE Return(w)
  BY <1>4 DEF Return, Finish, Rest, seen
<1>5. CASE Release(w)
  BY <1>5 DEF Release, Throw, Rest
<1>6. CASE MarkFailed(w)
  BY <1>6 DEF MarkFailed, Throw, Rest
<1>7. CASE QueryFails(w)
  BY <1>7 DEF QueryFails, Throw, Rest, seen
<1>8. CASE Crash(w)
  BY <1>8 DEF Crash, Rest
<1>9. QED
  BY <1>1, <1>2, <1>3, <1>4, <1>5, <1>6, <1>7, <1>8

\* Every step keeps the invariant.
LEMMA NextInv == IInv /\ [Next]_vars => IInv'
<1> SUFFICES ASSUME IInv, [Next]_vars PROVE IInv'
  OBVIOUS
<1>1. ASSUME NEW w \in Workers, Run(w) PROVE IInv'
  <2>1. CASE SendTemplate(w)
    BY <2>1, LinkInv DEF SendTemplate
  <2>2. CASE SendText(w)
    BY <2>2, LinkInv DEF SendText
  <2>3. QED
    BY <1>1, <2>1, <2>2, GateInv, EndInv DEF Run
<1>2. CASE UNCHANGED vars
  BY <1>2 DEF vars, slots, seen, IInv, RunsTyped, Guarded, Backed, MustCheck,
              ByFallback
<1>3. QED
  BY <1>1, <1>2, OutsideInv, EndInv DEF Next

\* A link arrives in a step of one run, which is past the gate.
LEMMA OnlySendsReveal ==
  ASSUME IInv, [Next]_vars, NEW w \in Workers,
         pc[w] # pc'[w], reveals' > reveals
  PROVE  pc[w] \in PastGate
<1> USE DEF IInv, RunsTyped, PastGate
<1>1. CASE UNCHANGED vars
  BY <1>1 DEF vars, slots, seen
<1>2. ASSUME NEW v \in Workers, NEW or, SendLink(v, or),
             pc[v] \in {"template", "text"}
      PROVE  pc[w] \in PastGate
  <2>1. v = w
    BY <1>2 DEF SendLink, Goto
  <2>2. QED
    BY <1>2, <2>1
<1>3. ASSUME NEW v \in Workers, Run(v) PROVE pc[w] \in PastGate
  <2>1. CASE SendTemplate(v)
    BY <2>1, <1>2 DEF SendTemplate
  <2>2. CASE SendText(v)
    BY <2>2, <1>2 DEF SendText
  <2>3. CASE Find(v) \/ Check(v) \/ Prompt(v) \/ Reserve(v)
    BY <2>3 DEF Find, Check, Prompt, Reserve
  <2>4. CASE SendThanks(v) \/ Record(v) \/ Return(v) \/ Release(v)
               \/ MarkFailed(v)
    BY <2>4 DEF SendThanks, Record, Return, Release, MarkFailed, seen
  <2>5. QED
    BY <1>3, <2>1, <2>2, <2>3, <2>4 DEF Run
<1>4. ASSUME NEW v \in Workers, QueryFails(v) \/ Crash(v)
      PROVE  pc[w] \in PastGate
  BY <1>4 DEF QueryFails, Crash, seen
<1>5. ASSUME \/ ChangeFollow \/ SwitchGate \/ ReadEvent
             \/ \E t \in Taps: Tap(t)
             \/ \E j \in JobIds: Forget(j)
             \/ \E v \in Workers, j \in JobIds: TakeJob(v, j)
      PROVE  pc[w] \in PastGate
  BY <1>5 DEF ChangeFollow, SwitchGate, ReadEvent, Tap, Forget, TakeJob, seen
<1>6. QED
  BY <1>1, <1>3, <1>4, <1>5 DEF Next

\* The invariant holds in every behaviour.
THEOREM Invariance == Spec => []IInv
BY InitInv, NextInv, PTL DEF Spec

\* The follow gate holds: whatever is tapped, read, retried or interrupted,
\* a run of processPostback that has a gate to check sends no link to a user
\* who never followed, unless the follow status could not be read.
THEOREM GateIsHeld == Spec => GateHolds
<1>1. ASSUME IInv, [Next]_vars, NEW w \in Workers,
             gate[w], MustCheck(w), pc[w] # pc'[w], reveals' > reveals
      PROVE  entitled
  <2>1. pc[w] \in PastGate
    BY <1>1, OnlySendsReveal
  <2>2. QED
    BY <1>1, <2>1 DEF IInv, Guarded
<1>2. IInv /\ [Next]_vars =>
        [\A w \in Workers:
           /\ gate[w] /\ MustCheck(w)
           /\ pc[w] # pc'[w] /\ reveals' > reveals
           => entitled]_vars
  BY <1>1
<1>3. QED
  BY <1>2, Invariance, PTL DEF Spec, GateHolds

\* A reveal's DmLog row says SENT only of a link that arrived, whatever runs
\* beside, fails or dies.
THEOREM LogHolds == Spec => []LogIsTrue
<1>1. IInv => LogIsTrue
  BY DEF IInv, Backed, LogIsTrue
<1>2. QED
  BY <1>1, Invariance, PTL

-----------------------------------------------------------------------------
(***************************************************************************)
(* The quota.  A unit is taken when a run enters Holding, and the release  *)
(* happens inside it: so every run there has a unit of its own in used,    *)
(* whatever was lost before, and giving one back takes used not below 0.   *)
(* As long as nothing was lost, used is exactly what has arrived and what  *)
(* is still to be sent or given back.                                      *)
(***************************************************************************)

JobRecords == [state: {"absent", "waiting", "active", "completed", "failed"},
               attempts: 0..MaxAttempts, stalls: 0..(MaxStalls + 1)]

\* A job that may still run has attempts left and was not stalled too often.
MayRun(r) ==
  r.state \in {"absent", "waiting", "active"}
    => r.attempts < MaxAttempts /\ r.stalls <= MaxStalls

\* A run has its job to itself, and the job is active.
OwnJobs ==
  /\ \A w \in Workers:
       pc[w] # "idle" => on[w] \in JobIds /\ job[on[w]].state = "active"
  /\ \A v, w \in Workers:
       v # w /\ pc[v] # "idle" /\ pc[w] # "idle" => on[v] # on[w]

JobsInv ==
  /\ job \in [JobIds -> JobRecords]
  /\ pc \in [Workers -> Places]
  /\ on \in [Workers -> JobIds \cup {NoJob}]
  /\ gate \in [Workers -> BOOLEAN]
  /\ \A j \in JobIds: MayRun(job[j])
  /\ OwnJobs

DataInv ==
  /\ campaign \in [checks: BOOLEAN, gated: BOOLEAN, linked: BOOLEAN,
                    followUp: BOOLEAN]
  /\ follows \in BOOLEAN
  /\ row \in RowStates
  /\ reveals \in Nat
  /\ out \in [JobIds -> Outcomes]
  /\ entitled \in BOOLEAN
  /\ clean \in BOOLEAN
  /\ faults \in 0..MaxFaults

\* Runs whose unit is reserved and whose link is not out.
Unsent == {"template", "text", "release"}

UnitsInv ==
  /\ used \in 0..Limit
  /\ Number(Workers, pc, Holding) <= used
  /\ clean => used = reveals + Number(Workers, pc, Unsent)

CountInv == JobsInv /\ DataInv /\ UnitsInv

LEMMA CountInit == Init => CountInv
<1> SUFFICES ASSUME Init PROVE CountInv
  OBVIOUS
<1>1. JobsInv
  <2>1. NewJob \in JobRecords /\ MayRun(NewJob)
    BY RevealBounds DEF NewJob, JobRecords, MayRun
  <2>2. QED
    BY <2>1 DEF Init, JobsInv, OwnJobs, Places
<1>2. DataInv
  BY RevealBounds DEF Init, DataInv, RowStates, Outcomes
<1>3. UnitsInv
  <2>1. ASSUME NEW P, "idle" \notin P PROVE Number(Workers, pc, P) = 0
    <3>1. {w \in Workers: pc[w] \in P} = {}
      BY <2>1 DEF Init
    <3>2. QED
      BY <3>1, FS_EmptySet DEF Number
  <2>2. Number(Workers, pc, Holding) = 0 /\ Number(Workers, pc, Unsent) = 0
    BY <2>1 DEF Holding, Unsent
  <2>3. QED
    BY <2>2, RevealBounds DEF Init, UnitsInv
<1>4. QED
  BY <1>1, <1>2, <1>3 DEF CountInv

\* A run that goes on keeps its job.
LEMMA GoesOn ==
  ASSUME JobsInv, NEW w \in Workers, NEW to \in Places, pc[w] # "idle",
         Goto(w, to), Stay \/ LoadCampaign(w), DataInv
  PROVE  JobsInv'
BY DEF JobsInv, OwnJobs, Goto, Stay, LoadCampaign, DataInv

\* A run that ends leaves its job completed, waiting or failed.
LEMMA Leaves ==
  ASSUME JobsInv, NEW w \in Workers, pc[w] # "idle", Rest(w),
         NEW r \in JobRecords, MayRun(r), r.state # "active",
         job' = [job EXCEPT ![on[w]] = r]
  PROVE  JobsInv'
<1> USE DEF JobsInv, OwnJobs
<1>1. /\ pc' = [pc EXCEPT ![w] = "idle"]
      /\ on' = [on EXCEPT ![w] = NoJob]
      /\ gate' = [gate EXCEPT ![w] = FALSE]
  BY DEF Rest, Goto
<1>2. on[w] \in JobIds
  OBVIOUS
<1>3. job' \in [JobIds -> JobRecords] /\ \A j \in JobIds: MayRun(job'[j])
  BY <1>2
<1>4. \A j \in JobIds: j # on[w] => job'[j] = job[j]
  BY <1>2
<1>5. (\A j \in JobIds: MayRun(job[j]))'
  BY <1>3 DEF MayRun
<1>6. OwnJobs'
  BY <1>1, <1>2, <1>4
<1>7. QED
  BY <1>1, <1>3, <1>5, <1>6 DEF Places

LEMMA Ends ==
  ASSUME JobsInv, NEW w \in Workers, pc[w] # "idle",
         Finish(w) \/ Throw(w) \/ Crash(w)
  PROVE  JobsInv' /\ pc' = [pc EXCEPT ![w] = "idle"]
<1> DEFINE old == job[on[w]]
<1>1. old \in JobRecords /\ MayRun(old) /\ old.state = "active"
  BY DEF JobsInv, OwnJobs
<1>2. CASE Finish(w)
  <2> DEFINE r == [old EXCEPT !.state = "completed"]
  <2>1. r \in JobRecords /\ MayRun(r) /\ r.state # "active"
    BY <1>1 DEF JobRecords, MayRun
  <2>2. job' = [job EXCEPT ![on[w]] = r] /\ Rest(w)
    BY <1>2 DEF Finish
  <2>3. QED
    BY <2>1, <2>2, Leaves DEF Rest, Goto
<1>3. CASE Throw(w)
  <2> DEFINE tried == old.attempts + 1
             state == IF tried < MaxAttempts THEN "waiting" ELSE "failed"
             r == [old EXCEPT !.attempts = tried, !.state = state]
  <2>1. /\ tried \in 0..MaxAttempts
        /\ state \in {"waiting", "failed"}
        /\ state = "waiting" => tried < MaxAttempts
    BY <1>1, RevealBounds DEF JobRecords, MayRun
  <2>2. job' = [job EXCEPT ![on[w]] = r] /\ Rest(w)
    BY <1>3 DEF Throw
  <2> HIDE DEF tried, state
  <2>3. r \in JobRecords /\ MayRun(r) /\ r.state # "active"
    BY <1>1, <2>1 DEF JobRecords, MayRun
  <2>4. QED
    BY <2>2, <2>3, Leaves DEF Rest, Goto
<1>4. CASE Crash(w)
  <2> DEFINE stalls == old.stalls + 1
             state == IF stalls > MaxStalls THEN "failed" ELSE "waiting"
             r == [old EXCEPT !.stalls = stalls, !.state = state]
  <2>1. /\ stalls \in 0..(MaxStalls + 1)
        /\ state \in {"waiting", "failed"}
        /\ state = "waiting" => stalls <= MaxStalls
    BY <1>1, RevealBounds DEF JobRecords, MayRun
  <2>2. job' = [job EXCEPT ![on[w]] = r] /\ Rest(w)
    BY <1>4 DEF Crash
  <2> HIDE DEF stalls, state
  <2>3. r \in JobRecords /\ MayRun(r) /\ r.state # "active"
    BY <1>1, <2>1 DEF JobRecords, MayRun
  <2>4. QED
    BY <2>2, <2>3, Leaves DEF Rest, Goto
<1>5. QED
  BY <1>2, <1>3, <1>4

\* What comes from outside queues, forgets or starts jobs, one run at most on
\* each.
LEMMA OutsideJobs ==
  ASSUME CountInv,
         \/ ChangeFollow
         \/ SwitchGate
         \/ \E t \in Taps: Tap(t)
         \/ ReadEvent
         \/ \E j \in JobIds: Forget(j)
         \/ \E w \in Workers, j \in JobIds: TakeJob(w, j)
  PROVE  JobsInv'
<1> USE DEF CountInv, JobsInv, OwnJobs
<1>1. ASSUME NEW j \in JobIds, Add(j), UNCHANGED <<pc, on, gate>>
      PROVE  JobsInv'
  <2>1. CASE job' = job
    <3>1. UNCHANGED <<job, pc, on, gate>>
      BY <1>1, <2>1
    <3>2. QED
      BY <3>1
  <2>2. CASE job[j].state = "absent" /\ job' = [job EXCEPT ![j].state = "waiting"]
    <3>1. job' \in [JobIds -> JobRecords]
      BY <2>2 DEF JobRecords
    <3>2. \A i \in JobIds: MayRun(job'[i])
      BY <2>2 DEF JobRecords, MayRun
    <3>3. OwnJobs'
      BY <1>1, <2>2
    <3>4. QED
      BY <1>1, <3>1, <3>2, <3>3
  <2>3. QED
    BY <1>1, <2>1, <2>2 DEF Add
<1>2. CASE ChangeFollow \/ SwitchGate
  BY <1>2 DEF ChangeFollow, SwitchGate, slots
<1>3. ASSUME NEW t \in Taps, Tap(t) PROVE JobsInv'
  BY <1>1, <1>3 DEF Tap, JobIds
<1>4. CASE ReadEvent
  BY <1>1, <1>4 DEF ReadEvent, JobIds
<1>5. ASSUME NEW j \in JobIds, Forget(j) PROVE JobsInv'
  <2>1. NewJob \in JobRecords /\ NewJob.state = "absent"
    BY RevealBounds DEF NewJob, JobRecords
  <2>2. MayRun(NewJob)
    BY RevealBounds DEF NewJob, MayRun
  <2>3. job' = [job EXCEPT ![j] = NewJob] /\ job[j].state = "failed"
    BY <1>5 DEF Forget
  <2>4. /\ job' \in [JobIds -> JobRecords]
        /\ \A i \in JobIds: MayRun(job'[i])
    BY <2>1, <2>2, <2>3
  <2>5. OwnJobs'
    BY <1>5, <2>3 DEF Forget
  <2>6. QED
    BY <1>5, <2>4, <2>5 DEF Forget, MayRun
<1>6. ASSUME NEW w \in Workers, NEW j \in JobIds, TakeJob(w, j) PROVE JobsInv'
  <2>1. /\ pc[w] = "idle" /\ job[j].state = "waiting"
        /\ job' = [job EXCEPT ![j].state = "active"]
        /\ on' = [on EXCEPT ![w] = j]
        /\ pc' = [pc EXCEPT ![w] = "find"]
        /\ gate' = gate
    BY <1>6 DEF TakeJob, Goto
  <2>2. job' \in [JobIds -> JobRecords] /\ (\A i \in JobIds: MayRun(job[i]))'
    BY <2>1 DEF JobRecords, MayRun
  <2>3. \A v \in Workers: pc[v] # "idle" => on[v] # j
    BY <2>1
  <2>4. OwnJobs'
    BY <2>1, <2>3
  <2>5. QED
    BY <2>1, <2>2, <2>4 DEF Places
<1>7. QED
  BY <1>2, <1>3, <1>4, <1>5, <1>6

\* Every step of a run takes it further or ends it.
LEMMA RunJobs ==
  ASSUME CountInv, NEW w \in Workers, Run(w) \/ QueryFails(w) \/ Crash(w)
  PROVE  JobsInv'
<1> USE DEF CountInv
<1> DEFINE Ahead == \E to \in Places: Goto(w, to) /\ (Stay \/ LoadCampaign(w))
           End == Finish(w) \/ Throw(w) \/ Crash(w)
<1>1. ASSUME pc[w] # "idle", Ahead \/ End PROVE JobsInv'
  BY <1>1, GoesOn, Ends
<1> HIDE DEF CountInv
<1>2. CASE Find(w)
  BY <1>1, <1>2 DEF Find, Places
<1>3. CASE Check(w) \/ Prompt(w) \/ Reserve(w)
  BY <1>1, <1>3 DEF Check, Prompt, Reserve, Places, Holding
<1>4. CASE SendTemplate(w) \/ SendText(w)
  BY <1>1, <1>4 DEF SendTemplate, SendText, SendLink, AfterLink, Places, Holding
<1>5. CASE SendThanks(w) \/ Record(w) \/ Return(w)
  BY <1>1, <1>5 DEF SendThanks, Record, Return, Places, Holding
<1>6. CASE Release(w) \/ MarkFailed(w) \/ QueryFails(w) \/ Crash(w)
  BY <1>1, <1>6 DEF Release, MarkFailed, QueryFails, Crash, Places
<1>7. QED
  BY <1>2, <1>3, <1>4, <1>5, <1>6 DEF Run

LEMMA JobsNext == CountInv /\ [Next]_vars => JobsInv'
<1>1. CASE UNCHANGED vars
  BY <1>1 DEF vars, slots, CountInv, JobsInv, OwnJobs
<1>2. QED
  BY <1>1, OutsideJobs, RunJobs DEF Next

\* The rows, flags and counters keep to their domains.
LEMMA DataNext == CountInv /\ [Next]_vars => DataInv'
<1> SUFFICES ASSUME CountInv, [Next]_vars PROVE DataInv'
  OBVIOUS
<1> USE DEF CountInv, DataInv, RowStates, Outcomes, seen
<1>1. ASSUME NEW e, Fault(e) PROVE faults' \in 0..MaxFaults
  BY <1>1, RevealBounds DEF Fault
<1>2. ASSUME NEW w \in Workers, NEW o \in Outcomes, ComesTo(w, o)
      PROVE  out' \in [JobIds -> Outcomes]
  BY <1>2 DEF ComesTo
<1>3. ASSUME NEW w \in Workers, Run(w) PROVE DataInv'
  <2>1. CASE Find(w)
    BY <1>2, <2>1 DEF Find
  <2>2. CASE Check(w)
    BY <1>1, <1>2, <2>2 DEF Check
  <2>3. CASE Prompt(w)
    BY <1>1, <1>2, <2>3 DEF Prompt
  <2>4. CASE Reserve(w)
    BY <1>2, <2>4 DEF Reserve
  <2>5. CASE SendTemplate(w) \/ SendText(w)
    <3>1. /\ UNCHANGED <<campaign, follows, row, out, entitled>>
          /\ reveals' \in {reveals, reveals + 1}
          /\ clean' = clean \/ clean' = FALSE
      BY <2>5 DEF SendTemplate, SendText, SendLink, Spoil
    <3>2. faults' \in 0..MaxFaults
      BY <1>1, <2>5 DEF SendTemplate, SendText, SendLink
    <3>3. clean' \in BOOLEAN /\ entitled' \in BOOLEAN /\ follows' \in BOOLEAN
      BY <3>1
    <3>4. reveals' \in Nat
      BY <3>1
    <3>5. campaign' = campaign /\ out' = out /\ row' = row
      BY <3>1
    <3>6. QED
      BY <3>2, <3>3, <3>4, <3>5
  <2>6. CASE SendThanks(w) \/ Return(w)
    BY <2>6 DEF SendThanks, Return
  <2>7. CASE Record(w)
    BY <1>1, <1>2, <2>7 DEF Record, Spoil
  <2>8. CASE Release(w) \/ MarkFailed(w)
    BY <1>1, <2>8 DEF Release, MarkFailed, Spoil
  <2>9. QED
    BY <1>3, <2>1, <2>2, <2>3, <2>4, <2>5, <2>6, <2>7, <2>8 DEF Run
<1>4. ASSUME NEW w \in Workers, QueryFails(w) \/ Crash(w) PROVE DataInv'
  BY <1>1, <1>4 DEF QueryFails, Crash, Spoil
<1>5. CASE ChangeFollow
  BY <1>5 DEF ChangeFollow
<1>6. CASE SwitchGate
  BY <1>6 DEF SwitchGate
<1>7. CASE \/ \E t \in Taps: Tap(t)
           \/ ReadEvent
           \/ \E j \in JobIds: Forget(j)
           \/ \E w \in Workers, j \in JobIds: TakeJob(w, j)
  BY <1>7 DEF Tap, ReadEvent, Forget, TakeJob
<1>8. CASE UNCHANGED vars
  BY <1>8 DEF vars
<1>9. QED
  BY <1>3, <1>4, <1>5, <1>6, <1>7, <1>8 DEF Next

\* How the two counts of runs go when one of them moves.
LEMMA UnitsMove ==
  ASSUME NEW w \in Workers, \A v \in Workers: v # w => pc'[v] = pc[v], NEW P
  PROVE  /\ Number(Workers, pc, P) \in Nat
         /\ pc[w] \in P => Number(Workers, pc, P) > 0
         /\ pc[w] \in P /\ pc'[w] \in P
              => Number(Workers, pc', P) = Number(Workers, pc, P)
         /\ pc[w] \notin P /\ pc'[w] \notin P
              => Number(Workers, pc', P) = Number(Workers, pc, P)
         /\ pc[w] \notin P /\ pc'[w] \in P
              => Number(Workers, pc', P) = Number(Workers, pc, P) + 1
         /\ pc[w] \in P /\ pc'[w] \notin P
              => Number(Workers, pc', P) = Number(Workers, pc, P) - 1
BY FiniteWorkers, NumberIsNat, NumberIsPositive, NumberAfter

LEMMA UnitsNext == CountInv /\ [Next]_vars => UnitsInv'
<1> SUFFICES ASSUME CountInv, [Next]_vars PROVE UnitsInv'
  OBVIOUS
<1>1. ASSUME NEW w \in Workers, Run(w) \/ QueryFails(w) \/ Crash(w)
      PROVE  UnitsInv'
  <2> DEFINE held == Number(Workers, pc, Holding)
             unsent == Number(Workers, pc, Unsent)
             held2 == Number(Workers, pc', Holding)
             unsent2 == Number(Workers, pc', Unsent)
  <2>1. /\ held \in Nat /\ unsent \in Nat /\ held2 \in Nat /\ unsent2 \in Nat
        /\ used \in 0..Limit /\ held <= used
        /\ clean => used = reveals + unsent
        /\ reveals \in Nat /\ clean \in BOOLEAN /\ Limit \in Nat
    BY FiniteWorkers, NumberIsNat, RevealBounds DEF CountInv, UnitsInv, DataInv
  <2>2. UnitsInv' <=> /\ used' \in 0..Limit /\ held2 <= used'
                      /\ clean' => used' = reveals' + unsent2
    BY DEF UnitsInv
  <2>3. \E to \in Places: pc' = [pc EXCEPT ![w] = to]
    <3>1. CASE Find(w) \/ Check(w) \/ Prompt(w) \/ Reserve(w) \/ QueryFails(w)
      BY <3>1, Ends DEF CountInv, Find, Check, Prompt, Reserve, QueryFails, Goto,
                        Places, Holding
    <3>2. CASE SendTemplate(w) \/ SendText(w)
      BY <3>2 DEF SendTemplate, SendText, SendLink, AfterLink, Goto, Places, Holding
    <3>3. CASE SendThanks(w) \/ Record(w) \/ Return(w) \/ Release(w)
                 \/ MarkFailed(w) \/ Crash(w)
      BY <3>3, Ends DEF CountInv, SendThanks, Record, Return, Release, MarkFailed,
                        Crash, Goto, Places, Holding
    <3>4. QED
      BY <1>1, <3>1, <3>2, <3>3 DEF Run
  <2>4. \A v \in Workers: v # w => pc'[v] = pc[v]
    BY <2>3 DEF CountInv, JobsInv
  <2>5. /\ pc[w] \in Holding => held > 0
        /\ pc[w] \in Holding /\ pc'[w] \in Holding => held2 = held
        /\ pc[w] \notin Holding /\ pc'[w] \notin Holding => held2 = held
        /\ pc[w] \notin Holding /\ pc'[w] \in Holding => held2 = held + 1
        /\ pc[w] \in Holding /\ pc'[w] \notin Holding => held2 = held - 1
    BY <2>4, UnitsMove
  <2>6. /\ pc[w] \in Unsent /\ pc'[w] \in Unsent => unsent2 = unsent
        /\ pc[w] \notin Unsent /\ pc'[w] \notin Unsent => unsent2 = unsent
        /\ pc[w] \notin Unsent /\ pc'[w] \in Unsent => unsent2 = unsent + 1
        /\ pc[w] \in Unsent /\ pc'[w] \notin Unsent => unsent2 = unsent - 1
    BY <2>4, UnitsMove
  <2>7. ASSUME NEW to, pc' = [pc EXCEPT ![w] = to] PROVE pc'[w] = to
    BY <2>7 DEF CountInv, JobsInv
  <2>8. pc[w] # "idle" /\ (Finish(w) \/ Throw(w) \/ Crash(w)) => pc'[w] = "idle"
    BY <2>7, Ends DEF CountInv
  <2>9. ASSUME NEW to, Goto(w, to) PROVE pc'[w] = to
    BY <2>7, <2>9 DEF Goto
  <2> HIDE DEF held, unsent, held2, unsent2
  <2> USE DEF Holding, Unsent, Stay
  <2>10. CASE Find(w) \/ Check(w) \/ Prompt(w)
    <3>1. /\ pc[w] \in {"find", "check", "prompt"}
          /\ pc'[w] \in {"check", "prompt", "reserve", "idle"}
      BY <2>8, <2>9, <2>10 DEF Find, Check, Prompt
    <3>2. UNCHANGED <<used, reveals, clean>>
      BY <2>10 DEF Find, Check, Prompt
    <3>3. QED
      BY <2>1, <2>2, <2>5, <2>6, <3>1, <3>2
  <2>11. CASE Reserve(w)
    <3>1. pc[w] = "reserve" /\ UNCHANGED <<reveals, clean>>
      BY <2>11 DEF Reserve
    <3>2. \/ /\ used < Limit /\ used' = used + 1
             /\ pc'[w] \in {"template", "text"}
          \/ used' = used /\ pc'[w] = "idle"
      BY <2>8, <2>9, <2>11, <3>1 DEF Reserve
    <3>3. QED
      BY <2>1, <2>2, <2>5, <2>6, <3>1, <3>2
  <2>12. CASE SendTemplate(w) \/ SendText(w)
    <3>1. pc[w] \in {"template", "text"} /\ used' = used
      BY <2>12 DEF SendTemplate, SendText, SendLink
    <3>2. \/ /\ reveals' = reveals + 1 /\ clean' = clean
             /\ pc'[w] \in {"thanks", "record"}
          \/ /\ clean' = FALSE \/ UNCHANGED <<reveals, clean>>
             /\ pc'[w] \in {"text", "release"}
      BY <2>9, <2>12 DEF SendTemplate, SendText, SendLink, AfterLink, Spoil
    <3>3. QED
      BY <2>1, <2>2, <2>5, <2>6, <3>1, <3>2
  <2>13. CASE SendThanks(w) \/ Record(w) \/ Return(w)
    <3>1. UNCHANGED <<used, reveals>>
      BY <2>13 DEF SendThanks, Record, Return, seen
    <3>2. \/ /\ <<pc[w], pc'[w]>> \in {<<"thanks", "record">>, <<"record", "return">>,
                                     <<"return", "idle">>}
             /\ clean' = clean
          \/ pc[w] = "record" /\ pc'[w] = "release" /\ clean' = FALSE
      BY <2>8, <2>9, <2>13 DEF SendThanks, Record, Return, seen, Spoil
    <3>3. QED
      BY <2>1, <2>2, <2>5, <2>6, <3>1, <3>2
  <2>14. CASE Release(w)
    <3>1. pc[w] = "release" /\ UNCHANGED reveals
      BY <2>14 DEF Release
    <3>2. pc'[w] \in {"failed", "idle"}
      BY <2>8, <2>9, <2>14, <3>1 DEF Release
    <3>3. \/ used' = used - 1 /\ UNCHANGED clean
          \/ used' = used /\ clean' = FALSE
      BY <2>14 DEF Release, Spoil
    <3>4. QED
      BY <2>1, <2>2, <2>5, <2>6, <3>1, <3>2, <3>3
  <2>15. CASE MarkFailed(w) \/ QueryFails(w)
    <3>1. pc[w] \in {"failed", "find", "reserve"} /\ pc'[w] = "idle"
      BY <2>8, <2>15 DEF MarkFailed, QueryFails
    <3>2. /\ UNCHANGED <<used, reveals>>
          /\ clean' = clean \/ clean' = FALSE
      BY <2>15 DEF MarkFailed, QueryFails, seen, Spoil
    <3>3. QED
      BY <2>1, <2>2, <2>5, <2>6, <3>1, <3>2
  <2>16. CASE Crash(w)
    <3>1. pc'[w] = "idle" /\ clean' = FALSE /\ used' = used
      BY <2>8, <2>16 DEF Crash, Spoil
    <3>2. QED
      BY <2>1, <2>2, <2>5, <3>1
  <2>17. QED
    BY <1>1, <2>10, <2>11, <2>12, <2>13, <2>14, <2>15, <2>16 DEF Run
<1>2. CASE \/ ChangeFollow \/ SwitchGate \/ ReadEvent
           \/ \E t \in Taps: Tap(t)
           \/ \E j \in JobIds: Forget(j)
           \/ UNCHANGED vars
  BY <1>2 DEF ChangeFollow, SwitchGate, ReadEvent, Tap, Forget, vars, slots,
              seen, CountInv, UnitsInv
<1>3. ASSUME NEW w \in Workers, NEW j \in JobIds, TakeJob(w, j)
      PROVE  UnitsInv'
  <2>1. pc[w] = "idle" /\ pc' = [pc EXCEPT ![w] = "find"]
    BY <1>3 DEF TakeJob, Goto
  <2>2. pc'[w] = "find" /\ \A v \in Workers: v # w => pc'[v] = pc[v]
    BY <2>1 DEF CountInv, JobsInv
  <2>3. pc[w] \notin Holding \cup Unsent /\ pc'[w] \notin Holding \cup Unsent
    BY <2>1, <2>2 DEF Holding, Unsent
  <2>4. /\ Number(Workers, pc', Holding) = Number(Workers, pc, Holding)
        /\ Number(Workers, pc', Unsent) = Number(Workers, pc, Unsent)
    BY <2>2, <2>3, UnitsMove
  <2>5. QED
    BY <1>3, <2>4 DEF TakeJob, seen, CountInv, UnitsInv
<1>4. QED
  BY <1>1, <1>2, <1>3 DEF Next

\* Jobs, domains and units together are inductive.
THEOREM CountInvariance == Spec => []CountInv
BY CountInit, JobsNext, DataNext, UnitsNext, PTL DEF Spec, CountInv

\* For any taps, slots, attempts, limit and faults: every variable keeps to
\* its domain, used between 0 and the limit above all; and while nothing is
\* lost behind a reservation, used counts the links that arrived and the runs
\* that still hold a unit for one: every way through processPostback returns
\* what it reserved, and only that.
THEOREM CountsAreHeld == Spec => []CountsHold
<1>1. CountInv => TypeOK
  BY DEF CountInv, JobsInv, DataInv, UnitsInv, TypeOK, JobRecords
<1>2. CountInv => QuotaExact
  BY DEF CountInv, UnitsInv, QuotaExact, Number, Unsent
<1>3. QED
  BY <1>1, <1>2, CountInvariance, LogHolds, PTL DEF CountsHold
=============================================================================
