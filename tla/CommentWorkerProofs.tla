------------------------ MODULE CommentWorkerProofs ------------------------
(***************************************************************************)
(* What the replies to comments promise, proved for any campaigns,         *)
(* comments, limits and bounds.                                            *)
(*                                                                         *)
(* The first part holds of any number of slots and of everything that may  *)
(* go wrong: the types, the quota's lower bound with them, and that the    *)
(* log claims nothing that has not happened.  The second is about runs of  *)
(* a comment that do not overlap, however many slots run other comments,   *)
(* and no outcome that is lost: there the guards on the row let a comment  *)
(* have one DM and one reply, and the quota counts them exactly.  A token  *)
(* that cannot be read may take the SENT off a row whose public reply is   *)
(* still owed; nothing else takes it, and what it may cost is said.        *)
(***************************************************************************)
EXTENDS CommentWorker, Counting

-----------------------------------------------------------------------------
(* The invariant *)

Rows == [status: Statuses, replied: BOOLEAN, promise: BOOLEAN]
JobRecords ==
  [state: {"absent", "waiting", "active", "completed", "failed"},
   attempts: 0..MaxAttempts, stalls: 0..MaxStalls]

\* What is stored, but for the jobs and the quota.
StoreFits ==
  /\ log \in [Campaigns -> [Comments -> Rows]]
  /\ dms \in [Campaigns -> [Comments -> 0..2]]
  /\ posts \in [Campaigns -> [Comments -> 0..2]]
  /\ slots \in 0..SlotLimit
  /\ listed \in [Campaigns -> SUBSET Comments]
  /\ faults \in 0..MaxFaults

\* A handler's locals, and the job it runs.
HandlersFit ==
  /\ pc \in [Workers -> Places]
  /\ on \in [Workers -> JobIds \cup {NoJob}]
  /\ at \in [Workers -> Campaigns]
  /\ prior \in [Workers -> Rows]
  /\ arrived \in [Workers -> BOOLEAN]
  /\ \A w \in Workers:
       /\ pc[w] # "idle" => on[w] \in JobIds
       /\ pc[w] = "requeue" => RequeueAttempt(on[w]) < MaxRequeues

\* A job that is not over has attempts left; one that is run is active, and
\* run by one slot.
QueueFits(jobs) ==
  /\ jobs \in [JobIds -> JobRecords]
  /\ \A j \in JobIds:
       jobs[j].state \in {"absent", "waiting", "active"} =>
         jobs[j].attempts < MaxAttempts
  /\ \A w \in Workers: pc[w] # "idle" => jobs[on[w]].state = "active"

JobsFit ==
  /\ QueueFits(job)
  /\ \A w, v \in Workers:
       w # v /\ pc[w] # "idle" /\ pc[v] # "idle" => on[w] # on[v]

\* Every slot that may still give a unit back has one.
UnitsFit ==
  /\ used \in 0..Limit
  /\ Number(Workers, pc, Holding) <= used

\* What a handler is about to claim has happened.
ClaimsFit ==
  \A w \in Workers:
    /\ pc[w] = "sent" => dms[at[w]][Comment(w)] > 0
    /\ pc[w] = "posted" => posts[at[w]][Comment(w)] > 0

WorkerInv ==
  StoreFits /\ HandlersFit /\ JobsFit /\ UnitsFit /\ ClaimsFit /\ LogIsTrue

\* No run dies or misses what became of a call or a write, though it may not be
\* able to read the token, and no two slots run the same comment at once.
NothingLost == Events \subseteq {"reject", "redis", "token"}
Apart ==
  \A w, v \in Workers:
    w # v /\ pc[w] # "idle" /\ pc[v] # "idle" => Comment(w) # Comment(v)

\* At a place of the run the row is what was read, until the run changes it; one
\* that comes back over a SENT row does so for the public reply of campaign a.
RunAt(place, read, row, a) ==
  /\ place = "log" => read = row
  /\ place = "log" /\ read.status = "SENT" => a \in Public /\ ~read.replied
  /\ place \in {"log", "reply", "posted", "reserve"} =>
       (read.status = "SENT" <=> row.status = "SENT")
  /\ place = "reply" => ~row.replied
  /\ place \in {"skip", "reschedule", "requeue", "fail"} \cup Holding =>
       row.status # "SENT"

RunFits == \A w \in Workers: RunAt(pc[w], prior[w], Row(w), at[w])

\* What arrived is on record, or is what the slot is about to record, but for DMs
\* whose record a token may have taken.
RecordFits ==
  \A a \in Campaigns, c \in Comments:
    /\ a \in Firm /\ dms[a][c] > 0 =>
         \/ log[a][c].status = "SENT"
         \/ \E w \in Workers: pc[w] = "sent" /\ at[w] = a /\ Comment(w) = c
    /\ posts[a][c] > 0 =>
         \/ log[a][c].replied
         \/ \E w \in Workers: pc[w] = "posted" /\ at[w] = a /\ Comment(w) = c

QuotaFits == "token" \notin Events => QuotaExact

AnswersInv ==
  WorkerInv /\ RunFits /\ RecordFits /\ OneDm /\ OneReply /\ QuotaFits

-----------------------------------------------------------------------------
(* Records and jobs *)

LEMMA Bounds ==
  /\ NumCampaigns \in Nat /\ NumCampaigns > 0 /\ NumComments \in Nat
  /\ MaxAttempts \in Nat /\ MaxAttempts > 0 /\ MaxStalls \in Nat
  /\ MaxRequeues \in Nat /\ MaxPolls \in Nat
  /\ Limit \in Nat /\ SlotLimit \in Nat /\ MaxFaults \in Nat
BY CountsAreNat

LEMMA JobIdFacts ==
  ASSUME NEW j \in JobIds
  PROVE  /\ j.comment \in Comments /\ RequeueAttempt(j) \in Nat
         /\ RequeueAttempt(j) < MaxRequeues =>
              [comment |-> j.comment, source |-> "retry",
               n |-> RequeueAttempt(j) + 1] \in JobIds
BY Bounds DEF JobIds, RequeueAttempt

LEMMA NewRecords ==
  /\ NoLog \in Rows /\ NewJob \in JobRecords
  /\ NewJob.state = "absent" /\ NewJob.attempts = 0
BY Bounds DEF NoLog, NewJob, Rows, Statuses, JobRecords

\* The row of a busy slot.
LEMMA RowIsARow ==
  ASSUME StoreFits, HandlersFit, NEW w \in Workers, pc[w] # "idle"
  PROVE  /\ on[w] \in JobIds /\ at[w] \in Campaigns
         /\ Comment(w) \in Comments /\ Row(w) \in Rows
<1>1. on[w] \in JobIds /\ at[w] \in Campaigns
  BY DEF HandlersFit
<1>2. Comment(w) \in Comments
  BY <1>1, JobIdFacts DEF Comment
<1>3. Row(w) \in Rows
  BY <1>1, <1>2 DEF Row, StoreFits
<1>4. QED
  BY <1>1, <1>2, <1>3

\* A write changes that row and no other.
LEMMA SetRowStep ==
  ASSUME StoreFits, HandlersFit, NEW w \in Workers, pc[w] # "idle",
         NEW row \in Rows, SetRow(w, row)
  PROVE  /\ log' \in [Campaigns -> [Comments -> Rows]]
         /\ log'[at[w]][Comment(w)] = row
         /\ \A a \in Campaigns, c \in Comments:
              a # at[w] \/ c # Comment(w) => log'[a][c] = log[a][c]
<1> DEFINE a0 == at[w]
           c0 == Comment(w)
<1>1. a0 \in Campaigns /\ c0 \in Comments
  BY RowIsARow
<1>2. log' = [log EXCEPT ![a0][c0] = row]
  BY DEF SetRow
<1> HIDE DEF a0, c0
<1>3. log \in [Campaigns -> [Comments -> Rows]]
  BY DEF StoreFits
<1>4. /\ log' \in [Campaigns -> [Comments -> Rows]]
      /\ log'[a0][c0] = row
      /\ \A a \in Campaigns, c \in Comments:
           a # a0 \/ c # c0 => log'[a][c] = log[a][c]
  BY <1>1, <1>2, <1>3
<1>5. QED
  BY <1>4 DEF a0, c0

LEMMA SetStatusStep ==
  ASSUME StoreFits, HandlersFit, NEW w \in Workers, pc[w] # "idle",
         NEW s \in Statuses, SetStatus(w, s)
  PROVE  /\ log' \in [Campaigns -> [Comments -> Rows]]
         /\ log'[at[w]][Comment(w)].status = s
         /\ log'[at[w]][Comment(w)].replied = Row(w).replied
         /\ \A a \in Campaigns, c \in Comments:
              a # at[w] \/ c # Comment(w) => log'[a][c] = log[a][c]
<1> DEFINE row == [Row(w) EXCEPT !.status = s, !.promise = FALSE]
<1>1. row \in Rows /\ row.status = s /\ row.replied = Row(w).replied
  BY RowIsARow DEF Rows
<1>2. SetRow(w, row)
  BY DEF SetStatus
<1> HIDE DEF row
<1>3. QED
  BY <1>1, <1>2, SetRowStep

\* A count of what arrived never falls.
LEMMA MoreIsMore ==
  ASSUME NEW n \in 0..2
  PROVE  More(n) \in 0..2 /\ More(n) >= n /\ More(n) > 0
         /\ (n = 0 => More(n) = 1)
BY DEF More

LEMMA CountDmStep ==
  ASSUME StoreFits, HandlersFit, NEW w \in Workers, pc[w] # "idle", CountDm(w)
  PROVE  /\ dms' \in [Campaigns -> [Comments -> 0..2]]
         /\ dms'[at[w]][Comment(w)] = More(dms[at[w]][Comment(w)])
         /\ \A a \in Campaigns, c \in Comments:
              a # at[w] \/ c # Comment(w) => dms'[a][c] = dms[a][c]
<1> DEFINE a0 == at[w]
           c0 == Comment(w)
<1>1. a0 \in Campaigns /\ c0 \in Comments
  BY RowIsARow
<1>2. dms' = [dms EXCEPT ![a0][c0] = More(@)]
  BY DEF CountDm
<1>3. dms \in [Campaigns -> [Comments -> 0..2]]
  BY DEF StoreFits
<1> HIDE DEF a0, c0
<1>4. More(dms[a0][c0]) \in 0..2
  BY <1>1, <1>3, MoreIsMore
<1>5. /\ dms' \in [Campaigns -> [Comments -> 0..2]]
      /\ dms'[a0][c0] = More(dms[a0][c0])
      /\ \A a \in Campaigns, c \in Comments:
           a # a0 \/ c # c0 => dms'[a][c] = dms[a][c]
  BY <1>1, <1>2, <1>3, <1>4
<1>6. QED
  BY <1>5 DEF a0, c0

LEMMA CountPostStep ==
  ASSUME StoreFits, HandlersFit, NEW w \in Workers, pc[w] # "idle", CountPost(w)
  PROVE  /\ posts' \in [Campaigns -> [Comments -> 0..2]]
         /\ posts'[at[w]][Comment(w)] = More(posts[at[w]][Comment(w)])
         /\ \A a \in Campaigns, c \in Comments:
              a # at[w] \/ c # Comment(w) => posts'[a][c] = posts[a][c]
<1> DEFINE a0 == at[w]
           c0 == Comment(w)
<1>1. a0 \in Campaigns /\ c0 \in Comments
  BY RowIsARow
<1>2. posts' = [posts EXCEPT ![a0][c0] = More(@)]
  BY DEF CountPost
<1>3. posts \in [Campaigns -> [Comments -> 0..2]]
  BY DEF StoreFits
<1> HIDE DEF a0, c0
<1>4. More(posts[a0][c0]) \in 0..2
  BY <1>1, <1>3, MoreIsMore
<1>5. /\ posts' \in [Campaigns -> [Comments -> 0..2]]
      /\ posts'[a0][c0] = More(posts[a0][c0])
      /\ \A a \in Campaigns, c \in Comments:
           a # a0 \/ c # c0 => posts'[a][c] = posts[a][c]
  BY <1>1, <1>2, <1>3, <1>4
<1>6. QED
  BY <1>5 DEF a0, c0

LEMMA FaultStep ==
  ASSUME faults \in 0..MaxFaults, NEW e, Fault(e)
  PROVE  faults' \in 0..MaxFaults
BY Bounds DEF Fault

-----------------------------------------------------------------------------
(* How a handler and its job move on *)

\* A step of slot w leaves the locals of the others as they are.
Others(w) ==
  \A v \in Workers:
    v # w => /\ pc'[v] = pc[v] /\ on'[v] = on[v] /\ at'[v] = at[v]
             /\ prior'[v] = prior[v] /\ arrived'[v] = arrived[v]

LEMMA RestStep ==
  ASSUME HandlersFit, NEW w \in Workers, Rest(w)
  PROVE  HandlersFit' /\ Others(w) /\ pc'[w] = "idle"
<1>1. 1 \in Campaigns
  BY Bounds DEF Campaigns
<1>2. NoLog \in Rows
  BY NewRecords
<1>3. /\ pc' \in [Workers -> Places] /\ pc'[w] = "idle"
      /\ on' \in [Workers -> JobIds \cup {NoJob}]
      /\ arrived' \in [Workers -> BOOLEAN]
  BY DEF HandlersFit, Rest, Places
<1>4. at' \in [Workers -> Campaigns]
  BY <1>1 DEF HandlersFit, Rest
<1>5. prior' \in [Workers -> Rows]
  BY <1>2 DEF HandlersFit, Rest
<1>6. Others(w)
  <2>1. \A v \in Workers: v # w => pc'[v] = pc[v] /\ on'[v] = on[v]
    BY DEF HandlersFit, Rest
  <2>2. \A v \in Workers: v # w => at'[v] = at[v] /\ arrived'[v] = arrived[v]
    BY DEF HandlersFit, Rest
  <2>3. \A v \in Workers: v # w => prior'[v] = prior[v]
    BY DEF HandlersFit, Rest
  <2>4. QED
    BY <2>1, <2>2, <2>3 DEF Others
<1>7. ASSUME NEW v \in Workers
      PROVE  /\ pc'[v] # "idle" => on'[v] \in JobIds
             /\ pc'[v] = "requeue" => RequeueAttempt(on'[v]) < MaxRequeues
  BY <1>3, <1>6 DEF HandlersFit, Others
<1>8. QED
  BY <1>3, <1>4, <1>5, <1>6, <1>7 DEF HandlersFit

\* The job of a slot that comes to rest is queued again, or over.
LEMMA JobLeavesStep ==
  ASSUME HandlersFit, JobsFit, NEW w \in Workers, pc[w] # "idle",
         NEW jobs, QueueFits(jobs),
         NEW state \in {"waiting", "completed", "failed"},
         NEW attempts \in 0..MaxAttempts, NEW stalls \in 0..MaxStalls,
         state = "waiting" => attempts < MaxAttempts,
         JobLeaves(w, jobs, state, attempts, stalls),
         pc'[w] = "idle", Others(w)
  PROVE  JobsFit'
<1> DEFINE over == state \in {"completed", "failed"}
           record == IF over /\ on[w].source = "poll" THEN NewJob
                     ELSE [state |-> state, attempts |-> attempts, stalls |-> stalls]
<1>1. /\ record \in JobRecords
      /\ record.state \in {"absent", "waiting", "active"} =>
           record.attempts < MaxAttempts
  <2>1. CASE over /\ on[w].source = "poll"
    BY <2>1, NewRecords, Bounds
  <2>2. CASE ~(over /\ on[w].source = "poll")
    BY <2>2 DEF JobRecords
  <2>3. QED
    BY <2>1, <2>2
<1>2. job' = [jobs EXCEPT ![on[w]] = record] /\ on[w] \in JobIds
  BY DEF JobLeaves, HandlersFit
<1> HIDE DEF record
<1>3. /\ job' \in [JobIds -> JobRecords] /\ job'[on[w]] = record
      /\ \A j \in JobIds: j # on[w] => job'[j] = jobs[j]
  BY <1>1, <1>2 DEF QueueFits
<1>4. ASSUME NEW j \in JobIds, job'[j].state \in {"absent", "waiting", "active"}
      PROVE  job'[j].attempts < MaxAttempts
  BY <1>1, <1>3, <1>4 DEF QueueFits
<1>5. ASSUME NEW v \in Workers, pc'[v] # "idle"
      PROVE  job'[on'[v]].state = "active"
  <2>1. v # w /\ pc[v] # "idle" /\ on'[v] = on[v]
    BY <1>5 DEF Others
  <2>2. on[v] # on[w] /\ on[v] \in JobIds
    BY <2>1 DEF JobsFit, HandlersFit
  <2>3. QED
    BY <2>1, <2>2, <1>3 DEF QueueFits
<1>6. \A u, v \in Workers:
        u # v /\ pc'[u] # "idle" /\ pc'[v] # "idle" => on'[u] # on'[v]
  BY DEF JobsFit, Others
<1>7. QED
  BY <1>3, <1>4, <1>5, <1>6 DEF JobsFit, QueueFits

LEMMA ContinueStep ==
  ASSUME HandlersFit, JobsFit, NEW w \in Workers, pc[w] # "idle",
         NEW jobs, QueueFits(jobs), Continue(w, jobs)
  PROVE  HandlersFit' /\ JobsFit' /\ Others(w) /\ pc'[w] \in {"idle", "look"}
<1>1. CASE /\ at[w] < NumCampaigns /\ Goto(w, "look")
           /\ at' = [at EXCEPT ![w] = @ + 1]
           /\ prior' = [prior EXCEPT ![w] = NoLog]
           /\ arrived' = [arrived EXCEPT ![w] = FALSE]
           /\ job' = jobs /\ UNCHANGED on
  <2>1. at[w] + 1 \in Campaigns
    BY <1>1, Bounds DEF HandlersFit, Campaigns
  <2>2. /\ at' \in [Workers -> Campaigns]
        /\ \A v \in Workers: v # w => at'[v] = at[v]
    BY <1>1, <2>1 DEF HandlersFit
  <2>3. /\ pc' \in [Workers -> Places] /\ pc'[w] = "look"
        /\ \A v \in Workers: v # w => pc'[v] = pc[v]
    BY <1>1 DEF HandlersFit, Goto, Places
  <2>4. /\ prior' \in [Workers -> Rows]
        /\ \A v \in Workers: v # w => prior'[v] = prior[v]
    BY <1>1, NewRecords DEF HandlersFit
  <2>5. /\ arrived' \in [Workers -> BOOLEAN]
        /\ \A v \in Workers: v # w => arrived'[v] = arrived[v]
    BY <1>1 DEF HandlersFit
  <2>6. Others(w)
    BY <1>1, <2>2, <2>3, <2>4, <2>5 DEF Others
  <2>7. HandlersFit'
    BY <1>1, <2>2, <2>3, <2>4, <2>5 DEF HandlersFit
  <2>8. JobsFit'
    BY <1>1, <2>3 DEF JobsFit, QueueFits
  <2>9. QED
    BY <2>3, <2>6, <2>7, <2>8
<1>2. CASE Rest(w) /\ JobLeaves(w, jobs, "completed", 0, 0)
  <2>1. HandlersFit' /\ Others(w) /\ pc'[w] = "idle"
    BY <1>2, RestStep
  <2>2. 0 \in 0..MaxAttempts /\ 0 \in 0..MaxStalls
    BY Bounds
  <2>3. JobsFit'
    BY <1>2, <2>1, <2>2, JobLeavesStep
  <2>4. QED
    BY <2>1, <2>3
<1>3. QED
  BY <1>1, <1>2 DEF Continue

LEMMA ThrowStep ==
  ASSUME HandlersFit, JobsFit, NEW w \in Workers, pc[w] # "idle", Throw(w)
  PROVE  HandlersFit' /\ JobsFit' /\ Others(w) /\ pc'[w] = "idle"
<1> DEFINE tried == job[on[w]].attempts + 1
           state == IF tried < MaxAttempts THEN "waiting" ELSE "failed"
           stalls == job[on[w]].stalls
<1>1. HandlersFit' /\ Others(w) /\ pc'[w] = "idle"
  BY RestStep DEF Throw
<1>2. /\ job[on[w]] \in JobRecords /\ job[on[w]].attempts < MaxAttempts
  BY DEF HandlersFit, JobsFit, QueueFits
<1>3. tried \in 0..MaxAttempts /\ stalls \in 0..MaxStalls
  BY <1>2, Bounds DEF JobRecords
<1>4. state \in {"waiting", "completed", "failed"}
      /\ (state = "waiting" => tried < MaxAttempts)
  OBVIOUS
<1>5. JobLeaves(w, job, state, tried, stalls)
  BY DEF Throw
<1>6. QueueFits(job)
  BY DEF JobsFit
<1> HIDE DEF tried, state, stalls
<1>7. JobsFit'
  BY <1>1, <1>3, <1>4, <1>5, <1>6, JobLeavesStep
<1>8. QED
  BY <1>1, <1>7

LEMMA CrashStep ==
  ASSUME HandlersFit, JobsFit, NEW w \in Workers, Crash(w)
  PROVE  HandlersFit' /\ JobsFit' /\ Others(w) /\ pc'[w] = "idle"
<1> DEFINE j == job[on[w]]
           state == IF j.stalls < MaxStalls THEN "waiting" ELSE "failed"
           stalls == IF j.stalls < MaxStalls THEN j.stalls + 1 ELSE j.stalls
           attempts == j.attempts
<1>1. HandlersFit' /\ Others(w) /\ pc'[w] = "idle" /\ pc[w] # "idle"
  BY RestStep DEF Crash
<1>2. j \in JobRecords /\ attempts < MaxAttempts
  BY <1>1 DEF HandlersFit, JobsFit, QueueFits
<1>3. attempts \in 0..MaxAttempts /\ stalls \in 0..MaxStalls
  BY <1>2, Bounds DEF JobRecords
<1>4. state \in {"waiting", "completed", "failed"}
  OBVIOUS
<1>5. JobLeaves(w, job, state, attempts, stalls)
  BY DEF Crash
<1>6. QueueFits(job)
  BY DEF JobsFit
<1> HIDE DEF j, state, stalls, attempts
<1>7. JobsFit'
  BY <1>1, <1>2, <1>3, <1>4, <1>5, <1>6, JobLeavesStep
<1>8. QED
  BY <1>1, <1>7

\* The handler goes on with the job it has.
LEMMA GotoStep ==
  ASSUME HandlersFit, JobsFit, NEW w \in Workers, pc[w] # "idle",
         NEW place \in Places, Goto(w, place),
         place = "requeue" => RequeueAttempt(on[w]) < MaxRequeues,
         UNCHANGED <<job, on, at>>,
         prior' \in [Workers -> Rows],
         arrived' \in [Workers -> BOOLEAN],
         \A v \in Workers: v # w => prior'[v] = prior[v] /\ arrived'[v] = arrived[v]
  PROVE  HandlersFit' /\ JobsFit' /\ Others(w) /\ pc'[w] = place
<1>1. /\ pc' \in [Workers -> Places] /\ pc'[w] = place
      /\ \A v \in Workers: v # w => pc'[v] = pc[v]
  BY DEF HandlersFit, Goto
<1>2. HandlersFit'
  BY <1>1 DEF HandlersFit
<1>3. JobsFit'
  BY <1>1 DEF JobsFit, QueueFits
<1>4. Others(w)
  BY <1>1 DEF Others
<1>5. QED
  BY <1>1, <1>2, <1>3, <1>4

\* A unit is reserved below the limit, given back by a slot that holds one, or
\* left.
LEMMA UnitsStep ==
  ASSUME WorkerInv, NEW w \in Workers, Others(w),
         \/ UNCHANGED used /\ (pc[w] \in Holding \/ pc'[w] \notin Holding)
         \/ used < Limit /\ used' = used + 1
         \/ used' = used - 1 /\ pc[w] \in Holding /\ pc'[w] \notin Holding
  PROVE  UnitsFit'
<1> DEFINE n == Number(Workers, pc, Holding)
           m == Number(Workers, pc', Holding)
<1>1. n \in Nat /\ m \in Nat
  BY FiniteWorkers, NumberIsNat
<1>2. \A v \in Workers: v # w => pc'[v] = pc[v]
  BY DEF Others
<1>3. /\ pc[w] \in Holding /\ pc'[w] \in Holding => m = n
      /\ pc[w] \notin Holding /\ pc'[w] \notin Holding => m = n
      /\ pc[w] \notin Holding /\ pc'[w] \in Holding => m = n + 1
      /\ pc[w] \in Holding /\ pc'[w] \notin Holding => m = n - 1
  BY <1>2, FiniteWorkers, NumberAfter
<1>4. used \in 0..Limit /\ n <= used
  BY DEF WorkerInv, UnitsFit
<1> HIDE DEF n, m
<1>5. used' \in 0..Limit /\ m <= used'
  BY <1>1, <1>3, <1>4, Bounds
<1>6. QED
  BY <1>5 DEF UnitsFit, m

\* What has happened stays so, and the log only adds what has.
LEMMA TruthStep ==
  ASSUME WorkerInv, NEW w \in Workers, Others(w),
         dms' \in [Campaigns -> [Comments -> 0..2]],
         posts' \in [Campaigns -> [Comments -> 0..2]],
         \A a \in Campaigns, c \in Comments:
           dms'[a][c] >= dms[a][c] /\ posts'[a][c] >= posts[a][c],
         pc'[w] = "sent" => dms'[at'[w]][Comment(w)'] > 0,
         pc'[w] = "posted" => posts'[at'[w]][Comment(w)'] > 0,
         \A a \in Campaigns, c \in Comments:
           /\ log'[a][c].status = "SENT" =>
                log[a][c].status = "SENT" \/ dms'[a][c] > 0
           /\ log'[a][c].replied => log[a][c].replied \/ posts'[a][c] > 0
  PROVE  ClaimsFit' /\ LogIsTrue'
<1>1. StoreFits /\ HandlersFit /\ ClaimsFit /\ LogIsTrue
  BY DEF WorkerInv
<1>2. \A a \in Campaigns, c \in Comments:
        dms[a][c] \in 0..2 /\ posts[a][c] \in 0..2
        /\ dms'[a][c] \in 0..2 /\ posts'[a][c] \in 0..2
  BY <1>1 DEF StoreFits
<1>3. LogIsTrue'
  BY <1>1, <1>2 DEF LogIsTrue
<1>4. ASSUME NEW v \in Workers, v # w
      PROVE  /\ pc'[v] = "sent" => dms'[at'[v]][Comment(v)'] > 0
             /\ pc'[v] = "posted" => posts'[at'[v]][Comment(v)'] > 0
  <2>1. pc'[v] = pc[v] /\ at'[v] = at[v] /\ Comment(v)' = Comment(v)
    BY <1>4 DEF Others, Comment
  <2>2. CASE pc[v] \in {"sent", "posted"}
    <3>1. at[v] \in Campaigns /\ Comment(v) \in Comments
      BY <2>2, <1>1, RowIsARow
    <3>2. /\ dms'[at[v]][Comment(v)] >= dms[at[v]][Comment(v)]
          /\ posts'[at[v]][Comment(v)] >= posts[at[v]][Comment(v)]
          /\ dms[at[v]][Comment(v)] \in 0..2 /\ dms'[at[v]][Comment(v)] \in 0..2
          /\ posts[at[v]][Comment(v)] \in 0..2 /\ posts'[at[v]][Comment(v)] \in 0..2
      <4> DEFINE a == at[v]
                 c == Comment(v)
      <4>1. a \in Campaigns /\ c \in Comments
        BY <3>1
      <4> HIDE DEF a, c
      <4>2. /\ dms'[a][c] >= dms[a][c] /\ posts'[a][c] >= posts[a][c]
            /\ dms[a][c] \in 0..2 /\ dms'[a][c] \in 0..2
            /\ posts[a][c] \in 0..2 /\ posts'[a][c] \in 0..2
        BY <4>1, <1>2, Zenon
      <4>3. QED
        BY <4>2 DEF a, c
    <3>3. /\ pc[v] = "sent" => dms[at[v]][Comment(v)] > 0
          /\ pc[v] = "posted" => posts[at[v]][Comment(v)] > 0
      BY <1>1 DEF ClaimsFit
    <3>4. /\ pc[v] = "sent" => dms'[at[v]][Comment(v)] > 0
          /\ pc[v] = "posted" => posts'[at[v]][Comment(v)] > 0
      BY <3>2, <3>3
    <3>5. QED
      BY <3>4, <2>1
  <2>3. CASE pc[v] \notin {"sent", "posted"}
    BY <2>1, <2>3
  <2>4. QED
    BY <2>2, <2>3
<1>5. ClaimsFit'
  BY <1>4 DEF ClaimsFit
<1>6. QED
  BY <1>3, <1>5

\* What a step may write on the row that claims nothing.
Claimless(w) ==
  \/ UNCHANGED log
  \/ \E s \in Statuses \ {"SENT"}: SetStatus(w, s)
  \/ \E row \in Rows:
       SetRow(w, row) /\ row.status # "SENT" /\ row.replied = Row(w).replied

\* A step that neither sends nor posts, nor claims that something was.
LEMMA QuietStep ==
  ASSUME WorkerInv, NEW w \in Workers, pc[w] # "idle",
         Others(w), HandlersFit', JobsFit',
         pc'[w] \notin {"sent", "posted"},
         Claimless(w) \/ (SetStatus(w, "SENT") /\ pc[w] = "sent"),
         UNCHANGED <<dms, posts>>,
         slots' \in 0..SlotLimit, UNCHANGED listed,
         faults' \in 0..MaxFaults,
         UnitsFit'
  PROVE  WorkerInv'
<1>1. /\ StoreFits /\ HandlersFit /\ ClaimsFit
      /\ on[w] \in JobIds /\ at[w] \in Campaigns /\ Comment(w) \in Comments
  BY RowIsARow DEF WorkerInv
<1>2. /\ dms' \in [Campaigns -> [Comments -> 0..2]]
      /\ posts' \in [Campaigns -> [Comments -> 0..2]]
      /\ \A a \in Campaigns, c \in Comments:
           dms'[a][c] >= dms[a][c] /\ posts'[a][c] >= posts[a][c]
  BY <1>1 DEF StoreFits
<1>3. /\ log' \in [Campaigns -> [Comments -> Rows]]
      /\ \A a \in Campaigns, c \in Comments:
           /\ log'[a][c].status = "SENT" =>
                log[a][c].status = "SENT" \/ dms'[a][c] > 0
           /\ log'[a][c].replied => log[a][c].replied \/ posts'[a][c] > 0
  <2>1. CASE UNCHANGED log
    BY <2>1, <1>1 DEF StoreFits
  <2>2. CASE \E s \in Statuses \ {"SENT"}: SetStatus(w, s)
    BY <2>2, <1>1, SetStatusStep DEF Row
  <2>3. CASE SetStatus(w, "SENT") /\ pc[w] = "sent"
    <3>1. "SENT" \in Statuses
      BY DEF Statuses
    <3>2. dms[at[w]][Comment(w)] > 0
      BY <2>3, <1>1 DEF ClaimsFit
    <3>3. QED
      BY <2>3, <3>1, <3>2, <1>1, SetStatusStep DEF Row
  <2>4. CASE \E row \in Rows:
               SetRow(w, row) /\ row.status # "SENT" /\ row.replied = Row(w).replied
    BY <2>4, <1>1, SetRowStep DEF Row
  <2>5. QED
    BY <2>1, <2>2, <2>3, <2>4 DEF Claimless
<1>4. StoreFits'
  BY <1>1, <1>2, <1>3 DEF StoreFits
<1>5. ClaimsFit' /\ LogIsTrue'
  BY <1>2, <1>3, TruthStep
<1>6. QED
  BY <1>4, <1>5 DEF WorkerInv

-----------------------------------------------------------------------------
(* The steps of a handler *)

\* The job list with a retry added.
LEMMA AddStep ==
  ASSUME HandlersFit, JobsFit, NEW j \in JobIds
  PROVE  QueueFits(Add(job, j))
<1>1. QueueFits(job)
  BY DEF JobsFit
<1>2. CASE job[j].state = "absent"
  <2>1. Add(job, j) = [job EXCEPT ![j].state = "waiting"]
    BY <1>2 DEF Add
  <2>2. [job[j] EXCEPT !.state = "waiting"] \in JobRecords
    BY <1>1 DEF QueueFits, JobRecords
  <2>3. /\ Add(job, j) \in [JobIds -> JobRecords]
        /\ Add(job, j)[j] = [job[j] EXCEPT !.state = "waiting"]
        /\ \A k \in JobIds: k # j => Add(job, j)[k] = job[k]
    BY <1>1, <2>1, <2>2 DEF QueueFits
  <2>4. Add(job, j)[j].attempts = job[j].attempts /\ Add(job, j)[j].state = "waiting"
    BY <1>1, <2>3 DEF QueueFits, JobRecords
  <2>5. \A k \in JobIds:
          Add(job, j)[k].state \in {"absent", "waiting", "active"} =>
            Add(job, j)[k].attempts < MaxAttempts
    BY <1>1, <1>2, <2>3, <2>4 DEF QueueFits
  <2>6. \A w \in Workers:
          pc[w] # "idle" => Add(job, j)[on[w]].state = "active"
    BY <1>1, <1>2, <2>3 DEF QueueFits, HandlersFit
  <2>7. QED
    BY <2>3, <2>5, <2>6 DEF QueueFits
<1>3. CASE job[j].state # "absent"
  BY <1>1, <1>3 DEF Add
<1>4. QED
  BY <1>2, <1>3

LEMMA InvParts ==
  ASSUME WorkerInv
  PROVE  /\ StoreFits /\ HandlersFit /\ JobsFit /\ UnitsFit /\ QueueFits(job)
         /\ slots \in 0..SlotLimit /\ faults \in 0..MaxFaults
         /\ pc \in [Workers -> Places] /\ prior \in [Workers -> Rows]
         /\ arrived \in [Workers -> BOOLEAN]
BY DEF WorkerInv, StoreFits, HandlersFit, JobsFit

\* The loop goes on, or the handler returns, as the quota is left alone.
LEMMA ReturnStep ==
  ASSUME WorkerInv, NEW w \in Workers, pc[w] # "idle",
         \/ Throw(w)
         \/ \E jobs: QueueFits(jobs) /\ Continue(w, jobs),
         Claimless(w) \/ (SetStatus(w, "SENT") /\ pc[w] = "sent"),
         faults' \in 0..MaxFaults,
         UNCHANGED <<dms, posts, used, slots, listed>>
  PROVE  WorkerInv'
<1>1. HandlersFit' /\ JobsFit' /\ Others(w) /\ pc'[w] \in {"idle", "look"}
  BY InvParts, ThrowStep, ContinueStep
<1>2. pc'[w] \notin Holding
  BY <1>1 DEF Holding
<1>3. UnitsFit'
  BY <1>1, <1>2, UnitsStep
<1>4. QED
  BY <1>1, <1>3, InvParts, QuietStep

LEMMA LookInv ==
  ASSUME WorkerInv, NEW w \in Workers, Look(w)
  PROVE  WorkerInv'
<1>1. CASE Continue(w, job)
  BY <1>1, InvParts, ReturnStep DEF Look, Claimless
<1>2. CASE prior' = [prior EXCEPT ![w] = Row(w)] /\ Goto(w, "log")
           /\ UNCHANGED <<job, on, at, arrived>>
  <2>1. pc[w] = "look" /\ UNCHANGED <<log, dms, posts, used, slots, listed, faults>>
    BY DEF Look
  <2>2. Row(w) \in Rows
    BY <2>1, InvParts, RowIsARow
  <2>3. /\ prior' \in [Workers -> Rows]
        /\ \A v \in Workers: v # w => prior'[v] = prior[v]
    BY <1>2, <2>2, InvParts
  <2>4. HandlersFit' /\ JobsFit' /\ Others(w) /\ pc'[w] = "log"
    BY <1>2, <2>1, <2>3, InvParts, GotoStep DEF Places
  <2>5. UnitsFit'
    BY <2>1, <2>4, UnitsStep DEF Holding
  <2>6. QED
    BY <2>1, <2>4, <2>5, InvParts, QuietStep DEF Claimless
<1>3. QED
  BY <1>1, <1>2 DEF Look

LEMMA TokenInv ==
  ASSUME WorkerInv, NEW w \in Workers, TokenFails(w)
  PROVE  WorkerInv'
<1>1. "FAILED" \in Statuses \ {"SENT"}
  BY DEF Statuses
<1>2. QED
  BY <1>1, InvParts, FaultStep, ReturnStep DEF TokenFails, Claimless

\* Every other step of the handler goes on at some place.
LEMMA PlaceStep ==
  ASSUME WorkerInv, NEW w \in Workers, pc[w] # "idle",
         NEW place \in Places \ {"idle", "sent", "posted"}, Goto(w, place),
         place = "requeue" => RequeueAttempt(on[w]) < MaxRequeues,
         UNCHANGED <<job, on, at, prior, arrived>>,
         \/ UNCHANGED used /\ (pc[w] \in Holding \/ place \notin Holding)
         \/ used < Limit /\ used' = used + 1
         \/ used' = used - 1 /\ pc[w] \in Holding /\ place \notin Holding,
         Claimless(w),
         UNCHANGED <<dms, posts>>,
         slots' \in 0..SlotLimit, UNCHANGED listed,
         faults' \in 0..MaxFaults
  PROVE  WorkerInv'
<1>1. HandlersFit' /\ JobsFit' /\ Others(w) /\ pc'[w] = place
  BY InvParts, GotoStep
<1>2. UnitsFit'
  BY <1>1, UnitsStep
<1>3. QED
  BY <1>1, <1>2, InvParts, QuietStep

LEMMA WriteLogInv ==
  ASSUME WorkerInv, NEW w \in Workers, WriteLog(w)
  PROVE  WorkerInv'
<1> DEFINE place == IF NeedsReply(w) THEN "reply" ELSE "reserve"
<1>1. place \in Places \ {"idle", "sent", "posted"} /\ place \notin Holding
      /\ place # "requeue" /\ "PENDING" \in Statuses \ {"SENT"}
  BY DEF Places, Holding, Statuses
<1>2. pc[w] = "log" /\ UNCHANGED <<dms, posts, used, slots, listed, faults>>
  BY DEF WriteLog
<1>3. CASE /\ IF NeedsDm(w) THEN SetStatus(w, "PENDING") ELSE UNCHANGED log
           /\ Goto(w, place) /\ UNCHANGED <<job, on, at, prior, arrived>>
  <2> HIDE DEF place
  <2>1. QED
    BY <1>1, <1>2, <1>3, InvParts, PlaceStep DEF Claimless
<1>4. CASE Throw(w) /\ UNCHANGED log
  BY <1>2, <1>4, InvParts, ReturnStep DEF Claimless
<1>5. QED
  BY <1>3, <1>4 DEF WriteLog

LEMMA PostReplyInv ==
  ASSUME WorkerInv, NEW w \in Workers, PostReply(w)
  PROVE  WorkerInv'
<1>1. /\ pc[w] = "reply"
      /\ UNCHANGED <<log, dms, job, on, at, prior, arrived, used, slots, listed>>
  BY DEF PostReply
<1>2. CASE /\ CountPost(w) /\ faults' \in 0..MaxFaults
           /\ \E place \in {"posted", "reserve"}: Goto(w, place)
  <2>1. PICK place \in {"posted", "reserve"}: Goto(w, place)
    BY <1>2
  <2>2. HandlersFit' /\ JobsFit' /\ Others(w) /\ pc'[w] = place
    BY <1>1, <2>1, InvParts, GotoStep DEF Places
  <2>3. UnitsFit'
    BY <1>1, <2>2, UnitsStep DEF Holding
  <2>4. /\ StoreFits /\ HandlersFit /\ pc[w] # "idle"
        /\ at[w] \in Campaigns /\ Comment(w) \in Comments
    BY <1>1, InvParts, RowIsARow
  <2>5. /\ posts' \in [Campaigns -> [Comments -> 0..2]]
        /\ posts'[at[w]][Comment(w)] = More(posts[at[w]][Comment(w)])
        /\ \A a \in Campaigns, c \in Comments:
             a # at[w] \/ c # Comment(w) => posts'[a][c] = posts[a][c]
    BY <1>2, <2>4, CountPostStep
  <2>6. posts[at[w]][Comment(w)] \in 0..2
    BY <2>4 DEF StoreFits
  <2>7. /\ posts'[at[w]][Comment(w)] > 0
        /\ posts'[at[w]][Comment(w)] >= posts[at[w]][Comment(w)]
    BY <2>5, <2>6, MoreIsMore
  <2>8. ASSUME NEW a \in Campaigns, NEW c \in Comments
        PROVE  dms'[a][c] >= dms[a][c] /\ posts'[a][c] >= posts[a][c]
    <3>1. dms[a][c] \in 0..2 /\ posts[a][c] \in 0..2
      BY <2>4 DEF StoreFits
    <3>2. dms'[a][c] = dms[a][c]
      BY <1>1
    <3>3. CASE a = at[w] /\ c = Comment(w)
      BY <3>1, <3>2, <3>3, <2>7
    <3>4. CASE a # at[w] \/ c # Comment(w)
      BY <3>1, <3>2, <3>4, <2>5
    <3>5. QED
      BY <3>3, <3>4
  <2>9. Comment(w)' = Comment(w) /\ at'[w] = at[w]
    BY <1>1 DEF Comment
  <2>10. ClaimsFit' /\ LogIsTrue'
    <3>1. dms' \in [Campaigns -> [Comments -> 0..2]]
      BY <1>1, <2>4 DEF StoreFits
    <3>2. pc'[w] = "posted" => posts'[at'[w]][Comment(w)'] > 0
      BY <2>7, <2>9
    <3>3. pc'[w] # "sent"
      BY <2>1, <2>2
    <3>4. QED
      BY <1>1, <2>2, <2>5, <2>8, <3>1, <3>2, <3>3, TruthStep
  <2>11. StoreFits'
    BY <1>1, <1>2, <2>4, <2>5 DEF StoreFits
  <2>12. QED
    BY <2>2, <2>3, <2>10, <2>11 DEF WorkerInv
<1>3. CASE Fault("reject") /\ Goto(w, "reserve") /\ UNCHANGED posts
  <2>1. /\ "reserve" \in Places \ {"idle", "sent", "posted"}
        /\ "reserve" \notin Holding /\ faults' \in 0..MaxFaults
    BY <1>3, InvParts, FaultStep DEF Places, Holding
  <2>2. QED
    BY <1>1, <1>3, <2>1, InvParts, PlaceStep DEF Claimless
<1>4. QED
  <2>1. faults \in 0..MaxFaults
    BY InvParts
  <2>2. QED
    BY <1>2, <1>3, <2>1, FaultStep DEF PostReply

LEMMA RecordPostInv ==
  ASSUME WorkerInv, NEW w \in Workers, RecordPost(w)
  PROVE  WorkerInv'
<1>1. /\ pc[w] = "posted" /\ Goto(w, "reserve")
      /\ UNCHANGED <<dms, posts, job, on, at, prior, arrived, used, slots, listed>>
  BY DEF RecordPost
<1>2. CASE SetRow(w, [Row(w) EXCEPT !.replied = TRUE]) /\ UNCHANGED faults
  <2> DEFINE row == [Row(w) EXCEPT !.replied = TRUE]
  <2>1. /\ StoreFits /\ HandlersFit /\ pc[w] # "idle"
        /\ at[w] \in Campaigns /\ Comment(w) \in Comments /\ Row(w) \in Rows
    BY <1>1, InvParts, RowIsARow
  <2>2. row \in Rows /\ row.status = Row(w).status
    BY <2>1 DEF Rows
  <2>3. HandlersFit' /\ JobsFit' /\ Others(w) /\ pc'[w] = "reserve"
    BY <1>1, InvParts, GotoStep DEF Places
  <2>4. UnitsFit'
    BY <1>1, <2>3, UnitsStep DEF Holding
  <2>5. SetRow(w, row)
    BY <1>2
  <2> HIDE DEF row
  <2>6. /\ log' \in [Campaigns -> [Comments -> Rows]]
        /\ log'[at[w]][Comment(w)] = row
        /\ \A a \in Campaigns, c \in Comments:
             a # at[w] \/ c # Comment(w) => log'[a][c] = log[a][c]
    BY <2>1, <2>2, <2>5, SetRowStep
  <2>7. posts[at[w]][Comment(w)] > 0
    BY <1>1 DEF WorkerInv, ClaimsFit
  <2>8. \A a \in Campaigns, c \in Comments:
          /\ log'[a][c].status = "SENT" =>
               log[a][c].status = "SENT" \/ dms'[a][c] > 0
          /\ log'[a][c].replied => log[a][c].replied \/ posts'[a][c] > 0
    BY <1>1, <2>2, <2>6, <2>7 DEF Row
  <2>9. /\ dms' \in [Campaigns -> [Comments -> 0..2]]
        /\ posts' \in [Campaigns -> [Comments -> 0..2]]
        /\ \A a \in Campaigns, c \in Comments:
             dms'[a][c] >= dms[a][c] /\ posts'[a][c] >= posts[a][c]
    BY <1>1, <2>1 DEF StoreFits
  <2>10. ClaimsFit' /\ LogIsTrue'
    BY <2>3, <2>8, <2>9, TruthStep
  <2>11. StoreFits'
    BY <1>1, <1>2, <2>1, <2>6, <2>9 DEF StoreFits
  <2>12. QED
    BY <2>3, <2>4, <2>10, <2>11 DEF WorkerInv
<1>3. CASE Fault("db") /\ UNCHANGED log
  <2>1. /\ "reserve" \in Places \ {"idle", "sent", "posted"}
        /\ "reserve" \notin Holding /\ faults' \in 0..MaxFaults
    BY <1>3, InvParts, FaultStep DEF Places, Holding
  <2>2. QED
    BY <1>1, <1>3, <2>1, InvParts, PlaceStep DEF Claimless
<1>4. QED
  BY <1>2, <1>3 DEF RecordPost

LEMMA ReserveInv ==
  ASSUME WorkerInv, NEW w \in Workers,
         NoDmNeeded(w) \/ ReserveQuota(w) \/ SkipForPlan(w) \/ ReserveSlot(w)
           \/ ReleaseDenied(w)
  PROVE  WorkerInv'
<1>1. /\ {"slot", "send", "denied", "undo"} \subseteq
           (Places \cap Holding) \ {"idle", "sent", "posted"}
      /\ "skip" \in Places \ Holding /\ "reschedule" \in Places \ Holding
      /\ "SKIPPED_PLAN_LIMIT" \in Statuses \ {"SENT"}
  BY DEF Places, Holding, Statuses
<1>2. slots \in 0..SlotLimit /\ faults \in 0..MaxFaults /\ SlotLimit \in Nat
  BY InvParts, Bounds
<1>3. CASE NoDmNeeded(w)
  BY <1>2, <1>3, InvParts, ReturnStep DEF NoDmNeeded, Claimless
<1>4. CASE SkipForPlan(w)
  BY <1>1, <1>2, <1>4, InvParts, ReturnStep DEF SkipForPlan, Claimless
<1>5. CASE ReserveQuota(w)
  <2>1. /\ pc[w] = "reserve"
        /\ UNCHANGED <<log, dms, posts, job, on, at, prior, arrived, slots,
                       listed, faults>>
    BY <1>5 DEF ReserveQuota
  <2>2. CASE used < Limit /\ used' = used + 1 /\ Goto(w, "slot")
    BY <1>1, <1>2, <2>1, <2>2, PlaceStep DEF Claimless
  <2>3. CASE Goto(w, "skip") /\ UNCHANGED used
    BY <1>1, <1>2, <2>1, <2>3, PlaceStep DEF Claimless
  <2>4. QED
    BY <1>5, <2>2, <2>3 DEF ReserveQuota
<1>6. CASE ReserveSlot(w)
  <2>1. /\ pc[w] = "slot"
        /\ UNCHANGED <<log, dms, posts, job, on, at, prior, arrived, used, listed>>
    BY <1>6 DEF ReserveSlot
  <2>2. pc[w] \in Holding
    BY <2>1 DEF Holding
  <2>3. CASE slots < SlotLimit /\ slots' = slots + 1 /\ Goto(w, "send")
             /\ UNCHANGED faults
    <3>1. slots' \in 0..SlotLimit
      BY <1>2, <2>3
    <3>2. QED
      BY <1>1, <1>2, <2>1, <2>2, <2>3, <3>1, PlaceStep DEF Claimless
  <2>4. CASE Goto(w, "denied") /\ UNCHANGED <<slots, faults>>
    BY <1>1, <1>2, <2>1, <2>2, <2>4, PlaceStep DEF Claimless
  <2>5. CASE Fault("redis") /\ Goto(w, "undo") /\ UNCHANGED slots
    BY <1>1, <1>2, <2>1, <2>2, <2>5, FaultStep, PlaceStep DEF Claimless
  <2>6. QED
    BY <1>6, <2>3, <2>4, <2>5 DEF ReserveSlot
<1>7. CASE ReleaseDenied(w)
  <2>1. /\ pc[w] = "denied" /\ used' = used - 1 /\ Goto(w, "reschedule")
        /\ UNCHANGED <<log, dms, posts, job, on, at, prior, arrived, slots,
                       listed, faults>>
    BY <1>7 DEF ReleaseDenied
  <2>2. pc[w] \in Holding
    BY <2>1 DEF Holding
  <2>3. QED
    BY <1>1, <1>2, <2>1, <2>2, PlaceStep DEF Claimless
<1>8. QED
  BY <1>3, <1>4, <1>5, <1>6, <1>7

LEMMA RescheduleInv ==
  ASSUME WorkerInv, NEW w \in Workers, Reschedule(w) \/ Requeue(w)
  PROVE  WorkerInv'
<1>1. pc[w] # "idle" /\ slots \in 0..SlotLimit /\ faults \in 0..MaxFaults
  BY InvParts DEF Reschedule, Requeue
<1>2. CASE Reschedule(w)
  <2>1. /\ pc[w] = "reschedule"
        /\ UNCHANGED <<dms, posts, used, slots, listed, faults>>
    BY <1>2 DEF Reschedule
  <2>2. CASE SetStatus(w, "SKIPPED_RATE_LIMIT") /\ Continue(w, job)
    <3>1. "SKIPPED_RATE_LIMIT" \in Statuses \ {"SENT"}
      BY DEF Statuses
    <3>2. QED
      BY <1>1, <2>1, <2>2, <3>1, InvParts, ReturnStep DEF Claimless
  <2>3. CASE /\ RequeueAttempt(on[w]) < MaxRequeues
             /\ SetRow(w, [Row(w) EXCEPT !.status = "PENDING", !.promise = TRUE])
             /\ Goto(w, "requeue") /\ UNCHANGED <<job, on, at, prior, arrived>>
    <3> DEFINE row == [Row(w) EXCEPT !.status = "PENDING", !.promise = TRUE]
    <3>1. row \in Rows /\ row.status # "SENT" /\ row.replied = Row(w).replied
      BY <1>1, InvParts, RowIsARow DEF Rows, Statuses
    <3>2. SetRow(w, row)
      BY <2>3
    <3> HIDE DEF row
    <3>3. Claimless(w)
      BY <3>1, <3>2 DEF Claimless
    <3>4. "requeue" \in Places \ {"idle", "sent", "posted"} /\ "requeue" \notin Holding
      BY DEF Places, Holding
    <3>5. QED
      BY <1>1, <2>1, <2>3, <3>3, <3>4, PlaceStep
  <2>4. QED
    BY <1>2, <2>2, <2>3 DEF Reschedule
<1>3. CASE Requeue(w)
  <2> DEFINE retry == [comment |-> Comment(w), source |-> "retry",
                       n |-> RequeueAttempt(on[w]) + 1]
  <2>1. /\ pc[w] = "requeue" /\ Continue(w, Add(job, retry))
        /\ UNCHANGED <<log, dms, posts, used, slots, listed, faults>>
    BY <1>3 DEF Requeue
  <2>2. retry \in JobIds
    <3>1. on[w] \in JobIds /\ RequeueAttempt(on[w]) < MaxRequeues
      BY <2>1, InvParts DEF HandlersFit
    <3>2. QED
      BY <3>1, JobIdFacts DEF Comment
  <2> HIDE DEF retry
  <2>3. QueueFits(Add(job, retry))
    BY <2>2, InvParts, AddStep
  <2>4. QED
    BY <1>1, <2>1, <2>3, ReturnStep DEF Claimless
<1>4. QED
  BY <1>2, <1>3

\* A call that goes on at "sent" has arrived.
LEMMA CallInv ==
  ASSUME WorkerInv, NEW w \in Workers, pc[w] \in {"send", "resend"},
         NEW failed \in {"resend", "undo"}, Call(w, failed),
         UNCHANGED <<log, posts, job, on, at, prior, used, slots, listed>>
  PROVE  WorkerInv'
<1>1. /\ pc[w] \in Holding /\ failed \in Holding /\ "sent" \in Holding
      /\ {"sent", "resend", "undo"} \subseteq Places
      /\ failed \notin {"idle", "sent", "posted", "requeue"}
  BY DEF Holding, Places
<1>2. /\ StoreFits /\ HandlersFit /\ pc[w] # "idle"
      /\ at[w] \in Campaigns /\ Comment(w) \in Comments
      /\ faults \in 0..MaxFaults /\ slots \in 0..SlotLimit
  BY InvParts, RowIsARow
<1>3. CASE /\ CountDm(w) /\ faults' \in 0..MaxFaults
           /\ arrived' = [arrived EXCEPT ![w] = TRUE]
           /\ \E place \in {"sent", failed}: Goto(w, place)
  <2>1. PICK place \in {"sent", failed}: Goto(w, place)
    BY <1>3
  <2>2. /\ arrived' \in [Workers -> BOOLEAN]
        /\ \A v \in Workers: v # w => arrived'[v] = arrived[v]
        /\ prior' \in [Workers -> Rows]
    BY <1>3, InvParts
  <2>3. place \in Places /\ place \in Holding /\ place \notin {"posted", "requeue"}
    BY <1>1
  <2>4. HandlersFit' /\ JobsFit' /\ Others(w) /\ pc'[w] = place
    BY <1>2, <2>1, <2>2, <2>3, InvParts, GotoStep
  <2>5. UnitsFit'
    BY <1>1, <2>4, UnitsStep
  <2>6. /\ dms' \in [Campaigns -> [Comments -> 0..2]]
        /\ dms'[at[w]][Comment(w)] = More(dms[at[w]][Comment(w)])
        /\ \A a \in Campaigns, c \in Comments:
             a # at[w] \/ c # Comment(w) => dms'[a][c] = dms[a][c]
    BY <1>2, <1>3, CountDmStep
  <2>7. dms[at[w]][Comment(w)] \in 0..2
    BY <1>2 DEF StoreFits
  <2>8. /\ dms'[at[w]][Comment(w)] > 0
        /\ dms'[at[w]][Comment(w)] >= dms[at[w]][Comment(w)]
    BY <2>6, <2>7, MoreIsMore
  <2>9. ASSUME NEW a \in Campaigns, NEW c \in Comments
        PROVE  dms'[a][c] >= dms[a][c] /\ posts'[a][c] >= posts[a][c]
    <3>1. dms[a][c] \in 0..2 /\ posts[a][c] \in 0..2
      BY <1>2 DEF StoreFits
    <3>2. posts'[a][c] = posts[a][c]
      OBVIOUS
    <3>3. CASE a = at[w] /\ c = Comment(w)
      BY <3>1, <3>2, <3>3, <2>8
    <3>4. CASE a # at[w] \/ c # Comment(w)
      BY <3>1, <3>2, <3>4, <2>6
    <3>5. QED
      BY <3>3, <3>4
  <2>10. ClaimsFit' /\ LogIsTrue'
    <3>1. posts' \in [Campaigns -> [Comments -> 0..2]]
      BY <1>2 DEF StoreFits
    <3>2. Comment(w)' = Comment(w) /\ at'[w] = at[w]
      BY DEF Comment
    <3>3. pc'[w] = "sent" => dms'[at'[w]][Comment(w)'] > 0
      BY <2>8, <3>2
    <3>4. pc'[w] # "posted"
      BY <2>3, <2>4
    <3>5. QED
      BY <2>4, <2>6, <2>9, <3>1, <3>3, <3>4, TruthStep
  <2>11. StoreFits'
    BY <1>2, <1>3, <2>6 DEF StoreFits
  <2>12. QED
    BY <2>4, <2>5, <2>10, <2>11 DEF WorkerInv
<1>4. CASE /\ Fault("reject") /\ Goto(w, failed) /\ UNCHANGED dms
           /\ arrived' = [arrived EXCEPT ![w] = FALSE]
  <2>1. /\ arrived' \in [Workers -> BOOLEAN]
        /\ \A v \in Workers: v # w => arrived'[v] = arrived[v]
        /\ prior' \in [Workers -> Rows]
    BY <1>4, InvParts
  <2>2. HandlersFit' /\ JobsFit' /\ Others(w) /\ pc'[w] = failed
    BY <1>1, <1>2, <1>4, <2>1, InvParts, GotoStep
  <2>3. UnitsFit'
    BY <1>1, <2>2, UnitsStep
  <2>4. faults' \in 0..MaxFaults
    BY <1>2, <1>4, FaultStep
  <2>5. QED
    BY <1>1, <1>2, <1>4, <2>2, <2>3, <2>4, QuietStep DEF Claimless
<1>5. QED
  BY <1>2, <1>3, <1>4, FaultStep DEF Call

LEMMA SendInv ==
  ASSUME WorkerInv, NEW w \in Workers, Send(w) \/ Resend(w)
  PROVE  WorkerInv'
<1>1. CASE Send(w)
  <2> DEFINE failed == IF at[w] \in Linked THEN "resend" ELSE "undo"
  <2>1. failed \in {"resend", "undo"}
    OBVIOUS
  <2>2. /\ pc[w] = "send" /\ Call(w, failed)
        /\ UNCHANGED <<log, posts, job, on, at, prior, used, slots, listed>>
    BY <1>1 DEF Send
  <2> HIDE DEF failed
  <2>3. QED
    BY <2>1, <2>2, CallInv
<1>2. CASE Resend(w)
  BY <1>2, CallInv DEF Resend
<1>3. QED
  BY <1>1, <1>2

LEMMA EndInv ==
  ASSUME WorkerInv, NEW w \in Workers,
         MarkSent(w) \/ Undo(w) \/ MarkFailed(w) \/ QueryFails(w) \/ Crash(w)
  PROVE  WorkerInv'
<1>1. slots \in 0..SlotLimit /\ faults \in 0..MaxFaults /\ QueueFits(job)
  BY InvParts
<1>2. CASE MarkSent(w)
  <2>1. pc[w] = "sent" /\ UNCHANGED <<dms, posts, used, slots, listed>>
    BY <1>2 DEF MarkSent
  <2>2. CASE SetStatus(w, "SENT") /\ Continue(w, job) /\ UNCHANGED faults
    BY <1>1, <2>1, <2>2, ReturnStep
  <2>3. CASE Fault("db") /\ Goto(w, "undo")
             /\ UNCHANGED <<log, job, on, at, prior, arrived>>
    <3>1. /\ "undo" \in Places \ {"idle", "sent", "posted", "requeue"}
          /\ pc[w] \in Holding
      BY <2>1 DEF Places, Holding
    <3>2. faults' \in 0..MaxFaults
      BY <1>1, <2>3, FaultStep
    <3>3. QED
      BY <1>1, <2>1, <2>3, <3>1, <3>2, PlaceStep DEF Claimless
  <2>4. QED
    BY <1>2, <2>2, <2>3 DEF MarkSent
<1>3. CASE Undo(w)
  <2>1. /\ pc[w] = "undo" /\ used' = used - 1 /\ Goto(w, "fail")
        /\ UNCHANGED <<log, dms, posts, job, on, at, prior, arrived, slots,
                       listed, faults>>
    BY <1>3 DEF Undo
  <2>2. /\ "fail" \in Places \ {"idle", "sent", "posted", "requeue"}
        /\ "fail" \notin Holding /\ pc[w] \in Holding
    BY <2>1 DEF Places, Holding
  <2>3. QED
    BY <1>1, <2>1, <2>2, PlaceStep DEF Claimless
<1>4. CASE MarkFailed(w)
  <2>1. "FAILED" \in Statuses \ {"SENT"}
    BY DEF Statuses
  <2>2. QED
    BY <1>1, <1>4, <2>1, ReturnStep DEF MarkFailed, Claimless
<1>5. CASE QueryFails(w)
  <2>1. pc[w] # "idle" /\ faults' \in 0..MaxFaults
    BY <1>1, <1>5, FaultStep DEF QueryFails
  <2>2. QED
    BY <1>1, <1>5, <2>1, ReturnStep DEF QueryFails, Claimless
<1>6. CASE Crash(w)
  <2>1. /\ pc[w] # "idle" /\ faults' \in 0..MaxFaults
        /\ UNCHANGED <<log, dms, posts, used, slots, listed>>
    BY <1>1, <1>6, FaultStep DEF Crash
  <2>2. HandlersFit' /\ JobsFit' /\ Others(w) /\ pc'[w] = "idle"
    BY <1>6, InvParts, CrashStep
  <2>3. UnitsFit'
    BY <2>1, <2>2, UnitsStep DEF Holding
  <2>4. QED
    BY <1>1, <2>1, <2>2, <2>3, QuietStep DEF Claimless
<1>7. QED
  BY <1>2, <1>3, <1>4, <1>5, <1>6

LEMMA ProcessInv ==
  ASSUME WorkerInv, NEW w \in Workers,
         Process(w) \/ TokenFails(w) \/ QueryFails(w) \/ Crash(w)
  PROVE  WorkerInv'
BY LookInv, TokenInv, WriteLogInv, PostReplyInv, RecordPostInv, ReserveInv,
   RescheduleInv, SendInv, EndInv DEF Process

-----------------------------------------------------------------------------
(* The steps of the queue *)

\* A slot takes a job that nobody runs.
LEMMA TakeJobInv ==
  ASSUME WorkerInv, NEW w \in Workers, NEW j \in JobIds, TakeJob(w, j)
  PROVE  WorkerInv'
<1>1. /\ pc[w] = "idle" /\ job[j].state = "waiting"
      /\ job' = [job EXCEPT ![j].state = "active"]
      /\ on' = [on EXCEPT ![w] = j] /\ Goto(w, "look")
      /\ UNCHANGED <<log, dms, posts, at, prior, arrived, used, slots, listed, faults>>
  BY DEF TakeJob
<1>2. /\ HandlersFit /\ JobsFit /\ QueueFits(job) /\ StoreFits
  BY InvParts
<1>3. /\ pc' \in [Workers -> Places] /\ pc'[w] = "look"
      /\ \A v \in Workers: v # w => pc'[v] = pc[v]
  BY <1>1, <1>2 DEF HandlersFit, Goto, Places
<1>4. /\ on' \in [Workers -> JobIds \cup {NoJob}] /\ on'[w] = j
      /\ \A v \in Workers: v # w => on'[v] = on[v]
  BY <1>1, <1>2 DEF HandlersFit
<1>5. HandlersFit'
  BY <1>1, <1>2, <1>3, <1>4 DEF HandlersFit
<1>6. Others(w)
  BY <1>1, <1>3, <1>4 DEF Others
<1>7. /\ job' \in [JobIds -> JobRecords] /\ job'[j].state = "active"
      /\ job'[j].attempts = job[j].attempts
      /\ \A k \in JobIds: k # j => job'[k] = job[k]
  <2>1. [job[j] EXCEPT !.state = "active"] \in JobRecords
    BY <1>2 DEF QueueFits, JobRecords
  <2>2. /\ job' \in [JobIds -> JobRecords]
        /\ job'[j] = [job[j] EXCEPT !.state = "active"]
        /\ \A k \in JobIds: k # j => job'[k] = job[k]
    BY <1>1, <1>2, <2>1 DEF QueueFits
  <2>3. job[j] \in JobRecords
    BY <1>2 DEF QueueFits
  <2>4. QED
    BY <2>2, <2>3 DEF JobRecords
<1>8. \A v \in Workers: v # w /\ pc[v] # "idle" => on[v] # j /\ on[v] \in JobIds
  BY <1>1, <1>2 DEF QueueFits, HandlersFit
<1>9. JobsFit'
  <2>1. \A k \in JobIds:
          job'[k].state \in {"absent", "waiting", "active"} =>
            job'[k].attempts < MaxAttempts
    BY <1>1, <1>2, <1>7 DEF QueueFits
  <2>2. \A v \in Workers: pc'[v] # "idle" => job'[on'[v]].state = "active"
    BY <1>2, <1>3, <1>4, <1>7, <1>8 DEF QueueFits
  <2>3. \A u, v \in Workers:
          u # v /\ pc'[u] # "idle" /\ pc'[v] # "idle" => on'[u] # on'[v]
    BY <1>2, <1>3, <1>4, <1>8 DEF JobsFit
  <2>4. QED
    BY <1>7, <2>1, <2>2, <2>3 DEF JobsFit, QueueFits
<1>10. UnitsFit'
  BY <1>1, <1>3, <1>6, UnitsStep DEF Holding
<1>11. StoreFits'
  BY <1>1, <1>2 DEF StoreFits
<1>12. /\ dms' \in [Campaigns -> [Comments -> 0..2]]
       /\ posts' \in [Campaigns -> [Comments -> 0..2]]
       /\ \A a \in Campaigns, c \in Comments:
            dms'[a][c] >= dms[a][c] /\ posts'[a][c] >= posts[a][c]
  BY <1>1, <1>2 DEF StoreFits
<1>13. ClaimsFit' /\ LogIsTrue'
  BY <1>1, <1>3, <1>6, <1>12, TruthStep
<1>14. QED
  BY <1>5, <1>9, <1>10, <1>11, <1>13 DEF WorkerInv

\* A step that changes jobs nobody runs, the lists or the window only.
LEMMA OutsideStep ==
  ASSUME WorkerInv, UNCHANGED <<log, dms, posts, handlerVars, used, faults>>,
         QueueFits(job'), slots' \in 0..SlotLimit,
         listed' \in [Campaigns -> SUBSET Comments]
  PROVE  WorkerInv'
<1>1. UNCHANGED <<log, dms, posts, pc, on, at, prior, arrived, used, faults>>
  BY DEF handlerVars
<1>2. StoreFits' /\ HandlersFit' /\ LogIsTrue'
  BY <1>1 DEF WorkerInv, StoreFits, HandlersFit, LogIsTrue
<1>3. JobsFit'
  BY <1>1 DEF WorkerInv, JobsFit, QueueFits
<1>4. UnitsFit' /\ ClaimsFit'
  BY <1>1 DEF WorkerInv, UnitsFit, ClaimsFit, Comment, Number
<1>5. QED
  BY <1>2, <1>3, <1>4 DEF WorkerInv

LEMMA DeliverInv ==
  ASSUME WorkerInv, NEW c \in Comments, Deliver(c)
  PROVE  WorkerInv'
<1>1. [comment |-> c, source |-> "webhook", n |-> 0] \in JobIds
  BY DEF JobIds
<1>2. QueueFits(job')
  BY <1>1, InvParts, AddStep DEF Deliver
<1>3. QED
  BY <1>2, InvParts, OutsideStep DEF Deliver, StoreFits

LEMMA SweepInv ==
  ASSUME WorkerInv, NEW a \in Campaigns, SweepRead(a) \/ SweepAdd(a)
  PROVE  WorkerInv'
<1>1. listed \in [Campaigns -> SUBSET Comments] /\ slots \in 0..SlotLimit
      /\ QueueFits(job) /\ HandlersFit
  BY InvParts DEF StoreFits
<1>2. CASE SweepRead(a)
  <2>1. listed' \in [Campaigns -> SUBSET Comments] /\ UNCHANGED <<job, slots>>
    BY <1>1, <1>2 DEF SweepRead
  <2>2. QED
    BY <1>1, <1>2, <2>1, OutsideStep DEF SweepRead
<1>3. CASE SweepAdd(a)
  <2> DEFINE open == {c \in listed[a]: ~Handled(a, c)}
             fresh == {c \in open: Cardinality({d \in open: d < c}) < MaxPerSweep}
  <2>1. PICK ids \in [fresh -> {j \in JobIds: j.source = "poll"}]:
          /\ \A c \in fresh: ids[c].comment = c /\ job[ids[c]].state = "absent"
          /\ job' = [j \in JobIds |->
                       IF \E c \in fresh: ids[c] = j
                         THEN [NewJob EXCEPT !.state = "waiting"] ELSE job[j]]
    BY <1>3, Zenon DEF SweepAdd
  <2> HIDE DEF open, fresh
  <2>2. listed' \in [Campaigns -> SUBSET Comments]
    BY <1>1, <1>3 DEF SweepAdd
  <2>3. /\ [NewJob EXCEPT !.state = "waiting"] \in JobRecords
        /\ [NewJob EXCEPT !.state = "waiting"].attempts < MaxAttempts
    BY Bounds DEF NewJob, JobRecords
  <2>4. ASSUME NEW w \in Workers, pc[w] # "idle"
        PROVE  job'[on[w]].state = "active"
    <3>1. on[w] \in JobIds /\ job[on[w]].state = "active"
      BY <1>1, <2>4 DEF HandlersFit, QueueFits
    <3>2. ~\E c \in fresh: ids[c] = on[w]
      BY <2>1, <3>1
    <3>3. job'[on[w]] = job[on[w]]
      BY <2>1, <3>1, <3>2
    <3>4. QED
      BY <3>1, <3>3
  <2>5. job' \in [JobIds -> JobRecords]
    BY <1>1, <2>1, <2>3 DEF QueueFits
  <2>6. ASSUME NEW j \in JobIds, job'[j].state \in {"absent", "waiting", "active"}
        PROVE  job'[j].attempts < MaxAttempts
    BY <1>1, <2>1, <2>3, <2>6 DEF QueueFits
  <2>7. QueueFits(job')
    BY <2>4, <2>5, <2>6 DEF QueueFits
  <2>8. QED
    BY <1>1, <1>3, <2>2, <2>7, OutsideStep DEF SweepAdd
<1>4. QED
  BY <1>2, <1>3

LEMMA ForgetInv ==
  ASSUME WorkerInv, NEW j \in JobIds, Forget(j)
  PROVE  WorkerInv'
<1>1. /\ job[j].state \in {"completed", "failed"}
      /\ job' = [job EXCEPT ![j] = NewJob]
      /\ QueueFits(job) /\ HandlersFit
  BY InvParts DEF Forget
<1>2. /\ job' \in [JobIds -> JobRecords] /\ job'[j] = NewJob
      /\ \A k \in JobIds: k # j => job'[k] = job[k]
  BY <1>1, NewRecords DEF QueueFits
<1>3. QueueFits(job')
  <2>1. \A k \in JobIds:
          job'[k].state \in {"absent", "waiting", "active"} =>
            job'[k].attempts < MaxAttempts
    BY <1>1, <1>2, NewRecords, Bounds DEF QueueFits
  <2>2. \A w \in Workers: pc[w] # "idle" => job'[on[w]].state = "active"
    BY <1>1, <1>2 DEF QueueFits, HandlersFit
  <2>3. QED
    BY <1>2, <2>1, <2>2 DEF QueueFits
<1>4. QED
  BY <1>3, InvParts, OutsideStep DEF Forget, StoreFits

LEMMA WindowInv ==
  ASSUME WorkerInv, WindowEnds
  PROVE  WorkerInv'
<1>1. slots' \in 0..SlotLimit /\ QueueFits(job')
  BY Bounds, InvParts DEF WindowEnds
<1>2. QED
  BY <1>1, InvParts, OutsideStep DEF WindowEnds, StoreFits

-----------------------------------------------------------------------------
(* The theorems about any number of slots *)

LEMMA WorkerInit == Init => WorkerInv
<1> SUFFICES ASSUME Init PROVE WorkerInv
  OBVIOUS
<1>1. 1 \in Campaigns /\ 0 \in 0..2 /\ "idle" \in Places /\ "idle" \notin Holding
  BY Bounds DEF Campaigns, Places, Holding
<1>2. StoreFits
  <2>1. log \in [Campaigns -> [Comments -> Rows]]
    BY NewRecords DEF Init
  <2>2. slots \in 0..SlotLimit /\ faults \in 0..MaxFaults
    BY Bounds DEF Init
  <2>3. QED
    BY <1>1, <2>1, <2>2 DEF Init, StoreFits
<1>3. HandlersFit
  BY <1>1, NewRecords DEF Init, HandlersFit
<1>4. JobsFit
  <2>1. \A j \in JobIds: job[j] = NewJob
    BY DEF Init
  <2>2. job \in [JobIds -> JobRecords]
    BY NewRecords DEF Init
  <2>3. QED
    BY <2>1, <2>2, NewRecords, Bounds DEF Init, JobsFit, QueueFits
<1>5. UnitsFit
  <2>1. {w \in Workers: pc[w] \in Holding} = {}
    BY <1>1 DEF Init
  <2>2. Number(Workers, pc, Holding) = 0
    BY <2>1, FS_EmptySet DEF Number
  <2>3. QED
    BY <2>2, Bounds DEF Init, UnitsFit
<1>6. ClaimsFit /\ LogIsTrue
  BY DEF Init, ClaimsFit, LogIsTrue, NoLog
<1>7. QED
  BY <1>2, <1>3, <1>4, <1>5, <1>6 DEF WorkerInv

LEMMA WorkerNext == WorkerInv /\ [Next]_vars => WorkerInv'
<1> SUFFICES ASSUME WorkerInv, [Next]_vars PROVE WorkerInv'
  OBVIOUS
<1>1. ASSUME NEW w \in Workers,
             Process(w) \/ TokenFails(w) \/ QueryFails(w) \/ Crash(w)
      PROVE  WorkerInv'
  BY <1>1, ProcessInv
<1>2. ASSUME NEW w \in Workers, NEW j \in JobIds, TakeJob(w, j)
      PROVE  WorkerInv'
  BY <1>2, TakeJobInv
<1>3. ASSUME NEW c \in Comments, Deliver(c) PROVE WorkerInv'
  BY <1>3, DeliverInv
<1>4. ASSUME NEW a \in Campaigns, SweepRead(a) \/ SweepAdd(a) PROVE WorkerInv'
  BY <1>4, SweepInv
<1>5. ASSUME NEW j \in JobIds, Forget(j) PROVE WorkerInv'
  BY <1>5, ForgetInv
<1>6. CASE WindowEnds
  BY <1>6, WindowInv
<1>7. CASE UNCHANGED vars
  <2>1. /\ UNCHANGED <<log, dms, posts, handlerVars, used, faults>>
        /\ UNCHANGED <<job, slots, listed>>
    BY <1>7 DEF vars
  <2>2. QED
    BY <2>1, InvParts, OutsideStep DEF StoreFits
<1>8. QED
  BY <1>1, <1>2, <1>3, <1>4, <1>5, <1>6, <1>7 DEF Next

\* The first invariant: the types, the units held, and the messages behind the log.
THEOREM WorkerInvariance == Spec => []WorkerInv
<1>1. QED
  BY WorkerInit, WorkerNext, PTL DEF Spec

\* With any number of slots, and whatever goes wrong, a comment's row claims
\* nothing that has not happened.
THEOREM LogHolds == Spec => []LogIsTrue
<1>1. WorkerInv => LogIsTrue
  BY DEF WorkerInv
<1>2. QED
  BY <1>1, WorkerInvariance, PTL

\* So do the types hold, and the quota stays between zero and its limit on
\* every way out of the handler.
THEOREM TypeCorrect == Spec => []TypeOK
<1>1. WorkerInv => TypeOK
  BY DEF WorkerInv, StoreFits, HandlersFit, JobsFit, QueueFits, UnitsFit, TypeOK,
         Rows, JobRecords
<1>2. QED
  BY <1>1, WorkerInvariance, PTL

-----------------------------------------------------------------------------
(* Runs of a comment apart, and no outcome that is lost *)

Holders == Holding \ {"sent"}
Sent == {p \in Campaigns \X Comments: dms[p[1]][p[2]] > 0}

\* What has been sent is not forgotten.
SentKept ==
  \A a \in Campaigns, c \in Comments:
    log[a][c].status = "SENT" => log'[a][c].status = "SENT"

LEMMA AnswersParts ==
  ASSUME AnswersInv
  PROVE  /\ WorkerInv /\ StoreFits /\ HandlersFit /\ JobsFit /\ QueueFits(job)
         /\ RunFits /\ RecordFits /\ OneDm /\ OneReply
         /\ "token" \notin Events =>
              used = Cardinality(Sent) + Number(Workers, pc, Holders)
         /\ IsFiniteSet(Sent) /\ Cardinality(Sent) \in Nat
         /\ Number(Workers, pc, Holders) \in Nat
<1>1. IsFiniteSet(Campaigns) /\ IsFiniteSet(Comments)
  BY Bounds, FS_Interval DEF Campaigns, Comments
<1>2. IsFiniteSet(Campaigns \X Comments)
  BY <1>1, FS_Product
<1>3. IsFiniteSet(Sent)
  BY <1>2, FS_Subset DEF Sent
<1>4. Cardinality(Sent) \in Nat
  BY <1>3, FS_CardinalityType
<1>5. Number(Workers, pc, Holders) \in Nat
  BY FiniteWorkers, NumberIsNat
<1>6. "token" \notin Events =>
        used = Cardinality(Sent) + Number(Workers, pc, Holders)
  BY DEF AnswersInv, QuotaFits, QuotaExact, Sent, Number, Holders
<1>7. QED
  BY <1>3, <1>4, <1>5, <1>6, InvParts DEF AnswersInv

\* The reservation goes with the place of the slot, ...
LEMMA QuotaStep ==
  ASSUME AnswersInv, NEW w \in Workers, \A v \in Workers: v # w => pc'[v] = pc[v],
         UNCHANGED dms,
         \/ UNCHANGED used /\ (pc[w] \in Holders <=> pc'[w] \in Holders)
         \/ used' = used + 1 /\ pc[w] \notin Holders /\ pc'[w] \in Holders
         \/ used' = used - 1 /\ pc[w] \in Holders /\ pc'[w] \notin Holders
  PROVE  QuotaFits'
<1> SUFFICES ASSUME "token" \notin Events PROVE QuotaExact'
  BY DEF QuotaFits
<1> DEFINE n == Number(Workers, pc, Holders)
           m == Number(Workers, pc', Holders)
           k == Cardinality(Sent)
<1>1. n \in Nat /\ m \in Nat /\ k \in Nat /\ used = k + n
  BY AnswersParts, FiniteWorkers, NumberIsNat
<1>2. /\ pc[w] \in Holders /\ pc'[w] \in Holders => m = n
      /\ pc[w] \notin Holders /\ pc'[w] \notin Holders => m = n
      /\ pc[w] \notin Holders /\ pc'[w] \in Holders => m = n + 1
      /\ pc[w] \in Holders /\ pc'[w] \notin Holders => m = n - 1
  BY FiniteWorkers, NumberAfter
<1>3. k = Cardinality({p \in Campaigns \X Comments: dms'[p[1]][p[2]] > 0})
  BY DEF Sent
<1>4. m = Cardinality({v \in Workers: pc'[v] \in Holding \ {"sent"}})
  BY DEF Number, Holders
<1> HIDE DEF n, m, k
<1>5. used' = k + m
  BY <1>1, <1>2
<1>6. QED
  BY <1>3, <1>4, <1>5 DEF QuotaExact

\* ... and becomes the unit of the DM it was for.
LEMMA QuotaOfDm ==
  ASSUME AnswersInv, NEW w \in Workers, \A v \in Workers: v # w => pc'[v] = pc[v],
         UNCHANGED used, pc[w] \in Holders, pc'[w] = "sent",
         NEW a \in Campaigns, NEW c \in Comments, a \in Firm => dms[a][c] = 0,
         dms'[a][c] > 0,
         \A b \in Campaigns, d \in Comments:
           b # a \/ d # c => dms'[b][d] = dms[b][d]
  PROVE  QuotaFits'
<1> SUFFICES ASSUME "token" \notin Events PROVE QuotaExact'
  BY DEF QuotaFits
<1>0. dms[a][c] = 0
  BY DEF Firm
<1> DEFINE n == Number(Workers, pc, Holders)
           m == Number(Workers, pc', Holders)
           k == Cardinality(Sent)
           new == {p \in Campaigns \X Comments: dms'[p[1]][p[2]] > 0}
<1>1. n \in Nat /\ m \in Nat /\ k \in Nat /\ used = k + n /\ IsFiniteSet(Sent)
  BY AnswersParts, FiniteWorkers, NumberIsNat
<1>2. pc'[w] \notin Holders
  BY DEF Holders
<1>3. m = n - 1
  BY <1>2, FiniteWorkers, NumberAfter
<1>4. new = Sent \cup {<<a, c>>} /\ <<a, c>> \notin Sent
  <2>1. <<a, c>> \notin Sent /\ <<a, c>> \in new
    BY <1>0 DEF Sent
  <2>2. ASSUME NEW p \in Campaigns \X Comments, p # <<a, c>>
        PROVE  p \in new <=> p \in Sent
    <3>1. p[1] \in Campaigns /\ p[2] \in Comments /\ (p[1] # a \/ p[2] # c)
      BY <2>2
    <3>2. dms'[p[1]][p[2]] = dms[p[1]][p[2]]
      BY <3>1
    <3>3. QED
      BY <3>2 DEF Sent
  <2>3. QED
    BY <2>1, <2>2 DEF Sent
<1>5. Cardinality(new) = k + 1
  BY <1>1, <1>4, FS_AddElement
<1>6. m = Cardinality({v \in Workers: pc'[v] \in Holding \ {"sent"}})
  BY DEF Number, Holders
<1> HIDE DEF n, m, k
<1>7. used' = Cardinality(new) + m
  BY <1>1, <1>3, <1>5
<1>8. QED
  BY <1>6, <1>7 DEF QuotaExact

\* A slot writes the row of its own campaign and comment, and keeps what the row
\* says and is to say.
OwnRow(w) ==
  \A a \in Campaigns, c \in Comments:
    a # at[w] \/ c # Comment(w) => log'[a][c] = log[a][c]

KeepsRow(w) ==
  /\ \A a \in Campaigns, c \in Comments:
       a # at[w] \/ c # Comment(w) => log'[a][c] = log[a][c]
  /\ LET row == log'[at[w]][Comment(w)]
     IN  /\ Row(w).status = "SENT" \/ pc[w] = "sent" => row.status = "SENT"
         /\ Row(w).replied \/ pc[w] = "posted" => row.replied

\* The slots other than w go on as they were.
Aside(w) ==
  \A v \in Workers:
    v # w => /\ pc'[v] = pc[v] /\ on'[v] = on[v] /\ at'[v] = at[v]
             /\ prior'[v] = prior[v]

LEMMA RowsStep ==
  ASSUME AnswersInv, NEW w \in Workers, Aside(w), KeepsRow(w),
         UNCHANGED <<dms, posts>>
  PROVE  RecordFits' /\ OneDm' /\ OneReply' /\ SentKept
<1>1. RecordFits /\ OneDm /\ OneReply
  BY AnswersParts
<1>2. ASSUME NEW a \in Campaigns, NEW c \in Comments
      PROVE  /\ a \in Firm /\ dms[a][c] > 0 =>
                  \/ log'[a][c].status = "SENT"
                  \/ \E v \in Workers:
                       v # w /\ pc[v] = "sent" /\ at[v] = a /\ Comment(v) = c
             /\ posts[a][c] > 0 =>
                  \/ log'[a][c].replied
                  \/ \E v \in Workers:
                       v # w /\ pc[v] = "posted" /\ at[v] = a /\ Comment(v) = c
             /\ log[a][c].status = "SENT" => log'[a][c].status = "SENT"
  <2>1. /\ a \in Firm /\ dms[a][c] > 0 =>
             \/ log[a][c].status = "SENT"
             \/ \E v \in Workers: pc[v] = "sent" /\ at[v] = a /\ Comment(v) = c
        /\ posts[a][c] > 0 =>
             \/ log[a][c].replied
             \/ \E v \in Workers: pc[v] = "posted" /\ at[v] = a /\ Comment(v) = c
    BY <1>1 DEF RecordFits
  <2>2. CASE a = at[w] /\ c = Comment(w)
    BY <2>1, <2>2 DEF Row, KeepsRow
  <2>3. CASE a # at[w] \/ c # Comment(w)
    BY <2>1, <2>3 DEF KeepsRow
  <2>4. QED
    BY <2>2, <2>3
<1>3. \A v \in Workers:
        v # w => pc'[v] = pc[v] /\ at'[v] = at[v] /\ Comment(v)' = Comment(v)
  BY DEF Aside, Comment
<1>4. RecordFits'
  BY <1>2, <1>3 DEF RecordFits
<1>5. OneDm' /\ OneReply'
  BY <1>1 DEF OneDm, OneReply
<1>6. QED
  BY <1>2, <1>4, <1>5 DEF SentKept

\* A write on the row of one slot is none on the row of another.
LEMMA OthersGoOn ==
  ASSUME AnswersInv, Apart, NEW w \in Workers, Aside(w), OwnRow(w),
         pc[w] # "idle" \/ UNCHANGED log
  PROVE  \A v \in Workers: v # w => RunAt(pc[v], prior[v], Row(v), at[v])'
<1> SUFFICES ASSUME NEW v \in Workers, v # w
             PROVE  RunAt(pc[v], prior[v], Row(v), at[v])'
  OBVIOUS
<1>1. /\ pc'[v] = pc[v] /\ prior'[v] = prior[v] /\ at'[v] = at[v]
      /\ Row(v)' = log'[at[v]][Comment(v)]
  BY DEF Aside, Row, Comment
<1>2. StoreFits /\ HandlersFit /\ RunAt(pc[v], prior[v], Row(v), at[v])
  BY AnswersParts DEF RunFits
<1>3. CASE pc[v] = "idle"
  BY <1>1, <1>3 DEF RunAt, Holding
<1>4. CASE pc[v] # "idle"
  <2>1. at[v] \in Campaigns /\ Comment(v) \in Comments
    BY <1>2, <1>4, RowIsARow
  <2>2. log'[at[v]][Comment(v)] = Row(v)
    BY <1>4, <2>1 DEF Apart, OwnRow, Row
  <2>3. QED
    BY <1>1, <1>2, <2>2
<1>5. QED
  BY <1>3, <1>4

LEMMA OthersRun ==
  ASSUME AnswersInv, Apart, NEW w \in Workers, Aside(w), KeepsRow(w),
         pc[w] # "idle" \/ UNCHANGED log
  PROVE  \A v \in Workers: v # w => RunAt(pc[v], prior[v], Row(v), at[v])'
BY OthersGoOn DEF KeepsRow, OwnRow

LEMMA SameRow ==
  ASSUME UNCHANGED log, NEW w, pc[w] \notin {"sent", "posted"}
  PROVE  KeepsRow(w) /\ log'[at[w]][Comment(w)] = Row(w)
BY DEF KeepsRow, Row

LEMMA NewStatus ==
  ASSUME AnswersInv, NEW w \in Workers, pc[w] \notin {"idle", "posted"},
         NEW s \in Statuses, SetStatus(w, s),
         s # "SENT" => pc[w] # "sent" /\ Row(w).status # "SENT"
  PROVE  /\ KeepsRow(w)
         /\ log'[at[w]][Comment(w)].status = s
         /\ log'[at[w]][Comment(w)].replied = Row(w).replied
<1>1. StoreFits /\ HandlersFit
  BY AnswersParts
<1>2. /\ log'[at[w]][Comment(w)].status = s
      /\ log'[at[w]][Comment(w)].replied = Row(w).replied
      /\ \A a \in Campaigns, c \in Comments:
           a # at[w] \/ c # Comment(w) => log'[a][c] = log[a][c]
  BY <1>1, SetStatusStep
<1>3. QED
  BY <1>2 DEF KeepsRow

-----------------------------------------------------------------------------
(* What each step of the one slot keeps *)

Keeps == RunFits' /\ RecordFits' /\ OneDm' /\ OneReply' /\ QuotaFits'
Kept == Keeps /\ SentKept

\* The loop goes on, or the handler is left.
LEMMA ReturnKeeps ==
  ASSUME AnswersInv, NEW w \in Workers, Apart, pc[w] \notin {"idle"} \cup Holders,
         Throw(w) \/ \E jobs: QueueFits(jobs) /\ Continue(w, jobs),
         KeepsRow(w), UNCHANGED <<dms, posts, used>>
  PROVE  Kept
<1>1. Others(w) /\ pc'[w] \in {"idle", "look"}
  BY AnswersParts, ThrowStep, ContinueStep
<1>2. pc'[w] \notin Holding
  BY <1>1 DEF Holding
<1>3. Aside(w)
  BY <1>1 DEF Others, Aside
<1>4. RunFits'
  <2>1. RunAt(pc'[w], prior'[w], Row(w)', at'[w])
    BY <1>1, <1>2 DEF RunAt
  <2>2. \A v \in Workers: v # w => RunAt(pc[v], prior[v], Row(v), at[v])'
    BY <1>3, OthersRun
  <2>3. QED
    BY <2>1, <2>2 DEF RunFits
<1>5. QuotaFits'
  BY <1>1, <1>2, QuotaStep DEF Others, Holders
<1>6. QED
  BY <1>3, <1>4, <1>5, RowsStep DEF Kept, Keeps

\* It goes on at some place.
LEMMA PlaceKeeps ==
  ASSUME AnswersInv, NEW w \in Workers, Apart, pc[w] # "idle",
         NEW place \in Places, Goto(w, place),
         UNCHANGED <<on, at, dms, posts>>,
         \A v \in Workers: v # w => prior'[v] = prior[v],
         \/ UNCHANGED used /\ (pc[w] \in Holders <=> place \in Holders)
         \/ used' = used + 1 /\ pc[w] \notin Holders /\ place \in Holders
         \/ used' = used - 1 /\ pc[w] \in Holders /\ place \notin Holders,
         KeepsRow(w),
         RunAt(place, prior'[w], log'[at[w]][Comment(w)], at[w])
  PROVE  Kept
<1>1. pc'[w] = place /\ \A v \in Workers: v # w => pc'[v] = pc[v]
  BY AnswersParts DEF Goto, HandlersFit
<1>2. Row(w)' = log'[at[w]][Comment(w)]
  BY DEF Row, Comment
<1>3. Aside(w)
  BY <1>1 DEF Aside
<1>4. RunFits'
  <2>1. \A v \in Workers: v # w => RunAt(pc[v], prior[v], Row(v), at[v])'
    BY <1>3, OthersRun
  <2>2. QED
    BY <1>1, <1>2, <2>1 DEF RunFits
<1>5. QuotaFits'
  BY <1>1, QuotaStep
<1>6. QED
  BY <1>3, <1>4, <1>5, RowsStep DEF Kept, Keeps

LEMMA LookKeeps ==
  ASSUME AnswersInv, NEW w \in Workers, Apart, Look(w)
  PROVE  Kept
<1>1. pc[w] = "look" /\ UNCHANGED <<log, dms, posts, used>>
  BY DEF Look
<1>2. pc[w] \notin {"idle"} \cup Holders /\ "log" \in Places \ Holding
  BY <1>1 DEF Holders, Holding, Places
<1>3. KeepsRow(w) /\ log'[at[w]][Comment(w)] = Row(w)
  BY <1>1, SameRow
<1>4. CASE Continue(w, job)
  BY <1>1, <1>2, <1>3, <1>4, AnswersParts, ReturnKeeps
<1>5. CASE prior' = [prior EXCEPT ![w] = Row(w)] /\ Goto(w, "log")
           /\ UNCHANGED <<job, on, at, arrived>>
           /\ (Row(w).status = "SENT" => at[w] \in Public /\ ~Row(w).replied)
  <2>1. prior'[w] = Row(w) /\ \A v \in Workers: v # w => prior'[v] = prior[v]
    BY <1>5, AnswersParts DEF HandlersFit
  <2>2. RunAt("log", prior'[w], log'[at[w]][Comment(w)], at[w])
    BY <1>3, <1>5, <2>1 DEF RunAt, Holding
  <2>3. QED
    BY <1>1, <1>2, <1>3, <1>5, <2>1, <2>2, PlaceKeeps DEF Holders
<1>6. QED
  BY <1>4, <1>5 DEF Look

\* The row is as it was read, so no create meets a row of somebody else.
LEMMA WriteLogKeeps ==
  ASSUME AnswersInv, NEW w \in Workers, Apart, WriteLog(w)
  PROVE  Kept
<1> DEFINE place == IF NeedsReply(w) THEN "reply" ELSE "reserve"
<1>1. pc[w] = "log" /\ UNCHANGED <<dms, posts, used, slots, listed, faults>>
  BY DEF WriteLog
<1>2. prior[w] = Row(w)
  BY <1>1, AnswersParts DEF RunFits, RunAt
<1>3. /\ IF NeedsDm(w) THEN SetStatus(w, "PENDING") ELSE UNCHANGED log
      /\ Goto(w, place) /\ UNCHANGED <<job, on, at, prior, arrived>>
  BY <1>2 DEF WriteLog
<1>4. /\ place \in {"reply", "reserve"} /\ (place = "reply" => ~prior[w].replied)
  BY DEF NeedsReply
<1> HIDE DEF place
<1>5. /\ pc[w] # "idle" /\ place \in Places
      /\ pc[w] \notin Holders /\ place \notin Holders
  BY <1>1, <1>4 DEF Holders, Holding, Places
<1>6. CASE NeedsDm(w)
  <2>1. SetStatus(w, "PENDING") /\ Row(w).status # "SENT" /\ "PENDING" \in Statuses
    BY <1>2, <1>3, <1>6 DEF NeedsDm, Statuses
  <2>2. /\ KeepsRow(w)
        /\ log'[at[w]][Comment(w)].status = "PENDING"
        /\ log'[at[w]][Comment(w)].replied = Row(w).replied
    BY <1>1, <2>1, NewStatus
  <2>3. prior'[w] = prior[w] /\ prior[w].status # "SENT"
    BY <1>3, <1>6 DEF NeedsDm
  <2>4. RunAt(place, prior'[w], log'[at[w]][Comment(w)], at[w])
    BY <1>2, <1>4, <2>2, <2>3 DEF RunAt, Holding
  <2>5. QED
    BY <1>1, <1>3, <1>5, <2>2, <2>4, PlaceKeeps
<1>7. CASE ~NeedsDm(w)
  <2>1. UNCHANGED log
    BY <1>3, <1>7
  <2>2. KeepsRow(w) /\ log'[at[w]][Comment(w)] = Row(w)
    BY <1>1, <2>1, SameRow
  <2>3. RunAt(place, prior'[w], log'[at[w]][Comment(w)], at[w])
    BY <1>2, <1>3, <1>4, <2>2 DEF RunAt, Holding
  <2>4. QED
    BY <1>1, <1>3, <1>5, <2>2, <2>3, PlaceKeeps
<1>8. QED
  BY <1>6, <1>7

\* A reply is posted where none was: the row would say so.
LEMMA PostReplyKeeps ==
  ASSUME AnswersInv, NEW w \in Workers, Apart, NothingLost,
         PostReply(w)
  PROVE  Kept
<1>1. /\ pc[w] = "reply"
      /\ UNCHANGED <<log, dms, job, on, at, prior, arrived, used, slots, listed>>
  BY DEF PostReply
<1>2. /\ prior'[w] = prior[w] /\ ~Row(w).replied
      /\ (prior[w].status = "SENT" <=> Row(w).status = "SENT")
  BY <1>1, AnswersParts DEF RunFits, RunAt
<1>3. /\ pc[w] # "idle" /\ pc[w] \notin Holders
      /\ {"posted", "reserve"} \subseteq Places \ Holders
  BY <1>1 DEF Holders, Holding, Places
<1>4. KeepsRow(w) /\ log'[at[w]][Comment(w)] = Row(w)
  BY <1>1, SameRow
<1>5. /\ RunAt("posted", prior'[w], log'[at[w]][Comment(w)], at[w])
      /\ RunAt("reserve", prior'[w], log'[at[w]][Comment(w)], at[w])
  BY <1>2, <1>4 DEF RunAt, Holding
<1>6. CASE CountPost(w) /\ Goto(w, "posted")
  <2>1. /\ StoreFits /\ HandlersFit /\ RecordFits /\ OneDm /\ OneReply
        /\ at[w] \in Campaigns /\ Comment(w) \in Comments
    BY <1>3, AnswersParts, RowIsARow
  <2>2. posts[at[w]][Comment(w)] = 0
    <3>1. posts[at[w]][Comment(w)] \in 0..2
      BY <2>1 DEF StoreFits
    <3>2. ~(posts[at[w]][Comment(w)] > 0)
      BY <1>1, <1>2, <1>3, <2>1 DEF RecordFits, Row, Apart
    <3>3. QED
      BY <3>1, <3>2
  <2>3. /\ posts'[at[w]][Comment(w)] = 1
        /\ \A a \in Campaigns, c \in Comments:
             a # at[w] \/ c # Comment(w) => posts'[a][c] = posts[a][c]
    BY <1>3, <1>6, <2>1, <2>2, CountPostStep, MoreIsMore
  <2>4. pc'[w] = "posted" /\ \A v \in Workers: v # w => pc'[v] = pc[v]
    BY <1>6, <2>1 DEF Goto, HandlersFit
  <2>5. RunFits'
    <3>1. Aside(w)
      BY <1>1, <2>4 DEF Aside
    <3>2. \A v \in Workers: v # w => RunAt(pc[v], prior[v], Row(v), at[v])'
      BY <1>1, <1>4, <3>1, OthersRun
    <3>3. Row(w)' = log'[at[w]][Comment(w)]
      BY <1>1 DEF Row, Comment
    <3>4. QED
      BY <1>1, <1>5, <2>4, <3>2, <3>3 DEF RunFits
  <2>6. RecordFits'
    <3>1. ASSUME NEW a \in Campaigns, NEW c \in Comments
          PROVE  /\ a \in Firm /\ dms[a][c] > 0 =>
                      \/ log[a][c].status = "SENT"
                      \/ \E v \in Workers:
                           /\ v # w /\ pc[v] = "sent" /\ at[v] = a
                           /\ Comment(v) = c
                 /\ posts'[a][c] > 0 =>
                      \/ log[a][c].replied
                      \/ \E v \in Workers:
                           /\ v # w /\ pc[v] = "posted" /\ at[v] = a
                           /\ Comment(v) = c
                      \/ at[w] = a /\ Comment(w) = c
      <4>1. a \in Firm /\ dms[a][c] > 0 =>
              \/ log[a][c].status = "SENT"
              \/ \E v \in Workers:
                   v # w /\ pc[v] = "sent" /\ at[v] = a /\ Comment(v) = c
        BY <1>1, <2>1 DEF RecordFits
      <4>2. posts[a][c] > 0 =>
              \/ log[a][c].replied
              \/ \E v \in Workers:
                   v # w /\ pc[v] = "posted" /\ at[v] = a /\ Comment(v) = c
        BY <1>1, <2>1 DEF RecordFits
      <4>3. (a = at[w] /\ c = Comment(w)) \/ posts'[a][c] = posts[a][c]
        BY <2>3
      <4>4. QED
        BY <4>1, <4>2, <4>3
    <3>2. \A v \in Workers: at'[v] = at[v] /\ Comment(v)' = Comment(v)
      BY <1>1 DEF Comment
    <3>3. QED
      BY <1>1, <2>4, <3>1, <3>2 DEF RecordFits
  <2>7. OneReply'
    <3>1. ASSUME NEW a \in Campaigns, NEW c \in Comments
          PROVE  posts'[a][c] <= 1
      <4>1. CASE a = at[w] /\ c = Comment(w)
        BY <2>3, <4>1
      <4>2. CASE a # at[w] \/ c # Comment(w)
        BY <2>1, <2>3, <4>2 DEF OneReply
      <4>3. QED
        BY <4>1, <4>2
    <3>2. QED
      BY <3>1 DEF OneReply
  <2>8. OneDm' /\ SentKept
    BY <1>1, <2>1 DEF OneDm, SentKept
  <2>9. QuotaFits'
    BY <1>1, <1>3, <2>4, QuotaStep
  <2>10. QED
    BY <2>5, <2>6, <2>7, <2>8, <2>9 DEF Kept, Keeps
<1>7. CASE Goto(w, "reserve") /\ UNCHANGED posts
  BY <1>1, <1>3, <1>4, <1>5, <1>7, PlaceKeeps
<1>8. ~Fault("lost")
  BY DEF Fault, NothingLost
<1>9. QED
  BY <1>6, <1>7, <1>8 DEF PostReply

LEMMA RecordPostKeeps ==
  ASSUME AnswersInv, NEW w \in Workers, Apart, NothingLost,
         RecordPost(w)
  PROVE  Kept
<1> DEFINE row == [Row(w) EXCEPT !.replied = TRUE]
<1>1. /\ pc[w] = "posted" /\ Goto(w, "reserve")
      /\ UNCHANGED <<dms, posts, job, on, at, prior, arrived, used, slots, listed>>
  BY DEF RecordPost
<1>2. SetRow(w, row)
  BY DEF RecordPost, Fault, NothingLost
<1>3. /\ pc[w] # "idle" /\ pc[w] \notin Holders /\ "reserve" \in Places \ Holders
      /\ "posted" # "sent"
  BY <1>1 DEF Holders, Holding, Places
<1>4. StoreFits /\ HandlersFit /\ Row(w) \in Rows
  BY <1>3, AnswersParts, RowIsARow
<1>5. row \in Rows /\ row.status = Row(w).status /\ row.replied
  BY <1>4 DEF Rows
<1> HIDE DEF row
<1>6. /\ log'[at[w]][Comment(w)] = row
      /\ \A a \in Campaigns, c \in Comments:
           a # at[w] \/ c # Comment(w) => log'[a][c] = log[a][c]
  BY <1>2, <1>3, <1>4, <1>5, SetRowStep
<1>7. KeepsRow(w)
  BY <1>1, <1>5, <1>6 DEF KeepsRow
<1>8. /\ prior'[w] = prior[w]
      /\ (prior[w].status = "SENT" <=> Row(w).status = "SENT")
  BY <1>1, AnswersParts DEF RunFits, RunAt
<1>9. RunAt("reserve", prior'[w], log'[at[w]][Comment(w)], at[w])
  BY <1>5, <1>6, <1>8 DEF RunAt, Holding
<1>10. QED
  BY <1>1, <1>3, <1>7, <1>9, PlaceKeeps

LEMMA ReserveKeeps ==
  ASSUME AnswersInv, NEW w \in Workers, Apart,
         NoDmNeeded(w) \/ ReserveQuota(w) \/ SkipForPlan(w)
  PROVE  Kept
<1>1. pc[w] \in {"reserve", "skip"} /\ UNCHANGED <<dms, posts>>
  BY DEF NoDmNeeded, ReserveQuota, SkipForPlan
<1>2. /\ pc[w] \notin {"idle", "sent", "posted"} \cup Holders
      /\ "slot" \in Places /\ "slot" \in Holders
      /\ "skip" \in Places /\ "skip" \notin Holders
  BY <1>1 DEF Holders, Holding, Places
<1>3. QueueFits(job)
  BY AnswersParts
<1>4. CASE NoDmNeeded(w)
  <2>1. Continue(w, job) /\ UNCHANGED <<log, used>>
    BY <1>4 DEF NoDmNeeded
  <2>2. KeepsRow(w)
    BY <1>2, <2>1, SameRow
  <2>3. QED
    BY <1>1, <1>2, <1>3, <2>1, <2>2, ReturnKeeps
<1>5. CASE ReserveQuota(w)
  <2>1. /\ pc[w] = "reserve" /\ prior[w].status # "SENT"
        /\ UNCHANGED <<log, on, at, prior>>
    BY <1>5 DEF ReserveQuota, NeedsDm
  <2>2. Row(w).status # "SENT"
    BY <2>1, AnswersParts DEF RunFits, RunAt
  <2>3. KeepsRow(w) /\ log'[at[w]][Comment(w)] = Row(w)
    BY <1>2, <2>1, SameRow
  <2>4. /\ RunAt("slot", prior'[w], log'[at[w]][Comment(w)], at[w])
        /\ RunAt("skip", prior'[w], log'[at[w]][Comment(w)], at[w])
    BY <2>2, <2>3 DEF RunAt
  <2>5. CASE used' = used + 1 /\ Goto(w, "slot")
    BY <1>1, <1>2, <2>1, <2>3, <2>4, <2>5, PlaceKeeps
  <2>6. CASE Goto(w, "skip") /\ UNCHANGED used
    BY <1>1, <1>2, <2>1, <2>3, <2>4, <2>6, PlaceKeeps
  <2>7. QED
    BY <1>5, <2>5, <2>6 DEF ReserveQuota
<1>6. CASE SkipForPlan(w)
  <2>1. /\ pc[w] = "skip" /\ SetStatus(w, "SKIPPED_PLAN_LIMIT")
        /\ Continue(w, job) /\ UNCHANGED used
    BY <1>6 DEF SkipForPlan
  <2>2. Row(w).status # "SENT" /\ "SKIPPED_PLAN_LIMIT" \in Statuses
    BY <2>1, AnswersParts DEF RunFits, RunAt, Statuses
  <2>3. KeepsRow(w)
    BY <1>2, <2>1, <2>2, NewStatus
  <2>4. QED
    BY <1>1, <1>2, <1>3, <2>1, <2>3, ReturnKeeps
<1>7. QED
  BY <1>4, <1>5, <1>6

LEMMA SlotKeeps ==
  ASSUME AnswersInv, NEW w \in Workers, Apart,
         ReserveSlot(w) \/ ReleaseDenied(w) \/ Undo(w)
  PROVE  Kept
<1>1. pc[w] \in {"slot", "denied", "undo"} /\ UNCHANGED <<log, dms, posts, on, at, prior>>
  BY DEF ReserveSlot, ReleaseDenied, Undo
<1>2. /\ pc[w] \in Holders /\ pc[w] \notin {"idle", "sent", "posted"}
      /\ {"send", "denied", "undo"} \subseteq Places \cap Holders
      /\ {"reschedule", "fail"} \subseteq Places \ Holders
  BY <1>1 DEF Holders, Holding, Places
<1>3. Row(w).status # "SENT"
  BY <1>2, AnswersParts DEF RunFits, RunAt, Holders
<1>4. KeepsRow(w) /\ log'[at[w]][Comment(w)] = Row(w)
  BY <1>1, <1>2, SameRow
<1>5. \A place \in {"send", "denied", "undo", "reschedule", "fail"}:
        RunAt(place, prior'[w], log'[at[w]][Comment(w)], at[w])
  BY <1>3, <1>4 DEF RunAt
<1>6. CASE ReserveSlot(w)
  <2>1. UNCHANGED used /\ \E place \in {"send", "denied", "undo"}: Goto(w, place)
    BY <1>6 DEF ReserveSlot
  <2>2. PICK place \in {"send", "denied", "undo"}: Goto(w, place)
    BY <2>1
  <2>3. place \in Places /\ place \in Holders
    BY <1>2
  <2>4. QED
    BY <1>1, <1>2, <1>4, <1>5, <2>1, <2>2, <2>3, PlaceKeeps
<1>7. CASE ReleaseDenied(w)
  BY <1>1, <1>2, <1>4, <1>5, <1>7, PlaceKeeps DEF ReleaseDenied
<1>8. CASE Undo(w)
  BY <1>1, <1>2, <1>4, <1>5, <1>8, PlaceKeeps DEF Undo
<1>9. QED
  BY <1>6, <1>7, <1>8

LEMMA RescheduleKeeps ==
  ASSUME AnswersInv, NEW w \in Workers, Apart, Reschedule(w) \/ Requeue(w)
  PROVE  Kept
<1>1. pc[w] \in {"reschedule", "requeue"} /\ UNCHANGED <<dms, posts, used>>
  BY DEF Reschedule, Requeue
<1>2. /\ pc[w] \notin {"idle", "sent", "posted"} \cup Holders
      /\ "requeue" \in Places /\ "requeue" \notin Holders
  BY <1>1 DEF Holders, Holding, Places
<1>3. /\ StoreFits /\ HandlersFit /\ JobsFit /\ QueueFits(job)
      /\ on[w] \in JobIds /\ Row(w) \in Rows
  BY <1>2, AnswersParts, RowIsARow
<1>4. Row(w).status # "SENT"
  BY <1>1, AnswersParts DEF RunFits, RunAt
<1>5. CASE SetStatus(w, "SKIPPED_RATE_LIMIT") /\ Continue(w, job)
  <2>1. KeepsRow(w)
    BY <1>2, <1>4, <1>5, NewStatus DEF Statuses
  <2>2. QED
    BY <1>1, <1>2, <1>3, <1>5, <2>1, ReturnKeeps
<1>6. CASE /\ SetRow(w, [Row(w) EXCEPT !.status = "PENDING", !.promise = TRUE])
           /\ Goto(w, "requeue") /\ UNCHANGED <<job, on, at, prior, arrived>>
  <2> DEFINE row == [Row(w) EXCEPT !.status = "PENDING", !.promise = TRUE]
  <2>1. row \in Rows /\ row.status # "SENT" /\ row.replied = Row(w).replied
    BY <1>3 DEF Rows, Statuses
  <2>2. SetRow(w, row)
    BY <1>6
  <2> HIDE DEF row
  <2>3. /\ log'[at[w]][Comment(w)] = row
        /\ \A a \in Campaigns, c \in Comments:
             a # at[w] \/ c # Comment(w) => log'[a][c] = log[a][c]
    BY <1>2, <1>3, <2>1, <2>2, SetRowStep
  <2>4. KeepsRow(w)
    BY <1>2, <1>4, <2>1, <2>3 DEF KeepsRow
  <2>5. RunAt("requeue", prior'[w], log'[at[w]][Comment(w)], at[w])
    BY <2>1, <2>3 DEF RunAt
  <2>6. QED
    BY <1>1, <1>2, <1>6, <2>4, <2>5, PlaceKeeps
<1>7. CASE Requeue(w)
  <2> DEFINE retry == [comment |-> Comment(w), source |-> "retry",
                       n |-> RequeueAttempt(on[w]) + 1]
  <2>1. pc[w] = "requeue" /\ Continue(w, Add(job, retry)) /\ UNCHANGED log
    BY <1>7 DEF Requeue
  <2>2. RequeueAttempt(on[w]) < MaxRequeues
    BY <1>3, <2>1 DEF HandlersFit
  <2>3. retry \in JobIds
    BY <1>3, <2>2, JobIdFacts DEF Comment
  <2> HIDE DEF retry
  <2>4. QueueFits(Add(job, retry))
    BY <1>3, <2>3, AddStep
  <2>5. KeepsRow(w)
    BY <1>2, <2>1, SameRow
  <2>6. QED
    BY <1>1, <1>2, <2>1, <2>4, <2>5, ReturnKeeps
<1>8. QED
  BY <1>5, <1>6, <1>7 DEF Reschedule

\* A DM is sent where none was: the row would say SENT.
LEMMA CallKeeps ==
  ASSUME AnswersInv, NEW w \in Workers, Apart, NothingLost,
         pc[w] \in {"send", "resend"},
         NEW failed \in {"resend", "undo"}, Call(w, failed),
         UNCHANGED <<log, posts, job, on, at, prior, used, slots, listed>>
  PROVE  Kept
<1>1. /\ pc[w] \in Holders /\ pc[w] \notin {"idle", "sent", "posted"}
      /\ failed \in Places /\ failed \in Holders /\ failed \in Holding
      /\ "sent" \in Holding
  BY DEF Holders, Holding, Places
<1>2. Row(w).status # "SENT"
  BY <1>1, AnswersParts DEF RunFits, RunAt, Holders
<1>3. KeepsRow(w) /\ log'[at[w]][Comment(w)] = Row(w)
  BY <1>1, SameRow
<1>4. /\ RunAt("sent", prior'[w], log'[at[w]][Comment(w)], at[w])
      /\ RunAt(failed, prior'[w], log'[at[w]][Comment(w)], at[w])
  BY <1>2, <1>3 DEF RunAt
<1>5. CASE CountDm(w) /\ Goto(w, "sent")
  <2>1. /\ StoreFits /\ HandlersFit /\ RecordFits /\ OneDm /\ OneReply
        /\ at[w] \in Campaigns /\ Comment(w) \in Comments
    BY <1>1, AnswersParts, RowIsARow
  <2>2. /\ dms[at[w]][Comment(w)] \in 0..2
        /\ at[w] \in Firm => dms[at[w]][Comment(w)] = 0
    <3>1. dms[at[w]][Comment(w)] \in 0..2
      BY <2>1 DEF StoreFits
    <3>2. at[w] \in Firm => ~(dms[at[w]][Comment(w)] > 0)
      BY <1>1, <1>2, <2>1 DEF RecordFits, Row, Apart
    <3>3. QED
      BY <3>1, <3>2
  <2>3. /\ dms'[at[w]][Comment(w)] > 0
        /\ at[w] \in Firm => dms'[at[w]][Comment(w)] = 1
        /\ \A a \in Campaigns, c \in Comments:
             a # at[w] \/ c # Comment(w) => dms'[a][c] = dms[a][c]
    BY <1>1, <1>5, <2>1, <2>2, CountDmStep, MoreIsMore
  <2>4. pc'[w] = "sent" /\ \A v \in Workers: v # w => pc'[v] = pc[v]
    BY <1>5, <1>1, <2>1 DEF Goto, HandlersFit
  <2>5. at'[w] = at[w] /\ Comment(w)' = Comment(w)
    BY DEF Comment
  <2>6. RunFits'
    <3>1. Aside(w)
      BY <2>4 DEF Aside
    <3>2. \A v \in Workers: v # w => RunAt(pc[v], prior[v], Row(v), at[v])'
      BY <1>3, <3>1, OthersRun
    <3>3. Row(w)' = log'[at[w]][Comment(w)]
      BY DEF Row, Comment
    <3>4. QED
      BY <1>4, <2>4, <3>2, <3>3 DEF RunFits
  <2>7. RecordFits'
    <3>1. ASSUME NEW a \in Campaigns, NEW c \in Comments
          PROVE  /\ posts[a][c] > 0 =>
                      \/ log[a][c].replied
                      \/ \E v \in Workers:
                           /\ v # w /\ pc[v] = "posted" /\ at[v] = a
                           /\ Comment(v) = c
                 /\ a \in Firm /\ dms'[a][c] > 0 =>
                      \/ log[a][c].status = "SENT"
                      \/ \E v \in Workers:
                           /\ v # w /\ pc[v] = "sent" /\ at[v] = a
                           /\ Comment(v) = c
                      \/ at[w] = a /\ Comment(w) = c
      <4>1. posts[a][c] > 0 =>
              \/ log[a][c].replied
              \/ \E v \in Workers:
                   v # w /\ pc[v] = "posted" /\ at[v] = a /\ Comment(v) = c
        BY <1>1, <2>1 DEF RecordFits
      <4>2. a \in Firm /\ dms[a][c] > 0 =>
              \/ log[a][c].status = "SENT"
              \/ \E v \in Workers:
                   v # w /\ pc[v] = "sent" /\ at[v] = a /\ Comment(v) = c
        BY <1>1, <2>1 DEF RecordFits
      <4>3. (a = at[w] /\ c = Comment(w)) \/ dms'[a][c] = dms[a][c]
        BY <2>3
      <4>4. QED
        BY <4>1, <4>2, <4>3
    <3>2. \A v \in Workers: at'[v] = at[v] /\ Comment(v)' = Comment(v)
      BY DEF Comment
    <3>3. QED
      BY <2>4, <3>1, <3>2 DEF RecordFits
  <2>8. OneDm'
    <3>0. Firm \subseteq Campaigns
      BY DEF Firm
    <3>1. ASSUME NEW a \in Firm, NEW c \in Comments
          PROVE  dms'[a][c] <= 1
      <4>1. CASE a = at[w] /\ c = Comment(w)
        BY <2>3, <4>1
      <4>2. CASE a # at[w] \/ c # Comment(w)
        BY <2>1, <2>3, <3>0, <4>2 DEF OneDm
      <4>3. QED
        BY <4>1, <4>2
    <3>2. QED
      BY <3>1 DEF OneDm
  <2>9. OneReply' /\ SentKept
    BY <2>1 DEF OneReply, SentKept
  <2>10. QuotaFits'
    <3>1. dms'[at[w]][Comment(w)] > 0
      BY <2>3
    <3>2. w \in Workers
      OBVIOUS
    <3>3. QED
      BY <1>1, <2>1, <2>2, <2>3, <2>4, <3>1, <3>2, QuotaOfDm
  <2>11. QED
    BY <2>6, <2>7, <2>8, <2>9, <2>10 DEF Kept, Keeps
<1>6. CASE Goto(w, failed) /\ UNCHANGED dms
  BY <1>1, <1>3, <1>4, <1>6, PlaceKeeps
<1>7. ~Fault("lost")
  BY DEF Fault, NothingLost
<1>8. QED
  BY <1>5, <1>6, <1>7 DEF Call

LEMMA SendKeeps ==
  ASSUME AnswersInv, NEW w \in Workers, Apart, NothingLost,
         Send(w) \/ Resend(w)
  PROVE  Kept
<1>1. CASE Send(w)
  <2> DEFINE failed == IF at[w] \in Linked THEN "resend" ELSE "undo"
  <2>1. failed \in {"resend", "undo"}
    OBVIOUS
  <2>2. /\ pc[w] = "send" /\ Call(w, failed)
        /\ UNCHANGED <<log, posts, job, on, at, prior, used, slots, listed>>
    BY <1>1 DEF Send
  <2> HIDE DEF failed
  <2>3. QED
    BY <2>1, <2>2, CallKeeps
<1>2. CASE Resend(w)
  BY <1>2, CallKeeps DEF Resend
<1>3. QED
  BY <1>1, <1>2

LEMMA EndKeeps ==
  ASSUME AnswersInv, NEW w \in Workers, Apart, NothingLost,
         MarkSent(w) \/ MarkFailed(w) \/ QueryFails(w)
  PROVE  Kept
<1>1. ~Fault("db")
  BY DEF Fault, NothingLost
<1>2. /\ pc[w] \in {"sent", "fail", "requeue"}
      /\ UNCHANGED <<dms, posts, used>>
  BY <1>1 DEF MarkSent, MarkFailed, QueryFails
<1>3. pc[w] \notin {"idle", "posted"} \cup Holders
  BY <1>2 DEF Holders, Holding
<1>4. QueueFits(job) /\ {"SENT", "FAILED"} \subseteq Statuses
  BY AnswersParts DEF Statuses
<1>5. CASE MarkSent(w)
  <2>1. SetStatus(w, "SENT") /\ Continue(w, job)
    BY <1>1, <1>5 DEF MarkSent
  <2>2. KeepsRow(w)
    BY <1>3, <1>4, <2>1, NewStatus
  <2>3. QED
    BY <1>2, <1>3, <1>4, <2>1, <2>2, ReturnKeeps
<1>6. CASE MarkFailed(w)
  <2>1. pc[w] = "fail" /\ SetStatus(w, "FAILED") /\ Throw(w)
    BY <1>6 DEF MarkFailed
  <2>2. Row(w).status # "SENT"
    BY <2>1, AnswersParts DEF RunFits, RunAt
  <2>3. KeepsRow(w)
    BY <1>3, <1>4, <2>1, <2>2, NewStatus
  <2>4. QED
    BY <1>2, <1>3, <2>1, <2>3, ReturnKeeps
<1>7. CASE QueryFails(w)
  <2>1. pc[w] = "requeue" /\ Throw(w) /\ UNCHANGED log
    BY <1>1, <1>7 DEF QueryFails
  <2>2. KeepsRow(w)
    BY <2>1, SameRow
  <2>3. QED
    BY <1>2, <1>3, <2>1, <2>2, ReturnKeeps
<1>8. QED
  BY <1>5, <1>6, <1>7

\* An unreadable token takes SENT only off a row whose public reply is owed, and
\* nothing else.
LEMMA TokenKeeps ==
  ASSUME AnswersInv, NEW w \in Workers, Apart, TokenFails(w)
  PROVE  Keeps /\ OnlyTokensTake
<1>1. /\ pc[w] = "log" /\ "token" \in Events /\ SetStatus(w, "FAILED")
      /\ Continue(w, job) /\ UNCHANGED <<dms, posts, used>>
  BY DEF TokenFails, Fault
<1>2. /\ StoreFits /\ HandlersFit /\ JobsFit /\ QueueFits(job) /\ RecordFits
      /\ OneDm /\ OneReply
  BY AnswersParts
<1>3. /\ log'[at[w]][Comment(w)].status = "FAILED"
      /\ log'[at[w]][Comment(w)].replied = Row(w).replied
      /\ OwnRow(w)
  BY <1>1, <1>2, SetStatusStep DEF OwnRow, Statuses
<1>4. Row(w).status = "SENT" => at[w] \in Public /\ ~Row(w).replied
  BY <1>1, AnswersParts DEF RunFits, RunAt
<1>5. Others(w) /\ pc'[w] \in {"idle", "look"}
  BY <1>1, <1>2, ContinueStep
<1>6. Aside(w)
  BY <1>5 DEF Others, Aside
<1>7. RunFits'
  <2>1. RunAt(pc'[w], prior'[w], Row(w)', at'[w])
    BY <1>5 DEF RunAt, Holding
  <2>2. \A v \in Workers: v # w => RunAt(pc[v], prior[v], Row(v), at[v])'
    BY <1>1, <1>3, <1>6, OthersGoOn
  <2>3. QED
    BY <2>1, <2>2 DEF RunFits
<1>8. RecordFits'
  <2>1. ASSUME NEW a \in Campaigns, NEW c \in Comments
        PROVE  /\ a \in Firm /\ dms[a][c] > 0 =>
                    \/ log'[a][c].status = "SENT"
                    \/ \E v \in Workers:
                         v # w /\ pc[v] = "sent" /\ at[v] = a /\ Comment(v) = c
               /\ posts[a][c] > 0 =>
                    \/ log'[a][c].replied
                    \/ \E v \in Workers:
                         v # w /\ pc[v] = "posted" /\ at[v] = a /\ Comment(v) = c
    <3>1. /\ a \in Firm /\ dms[a][c] > 0 =>
               \/ log[a][c].status = "SENT"
               \/ \E v \in Workers:
                    v # w /\ pc[v] = "sent" /\ at[v] = a /\ Comment(v) = c
          /\ posts[a][c] > 0 =>
               \/ log[a][c].replied
               \/ \E v \in Workers:
                    v # w /\ pc[v] = "posted" /\ at[v] = a /\ Comment(v) = c
      BY <1>1, <1>2 DEF RecordFits
    <3>2. CASE a = at[w] /\ c = Comment(w)
      BY <1>1, <1>3, <1>4, <3>1, <3>2 DEF Row, Firm
    <3>3. CASE a # at[w] \/ c # Comment(w)
      BY <1>3, <3>1, <3>3 DEF OwnRow
    <3>4. QED
      BY <3>2, <3>3
  <2>2. \A v \in Workers:
          v # w => pc'[v] = pc[v] /\ at'[v] = at[v] /\ Comment(v)' = Comment(v)
    BY <1>6 DEF Aside, Comment
  <2>3. QED
    BY <1>1, <2>1, <2>2 DEF RecordFits
<1>9. OneDm' /\ OneReply' /\ QuotaFits'
  BY <1>1, <1>2 DEF OneDm, OneReply, QuotaFits
<1>10. OnlyTokensTake
  BY <1>1, <1>3, <1>4 DEF OnlyTokensTake, OwnRow, Row
<1>11. QED
  BY <1>7, <1>8, <1>9, <1>10 DEF Keeps

\* One handler cannot crash here.
LEMMA ProcessKeeps ==
  ASSUME AnswersInv, NEW w \in Workers, Apart, NothingLost,
         Process(w) \/ QueryFails(w) \/ Crash(w)
  PROVE  Kept
<1>1. ~Crash(w)
  BY DEF Crash, Fault, NothingLost
<1>2. QED
  BY <1>1, LookKeeps, WriteLogKeeps, PostReplyKeeps, RecordPostKeeps, ReserveKeeps,
     SlotKeeps, RescheduleKeeps, SendKeeps, EndKeeps DEF Process

LEMMA TakeJobKeeps ==
  ASSUME AnswersInv, NEW w \in Workers, Apart, NEW j \in JobIds, TakeJob(w, j)
  PROVE  Kept
<1>1. /\ pc[w] = "idle" /\ Goto(w, "look") /\ on' = [on EXCEPT ![w] = j]
      /\ UNCHANGED <<log, dms, posts, at, prior, used>>
  BY DEF TakeJob
<1>2. /\ pc'[w] = "look"
      /\ \A v \in Workers: v # w => pc'[v] = pc[v] /\ on'[v] = on[v]
  BY <1>1, AnswersParts DEF Goto, HandlersFit
<1>3. pc[w] \notin Holders /\ pc'[w] \notin Holding /\ pc'[w] \notin Holders
  BY <1>1, <1>2 DEF Holders, Holding
<1>4. KeepsRow(w) /\ Aside(w)
  BY <1>1, <1>2, SameRow DEF Aside
<1>5. RunFits'
  <2>1. RunAt(pc'[w], prior'[w], Row(w)', at'[w])
    BY <1>2, <1>3 DEF RunAt
  <2>2. \A v \in Workers: v # w => RunAt(pc[v], prior[v], Row(v), at[v])'
    BY <1>1, <1>4, OthersRun
  <2>3. QED
    BY <2>1, <2>2 DEF RunFits
<1>6. QuotaFits'
  BY <1>1, <1>2, <1>3, QuotaStep
<1>7. QED
  BY <1>1, <1>4, <1>5, <1>6, RowsStep DEF Kept, Keeps

LEMMA OutsideKeeps ==
  ASSUME AnswersInv, UNCHANGED <<log, dms, posts, handlerVars, used>>
  PROVE  Kept
<1>1. UNCHANGED <<log, dms, posts, pc, on, at, prior, used>>
  BY DEF handlerVars
<1>2. RunFits /\ RecordFits /\ OneDm /\ OneReply /\ QuotaFits
  BY AnswersParts DEF AnswersInv
<1>3. RunFits' /\ RecordFits'
  BY <1>1, <1>2 DEF RunFits, RecordFits, Row, Comment
<1>4. OneDm' /\ OneReply' /\ QuotaFits' /\ SentKept
  BY <1>1, <1>2 DEF OneDm, OneReply, QuotaFits, QuotaExact, SentKept
<1>5. QED
  BY <1>3, <1>4 DEF Kept, Keeps

LEMMA AnswersNext ==
  ASSUME NothingLost, Apart, AnswersInv, [Next]_vars
  PROVE  AnswersInv' /\ OnlyTokensTake
<1>1. WorkerInv'
  BY WorkerNext DEF AnswersInv
<1>2. Kept \/ (Keeps /\ OnlyTokensTake)
  <2>0. ASSUME NEW w \in Workers, TokenFails(w) PROVE Keeps /\ OnlyTokensTake
    BY <2>0, TokenKeeps
  <2>1. ASSUME NEW w \in Workers, Process(w) \/ QueryFails(w) \/ Crash(w)
        PROVE  Kept
    BY <2>1, ProcessKeeps
  <2>2. ASSUME NEW w \in Workers, NEW j \in JobIds, TakeJob(w, j) PROVE Kept
    BY <2>2, TakeJobKeeps
  <2>3. ASSUME NEW c \in Comments, Deliver(c) PROVE Kept
    BY <2>3, OutsideKeeps DEF Deliver
  <2>4. ASSUME NEW a \in Campaigns, SweepRead(a) \/ SweepAdd(a) PROVE Kept
    BY <2>4, OutsideKeeps DEF SweepRead, SweepAdd
  <2>5. ASSUME NEW j \in JobIds, Forget(j) PROVE Kept
    BY <2>5, OutsideKeeps DEF Forget
  <2>6. CASE WindowEnds
    BY <2>6, OutsideKeeps DEF WindowEnds
  <2>7. CASE UNCHANGED vars
    BY <2>7, OutsideKeeps DEF vars
  <2>8. QED
    BY <2>0, <2>1, <2>2, <2>3, <2>4, <2>5, <2>6, <2>7 DEF Next
<1>3. Keeps /\ OnlyTokensTake
  BY <1>2 DEF Kept, SentKept, OnlyTokensTake
<1>4. QED
  BY <1>1, <1>3 DEF Keeps, AnswersInv

LEMMA AnswersInit == Init => AnswersInv
<1> SUFFICES ASSUME Init PROVE AnswersInv
  OBVIOUS
<1>1. WorkerInv
  BY WorkerInit
<1>2. /\ \A w \in Workers: pc[w] = "idle"
      /\ \A a \in Campaigns, c \in Comments: dms[a][c] = 0 /\ posts[a][c] = 0
      /\ used = 0
  BY DEF Init
<1>3. RunFits
  BY <1>2 DEF RunFits, RunAt, Holding
<1>4. RecordFits /\ OneDm /\ OneReply
  BY <1>2 DEF RecordFits, OneDm, OneReply, Firm
<1>5. QuotaExact
  <2>1. {p \in Campaigns \X Comments: dms[p[1]][p[2]] > 0} = {}
    BY <1>2
  <2>2. {w \in Workers: pc[w] \in Holding \ {"sent"}} = {}
    BY <1>2 DEF Holding
  <2>3. QED
    BY <1>2, <2>1, <2>2, FS_EmptySet DEF QuotaExact
<1>6. QED
  BY <1>1, <1>3, <1>4, <1>5 DEF AnswersInv, QuotaFits

\* The second invariant, where no runs of a comment overlap and no outcome is lost.
THEOREM AnswersInvariance ==
  ASSUME NothingLost
  PROVE  Spec /\ []Apart => []AnswersInv
<1>1. AnswersInv /\ Apart /\ [Next]_vars => AnswersInv'
  BY AnswersNext
<1>2. QED
  BY <1>1, AnswersInit, PTL DEF Spec

\* However often a comment is delivered, swept, requeued and retried, and
\* however many slots answer other comments meanwhile, a campaign posts its reply
\* under it once and sends its DM to it once, and the quota counts the DMs sent
\* and the reservations held, if runs of a comment do not overlap and no outcome
\* is lost.  Where a token may be unreadable the one DM is of the campaigns without
\* a public reply, and of the quota nothing is said.
THEOREM AnswersAreKept ==
  ASSUME NothingLost
  PROVE  Spec /\ []Apart => []AnswersHold
<1>1. AnswersInv => OneDm /\ OneReply /\ ("token" \notin Events => QuotaExact)
  BY DEF AnswersInv, QuotaFits
<1>2. QED
  BY <1>1, AnswersInvariance, TypeCorrect, PTL DEF AnswersHold

\* Under the same conditions, the token included, only a run that came back over
\* a SENT row for a public reply still owed and could not read the token takes
\* the SENT, and it leaves FAILED: no refusal, requeue, retry or sweep does.
THEOREM SentIsKept ==
  ASSUME NothingLost
  PROVE  Spec /\ []Apart => SentGivesWay
<1>1. AnswersInv /\ Apart /\ [Next]_vars => [OnlyTokensTake]_vars
  BY AnswersNext
<1>2. QED
  BY <1>1, AnswersInvariance, PTL DEF Spec, SentGivesWay

\* So where every token can be read, no run takes the SENT off a row at all.
THEOREM ReadableSentStays ==
  ASSUME NothingLost, "token" \notin Events
  PROVE  Spec /\ []Apart => SentStays
<1>1. [OnlyTokensTake]_vars =>
        [\A a \in Campaigns, c \in Comments:
           log[a][c].status = "SENT" => log'[a][c].status = "SENT"]_vars
  BY DEF OnlyTokensTake
<1>2. QED
  BY <1>1, SentIsKept, PTL DEF SentGivesWay, SentStays

\* A worker with one slot is such a worker.
THEOREM OneSlotIsEnough ==
  ASSUME NothingLost, \E w: Workers = {w}
  PROVE  Spec => []AnswersHold /\ SentGivesWay
<1>1. Apart
  BY DEF Apart
<1>2. QED
  BY <1>1, AnswersAreKept, SentIsKept, PTL
=============================================================================
