------------------------------- MODULE Webhook ------------------------------
(***************************************************************************)
(* The webhook route: what POST makes of a delivery of Meta's, which jobs  *)
(* it queues, and what becomes of them when it fails half way, answers too *)
(* late or is asked twice.                                                 *)
(*                                                                         *)
(* A delivery is a batch of items about one connected account; the same    *)
(* item may come in several batches.  An item says who it is by and, for a *)
(* message, to whom, and whether it is whole: it has the ids, and a        *)
(* message its text or attachment, without which a parser skips it.        *)
(***************************************************************************)
EXTENDS Naturals, Sequences, SequencesExt

CONSTANTS
  Body,        \* Body[d]: the batch of delivery d, [signed, object, items]
  Openings,    \* campaigns with a SENT opening DM to the user
  Handlers,    \* concurrent requests of the route
  MaxFaults,   \* bound: things that go wrong in one behaviour
  MaxEdits,    \* bound: times the account is disconnected or connected
  Events       \* what may go wrong, a subset of AllEvents

(***************************************************************************)
(* db: a query fails.  redis: queue.add fails.  crash: the request dies.   *)
(* late: Meta does not wait for the answer.  job: a job uses up its        *)
(* attempts.                                                               *)
(***************************************************************************)
AllEvents == {"db", "redis", "crash", "late", "job"}

Deliveries == DOMAIN Body

ASSUME WebhookBounds == {MaxFaults, MaxEdits} \subseteq Nat
ASSUME WebhookEvents == Events \subseteq AllEvents
ASSUME FiniteOpenings == IsFiniteSet(Openings)

Items(d) == ToSet(Body[d].items)

\* The deterministic id of an item's job.
JobOf(i) == [kind |-> i.kind, id |-> i.id]

\* A batch is a sequence of items of four kinds, and an id of Meta's is that of
\* one comment, message, tap or read, which has one author.
ASSUME Batches ==
  \A d \in Deliveries:
    /\ Body[d].items \in Seq(Items(d))
    /\ \A i \in Items(d): i.kind \in {"comment", "message", "postback", "read"}
ASSUME OneAuthor ==
  \A d, e \in Deliveries: \A i \in Items(d), k \in Items(e):
    JobOf(i) = JobOf(k) => i.by = k.by

-----------------------------------------------------------------------------
(* The parsers of lib/meta/webhook.ts *)

\* Mutant: the account's own comments are kept.
AnyCommenter(i) == i.kind = "comment" /\ i.whole

\* The account's own comments are skipped, ...
IsComment(i) == i.kind = "comment" /\ i.whole /\ i.by # "account"

\* ... its own messages are echoes, and no thread is with itself, ...
IsMessage(i) ==
  /\ i.kind = "message" /\ i.whole
  /\ (IF i.by = "account" THEN i.to ELSE i.by) # "account"

\* ... its own taps and reads are skipped.
IsPostback(i) == i.kind = "postback" /\ i.whole /\ i.by # "account"
IsRead(i) == i.kind = "read" /\ i.whole /\ i.by # "account"

\* The loop of a parser: the items it keeps, in their order.  (A function, not
\* SelectSeq, whose definition the provers do not have.)
Kept(items, Keep) ==
  LET kept[n \in 0..Len(items)] ==
        IF n = 0 THEN << >>
        ELSE IF items[n] \in Keep THEN Append(kept[n - 1], items[n])
        ELSE kept[n - 1]
  IN  kept[Len(items)]

\* What the handler goes through: comments, messages, taps, reads.
Parsed ==
  [d \in Deliveries |->
     IF Body[d].object # "instagram" THEN << >>
     ELSE Kept(Body[d].items, {i \in Items(d): IsComment(i)})
            \o Kept(Body[d].items, {i \in Items(d): IsMessage(i)})
            \o Kept(Body[d].items, {i \in Items(d): IsPostback(i)})
            \o Kept(Body[d].items, {i \in Items(d): IsRead(i)})]

FallbackOf(c) == [kind |-> "fallback", id |-> c]

\* The jobs an item stands for: a read, one for each opening DM.
JobsOf(i) == IF i.kind = "read" THEN {FallbackOf(c): c \in Openings}
             ELSE {JobOf(i)}

JobIds == UNION {JobsOf(i): i \in UNION {Items(d): d \in Deliveries}}

-----------------------------------------------------------------------------
VARIABLES
  connected,  \* the account has its row
  edits,      \* times that has changed
  meta,       \* meta[d]: due, under way, accepted (200) or refused (401)
  pc,         \* pc[h]: where request h is
  at,         \* at[h]: its delivery, 0 without one
  todo,       \* todo[h]: what its loops have left
  rows,       \* rows[d]: how the WebhookEvent rows of its ended requests were
              \* left
  job,        \* job[j]: state of the BullMQ job
  queued,     \* jobs that have been queued once (observation only)
  missed,     \* messages dropped without an account (observation only)
  ran,        \* ran[j]: times the job ran to its end (observation only)
  failures,   \* failures[j]: times it was given up (observation only)
  faults      \* things that went wrong so far

handler == <<pc, at, todo>>
jobs == <<job, queued, ran, failures>>
vars == <<connected, edits, meta, handler, rows, jobs, missed, faults>>

Fault(e) == e \in Events /\ faults < MaxFaults /\ faults' = faults + 1
Goto(h, place) == pc' = [pc EXCEPT ![h] = place]

Init ==
  /\ connected \in BOOLEAN
  /\ edits = 0
  /\ meta = [d \in Deliveries |-> "due"]
  /\ pc = [h \in Handlers |-> "idle"]
  /\ at = [h \in Handlers |-> 0]
  /\ todo = [h \in Handlers |-> << >>]
  /\ rows = [d \in Deliveries |-> {}]
  /\ job = [j \in JobIds |-> "absent"]
  /\ queued = {}
  /\ missed = {}
  /\ ran = [j \in JobIds |-> 0]
  /\ failures = [j \in JobIds |-> 0]
  /\ faults = 0

\* The request answers, or dies; Meta sends the delivery again unless it was
\* accepted.
Answer(h, outcome) ==
  /\ meta' = [meta EXCEPT ![at[h]] = outcome]
  /\ Goto(h, "idle")
  /\ at' = [at EXCEPT ![h] = 0]
  /\ todo' = [todo EXCEPT ![h] = << >>]

LeaveRow(h, state) == rows' = [rows EXCEPT ![at[h]] = @ \cup {state}]

-----------------------------------------------------------------------------
(* POST *)

\* Meta posts a delivery; one with a wrong signature is refused at once.
Receive(h, d) ==
  /\ pc[h] = "idle"
  /\ meta[d] = "due"
  /\ \/ /\ Body[d].signed
        /\ meta' = [meta EXCEPT ![d] = "underway"]
        /\ Goto(h, "open")
        /\ at' = [at EXCEPT ![h] = d]
     \/ /\ ~Body[d].signed
        /\ meta' = [meta EXCEPT ![d] = "refused"]
        /\ UNCHANGED <<pc, at>>
  /\ UNCHANGED <<connected, edits, todo, rows, jobs, missed, faults>>

\* The event gets its row, PENDING while the request runs; if that fails, so
\* does the request.
Open(h) ==
  /\ pc[h] = "open"
  /\ \/ /\ todo' = [todo EXCEPT ![h] = Parsed[at[h]]]
        /\ Goto(h, "loop")
        /\ UNCHANGED <<meta, at, faults>>
     \/ /\ Fault("db")
        /\ Answer(h, "due")
  /\ UNCHANGED <<connected, edits, rows, jobs, missed>>

\* queue.add: a job that is kept under the id absorbs it.
Add(j) ==
  /\ job' = IF job[j] = "absent" THEN [job EXCEPT ![j] = "waiting"] ELSE job
  /\ queued' = queued \cup {j}
  /\ UNCHANGED <<ran, failures>>

Pass(h) == todo' = [todo EXCEPT ![h] = Tail(@)] /\ UNCHANGED pc

\* A message of an account without a row is dropped.
DropMessage(h) ==
  /\ pc[h] = "loop" /\ todo[h] # << >>
  /\ Head(todo[h]).kind = "message" /\ ~connected
  /\ missed' = missed \cup {JobOf(Head(todo[h]))}
  /\ Pass(h)
  /\ UNCHANGED <<connected, edits, meta, at, rows, jobs, faults>>

\* The account of a comment or message, or the openings of a read, cannot be
\* read: the handler leaves its loops.
QueryFails(h) ==
  /\ pc[h] = "loop" /\ todo[h] # << >>
  /\ Head(todo[h]).kind \in {"comment", "message", "read"}
  /\ Fault("db")
  /\ Goto(h, "fail")
  /\ UNCHANGED <<connected, edits, meta, at, todo, rows, jobs, missed>>

\* A read becomes one fallback for each SENT opening DM.
ExpandRead(h) ==
  /\ pc[h] = "loop" /\ todo[h] # << >>
  /\ Head(todo[h]).kind = "read"
  /\ todo' = [todo EXCEPT ![h] =
                SetToSeq({FallbackOf(c): c \in Openings}) \o Tail(@)]
  /\ UNCHANGED <<connected, edits, meta, pc, at, rows, jobs, missed, faults>>

\* Mutant: an item that cannot be queued is passed over.
QueueNextLeniently(h) ==
  /\ pc[h] = "loop" /\ todo[h] # << >>
  /\ LET i == Head(todo[h])
     IN  /\ i.kind # "read"
         /\ i.kind = "message" => connected
         /\ \/ Add(JobOf(i)) /\ Pass(h) /\ UNCHANGED faults
            \/ Fault("redis") /\ Pass(h) /\ UNCHANGED jobs
  /\ UNCHANGED <<connected, edits, meta, at, rows, missed>>

\* An item is queued and the event's row gets its workspace; when Redis or
\* the update fails, the handler leaves its loops.
QueueNext(h) ==
  /\ pc[h] = "loop" /\ todo[h] # << >>
  /\ LET i == Head(todo[h])
     IN  /\ i.kind # "read"
         /\ i.kind = "message" => connected
         /\ \/ Add(JobOf(i)) /\ Pass(h) /\ UNCHANGED faults
            \/ /\ Fault("redis") /\ Goto(h, "fail")
               /\ UNCHANGED <<jobs, todo>>
            \/ /\ Fault("db") /\ connected
               /\ i.kind \in {"comment", "message"}
               /\ Add(JobOf(i)) /\ Goto(h, "fail")
               /\ UNCHANGED todo
  /\ UNCHANGED <<connected, edits, meta, at, rows, missed>>

\* Everything is queued: the row becomes PROCESSED and Meta gets its 200,
\* unless it has stopped waiting.
Close(h) ==
  /\ pc[h] = "loop" /\ todo[h] = << >>
  /\ \/ /\ LeaveRow(h, "PROCESSED")
        /\ \/ Answer(h, "accepted") /\ UNCHANGED faults
           \/ Answer(h, "due") /\ Fault("late")
     \/ /\ Fault("db")
        /\ Goto(h, "fail")
        /\ UNCHANGED <<rows, meta, at, todo>>
  /\ UNCHANGED <<connected, edits, jobs, missed>>

\* Mutant: the failure is recorded, and Meta gets 200 all the same.
FailQuietly(h) ==
  /\ pc[h] = "fail"
  /\ LeaveRow(h, "FAILED")
  /\ Answer(h, "accepted")
  /\ UNCHANGED <<connected, edits, jobs, missed, faults>>

\* The row becomes FAILED, or stays PENDING if that fails too; Meta gets 500.
Fail(h) ==
  /\ pc[h] = "fail"
  /\ \/ LeaveRow(h, "FAILED") /\ UNCHANGED faults
     \/ LeaveRow(h, "PENDING") /\ Fault("db")
  /\ Answer(h, "due")
  /\ UNCHANGED <<connected, edits, jobs, missed>>

\* The request dies, and its row stays PENDING.
Crash(h) ==
  /\ pc[h] \in {"loop", "fail"}
  /\ Fault("crash")
  /\ LeaveRow(h, "PENDING")
  /\ Answer(h, "due")
  /\ UNCHANGED <<connected, edits, jobs, missed>>

-----------------------------------------------------------------------------
(* The queue, and the account *)

\* Mutant: a completed job is not kept.
RunAndDrop(j) ==
  /\ job[j] = "waiting"
  /\ job' = [job EXCEPT ![j] = "absent"]
  /\ ran' = [ran EXCEPT ![j] = @ + 1]
  /\ UNCHANGED <<connected, edits, meta, handler, rows, queued, missed,
                 failures, faults>>

\* A job is done, and kept among the completed ones; that a redelivery comes
\* before a thousand others have completed is assumed.
RunJob(j) ==
  /\ job[j] = "waiting"
  /\ job' = [job EXCEPT ![j] = "completed"]
  /\ ran' = [ran EXCEPT ![j] = @ + 1]
  /\ UNCHANGED <<connected, edits, meta, handler, rows, queued, missed,
                 failures, faults>>

\* A job uses up its attempts and is removed some time later.
GiveUp(j) ==
  /\ job[j] = "waiting"
  /\ Fault("job")
  /\ job' = [job EXCEPT ![j] = "failed"]
  /\ failures' = [failures EXCEPT ![j] = @ + 1]
  /\ UNCHANGED <<connected, edits, meta, handler, rows, queued, missed, ran>>

Forget(j) ==
  /\ job[j] = "failed"
  /\ job' = [job EXCEPT ![j] = "absent"]
  /\ UNCHANGED <<connected, edits, meta, handler, rows, queued, missed, ran,
                 failures, faults>>

\* The account is connected or disconnected.
EditAccount ==
  /\ edits < MaxEdits
  /\ edits' = edits + 1
  /\ connected' = ~connected
  /\ UNCHANGED <<meta, handler, rows, jobs, missed, faults>>

-----------------------------------------------------------------------------
(* The specification *)

Handle(h) ==
  \/ Open(h) \/ DropMessage(h) \/ ExpandRead(h) \/ QueueNext(h)
  \/ Close(h) \/ Fail(h)

Next ==
  \/ \E h \in Handlers, d \in Deliveries: Receive(h, d)
  \/ \E h \in Handlers: Handle(h) \/ QueryFails(h) \/ Crash(h)
  \/ \E j \in JobIds: RunJob(j) \/ GiveUp(j) \/ Forget(j)
  \/ EditAccount

Spec == Init /\ [][Next]_vars

(***************************************************************************)
(* Meta delivers until it is answered with 200, and a request goes on to   *)
(* its end.  Slots are free again and again, so a delivery gets one.       *)
(***************************************************************************)
Fairness ==
  /\ \A d \in Deliveries: SF_vars(\E h \in Handlers: Receive(h, d))
  /\ \A h \in Handlers: WF_vars(Handle(h))

FairSpec == Spec /\ Fairness

-----------------------------------------------------------------------------
(* Properties *)

Promised ==
  [d \in Deliveries |-> UNION {JobsOf(i): i \in ToSet(Parsed[d])}]

\* The state of deliveries, requests and jobs; above all, nothing the account
\* did itself, but for its messages, is ever queued.
TypeOK ==
  /\ connected \in BOOLEAN
  /\ edits \in 0..MaxEdits
  /\ meta \in [Deliveries -> {"due", "underway", "accepted", "refused"}]
  /\ pc \in [Handlers -> {"idle", "open", "loop", "fail"}]
  /\ at \in [Handlers -> Deliveries \cup {0}]
  /\ \A h \in Handlers: todo[h] # << >> => pc[h] \in {"loop", "fail"}
  /\ rows \in [Deliveries -> SUBSET {"PENDING", "PROCESSED", "FAILED"}]
  /\ job \in [JobIds -> {"absent", "waiting", "completed", "failed"}]
  /\ queued \cup missed \subseteq JobIds
  /\ {ran[j] + failures[j]: j \in JobIds} \subseteq Nat
  /\ faults \in 0..MaxFaults
  /\ \A d \in Deliveries: \A i \in Items(d):
       i.by = "account" /\ i.kind # "message" => JobOf(i) \notin queued

\* A row that says PROCESSED stands for a delivery whose events were all
\* queued, but for the messages that came while the account had no row,
\* whatever other request of the same delivery failed or died.
ProcessedMeansQueued ==
  \A d \in Deliveries:
    "PROCESSED" \in rows[d] => Promised[d] \subseteq queued \cup missed

\* Redelivered, in two batches or in two requests at once, an event runs its
\* job once, and again only after BullMQ has given the job up.
EventRunsOnce == \A j \in JobIds: ran[j] <= 1 + failures[j]

\* Every event of a signed delivery is queued in the end, whatever failed on
\* the way: nothing is answered with 200 and left out.
EventIsQueued ==
  \A d \in Deliveries:
    Body[d].signed => <>(Promised[d] \subseteq queued \cup missed)

\* A delivery that is answered is in the queue, and the queue runs it once.
QueueHolds == TypeOK /\ ProcessedMeansQueued /\ EventRunsOnce
=============================================================================
