-------------------------- MODULE WorkspaceUsage --------------------------
(***************************************************************************)
(* The monthly send quota of one workspace: the row                        *)
(* (usagePeriodStart, dmsSentThisPeriod), the reservation transaction      *)
(* reserveWorkspaceDMSend and the release, run by handlers of the worker   *)
(* and of the web app while the month rolls over.                          *)
(*                                                                         *)
(* Postgres runs the transaction at READ COMMITTED: a statement sees the   *)
(* last committed row or the transaction's own write; an UPDATE that       *)
(* matches the row it sees waits for the writer that holds the row and     *)
(* then looks again.  A month start is an instant: twice the month's       *)
(* number, plus one on a machine whose time zone starts its months later.  *)
(***************************************************************************)
EXTENDS Integers, FiniteSets

CONSTANTS
  Jobs,        \* sends from worker jobs
  Approvals,   \* sends from the web app
  NoOne,       \* holds the row when no transaction has written it
  Limit,       \* MONTHLY_DM_LIMIT
  LastMonth,   \* bound: the months are 0..LastMonth
  LateHosts    \* hosts whose local months start later than the others'

Hosts == {"worker", "web"}
Senders == Jobs \cup Approvals
HostOf(s) == IF s \in Jobs THEN "worker" ELSE "web"

\* What the constants may be.
QuotaBounds ==
  /\ Jobs \cap Approvals = {} /\ NoOne \notin Senders /\ IsFiniteSet(Senders)
  /\ {Limit, LastMonth} \subseteq Nat
  /\ LateHosts \subseteq Hosts

VARIABLES
  row,      \* the committed row: [period, sent]
  pending,  \* what the transaction holding the row has written
  lock,     \* the sender whose open transaction has written the row
  clock,    \* clock[h]: the month on host h's wall clock
  pc,       \* pc[s]: where sender s is
  start,    \* start[s]: monthStart, as s last computed it
  seen,     \* seen[s]: the row s's findUnique returned
  charged   \* charged[s]: the period s's increment counted in, NoPeriod if
            \* s holds none (observation only)

vars == <<row, pending, lock, clock, pc, start, seen, charged>>
txVars == <<row, pending, lock>>

NoPeriod == -1
Periods == 0..(2 * LastMonth + 1)
Rows == [period: Periods, sent: 0..Limit]
InTransaction == {"reset", "renew", "read", "increment", "commit", "refuse"}
Places == {"idle", "reserved", "refused", "done"} \cup InTransaction

-----------------------------------------------------------------------------
(* Helpers *)

MonthOf(period) == period \div 2
MonthStart(h) == 2 * clock[h] + IF h \in LateHosts THEN 1 ELSE 0
Goto(s, place) == pc' = [pc EXCEPT ![s] = place]

\* The row as a statement of s's transaction sees it.
View(s) == IF lock = s THEN pending ELSE row

\* An UPDATE of s whose WHERE matches: it takes the row.
Write(s, new) ==
  /\ lock \in {NoOne, s}
  /\ lock' = s
  /\ pending' = new
  /\ UNCHANGED row

ChargedIn(m) == {s \in Senders: charged[s] # NoPeriod /\ MonthOf(charged[s]) = m}

\* A workspace created during month 0: its period starts at its creation.
Init ==
  /\ clock = [h \in Hosts |-> 0]
  /\ row = [period |-> 1, sent |-> 0]
  /\ pending = row
  /\ lock = NoOne
  /\ pc = [s \in Senders |-> "idle"]
  /\ start = [s \in Senders |-> 0]
  /\ seen = [s \in Senders |-> row]
  /\ charged = [s \in Senders |-> NoPeriod]

-----------------------------------------------------------------------------
(* reserveWorkspaceDMSend *)

\* The transaction opens and computes the month start of its reset.
Begin(s) ==
  /\ pc[s] = "idle"
  /\ start' = [start EXCEPT ![s] = MonthStart(HostOf(s))]
  /\ Goto(s, "reset")
  /\ UNCHANGED <<txVars, clock, seen, charged>>

\* resetUsageIfNeededTx: a row of an earlier month starts again at zero.
Reset(s) ==
  /\ pc[s] = "reset"
  /\ \/ /\ View(s).period < start[s]
        /\ Write(s, [period |-> start[s], sent |-> 0])
     \/ /\ View(s).period >= start[s]
        /\ UNCHANGED txVars
  /\ Goto(s, "renew")
  /\ UNCHANGED <<clock, start, seen, charged>>

\* The month start is computed a second time for the increment.
Renew(s) ==
  /\ pc[s] = "renew"
  /\ start' = [start EXCEPT ![s] = MonthStart(HostOf(s))]
  /\ Goto(s, "read")
  /\ UNCHANGED <<txVars, clock, seen, charged>>

\* findUnique; a row at its limit is refused here.
Read(s) ==
  /\ pc[s] = "read"
  /\ seen' = [seen EXCEPT ![s] = View(s)]
  /\ Goto(s, IF View(s).sent >= Limit THEN "refuse" ELSE "increment")
  /\ UNCHANGED <<txVars, clock, start, charged>>

\* A bug: the increment trusts the count it has read.
IncrementAsRead(s) ==
  /\ pc[s] = "increment"
  /\ \/ /\ View(s).period >= start[s]
        /\ Write(s, [View(s) EXCEPT !.sent = @ + 1])
        /\ Goto(s, "commit")
     \/ /\ View(s).period < start[s]
        /\ UNCHANGED txVars
        /\ Goto(s, "refuse")
  /\ UNCHANGED <<clock, start, seen, charged>>

\* A bug: the increment writes back the count it has read, plus one.
IncrementFromRead(s) ==
  /\ pc[s] = "increment"
  /\ Write(s, [View(s) EXCEPT !.sent = seen[s].sent + 1])
  /\ Goto(s, "commit")
  /\ UNCHANGED <<clock, start, seen, charged>>

\* The guarded increment; if it matches nothing the send is refused.
Increment(s) ==
  /\ pc[s] = "increment"
  /\ LET fits == View(s).period >= start[s] /\ View(s).sent < Limit
     IN  \/ /\ fits
            /\ Write(s, [View(s) EXCEPT !.sent = @ + 1])
            /\ Goto(s, "commit")
         \/ /\ ~fits
            /\ UNCHANGED txVars
            /\ Goto(s, "refuse")
  /\ UNCHANGED <<clock, start, seen, charged>>

\* The transaction commits, with an increment or with at most a reset.
Commit(s) ==
  /\ \/ /\ pc[s] = "commit"
        /\ charged' = [charged EXCEPT ![s] = pending.period]
        /\ Goto(s, "reserved")
     \/ /\ pc[s] = "refuse"
        /\ UNCHANGED charged
        /\ Goto(s, "refused")
  /\ row' = View(s)
  /\ lock' = IF lock = s THEN NoOne ELSE lock
  /\ UNCHANGED <<pending, clock, start, seen>>

\* A database error or a crash inside the transaction: nothing remains.
Rollback(s) ==
  /\ pc[s] \in InTransaction
  /\ lock' = IF lock = s THEN NoOne ELSE lock
  /\ Goto(s, "idle")
  /\ UNCHANGED <<row, pending, clock, start, seen, charged>>

-----------------------------------------------------------------------------
(* The callers, and the months *)

\* The message is sent, or its sender dies: the reservation stays counted.
Keep(s) ==
  /\ pc[s] = "reserved"
  /\ Goto(s, "done")
  /\ UNCHANGED <<txVars, clock, start, seen, charged>>

\* A bug: the release takes one off whatever period the row is in.
ReleaseAnyPeriod(s) ==
  /\ pc[s] = "reserved"
  /\ lock = NoOne
  /\ row' = [row EXCEPT !.sent = IF @ > 0 THEN @ - 1 ELSE @]
  /\ charged' = [charged EXCEPT ![s] = NoPeriod]
  /\ Goto(s, "idle")
  /\ UNCHANGED <<pending, lock, clock, start, seen>>

\* releaseWorkspaceDMReservation with the periodStart of the reservation:
\* the row findUnique returned, not the one the increment went to.
Release(s) ==
  /\ pc[s] = "reserved"
  /\ LET fits == row.period = seen[s].period /\ row.sent > 0
     IN  \/ /\ fits /\ lock = NoOne
            /\ row' = [row EXCEPT !.sent = @ - 1]
         \/ /\ ~fits
            /\ UNCHANGED row
  /\ charged' = [charged EXCEPT ![s] = NoPeriod]
  /\ Goto(s, "idle")
  /\ UNCHANGED <<pending, lock, clock, start, seen>>

\* The daily token cron of the web app resets the rows of earlier months.
CronReset ==
  /\ lock = NoOne
  /\ row.period < MonthStart("web")
  /\ row' = [period |-> MonthStart("web"), sent |-> 0]
  /\ UNCHANGED <<pending, lock, clock, pc, start, seen, charged>>

\* A host's clock enters the next month; the other is at most one behind.
NextMonth(h) ==
  /\ clock[h] < LastMonth
  /\ \A g \in Hosts: clock[h] <= clock[g]
  /\ clock' = [clock EXCEPT ![h] = @ + 1]
  /\ UNCHANGED <<txVars, pc, start, seen, charged>>

Reserve(s) ==
  Begin(s) \/ Reset(s) \/ Renew(s) \/ Read(s) \/ Increment(s) \/ Commit(s)

Next ==
  \/ \E s \in Senders: Reserve(s) \/ Rollback(s) \/ Keep(s) \/ Release(s)
  \/ \E h \in Hosts: NextMonth(h)
  \/ CronReset

Spec == Init /\ [][Next]_vars

-----------------------------------------------------------------------------
(* Properties *)

\* Every variable stays in its domain; above all, no write takes the counter
\* beyond its limit or below zero.
TypeOK ==
  /\ row \in Rows
  /\ pending \in Rows
  /\ lock \in Senders \cup {NoOne}
  /\ clock \in [Hosts -> 0..LastMonth]
  /\ pc \in [Senders -> Places]
  /\ start \in [Senders -> Periods]
  /\ seen \in [Senders -> Rows]
  /\ charged \in [Senders -> Periods \cup {NoPeriod}]

\* The counter never misses a message: it counts at least the reservations
\* of its month that were sent with or are still held, whatever resets and
\* releases run between them.
CoversSends == Cardinality(ChargedIn(MonthOf(row.period))) <= row.sent

\* No month is ever charged with more messages than the limit.
MonthlyCap == \A m \in 0..LastMonth: Cardinality(ChargedIn(m)) <= Limit

\* A sender is refused only when the row it sees is at the limit.
RefusedOnlyAtLimit ==
  [][\A s \in Senders:
       pc[s] # "refuse" /\ pc'[s] = "refuse" => View(s).sent >= Limit]_vars

\* A release gives back the unit its sender was charged with, unless the
\* row has moved to another month since.
ReleaseGivesBack ==
  [][\A s \in Senders:
       charged[s] = row.period /\ charged'[s] = NoPeriod
         => row'.sent = row.sent - 1]_vars

\* The counter neither forgets a send nor lets through more than the month has.
CounterHolds == TypeOK /\ CoversSends /\ MonthlyCap
=============================================================================
