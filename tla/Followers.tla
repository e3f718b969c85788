----------------------------- MODULE Followers -----------------------------
(***************************************************************************)
(* The follower history of one account: a row per day, observed by the     *)
(* daily cron or by the overview page, or reconstructed from the daily     *)
(* changes Instagram reports.  Both callers run the same steps; every      *)
(* query or call is one, and midnight may pass between any two of them.    *)
(***************************************************************************)
EXTENDS Integers, FiniteSets, Sequences

CONSTANTS
  Callers,   \* runs of the cron and of the overview, each used once
  MaxDay,    \* bound on days
  Changes,   \* what the number of followers may change by, at a time
  Least,     \* bounds on the number of followers
  Most

HistoryBounds == MaxDay \in Nat \ {0} /\ Changes \subseteq Int /\ {Least, Most} \subseteq Nat

VARIABLES
  today,      \* the day, from 1 on
  followers,  \* followers by now
  gained,     \* gained[d]: the net change of day d so far, reported by Instagram
  snapshot,   \* snapshot[d]: the FollowerSnapshot row of day d
  pc,         \* pc[c]: where caller c is
  seen        \* seen[c]: what it has read

world == <<today, followers, gained>>
vars == <<world, snapshot, pc, seen>>

Days == 1..MaxDay
NoRow == [count |-> 0, kind |-> "none"]
NoRead == [count |-> 0, day |-> 0, series |-> <<>>, totals |-> <<>>, observed |-> {}, early |-> FALSE]

Goto(c, place) == pc' = [pc EXCEPT ![c] = place]
End(c) == Goto(c, "done") /\ seen' = [seen EXCEPT ![c] = NoRead]

Init ==
  /\ today = 1
  /\ followers \in Least..Most
  /\ gained = [d \in Days |-> 0]
  /\ snapshot = [d \in Days |-> NoRow]
  /\ pc = [c \in Callers |-> "new"]
  /\ seen = [c \in Callers |-> NoRead]

\* People follow and unfollow.
Follow(n) ==
  /\ followers + n \in Least..Most
  /\ followers' = followers + n
  /\ gained' = [gained EXCEPT ![today] = @ + n]
  /\ UNCHANGED <<today, snapshot, pc, seen>>

Midnight ==
  /\ today < MaxDay
  /\ today' = today + 1
  /\ UNCHANGED <<followers, gained, snapshot, pc, seen>>

\* getUserInfo, or its failure: then nothing is recorded.
ReadCount(c) ==
  /\ pc[c] = "new"
  /\ \/ Goto(c, "record") /\ seen' = [seen EXCEPT ![c].count = followers]
     \/ End(c)
  /\ UNCHANGED <<world, snapshot>>

\* recordFollowerSnapshot: the row of the day it is by now.
Record(c) ==
  /\ pc[c] = "record"
  /\ snapshot' = [snapshot EXCEPT ![today] = [count |-> seen[c].count, kind |-> "observed"]]
  /\ seen' = [seen EXCEPT ![c].day = today]
  /\ Goto(c, "count")
  /\ UNCHANGED world

Rows == {d \in Days : snapshot[d].kind # "none"}

\* A history of one day or none is filled up.
CountRows(c) ==
  /\ pc[c] = "count"
  /\ IF Cardinality(Rows) <= 1 THEN Goto(c, "series") /\ UNCHANGED seen ELSE End(c)
  /\ UNCHANGED <<world, snapshot>>

\* A slip: the change of a day is taken off that day, not off the one before.
TotalsBefore(series, count) ==
  LET total[i \in 1..Len(series)] ==
        (IF i = Len(series) THEN count ELSE total[i + 1]) - series[i].delta
      from == {i \in 1..Len(series) : \A j \in i..Len(series) : total[j] >= 0}
  IN  [d \in {series[i].day : i \in from} |-> total[CHOOSE i \in from : series[i].day = d]]

\* reconstructFollowerTotals: walking back from the count, a day's total is that of
\* the day after it less what was gained there, as long as none is negative.
Totals(series, count) ==
  LET total[i \in 1..Len(series)] ==
        IF i = Len(series) THEN count ELSE total[i + 1] - series[i + 1].delta
      from == {i \in 1..Len(series) : \A j \in i..Len(series) : total[j] >= 0}
  IN  [d \in {series[i].day : i \in from} |-> total[CHOOSE i \in from : series[i].day = d]]

\* getFollowerCountSeries: the changes up to the day it is by now, or none.  The
\* total of the last of these days is taken to be the count read before.
ReadSeries(c) ==
  /\ pc[c] = "series"
  /\ \/ /\ seen' = [seen EXCEPT ![c].series = [d \in 1..today |-> [day |-> d, delta |-> gained[d]]],
                               ![c].early = seen[c].count # followers \/ seen[c].day # today]
        /\ Goto(c, "observed")
     \/ End(c)
  /\ UNCHANGED <<world, snapshot>>

\* A slip: no day is looked up.
ReadNoObserved(c) ==
  /\ pc[c] = "observed"
  /\ seen' = [seen EXCEPT ![c].totals = Totals(seen[c].series, seen[c].count)]
  /\ Goto(c, "write")
  /\ UNCHANGED <<world, snapshot>>

\* The days with an observed row, which the backfill leaves alone.
ReadObserved(c) ==
  /\ pc[c] = "observed"
  /\ LET totals == Totals(seen[c].series, seen[c].count) IN
       seen' = [seen EXCEPT ![c].totals = totals,
                  ![c].observed = {d \in DOMAIN totals : snapshot[d].kind = "observed"}]
  /\ Goto(c, "write")
  /\ UNCHANGED <<world, snapshot>>

\* One transaction writes all the others.
Backfill(c) ==
  /\ pc[c] = "write"
  /\ LET days == DOMAIN seen[c].totals \ seen[c].observed IN
       snapshot' = [d \in Days |->
         IF d \in days THEN [count |-> seen[c].totals[d],
                             kind |-> IF seen[c].early THEN "guessed" ELSE "backfilled"]
                       ELSE snapshot[d]]
  /\ End(c)
  /\ UNCHANGED world

\* The process ends, or a query fails.
Fails(c) ==
  /\ pc[c] \notin {"new", "done"}
  /\ End(c)
  /\ UNCHANGED <<world, snapshot>>

Next ==
  \/ \E n \in Changes : Follow(n)
  \/ Midnight
  \/ \E c \in Callers :
       \/ ReadCount(c) \/ Record(c) \/ CountRows(c) \/ ReadSeries(c)
       \/ ReadObserved(c) \/ Backfill(c) \/ Fails(c)

Spec == Init /\ [][Next]_vars

-----------------------------------------------------------------------------
(* Properties *)

\* Every variable has its type.
TypeOK ==
  /\ today \in Days /\ followers \in Least..Most
  /\ \A d \in Days : snapshot[d].kind \in {"none", "observed", "backfilled", "guessed"}
                     /\ (d > today => snapshot[d] = NoRow)

\* The number of followers at the end of a day gone by.
AtEnd(d) ==
  LET after[e \in 0..MaxDay] == IF e = 0 THEN 0 ELSE after[e - 1] + (IF e > d THEN gained[e] ELSE 0)
  IN  followers - after[MaxDay]

\* A total filled in for an earlier day is the number of followers it ended with,
\* when the count and the changes were read on one day with no change between.
TotalsAreTrue ==
  \A d \in Days : d < today /\ snapshot[d].kind = "backfilled" => snapshot[d].count = AtEnd(d)

\* A backfill replaces no observed row of a day up to the one its caller recorded,
\* though another caller may record between its read and its write.  (The day that
\* begins in between may lose its row.)
ObservedStays ==
  [][\A d \in Days : snapshot[d].kind = "observed" /\ snapshot'[d].kind # "observed"
       => \E c \in Callers : pc[c] = "write" /\ d > seen[c].day]_vars

\* The history tells the past as it was: true totals, and days observed stay so.
HistoryHolds == []TotalsAreTrue /\ ObservedStays
=============================================================================
