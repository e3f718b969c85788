---------------------------- MODULE ServerProofs ----------------------------
(***************************************************************************)
(* What jobs, requests and cron runs do to the rows they share, proved for *)
(* any of them and any values of the limits: the counter of the month      *)
(* (WorkspaceUsage) and the counter of the hour (RateLimiter), the one     *)
(* nudge of a window (WindowNudge), the token of the account (Accounts),   *)
(* the follower history (Followers), the campaigns with their links and    *)
(* slugs (Campaigns), and with the members (MembersProofs) the server      *)
(* that runs them side by side (Server).                                   *)
(***************************************************************************)
EXTENDS Server, MembersProofs, SequenceTheorems

-----------------------------------------------------------------------------
(* The counter of the month: its invariant *)

\* A month starts at even instants, or, where all hosts are late, at odd ones.
Shift == IF LateHosts = {} THEN 0 ELSE 1
Starts == {2 * m + Shift : m \in 0..LastMonth}

\* Places of a sender whose transaction may have written the row.
Holding == U!InTransaction \ {"reset"}

\* What the transaction has counted itself.
Unit(place) == IF place = "commit" THEN 1 ELSE 0

\* Whoever holds the row has it as it was committed, or has begun a later month;
\* and his unit is in it before he commits.
PendingFits ==
  usageLock # Nowhere =>
    /\ usagePc[usageLock] \in Holding
    /\ \/ usagePending.period = usageRow.period
          /\ usagePending.sent = usageRow.sent + Unit(usagePc[usageLock])
       \/ /\ usagePending.period \in Starts /\ usagePending.period > usageRow.period
          /\ usagePending.sent = Unit(usagePc[usageLock])

\* What sender s has counted, and what it has read.
SenderFits(s) ==
  /\ usagePc[s] = "commit" => usageLock = s
  /\ usageCharged[s] # U!NoPeriod <=> usagePc[s] \in {"reserved", "done"}
  /\ usageCharged[s] # U!NoPeriod => usageCharged[s] <= usageRow.period
  /\ usagePc[s] = "reset" => usageStart[s] \in Starts
  /\ usagePc[s] \in {"increment", "commit"} => usageSeen[s].period <= U!View(s).period
  /\ usagePc[s] = "reserved" => usageSeen[s].period <= usageCharged[s]

QuotaInv ==
  /\ U!CounterHolds
  /\ {usageRow.period, usagePending.period} \subseteq Starts \cup {1}
  /\ PendingFits
  /\ \A s \in U!Senders : SenderFits(s)

-----------------------------------------------------------------------------
(* Months *)

\* An instance counts as this module does.
LEMMA SameCount ==
  ASSUME NEW S
  PROVE  (U!IsFiniteSet(S) <=> IsFiniteSet(S)) /\ U!Cardinality(S) = Cardinality(S)
<1>1. U!IsFiniteSet(S) <=> IsFiniteSet(S)
  BY DEF U!IsFiniteSet, IsFiniteSet
<1>2. U!Cardinality(S) = Cardinality(S)
  BY DEF U!Cardinality, Cardinality
<1>3. QED
  BY <1>1, <1>2

\* A month that starts later is a later month.
LEMMA LaterMonth ==
  ASSUME NEW p \in Starts \cup {1}, NEW n \in Starts, U!QuotaBounds
  PROVE  /\ p \in Nat /\ n \in Nat /\ U!MonthOf(p) \in Nat /\ U!MonthOf(n) \in Nat
         /\ p < n => U!MonthOf(p) < U!MonthOf(n)
<1>1. LastMonth \in Nat /\ Shift \in {0, 1}
  BY DEF U!QuotaBounds, Shift
<1>2. PICK m \in 0..LastMonth : n = 2 * m + Shift
  BY DEF Starts
<1>3. n \in Nat /\ n \div 2 = m
  BY <1>1, <1>2
<1>4. CASE p = 1
  BY <1>1, <1>2, <1>3, <1>4 DEF U!MonthOf
<1>5. CASE p \in Starts
  <2>1. PICK k \in 0..LastMonth : p = 2 * k + Shift
    BY <1>5 DEF Starts
  <2>2. p \in Nat /\ p \div 2 = k
    BY <1>1, <2>1
  <2>3. QED
    BY <1>1, <1>2, <1>3, <2>1, <2>2 DEF U!MonthOf
<1>6. QED
  BY <1>4, <1>5

LEMMA MonthStarts ==
  ASSUME U!QuotaBounds, OneZone, U!TypeOK, NEW h \in U!Hosts
  PROVE  U!MonthStart(h) \in Starts /\ U!MonthStart(h) \in U!Periods
<1>1. usageClock[h] \in 0..LastMonth /\ LastMonth \in Nat
  BY DEF U!QuotaBounds, U!TypeOK
<1>2. U!MonthStart(h) = 2 * usageClock[h] + Shift /\ Shift \in {0, 1}
  BY DEF U!MonthStart, OneZone, Shift, U!Hosts
<1>3. QED
  BY <1>1, <1>2 DEF Starts, U!Periods

-----------------------------------------------------------------------------
(* What is read of the invariant *)

LEMMA QuotaParts ==
  ASSUME QuotaInv, U!QuotaBounds
  PROVE  /\ usageRow \in [period: Nat, sent: 0..Limit]
         /\ usagePending \in [period: Nat, sent: 0..Limit]
         /\ usageRow \in U!Rows /\ usagePending \in U!Rows /\ usageLock \in U!Senders \cup {Nowhere}
         /\ Nowhere \notin U!Senders /\ Limit \in Nat
         /\ usagePc \in [U!Senders -> U!Places] /\ usageStart \in [U!Senders -> U!Periods]
         /\ usageSeen \in [U!Senders -> U!Rows]
         /\ usageCharged \in [U!Senders -> U!Periods \cup {U!NoPeriod}]
         /\ usageClock \in [U!Hosts -> 0..LastMonth]
         /\ U!TypeOK /\ U!CoversSends /\ U!MonthlyCap /\ PendingFits
         /\ \A s \in U!Senders : SenderFits(s)
         /\ usageRow.period \in Starts \cup {1} /\ usagePending.period \in Starts \cup {1}
<1>1. U!TypeOK /\ Nowhere \notin U!Senders /\ Limit \in Nat /\ LastMonth \in Nat
  BY DEF QuotaInv, U!CounterHolds, U!QuotaBounds
<1>2. U!Rows \subseteq [period: Nat, sent: 0..Limit]
  BY <1>1 DEF U!Rows, U!Periods
<1>3. QED
  BY <1>1, <1>2 DEF QuotaInv, U!CounterHolds, U!TypeOK

\* Nobody is charged in a month that has not begun for the row.
LEMMA NoneLater ==
  ASSUME QuotaInv, U!QuotaBounds, NEW m \in Nat, U!MonthOf(usageRow.period) < m
  PROVE  U!ChargedIn(m) = {}
<1>1. SUFFICES ASSUME NEW s \in U!Senders, usageCharged[s] # U!NoPeriod,
                      U!MonthOf(usageCharged[s]) = m
               PROVE  FALSE
  BY DEF U!ChargedIn
<1>2. usageCharged[s] \in Nat /\ usageRow.period \in Nat /\ usageCharged[s] <= usageRow.period
  BY <1>1, QuotaParts DEF SenderFits, U!Periods
<1>3. U!MonthOf(usageCharged[s]) <= U!MonthOf(usageRow.period) /\ U!MonthOf(usageRow.period) \in Nat
  BY <1>2 DEF U!MonthOf
<1>4. QED
  BY <1>1, <1>3

LEMMA ChargedIsFinite ==
  ASSUME U!QuotaBounds, NEW m
  PROVE  IsFiniteSet(U!ChargedIn(m)) /\ Cardinality(U!ChargedIn(m)) \in Nat
<1>1. IsFiniteSet(U!Senders) /\ U!ChargedIn(m) \subseteq U!Senders
  BY SameCount DEF U!ChargedIn, U!QuotaBounds
<1>2. IsFiniteSet(U!ChargedIn(m))
  BY <1>1, FS_Subset
<1>3. QED
  BY <1>2, FS_CardinalityType

\* What the two caps say.
LEMMA Caps ==
  /\ U!CoversSends <=> Cardinality(U!ChargedIn(U!MonthOf(usageRow.period))) <= usageRow.sent
  /\ U!MonthlyCap <=> \A m \in 0..LastMonth : Cardinality(U!ChargedIn(m)) <= Limit
BY SameCount DEF U!CoversSends, U!MonthlyCap

\* The senders charged stay, and the row keeps its month and count or begins one.
LEMMA CountStays ==
  ASSUME QuotaInv, U!QuotaBounds, usageCharged' = usageCharged, usageRow' \in U!Rows,
         \/ usageRow'.period = usageRow.period /\ usageRow'.sent >= usageRow.sent
         \/ usageRow'.period \in Starts /\ usageRow'.period > usageRow.period
  PROVE  U!CoversSends' /\ U!MonthlyCap'
<1>1. \A m : U!ChargedIn(m)' = U!ChargedIn(m)
  BY DEF U!ChargedIn
<1>2. U!MonthlyCap'
  BY <1>1, QuotaParts DEF U!MonthlyCap
<1>3. usageRow'.sent \in Nat /\ usageRow'.period \in Nat /\ usageRow.sent \in Nat
      /\ usageRow.period \in Nat
  BY QuotaParts DEF U!Rows, U!Periods
<1> DEFINE m == U!MonthOf(usageRow'.period)
<1>4. Cardinality(U!ChargedIn(m)) <= usageRow'.sent
  <2>1. CASE usageRow'.period = usageRow.period /\ usageRow'.sent >= usageRow.sent
    <3>1. m = U!MonthOf(usageRow.period)
      BY <2>1
    <3>2. Cardinality(U!ChargedIn(m)) <= usageRow.sent
      BY <3>1, QuotaParts, Caps
    <3> HIDE DEF m
    <3>3. QED
      BY <1>3, <2>1, <3>2, ChargedIsFinite
  <2>2. CASE usageRow'.period \in Starts /\ usageRow'.period > usageRow.period
    <3>1. U!MonthOf(usageRow.period) < m /\ m \in Nat
      BY <1>3, <2>2, QuotaParts, LaterMonth
    <3> HIDE DEF m
    <3>2. QED
      BY <1>3, <3>1, NoneLater, FS_EmptySet
  <2>3. QED
    BY <2>1, <2>2
<1>5. U!CoversSends'
  <2>1. (U!MonthOf(usageRow.period))' = m
    BY DEF U!MonthOf
  <2>2. U!ChargedIn(U!MonthOf(usageRow.period))' = U!ChargedIn(m)
    BY <1>1, <2>1 DEF U!ChargedIn
  <2>3. QED
    BY <1>4, <2>2, SameCount DEF U!CoversSends
<1>6. QED
  BY <1>2, <1>5

\* What a step of another leaves to sender v.
LEMMA SenderStays ==
  ASSUME QuotaInv, U!QuotaBounds, NEW v \in U!Senders,
         usagePc'[v] = usagePc[v], usageStart'[v] = usageStart[v], usageSeen'[v] = usageSeen[v],
         usageCharged'[v] = usageCharged[v],
         usageRow'.period \in Nat, usageRow.period <= usageRow'.period,
         usageLock' = v <=> usageLock = v, usageLock = v => usagePending' = usagePending
  PROVE  SenderFits(v)'
<1>1. /\ SenderFits(v) /\ usageRow.period \in Nat /\ usagePending.period \in Nat
      /\ usageSeen[v].period \in Nat /\ usageCharged[v] \in Nat \cup {-1}
  BY QuotaParts DEF U!Rows, U!Periods, U!NoPeriod
<1>2. usagePc[v] = "commit" => usageLock' = v
  BY <1>1 DEF SenderFits
<1>3. /\ usageCharged'[v] # U!NoPeriod <=> usagePc'[v] \in {"reserved", "done"}
      /\ usagePc'[v] = "reset" => usageStart'[v] \in Starts
      /\ usagePc'[v] = "reserved" => usageSeen'[v].period <= usageCharged'[v]
  BY <1>1 DEF SenderFits
<1>4. usageCharged'[v] # U!NoPeriod => usageCharged'[v] <= usageRow'.period
  BY <1>1 DEF SenderFits, U!NoPeriod
<1>5. ASSUME usagePc'[v] \in {"increment", "commit"}
      PROVE  usageSeen'[v].period <= (U!View(v))'.period
  <2>1. usageSeen[v].period <= U!View(v).period
    BY <1>1, <1>5 DEF SenderFits
  <2>2. CASE usageLock = v
    BY <2>1, <2>2 DEF U!View
  <2>3. CASE usageLock # v
    BY <1>1, <2>1, <2>3 DEF U!View
  <2>4. QED
    BY <2>2, <2>3
<1>6. QED
  BY <1>2, <1>3, <1>4, <1>5 DEF SenderFits

-----------------------------------------------------------------------------
(* The transaction *)

\* A step that only reads: the row, its holder and the senders charged stay.
LEMMA QuietStep ==
  ASSUME QuotaInv, U!QuotaBounds, NEW s \in U!Senders, NEW place \in U!Places,
         UNCHANGED <<usageRow, usagePending, usageLock, usageClock, usageCharged>>,
         usagePc' = [usagePc EXCEPT ![s] = place],
         usageStart' \in [U!Senders -> U!Periods], usageSeen' \in [U!Senders -> U!Rows],
         \A v \in U!Senders : v # s
           => usageStart'[v] = usageStart[v] /\ usageSeen'[v] = usageSeen[v],
         usageLock = s => place \in Holding /\ Unit(place) = Unit(usagePc[s]),
         SenderFits(s)'
  PROVE  QuotaInv'
<1>1. /\ usagePc' \in [U!Senders -> U!Places] /\ usagePc'[s] = place
      /\ \A v \in U!Senders : v # s => usagePc'[v] = usagePc[v]
  BY QuotaParts
<1>2. U!TypeOK'
  BY <1>1, QuotaParts DEF U!TypeOK
<1>3. U!CoversSends' /\ U!MonthlyCap'
  BY QuotaParts DEF U!CoversSends, U!MonthlyCap, U!ChargedIn
<1>4. PendingFits'
  BY <1>1, QuotaParts DEF PendingFits, Unit
<1>5. \A v \in U!Senders : SenderFits(v)'
  BY <1>1, QuotaParts, SenderStays
<1>6. QED
  BY <1>2, <1>3, <1>4, <1>5, QuotaParts DEF QuotaInv, U!CounterHolds

\* An UPDATE that matches: the row is held, and what was written is in pending.
LEMMA WriteStep ==
  ASSUME QuotaInv, U!QuotaBounds, NEW s \in U!Senders, NEW place \in Holding,
         NEW new \in U!Rows, U!Write(s, new), new.period \in Starts \cup {1},
         \/ new.period = usageRow.period /\ new.sent = usageRow.sent + Unit(place)
         \/ new.period \in Starts /\ new.period > usageRow.period /\ new.sent = Unit(place),
         usagePc' = [usagePc EXCEPT ![s] = place], place # "increment",
         usagePc[s] \in U!InTransaction,
         UNCHANGED <<usageClock, usageStart, usageSeen, usageCharged>>,
         usageSeen[s].period <= new.period \/ place # "commit"
  PROVE  QuotaInv'
<1>1. /\ usageLock \in {Nowhere, s} /\ usageLock' = s /\ usagePending' = new /\ usageRow' = usageRow
  BY DEF U!Write
<1>2. /\ usagePc' \in [U!Senders -> U!Places] /\ usagePc'[s] = place /\ place \in U!InTransaction
      /\ \A v \in U!Senders : v # s => usagePc'[v] = usagePc[v]
  BY QuotaParts DEF Holding, U!Places
<1>3. s # Nowhere
  BY QuotaParts
<1>4. U!TypeOK'
  BY <1>1, <1>2, QuotaParts DEF U!TypeOK
<1>5. U!CoversSends' /\ U!MonthlyCap'
  BY <1>1, QuotaParts DEF U!CoversSends, U!MonthlyCap, U!ChargedIn
<1>6. PendingFits'
  BY <1>1, <1>2 DEF PendingFits
<1>7. usageCharged[s] = U!NoPeriod
  BY QuotaParts DEF SenderFits, U!InTransaction
<1>8. SenderFits(s)'
  <2>1. place # "reset" /\ place \notin {"reserved", "done"}
    BY DEF Holding, U!InTransaction
  <2>2. (U!View(s))' = new
    BY <1>1 DEF U!View
  <2>3. QED
    BY <1>1, <1>2, <1>7, <2>1, <2>2 DEF SenderFits
<1>9. \A v \in U!Senders : v # s => SenderFits(v)'
  BY <1>1, <1>2, <1>3, QuotaParts, SenderStays
<1>10. QED
  BY <1>1, <1>4, <1>5, <1>6, <1>8, <1>9, QuotaParts DEF QuotaInv, U!CounterHolds

LEMMA HeldIsFree ==
  ASSUME QuotaInv, U!QuotaBounds, NEW s \in U!Senders, usagePc[s] \notin Holding
  PROVE  usageLock # s
BY QuotaParts DEF PendingFits

LEMMA HostOfSender ==
  ASSUME NEW s
  PROVE  U!HostOf(s) \in U!Hosts
BY DEF U!HostOf, U!Hosts

LEMMA BeginKeeps ==
  ASSUME QuotaInv, U!QuotaBounds, OneZone, NEW s \in U!Senders, U!Begin(s)
  PROVE  QuotaInv'
<1> DEFINE n == U!MonthStart(U!HostOf(s))
<1>1. /\ usagePc[s] = "idle" /\ usageStart' = [usageStart EXCEPT ![s] = n]
      /\ usagePc' = [usagePc EXCEPT ![s] = "reset"] /\ "reset" \in U!Places
      /\ UNCHANGED <<usageRow, usagePending, usageLock, usageClock, usageSeen, usageCharged>>
  BY DEF U!Begin, U!Goto, U!txVars, U!Places, U!InTransaction
<1>2. n \in Starts /\ n \in U!Periods
  BY HostOfSender, MonthStarts, QuotaParts
<1> HIDE DEF n
<1>3. /\ usageStart' \in [U!Senders -> U!Periods] /\ usageStart'[s] = n /\ usagePc'[s] = "reset"
      /\ \A v \in U!Senders : v # s => usageStart'[v] = usageStart[v]
  BY <1>1, <1>2, QuotaParts
<1>4. usageLock # s
  BY <1>1, HeldIsFree DEF Holding, U!InTransaction
<1>5. SenderFits(s)'
  BY <1>1, <1>2, <1>3, QuotaParts DEF SenderFits
<1>6. QED
  BY <1>1, <1>3, <1>4, <1>5, QuotaParts, QuietStep

LEMMA ResetKeeps ==
  ASSUME QuotaInv, U!QuotaBounds, OneZone, NEW s \in U!Senders, U!Reset(s)
  PROVE  QuotaInv'
<1>1. /\ usagePc[s] = "reset" /\ usagePc' = [usagePc EXCEPT ![s] = "renew"]
      /\ UNCHANGED <<usageClock, usageStart, usageSeen, usageCharged>>
      /\ "renew" \in Holding /\ "renew" \in U!Places /\ usagePc[s] \in U!InTransaction
  BY DEF U!Reset, U!Goto, Holding, U!InTransaction, U!Places
<1>2. usageLock # s
  BY <1>1, HeldIsFree DEF Holding
<1>3. usagePc'[s] = "renew"
  BY <1>1, QuotaParts
<1>4. CASE U!View(s).period < usageStart[s] /\ U!Write(s, [period |-> usageStart[s], sent |-> 0])
  <2> DEFINE new == [period |-> usageStart[s], sent |-> 0]
  <2>1. usageStart[s] \in Starts /\ usageStart[s] \in U!Periods /\ usageStart[s] > usageRow.period
    BY <1>1, <1>2, <1>4, QuotaParts DEF SenderFits, U!View, U!Periods
  <2>2. new \in U!Rows /\ new.period = usageStart[s] /\ new.sent = Unit("renew")
    BY <2>1, QuotaParts DEF U!Rows, Unit
  <2> HIDE DEF new
  <2>3. U!Write(s, new)
    BY <1>4 DEF new
  <2>4. QED
    BY <1>1, <2>1, <2>2, <2>3, WriteStep
<1>5. CASE UNCHANGED U!txVars
  <2>1. UNCHANGED <<usageRow, usagePending, usageLock, usageClock, usageCharged, usageStart,
                    usageSeen>>
    BY <1>1, <1>5 DEF U!txVars
  <2>2. SenderFits(s)'
    BY <1>1, <1>3, <2>1, QuotaParts DEF SenderFits
  <2>3. QED
    BY <1>1, <1>2, <2>1, <2>2, QuotaParts, QuietStep
<1>6. QED
  BY <1>4, <1>5 DEF U!Reset

LEMMA RenewKeeps ==
  ASSUME QuotaInv, U!QuotaBounds, OneZone, NEW s \in U!Senders, U!Renew(s)
  PROVE  QuotaInv'
<1> DEFINE n == U!MonthStart(U!HostOf(s))
<1>1. /\ usagePc[s] = "renew" /\ usageStart' = [usageStart EXCEPT ![s] = n]
      /\ usagePc' = [usagePc EXCEPT ![s] = "read"] /\ "read" \in U!Places /\ "read" \in Holding
      /\ UNCHANGED <<usageRow, usagePending, usageLock, usageClock, usageSeen, usageCharged>>
  BY DEF U!Renew, U!Goto, U!txVars, U!Places, Holding, U!InTransaction
<1>2. n \in U!Periods
  BY HostOfSender, MonthStarts, QuotaParts
<1> HIDE DEF n
<1>3. /\ usageStart' \in [U!Senders -> U!Periods] /\ usagePc'[s] = "read"
      /\ \A v \in U!Senders : v # s => usageStart'[v] = usageStart[v]
  BY <1>1, <1>2, QuotaParts
<1>4. SenderFits(s)'
  BY <1>1, <1>3, QuotaParts DEF SenderFits
<1>5. Unit("read") = Unit(usagePc[s])
  BY <1>1 DEF Unit
<1>6. QED
  BY <1>1, <1>3, <1>4, <1>5, QuotaParts, QuietStep

LEMMA ReadKeeps ==
  ASSUME QuotaInv, U!QuotaBounds, OneZone, NEW s \in U!Senders, U!Read(s)
  PROVE  QuotaInv'
<1> DEFINE place == IF U!View(s).sent >= Limit THEN "refuse" ELSE "increment"
<1>1. /\ usagePc[s] = "read" /\ usageSeen' = [usageSeen EXCEPT ![s] = U!View(s)]
      /\ usagePc' = [usagePc EXCEPT ![s] = place]
      /\ UNCHANGED <<usageRow, usagePending, usageLock, usageClock, usageStart, usageCharged>>
  BY DEF U!Read, U!Goto, U!txVars
<1>2. /\ place \in U!Places /\ place \in Holding /\ Unit(place) = Unit(usagePc[s])
      /\ place \in {"refuse", "increment"}
  BY <1>1 DEF U!Places, Holding, U!InTransaction, Unit
<1> HIDE DEF place
<1>3. U!View(s) \in U!Rows /\ U!View(s).period \in Nat
  BY QuotaParts DEF U!View
<1>4. /\ usageSeen' \in [U!Senders -> U!Rows] /\ usagePc'[s] = place /\ usageSeen'[s] = U!View(s)
      /\ \A v \in U!Senders : v # s => usageSeen'[v] = usageSeen[v]
  BY <1>1, <1>3, QuotaParts
<1>5. U!View(s)' = U!View(s)
  BY <1>1 DEF U!View
<1>6. usageCharged'[s] = U!NoPeriod
  BY <1>1, QuotaParts DEF SenderFits
<1>7. SenderFits(s)'
  BY <1>2, <1>3, <1>4, <1>5, <1>6 DEF SenderFits
<1>8. QED
  BY <1>1, <1>2, <1>4, <1>7, QuotaParts, QuietStep

LEMMA IncrementKeeps ==
  ASSUME QuotaInv, U!QuotaBounds, OneZone, NEW s \in U!Senders, U!Increment(s)
  PROVE  QuotaInv'
<1> DEFINE new == [U!View(s) EXCEPT !.sent = @ + 1]
<1>1. /\ usagePc[s] = "increment" /\ usagePc[s] \in U!InTransaction
      /\ UNCHANGED <<usageClock, usageStart, usageSeen, usageCharged>>
      /\ {"commit", "refuse"} \subseteq Holding \cap U!Places
  BY DEF U!Increment, U!InTransaction, Holding, U!Places
<1>2. /\ U!View(s) \in [period: Nat, sent: 0..Limit] /\ U!View(s) \in U!Rows
      /\ U!View(s).period \in Starts \cup {1}
  BY QuotaParts DEF U!View
<1>3. usageSeen[s].period <= U!View(s).period
  BY <1>1, QuotaParts DEF SenderFits
<1>4. CASE /\ U!View(s).sent < Limit /\ U!Write(s, new)
           /\ usagePc' = [usagePc EXCEPT ![s] = "commit"]
  <2>1. /\ new \in U!Rows /\ new.period = U!View(s).period
        /\ new.sent = U!View(s).sent + 1
    BY <1>2, <1>4, QuotaParts DEF U!Rows
  <2>2. \/ new.period = usageRow.period /\ new.sent = usageRow.sent + 1
        \/ new.period \in Starts /\ new.period > usageRow.period /\ new.sent = 1
    <3>1. CASE usageLock = s
      <4>1. /\ usageLock # Nowhere /\ usagePc[usageLock] = "increment"
            /\ Unit(usagePc[usageLock]) = 0 /\ new.period = usagePending.period
            /\ new.sent = usagePending.sent + 1
        BY <1>1, <2>1, <3>1, QuotaParts DEF Unit, U!View
      <4>2. \/ usagePending.period = usageRow.period /\ usagePending.sent = usageRow.sent + 0
            \/ usagePending.period \in Starts /\ usagePending.period > usageRow.period
               /\ usagePending.sent = 0
        BY <4>1, QuotaParts DEF PendingFits
      <4>3. QED
        BY <4>1, <4>2, QuotaParts
    <3>2. CASE usageLock # s
      BY <2>1, <3>2 DEF U!View
    <3>3. QED
      BY <3>1, <3>2
  <2>3. usageSeen[s].period <= new.period
    BY <1>3, <2>1
  <2> HIDE DEF new
  <2>4. Unit("commit") = 1
    BY DEF Unit
  <2>5. QED
    BY <1>1, <1>2, <1>4, <2>1, <2>2, <2>3, <2>4, WriteStep
<1>5. CASE UNCHANGED U!txVars /\ usagePc' = [usagePc EXCEPT ![s] = "refuse"]
  <2>1. UNCHANGED <<usageRow, usagePending, usageLock, usageClock, usageCharged, usageStart,
                    usageSeen>>
    BY <1>1, <1>5 DEF U!txVars
  <2>2. usagePc'[s] = "refuse" /\ usageCharged[s] = U!NoPeriod
    BY <1>1, <1>5, QuotaParts DEF SenderFits
  <2>3. SenderFits(s)'
    BY <2>1, <2>2 DEF SenderFits
  <2>4. Unit("refuse") = Unit(usagePc[s])
    BY <1>1 DEF Unit
  <2>5. QED
    BY <1>1, <1>5, <2>1, <2>3, <2>4, QuotaParts, QuietStep
<1>6. QED
  BY <1>4, <1>5 DEF U!Increment, U!Goto

\* The transaction ends without a message to count: it committed what it had
\* reset, or nothing; or it was rolled back.
LEMMA EndStep ==
  ASSUME QuotaInv, U!QuotaBounds, NEW s \in U!Senders, NEW place \in {"refused", "idle"},
         usagePc[s] \in U!InTransaction, usagePc' = [usagePc EXCEPT ![s] = place],
         usageRow' = usageRow \/ (usageRow' = U!View(s) /\ usagePc[s] # "commit"),
         usageLock' = IF usageLock = s THEN Nowhere ELSE usageLock,
         UNCHANGED <<usagePending, usageClock, usageStart, usageSeen, usageCharged>>
  PROVE  QuotaInv'
<1>1. /\ usagePc' \in [U!Senders -> U!Places] /\ usagePc'[s] = place
      /\ \A v \in U!Senders : v # s => usagePc'[v] = usagePc[v]
  BY QuotaParts DEF U!Places
<1>2. /\ usageRow' \in U!Rows /\ usageRow'.period \in Starts \cup {1}
      /\ \/ usageRow' = usageRow
         \/ usageRow'.period = usageRow.period /\ usageRow'.sent = usageRow.sent
         \/ usageRow'.period > usageRow.period /\ usageRow'.period \in Starts
  <2>1. CASE usageRow' = usageRow
    BY <2>1, QuotaParts
  <2>2. CASE usageRow' # usageRow
    <3>1. /\ usageRow' = usagePending /\ usageLock = s /\ usageLock # Nowhere
          /\ Unit(usagePc[s]) = 0
      BY <2>2, QuotaParts DEF U!View, Unit
    <3>2. QED
      BY <3>1, QuotaParts DEF PendingFits
  <2>3. QED
    BY <2>1, <2>2
<1>3. U!TypeOK'
  BY <1>1, <1>2, QuotaParts DEF U!TypeOK
<1>4. U!CoversSends' /\ U!MonthlyCap'
  <2>1. usageRow'.sent \in Nat /\ usageRow.sent \in Nat
    BY <1>2, QuotaParts DEF U!Rows
  <2>2. QED
    BY <1>2, <2>1, CountStays
<1>5. PendingFits'
  <2>1. CASE usageLock = s
    BY <2>1 DEF PendingFits
  <2>2. CASE usageLock # s /\ usageLock # Nowhere
    <3>1. usageRow' = usageRow /\ usageLock' = usageLock /\ usageLock \in U!Senders
          /\ usagePc'[usageLock] = usagePc[usageLock]
      BY <1>1, <2>2, QuotaParts DEF U!View
    <3>2. QED
      BY <2>2, <3>1, QuotaParts DEF PendingFits
  <2>3. CASE usageLock = Nowhere
    BY <2>3 DEF PendingFits
  <2>4. QED
    BY <2>1, <2>2, <2>3
<1>6. usageCharged[s] = U!NoPeriod
  BY QuotaParts DEF SenderFits, U!InTransaction
<1>7. SenderFits(s)'
  BY <1>1, <1>6 DEF SenderFits
<1>8. \A v \in U!Senders : v # s => SenderFits(v)'
  <2>1. usageRow'.period \in Nat /\ usageRow.period \in Nat /\ usageRow.period <= usageRow'.period
    BY <1>2, QuotaParts DEF U!Rows, U!Periods
  <2>2. s # Nowhere
    BY QuotaParts
  <2>3. ASSUME NEW v \in U!Senders, v # s PROVE usageLock' = v <=> usageLock = v
    BY <2>3, QuotaParts
  <2>4. QED
    BY <1>1, <2>1, <2>3, QuotaParts, SenderStays
<1>9. QED
  BY <1>2, <1>3, <1>4, <1>5, <1>7, <1>8, QuotaParts DEF QuotaInv, U!CounterHolds

LEMMA RollbackKeeps ==
  ASSUME QuotaInv, U!QuotaBounds, OneZone, NEW s \in U!Senders, U!Rollback(s)
  PROVE  QuotaInv'
BY EndStep DEF U!Rollback, U!Goto

\* A message is counted: by the row that is committed, and by its sender.
LEMMA CommitKeeps ==
  ASSUME QuotaInv, U!QuotaBounds, OneZone, NEW s \in U!Senders, U!Commit(s)
  PROVE  QuotaInv'
<1>1. /\ usageRow' = U!View(s) /\ usageLock' = IF usageLock = s THEN Nowhere ELSE usageLock
      /\ UNCHANGED <<usagePending, usageClock, usageStart, usageSeen>>
  BY DEF U!Commit
<1>2. CASE usagePc[s] = "refuse" /\ usageCharged' = usageCharged
           /\ usagePc' = [usagePc EXCEPT ![s] = "refused"]
  <2>1. usagePc[s] \in U!InTransaction /\ usagePc[s] # "commit"
    BY <1>2 DEF U!InTransaction
  <2>2. QED
    BY <1>1, <1>2, <2>1, EndStep
<1>3. CASE /\ usagePc[s] = "commit"
           /\ usageCharged' = [usageCharged EXCEPT ![s] = usagePending.period]
           /\ usagePc' = [usagePc EXCEPT ![s] = "reserved"]
  <2>1. usageLock = s /\ usageLock # Nowhere /\ usageLock' = Nowhere /\ usageRow' = usagePending
        /\ usageCharged[s] = U!NoPeriod
    BY <1>1, <1>3, QuotaParts DEF SenderFits, U!View
  <2>2. \/ usagePending.period = usageRow.period /\ usagePending.sent = usageRow.sent + 1
        \/ usagePending.period \in Starts /\ usagePending.period > usageRow.period
           /\ usagePending.sent = 1
    BY <1>3, <2>1, QuotaParts DEF PendingFits, Unit
  <2>3. /\ usagePending.period \in U!Periods /\ usagePending.period \in Nat
        /\ usageRow.period \in Nat
        /\ usagePending.sent \in 0..Limit /\ usageRow.sent \in Nat
        /\ usageRow.period <= usagePending.period
        /\ usagePending.period # U!NoPeriod
    BY <2>2, QuotaParts DEF U!Rows, U!Periods, U!NoPeriod
  <2>4. /\ usagePc' \in [U!Senders -> U!Places] /\ usagePc'[s] = "reserved"
        /\ usageCharged' \in [U!Senders -> U!Periods \cup {U!NoPeriod}]
        /\ usageCharged'[s] = usagePending.period
        /\ \A v \in U!Senders : v # s
             => usagePc'[v] = usagePc[v] /\ usageCharged'[v] = usageCharged[v]
    BY <1>3, <2>3, QuotaParts DEF U!Places
  <2>5. U!TypeOK'
    BY <1>1, <2>1, <2>4, QuotaParts DEF U!TypeOK
  <2> DEFINE tally(k) == Cardinality(U!ChargedIn(k))
  <2>6. PICK m : m = U!MonthOf(usagePending.period)
    OBVIOUS
  <2>7. \A k : U!ChargedIn(k)' \subseteq U!ChargedIn(k) \cup {s}
    BY <2>4 DEF U!ChargedIn
  <2>8. \A k : k # m => U!ChargedIn(k)' \subseteq U!ChargedIn(k)
    BY <2>6, <2>1, <2>4 DEF U!ChargedIn
  <2>9. tally(m) + 1 <= usagePending.sent
    <3>1. CASE usagePending.period = usageRow.period /\ usagePending.sent = usageRow.sent + 1
      BY <2>6, <2>3, <3>1, QuotaParts, Caps, ChargedIsFinite
    <3>2. CASE usagePending.period \in Starts /\ usagePending.period > usageRow.period
               /\ usagePending.sent = 1
      <4>1. U!MonthOf(usageRow.period) < m /\ m \in Nat
        BY <2>6, <2>3, <3>2, QuotaParts, LaterMonth
      <4>2. QED
        BY <3>2, <4>1, NoneLater, FS_EmptySet
    <3>3. QED
      BY <2>2, <3>1, <3>2
  <2>10. Cardinality(U!ChargedIn(m)') <= usagePending.sent
    <3>1. Cardinality(U!ChargedIn(m)') \in Nat /\ Cardinality(U!ChargedIn(m)') <= tally(m) + 1
      BY <2>7, ChargedIsFinite, OneMore
    <3>2. QED
      BY <2>3, <2>9, <3>1, ChargedIsFinite
  <2>11. U!CoversSends'
    <3>1. (U!MonthOf(usageRow.period))' = m
      BY <2>6, <2>1 DEF U!MonthOf
    <3>2. U!ChargedIn(U!MonthOf(usageRow.period))' = U!ChargedIn(m)'
      BY <3>1 DEF U!ChargedIn
    <3>3. QED
      BY <2>1, <2>10, <3>2, SameCount DEF U!CoversSends
  <2>12. U!MonthlyCap'
    <3>1. ASSUME NEW k \in 0..LastMonth PROVE Cardinality(U!ChargedIn(k)') <= Limit
      <4>1. CASE k = m
        <5>1. Cardinality(U!ChargedIn(m)') \in Nat
          BY <2>7, ChargedIsFinite, OneMore
        <5>2. Cardinality(U!ChargedIn(m)') <= Limit
          BY <2>3, <2>10, <5>1, QuotaParts
        <5>3. QED
          BY <4>1, <5>2
      <4>2. CASE k # m
        <5>1. /\ Cardinality(U!ChargedIn(k)') <= tally(k) /\ tally(k) \in Nat
              /\ Cardinality(U!ChargedIn(k)') \in Nat
          BY <2>8, <4>2, ChargedIsFinite, FS_Subset, FS_CardinalityType
        <5>2. tally(k) <= Limit
          BY QuotaParts, Caps
        <5>3. QED
          BY <5>1, <5>2, QuotaParts
      <4>3. QED
        BY <4>1, <4>2
    <3>2. QED
      BY <3>1, SameCount DEF U!MonthlyCap
  <2>13. PendingFits'
    BY <2>1 DEF PendingFits
  <2>14. SenderFits(s)'
    <3>1. usageSeen[s].period <= usagePending.period
      BY <1>3, <2>1, QuotaParts DEF SenderFits, U!View
    <3>2. QED
      BY <1>1, <2>1, <2>3, <2>4, <3>1 DEF SenderFits
  <2>15. \A v \in U!Senders : v # s => SenderFits(v)'
    <3>1. ASSUME NEW v \in U!Senders, v # s PROVE usageLock' # v /\ usageLock # v
      BY <2>1, <3>1, QuotaParts
    <3>2. QED
      BY <1>1, <2>1, <2>3, <2>4, <3>1, SenderStays
  <2>16. QED
    BY <1>1, <2>1, <2>5, <2>11, <2>12, <2>13, <2>14, <2>15, QuotaParts
       DEF QuotaInv, U!CounterHolds
<1>4. QED
  BY <1>2, <1>3 DEF U!Commit, U!Goto

-----------------------------------------------------------------------------
(* What comes after, and the months *)

LEMMA KeepKeeps ==
  ASSUME QuotaInv, U!QuotaBounds, OneZone, NEW s \in U!Senders, U!Keep(s)
  PROVE  QuotaInv'
<1>1. /\ usagePc[s] = "reserved" /\ usagePc' = [usagePc EXCEPT ![s] = "done"] /\ "done" \in U!Places
      /\ UNCHANGED <<usageRow, usagePending, usageLock, usageClock, usageStart, usageSeen,
                     usageCharged>>
  BY DEF U!Keep, U!Goto, U!txVars, U!Places
<1>2. usageLock # s
  BY <1>1, HeldIsFree DEF Holding, U!InTransaction
<1>3. usagePc'[s] = "done"
  BY <1>1, QuotaParts
<1>4. SenderFits(s)'
  BY <1>1, <1>3, QuotaParts DEF SenderFits
<1>5. QED
  BY <1>1, <1>2, <1>4, QuotaParts, QuietStep

\* What is given back was counted in the period it is taken from: the sender read
\* the row before it counted, and periods only grow.
LEMMA ReleaseKeeps ==
  ASSUME QuotaInv, U!QuotaBounds, OneZone, NEW s \in U!Senders, U!Release(s)
  PROVE  QuotaInv'
<1>1. /\ usagePc[s] = "reserved" /\ usagePc' = [usagePc EXCEPT ![s] = "idle"]
      /\ usageCharged' = [usageCharged EXCEPT ![s] = U!NoPeriod]
      /\ UNCHANGED <<usagePending, usageLock, usageClock, usageStart, usageSeen>>
  BY DEF U!Release, U!Goto
<1>2. /\ usagePc' \in [U!Senders -> U!Places] /\ usagePc'[s] = "idle"
      /\ usageCharged' \in [U!Senders -> U!Periods \cup {U!NoPeriod}]
      /\ usageCharged'[s] = U!NoPeriod
      /\ \A v \in U!Senders : v # s
           => usagePc'[v] = usagePc[v] /\ usageCharged'[v] = usageCharged[v]
  BY <1>1, QuotaParts DEF U!Places
<1>3. usageLock # s
  BY <1>1, HeldIsFree DEF Holding, U!InTransaction
<1>4. /\ usageCharged[s] # U!NoPeriod /\ usageCharged[s] \in Nat /\ usageSeen[s].period \in Nat
      /\ usageSeen[s].period <= usageCharged[s] /\ usageCharged[s] <= usageRow.period
      /\ usageRow.period \in Nat /\ usageRow.sent \in 0..Limit /\ Limit \in Nat
  BY <1>1, QuotaParts DEF SenderFits, U!Periods, U!Rows
<1> DEFINE taken == [usageRow EXCEPT !.sent = @ - 1]
<1>5. \/ /\ usageRow.period = usageSeen[s].period /\ usageRow.sent > 0 /\ usageLock = Nowhere
         /\ usageRow' = taken
      \/ usageRow' = usageRow
  BY DEF U!Release
<1>6. /\ usageRow' \in U!Rows /\ usageRow'.period = usageRow.period
      /\ \/ usageRow'.sent = usageRow.sent
         \/ usageRow'.sent = usageRow.sent - 1 /\ usageRow.period = usageSeen[s].period
  <2>1. taken.period = usageRow.period /\ taken.sent = usageRow.sent - 1
    BY QuotaParts DEF U!Rows
  <2>2. usageRow.sent > 0 => taken \in U!Rows
    BY <1>4, QuotaParts DEF U!Rows
  <2> HIDE DEF taken
  <2>3. QED
    BY <1>5, <2>1, <2>2, QuotaParts
<1>7. \A k : U!ChargedIn(k)' = U!ChargedIn(k) \ {s}
  BY <1>2 DEF U!ChargedIn
<1>8. PICK m : m = U!MonthOf(usageRow.period)
  OBVIOUS
<1>9. Cardinality(U!ChargedIn(m)) <= usageRow.sent
  BY <1>8, QuotaParts, Caps
<1>10. Cardinality(U!ChargedIn(m)') <= usageRow'.sent
  <2>1. CASE usageRow'.sent = usageRow.sent
    <3>1. Cardinality(U!ChargedIn(m)') <= Cardinality(U!ChargedIn(m))
      BY <1>7, ChargedIsFinite, FS_Subset
    <3>2. Cardinality(U!ChargedIn(m)') \in Nat
      BY <1>7, ChargedIsFinite, FS_Subset, FS_CardinalityType
    <3>3. QED
      BY <1>4, <1>9, <2>1, <3>1, <3>2, ChargedIsFinite
  <2>2. CASE usageRow'.sent = usageRow.sent - 1 /\ usageRow.period = usageSeen[s].period
    <3>1. usageCharged[s] = usageRow.period
      BY <1>4, <2>2
    <3>2. s \in U!ChargedIn(m)
      BY <1>4, <1>8, <3>1 DEF U!ChargedIn
    <3>3. /\ Cardinality(U!ChargedIn(m)') <= Cardinality(U!ChargedIn(m)) - 1
          /\ Cardinality(U!ChargedIn(m)') \in Nat
      BY <1>7, <3>2, ChargedIsFinite, OneLess
    <3>4. QED
      BY <1>4, <1>9, <2>2, <3>3, ChargedIsFinite
  <2>3. QED
    BY <1>6, <2>1, <2>2
<1>11. U!CoversSends'
  <2>1. (U!MonthOf(usageRow.period))' = m
    BY <1>6, <1>8 DEF U!MonthOf
  <2>2. U!ChargedIn(U!MonthOf(usageRow.period))' = U!ChargedIn(m)'
    BY <2>1 DEF U!ChargedIn
  <2>3. QED
    BY <1>10, <2>2, SameCount DEF U!CoversSends
<1>12. U!MonthlyCap'
  <2>1. ASSUME NEW k \in 0..LastMonth PROVE Cardinality(U!ChargedIn(k)') <= Limit
    <3>1. /\ Cardinality(U!ChargedIn(k)') <= Cardinality(U!ChargedIn(k))
          /\ Cardinality(U!ChargedIn(k)') \in Nat /\ Cardinality(U!ChargedIn(k)) \in Nat
      BY <1>7, ChargedIsFinite, FS_Subset, FS_CardinalityType
    <3>2. Cardinality(U!ChargedIn(k)) <= Limit
      BY QuotaParts, Caps
    <3>3. QED
      BY <1>4, <3>1, <3>2
  <2>2. QED
    BY <2>1, SameCount DEF U!MonthlyCap
<1>13. U!TypeOK'
  BY <1>1, <1>2, <1>6, QuotaParts DEF U!TypeOK
<1>14. PendingFits'
  <2>1. CASE usageLock = Nowhere
    BY <1>1, <2>1 DEF PendingFits
  <2>2. CASE usageLock # Nowhere
    <3>1. usageRow' = usageRow
      BY <1>5, <2>2
    <3>2. usagePc'[usageLock] = usagePc[usageLock]
      BY <1>2, <1>3, <2>2, QuotaParts
    <3>3. QED
      BY <1>1, <2>2, <3>1, <3>2, QuotaParts DEF PendingFits
  <2>3. QED
    BY <2>1, <2>2
<1>15. SenderFits(s)'
  BY <1>2 DEF SenderFits
<1>16. \A v \in U!Senders : v # s => SenderFits(v)'
  BY <1>1, <1>2, <1>4, <1>6, SenderStays
<1>17. QED
  BY <1>1, <1>6, <1>11, <1>12, <1>13, <1>14, <1>15, <1>16, QuotaParts
     DEF QuotaInv, U!CounterHolds

LEMMA CronResetKeeps ==
  ASSUME QuotaInv, U!QuotaBounds, OneZone, U!CronReset
  PROVE  QuotaInv'
<1> DEFINE n == U!MonthStart("web")
<1>1. /\ usageLock = Nowhere /\ usageRow.period < n /\ usageRow' = [period |-> n, sent |-> 0]
      /\ UNCHANGED <<usagePending, usageLock, usageClock, usagePc, usageStart, usageSeen,
                     usageCharged>>
  BY DEF U!CronReset
<1>2. n \in Starts /\ n \in U!Periods /\ n \in Nat /\ 0 \in 0..Limit
  BY QuotaParts, MonthStarts DEF U!Hosts, U!Periods
<1> HIDE DEF n
<1>3. usageRow' \in U!Rows /\ usageRow'.period = n /\ usageRow.period \in Nat
  BY <1>1, <1>2, QuotaParts DEF U!Rows
<1>4. U!CoversSends' /\ U!MonthlyCap'
  BY <1>1, <1>2, <1>3, CountStays
<1>5. U!TypeOK' /\ PendingFits'
  BY <1>1, <1>3, QuotaParts DEF U!TypeOK, PendingFits
<1>6. \A v \in U!Senders : SenderFits(v)'
  BY <1>1, <1>2, <1>3, SenderStays
<1>7. QED
  BY <1>1, <1>2, <1>3, <1>4, <1>5, <1>6, QuotaParts DEF QuotaInv, U!CounterHolds

LEMMA NextMonthKeeps ==
  ASSUME QuotaInv, U!QuotaBounds, NEW h \in U!Hosts, U!NextMonth(h)
  PROVE  QuotaInv'
<1>1. /\ usageClock[h] < LastMonth /\ usageClock' = [usageClock EXCEPT ![h] = @ + 1]
      /\ UNCHANGED <<usageRow, usagePending, usageLock, usagePc, usageStart, usageSeen,
                     usageCharged>>
  BY DEF U!NextMonth, U!txVars
<1>2. usageClock' \in [U!Hosts -> 0..LastMonth]
  BY <1>1, QuotaParts DEF U!QuotaBounds
<1>3. U!TypeOK' /\ U!CoversSends' /\ U!MonthlyCap' /\ PendingFits'
  BY <1>1, <1>2, QuotaParts DEF U!TypeOK, U!CoversSends, U!MonthlyCap, U!ChargedIn,
     PendingFits
<1>4. \A v \in U!Senders : SenderFits(v)'
  BY <1>1, QuotaParts DEF SenderFits, U!View
<1>5. QED
  BY <1>1, <1>3, <1>4, QuotaParts DEF QuotaInv, U!CounterHolds

LEMMA QuotaInit ==
  ASSUME U!Init, U!QuotaBounds
  PROVE  QuotaInv
<1>1. /\ usageRow = [period |-> 1, sent |-> 0] /\ usagePending = usageRow /\ usageLock = Nowhere
      /\ \A s \in U!Senders : usagePc[s] = "idle" /\ usageCharged[s] = U!NoPeriod
  BY DEF U!Init
<1>2. Limit \in Nat /\ LastMonth \in Nat
  BY DEF U!QuotaBounds
<1>3. usageRow \in U!Rows /\ 0 \in U!Periods
  BY <1>1, <1>2 DEF U!Rows, U!Periods
<1>4. U!TypeOK
  BY <1>1, <1>2, <1>3 DEF U!Init, U!TypeOK, U!Places
<1>5. \A m : U!ChargedIn(m) = {}
  BY <1>1 DEF U!ChargedIn
<1>6. U!CoversSends /\ U!MonthlyCap
  BY <1>1, <1>2, <1>5, Caps, FS_EmptySet
<1>7. PendingFits /\ \A s \in U!Senders : SenderFits(s)
  BY <1>1 DEF PendingFits, SenderFits
<1>8. QED
  BY <1>1, <1>4, <1>6, <1>7 DEF QuotaInv, U!CounterHolds

LEMMA QuotaNext ==
  ASSUME QuotaInv, U!QuotaBounds, OneZone, U!Next
  PROVE  QuotaInv'
<1>1. ASSUME NEW s \in U!Senders, U!Reserve(s)
      PROVE  QuotaInv'
  BY <1>1, BeginKeeps, ResetKeeps, RenewKeeps, ReadKeeps, IncrementKeeps, CommitKeeps
     DEF U!Reserve
<1>2. ASSUME NEW s \in U!Senders, U!Rollback(s) \/ U!Keep(s) \/ U!Release(s)
      PROVE  QuotaInv'
  BY <1>2, RollbackKeeps, KeepKeeps, ReleaseKeeps
<1>3. QED
  BY <1>1, <1>2, CronResetKeeps, NextMonthKeeps DEF U!Next

\* The invariant of the counter of the month, where all hosts start their months
\* at once.
THEOREM QuotaInvariance ==
  ASSUME U!QuotaBounds, OneZone
  PROVE  U!Spec => []QuotaInv
<1>1. U!Init => QuotaInv
  BY QuotaInit
<1>2. QuotaInv /\ [U!Next]_(U!vars) => QuotaInv'
  <2> SUFFICES ASSUME QuotaInv, [U!Next]_(U!vars) PROVE QuotaInv'
    OBVIOUS
  <2>1. CASE U!Next
    BY <2>1, QuotaNext
  <2>2. CASE UNCHANGED U!vars
    BY <2>2 DEF U!vars, QuotaInv, U!CounterHolds, U!TypeOK, U!CoversSends,
       U!MonthlyCap, U!ChargedIn, PendingFits, SenderFits, U!View
  <2>3. QED
    BY <2>1, <2>2
<1>3. QED
  BY <1>1, <1>2, PTL DEF U!Spec

\* However reservations, releases, resets and crashes interleave over any number
\* of senders and months, the counter covers what was sent, and no month is
\* charged with more than the limit.
THEOREM CounterIsHeld ==
  ASSUME U!QuotaBounds, OneZone
  PROVE  U!Spec => []CounterHolds
<1>1. QuotaInv => CounterHolds
  BY DEF QuotaInv, CounterHolds
<1>2. QED
  BY <1>1, QuotaInvariance, PTL

-----------------------------------------------------------------------------
(* The counter of the hour: its invariant *)

\* Slots given at time t or later.
Since(t) == L!GrantedSince(t)
Instants == {t \in Int : t <= MaxTime}

\* A key that ended gave its slots before its end, and no more than the limit in
\* the window that it ended.
EndedFits ==
  limiterCount = 0 =>
    /\ limiterNow >= limiterExpires
    /\ \A t \in Instants : /\ t >= limiterExpires => Since(t) = 0
                           /\ t >= limiterExpires - Window => Since(t) <= Max
                           /\ t > limiterExpires - Window => Since(t) <= Max - 1

\* A key that lives gave what it counts, and the one before it the limit at most.
LivingFits ==
  limiterCount > 0 =>
    /\ limiterExpires - Window <= limiterNow /\ limiterNow < limiterExpires
    /\ \A t \in Instants :
         /\ t >= limiterExpires - Window => Since(t) <= limiterCount
         /\ t > limiterExpires - Window => Since(t) <= limiterCount - 1
         /\ t > limiterExpires - 2 * Window => Since(t) <= Max + limiterCount - 1

\* What job j met: before it was refused in two windows it is due as many delays
\* after the start of the one as it was put back.
JobFits(j) ==
  /\ IsFiniteSet(limiterBlocked[j]) /\ limiterBlocked[j] \subseteq Int
  /\ limiterState[j] = "skipped" => \E d, e \in limiterBlocked[j] : d # e
  /\ limiterBlocked[j] = {} => limiterAttempt[j] = 0
  /\ \A e \in limiterBlocked[j] : \/ \E d \in limiterBlocked[j] : d # e
                                  \/ limiterDue[j] >= e - Window + limiterAttempt[j]

HourInv ==
  /\ L!TypeOK /\ limiterGranted \in [L!Times -> Nat]
  /\ limiterDue \in [Jobs -> Nat] /\ limiterAttempt \in [Jobs -> Nat]
  /\ DOMAIN limiterBlocked = Jobs
  /\ \A t \in Instants : t > limiterNow => Since(t) = 0
  /\ EndedFits /\ LivingFits
  /\ \A j \in Jobs : JobFits(j)

-----------------------------------------------------------------------------
(* Sums *)

\* The sums of what was given, up to each time.
SumStep(g, f) == [u \in L!Times |-> g[u] + (IF u = 0 THEN 0 ELSE f[u - 1])]
Sums(g) == CHOOSE f : f = SumStep(g, f)

LEMMA SumsAre ==
  ASSUME MaxTime \in Nat, NEW g \in [L!Times -> Nat]
  PROVE  /\ Sums(g) \in [L!Times -> Nat]
         /\ \A u \in L!Times :
              Sums(g)[u] = g[u] + (IF u = 0 THEN 0 ELSE Sums(g)[u - 1])
<1> DEFINE step == [p \in (1..MaxTime) \X Nat |-> g[p[1]] + p[2]]
<1>1. L!Times = 0..MaxTime
  BY DEF L!Times
<1>2. g[0] \in Nat /\ step \in [(1..MaxTime) \X Nat -> Nat]
  BY <1>1
<1>3. PICK f \in [0..MaxTime -> Nat] : Recursive(f, g[0], step, MaxTime)
  <2> HIDE DEF step
  <2>1. QED
    BY <1>2, Recursion
<1>4. f = SumStep(g, f)
  <2>1. ASSUME NEW u \in 0..MaxTime
        PROVE  f[u] = g[u] + (IF u = 0 THEN 0 ELSE f[u - 1])
    <3>1. CASE u = 0
      BY <3>1, <1>1, <1>3 DEF Recursive
    <3>2. CASE u # 0
      <4>1. u \in 1..MaxTime /\ f[u - 1] \in Nat
        BY <3>2
      <4>2. <<u, f[u - 1]>> \in (1..MaxTime) \X Nat /\ f[u] = step[<<u, f[u - 1]>>]
        BY <4>1, <1>3 DEF Recursive
      <4>3. QED
        BY <4>2, <3>2
    <3>3. QED
      BY <3>1, <3>2
  <2>2. QED
    BY <2>1, <1>1 DEF SumStep
<1>5. Sums(g) = SumStep(g, Sums(g))
  BY <1>4, Zenon DEF Sums
<1> DEFINE all == Sums(g)
<1>6. all = SumStep(g, all)
  BY <1>5
<1> HIDE DEF all
<1>7. DOMAIN all = L!Times
  BY <1>6 DEF SumStep
<1>8. ASSUME NEW u \in L!Times
      PROVE  all[u] = g[u] + (IF u = 0 THEN 0 ELSE all[u - 1])
  <2>1. SumStep(g, all)[u] = g[u] + (IF u = 0 THEN 0 ELSE all[u - 1])
    BY DEF SumStep
  <2>2. QED
    BY <2>1, <1>6
<1> DEFINE T == {k \in Nat : k <= MaxTime => all[k] \in Nat}
<1>9. MaxTime \in Nat /\ \A k \in L!Times : all[k] \in Nat
  <2>1. 0 \in T
    BY <1>8, <1>1
  <2>2. ASSUME NEW k \in Nat, k \in T PROVE k + 1 \in T
    <3>1. SUFFICES ASSUME k + 1 <= MaxTime PROVE all[k + 1] \in Nat
      OBVIOUS
    <3> DEFINE m == k + 1
    <3>2. all[k] \in Nat /\ m \in L!Times /\ m # 0 /\ m - 1 = k
      BY <3>1, <2>2, <1>1
    <3> HIDE DEF m
    <3>3. all[m] = g[m] + all[k] /\ g[m] \in Nat
      BY <3>2, <1>8
    <3>4. QED
      BY <3>2, <3>3 DEF m
  <2> HIDE DEF T
  <2>3. Nat \subseteq T
    BY <2>1, <2>2, Induction
  <2> USE DEF T
  <2>4. QED
    BY <2>3, <1>1
<1>10. all = [u \in L!Times |-> all[u]]
  BY <1>6, <1>7 DEF SumStep
<1>11. all \in [L!Times -> Nat]
  BY <1>9, <1>10
<1>12. QED
  BY <1>8, <1>11 DEF all

\* One more slot at time n is one more in each sum from n on.
LEMMA OneMoreInSums ==
  ASSUME MaxTime \in Nat, NEW g \in [L!Times -> Nat], NEW n \in L!Times,
         NEW h \in [L!Times -> Nat], h[n] = g[n] + 1,
         \A u \in L!Times : u # n => h[u] = g[u]
  PROVE  \A u \in L!Times : /\ u < n => Sums(h)[u] = Sums(g)[u]
                            /\ u >= n => Sums(h)[u] = Sums(g)[u] + 1
<1>1. L!Times = 0..MaxTime
  BY DEF L!Times
<1>2. h[n] = g[n] + 1 /\ \A u \in L!Times : u # n => h[u] = g[u]
  OBVIOUS
<1>3. PICK G \in [L!Times -> Nat] :
        /\ G = Sums(g)
        /\ \A u \in L!Times : G[u] = g[u] + (IF u = 0 THEN 0 ELSE G[u - 1])
  BY SumsAre
<1>4. PICK H \in [L!Times -> Nat] :
        /\ H = Sums(h)
        /\ \A u \in L!Times : H[u] = h[u] + (IF u = 0 THEN 0 ELSE H[u - 1])
  BY <1>2, SumsAre
<1> DEFINE Fits(k) == /\ k < n => H[k] = G[k]
                      /\ k >= n => H[k] = G[k] + 1
           T == {k \in Nat : k <= MaxTime => Fits(k)}
<1>5. 0 \in T
  <2>1. 0 \in L!Times
    BY <1>1
  <2>2. G[0] = g[0] + 0 /\ H[0] = h[0] + 0 /\ g[0] \in Nat /\ h[0] \in Nat
    BY <2>1, <1>2, <1>3, <1>4
  <2>3. QED
    BY <2>1, <2>2, <1>1, <1>2
<1>6. ASSUME NEW k \in Nat, k \in T PROVE k + 1 \in T
  <2>1. SUFFICES ASSUME k + 1 <= MaxTime PROVE Fits(k + 1)
    OBVIOUS
  <2>2. k \in L!Times /\ k + 1 \in L!Times /\ Fits(k)
    BY <2>1, <1>1, <1>6
  <2> DEFINE m == k + 1
  <2>3. m \in L!Times /\ m # 0 /\ m - 1 = k /\ n \in Int /\ m \in Int
    BY <2>2, <1>1
  <2> HIDE DEF m
  <2>4. /\ G[m] = g[m] + G[k] /\ H[m] = h[m] + H[k]
        /\ G[k] \in Nat /\ H[k] \in Nat /\ g[m] \in Nat /\ h[m] \in Nat
    BY <2>2, <2>3, <1>2, <1>3, <1>4
  <2>5. CASE m < n
    BY <2>2, <2>3, <2>4, <2>5, <1>2
  <2>6. CASE m = n
    BY <2>2, <2>3, <2>4, <2>6, <1>2
  <2>7. CASE m > n
    BY <2>2, <2>3, <2>4, <2>7, <1>2
  <2>8. Fits(m)
    BY <2>3, <2>5, <2>6, <2>7
  <2>9. QED
    BY <2>8 DEF m
<1>7. Nat \subseteq T
  <2> HIDE DEF T
  <2>1. QED
    BY <1>5, <1>6, Induction
<1>8. ASSUME NEW u \in L!Times PROVE Fits(u)
  <2>1. u \in Nat /\ u <= MaxTime
    BY <1>1
  <2> HIDE DEF Fits
  <2>2. QED
    BY <2>1, <1>7
<1>9. QED
  BY <1>2, <1>3, <1>4, <1>8

\* What was given since a time, by the sums.
LEMMA SinceIs ==
  ASSUME NEW t
  PROVE  Since(t) = Sums(limiterGranted)[MaxTime]
                     - (IF t <= 0 THEN 0 ELSE Sums(limiterGranted)[t - 1])
BY DEF Since, L!GrantedSince, Sums, SumStep

\* What was given since a time is a number, and all that is given now is new.
LEMMA SinceIsInt ==
  ASSUME MaxTime \in Nat, limiterGranted \in [L!Times -> Nat], NEW t \in Instants
  PROVE  Since(t) \in Int
<1>1. L!Times = 0..MaxTime /\ Sums(limiterGranted) \in [L!Times -> Nat]
  BY SumsAre DEF L!Times
<1>2. QED
  BY <1>1, SinceIs DEF Instants

LEMMA SinceAfterOneMore ==
  ASSUME MaxTime \in Nat, limiterGranted \in [L!Times -> Nat], limiterNow \in L!Times,
         limiterGranted' = [limiterGranted EXCEPT ![limiterNow] = @ + 1]
  PROVE  /\ limiterGranted' \in [L!Times -> Nat]
         /\ \A t \in Instants : /\ Since(t) \in Int
                                /\ t > limiterNow => Since(t)' = Since(t)
                                /\ t <= limiterNow => Since(t)' = Since(t) + 1
<1>1. L!Times = 0..MaxTime
  BY DEF L!Times
<1>2. PICK g \in [L!Times -> Nat] : g = limiterGranted
  OBVIOUS
<1>3. PICK n \in L!Times : n = limiterNow
  OBVIOUS
<1>4. PICK h : h = limiterGranted'
  OBVIOUS
<1>5. /\ h \in [L!Times -> Nat] /\ h[n] = g[n] + 1
      /\ \A u \in L!Times : u # n => h[u] = g[u]
  <2>1. h = [g EXCEPT ![n] = @ + 1]
    BY <1>2, <1>3, <1>4
  <2>2. QED
    BY <2>1
<1>6. \A u \in L!Times : /\ u < n => Sums(h)[u] = Sums(g)[u]
                         /\ u >= n => Sums(h)[u] = Sums(g)[u] + 1
  BY <1>5, OneMoreInSums
<1>7. Sums(g) \in [L!Times -> Nat]
  BY SumsAre
<1>8. ASSUME NEW t \in Instants
      PROVE  /\ Since(t) \in Int
             /\ t > limiterNow => Since(t)' = Since(t)
             /\ t <= limiterNow => Since(t)' = Since(t) + 1
  <2>1. Since(t) = Sums(g)[MaxTime] - (IF t <= 0 THEN 0 ELSE Sums(g)[t - 1])
    BY <1>2, SinceIs
  <2>2. Since(t)' = Sums(h)[MaxTime] - (IF t <= 0 THEN 0 ELSE Sums(h)[t - 1])
    BY <1>4 DEF Since, L!GrantedSince, Sums, SumStep
  <2>3. t \in Int /\ t <= MaxTime
    BY DEF Instants
  <2>4. MaxTime \in L!Times /\ n <= MaxTime /\ Sums(h)[MaxTime] = Sums(g)[MaxTime] + 1
        /\ Sums(g)[MaxTime] \in Nat
    BY <1>1, <1>6, <1>7
  <2>5. CASE t <= 0
    BY <2>1, <2>2, <2>3, <2>4, <2>5, <1>1, <1>3
  <2>6. CASE t > 0
    <3>1. t - 1 \in L!Times /\ Sums(g)[t - 1] \in Nat
      BY <2>3, <2>6, <1>1, <1>7
    <3>2. /\ t - 1 < n => Sums(h)[t - 1] = Sums(g)[t - 1]
          /\ t - 1 >= n => Sums(h)[t - 1] = Sums(g)[t - 1] + 1
      BY <3>1, <1>6
    <3>3. /\ Since(t) = Sums(g)[MaxTime] - Sums(g)[t - 1]
          /\ Since(t)' = Sums(h)[MaxTime] - Sums(h)[t - 1]
      BY <2>1, <2>2, <2>3, <2>6
    <3>4. n \in Int /\ n = limiterNow
      BY <1>1, <1>3
    <3>5. CASE t > n
      BY <3>1, <3>2, <3>3, <3>4, <3>5, <2>3, <2>4
    <3>6. CASE t <= n
      BY <3>1, <3>2, <3>3, <3>4, <3>6, <2>3, <2>4
    <3>7. QED
      BY <3>4, <3>5, <3>6, <2>3
  <2>7. QED
    BY <2>3, <2>5, <2>6
<1>9. QED
  BY <1>4, <1>5, <1>8

LEMMA SinceStays ==
  ASSUME UNCHANGED limiterGranted, NEW t
  PROVE  Since(t)' = Since(t)
BY DEF Since, L!GrantedSince

-----------------------------------------------------------------------------
(* The counter of the hour: its steps *)

\* What is read of the invariant.
LEMMA HourParts ==
  ASSUME HourInv, HourBounds
  PROVE  /\ Max \in Nat /\ Max > 0 /\ Window \in Nat /\ Window > 0 /\ MaxTime \in Nat
         /\ MaxAttempts \in Nat /\ Window <= MaxAttempts
         /\ limiterNow \in L!Times /\ limiterNow \in Nat /\ limiterNow <= MaxTime
         /\ limiterCount \in Nat /\ limiterCount <= Max /\ limiterExpires \in Nat
         /\ limiterGranted \in [L!Times -> Nat]
         /\ limiterState \in [Jobs -> {"waiting", "sent", "skipped"}]
         /\ limiterDue \in [Jobs -> Nat] /\ limiterAttempt \in [Jobs -> Nat]
         /\ DOMAIN limiterBlocked = Jobs
         /\ \A t \in Instants : t \in Int /\ t <= MaxTime /\ Since(t) \in Int
         /\ \A t \in Instants : t > limiterNow => Since(t) = 0
         /\ EndedFits /\ LivingFits
         /\ \A j \in Jobs : JobFits(j)
<1>1. MaxTime \in Nat /\ limiterGranted \in [L!Times -> Nat]
  BY DEF HourInv, HourBounds
<1>2. \A t \in Instants : t \in Int /\ t <= MaxTime /\ Since(t) \in Int
  BY <1>1, SinceIsInt DEF Instants
<1>3. QED
  BY <1>1, <1>2 DEF HourInv, HourBounds, L!TypeOK, L!Times

\* Time goes on.
LEMMA TickKeeps ==
  ASSUME HourInv, HourBounds, L!Tick
  PROVE  HourInv'
<1>1. /\ limiterNow < MaxTime /\ limiterNow' = limiterNow + 1
      /\ limiterCount' = IF limiterNow + 1 >= limiterExpires THEN 0 ELSE limiterCount
      /\ UNCHANGED <<limiterExpires, limiterDue, limiterAttempt, limiterState, limiterGranted,
                     limiterBlocked>>
  BY DEF L!Tick
<1>2. /\ limiterNow \in Nat /\ limiterCount \in Nat /\ limiterExpires \in Nat /\ Max \in Nat
      /\ Window \in Nat /\ Window > 0 /\ MaxTime \in Nat /\ limiterCount <= Max
      /\ EndedFits /\ LivingFits
  BY HourParts
<1>3. \A t \in Instants : /\ t \in Int /\ Since(t) \in Int /\ Since(t)' = Since(t)
                          /\ t > limiterNow => Since(t) = 0
  BY <1>1, HourParts, SinceStays
<1>4. L!TypeOK'
  BY <1>1, <1>2, HourParts DEF L!TypeOK, L!Times
<1>5. \A t \in Instants : t > limiterNow' => Since(t)' = 0
  BY <1>1, <1>2, <1>3
<1>6. EndedFits'
  <2>1. SUFFICES ASSUME limiterCount' = 0
                 PROVE  /\ limiterNow' >= limiterExpires
                        /\ \A t \in Instants :
                             /\ t >= limiterExpires => Since(t) = 0
                             /\ t >= limiterExpires - Window => Since(t) <= Max
                             /\ t > limiterExpires - Window => Since(t) <= Max - 1
    BY <1>1, <1>3 DEF EndedFits
  <2>2. CASE limiterCount = 0
    BY <2>2, <1>1, <1>2 DEF EndedFits
  <2>3. CASE limiterCount > 0
    <3>1. limiterNow < limiterExpires /\ limiterNow + 1 >= limiterExpires
      BY <2>1, <2>3, <1>1, <1>2 DEF LivingFits
    <3>2. ASSUME NEW t \in Instants, t >= limiterExpires - Window
          PROVE  Since(t) <= Max /\ (t > limiterExpires - Window => Since(t) <= Max - 1)
      <4>1. /\ Since(t) <= limiterCount
            /\ t > limiterExpires - Window => Since(t) <= limiterCount - 1
        BY <3>2, <2>3, <1>2 DEF LivingFits
      <4>2. QED
        BY <4>1, <1>2, <1>3
    <3>3. ASSUME NEW t \in Instants, t >= limiterExpires PROVE Since(t) = 0
      BY <3>1, <3>3, <1>2, <1>3
    <3>4. limiterExpires - Window \in Int /\ \A t \in Instants : t > limiterExpires - Window
            => t >= limiterExpires - Window
      BY <1>2, <1>3
    <3>5. QED
      BY <3>1, <3>2, <3>3, <3>4, <1>1
  <2>4. QED
    BY <2>2, <2>3, <1>2
<1>7. LivingFits'
  <2>1. CASE limiterCount' = 0
    BY <2>1 DEF LivingFits
  <2>2. CASE limiterCount' # 0
    <3>1. limiterCount' = limiterCount /\ limiterCount > 0 /\ limiterNow + 1 < limiterExpires
      BY <2>2, <1>1, <1>2
    <3>2. /\ limiterExpires - Window <= limiterNow
          /\ \A t \in Instants :
               /\ t >= limiterExpires - Window => Since(t) <= limiterCount
               /\ t > limiterExpires - Window => Since(t) <= limiterCount - 1
               /\ t > limiterExpires - 2 * Window => Since(t) <= Max + limiterCount - 1
      BY <3>1, <1>2 DEF LivingFits
    <3>3. limiterExpires' - Window <= limiterNow' /\ limiterNow' < limiterExpires'
      BY <3>1, <3>2, <1>1, <1>2
    <3>4. QED
      BY <3>1, <3>2, <3>3, <1>1, <1>3 DEF LivingFits
  <2>3. QED
    BY <2>1, <2>2
<1>8. \A j \in Jobs : JobFits(j)'
  BY <1>1, HourParts DEF JobFits
<1>9. QED
  BY <1>1, <1>4, <1>5, <1>6, <1>7, <1>8, HourParts DEF HourInv

\* A slot is given to job j.
LEMMA ReserveKeeps ==
  ASSUME HourInv, HourBounds, NEW j \in Jobs, L!IsDue(j), L!Reserve(j), UNCHANGED limiterNow
  PROVE  HourInv'
<1>1. /\ limiterCount < Max /\ limiterCount' = limiterCount + 1
      /\ limiterExpires' = IF limiterCount = 0 THEN limiterNow + Window ELSE limiterExpires
      /\ limiterGranted' = [limiterGranted EXCEPT ![limiterNow] = @ + 1]
      /\ limiterState' = [limiterState EXCEPT ![j] = "sent"]
      /\ UNCHANGED <<limiterNow, limiterDue, limiterAttempt, limiterBlocked>>
  BY DEF L!Reserve
<1>2. /\ limiterNow \in L!Times /\ limiterNow \in Nat /\ limiterCount \in Nat
      /\ limiterExpires \in Nat /\ Max \in Nat
      /\ Window \in Nat /\ Window > 0 /\ MaxTime \in Nat /\ limiterCount <= Max
      /\ EndedFits /\ LivingFits /\ limiterGranted \in [L!Times -> Nat]
  BY HourParts
<1>3. /\ limiterGranted' \in [L!Times -> Nat]
      /\ \A t \in Instants : /\ Since(t) \in Int
                             /\ t > limiterNow => Since(t)' = Since(t)
                             /\ t <= limiterNow => Since(t)' = Since(t) + 1
  BY <1>1, <1>2, SinceAfterOneMore
<1>4. \A t \in Instants : t \in Int /\ (t > limiterNow => Since(t) = 0)
  BY HourParts
<1>5. L!TypeOK'
  BY <1>1, <1>2, HourParts DEF L!TypeOK, L!Times
<1>6. \A t \in Instants : t > limiterNow' => Since(t)' = 0
  BY <1>1, <1>3, <1>4
<1>7. EndedFits'
  BY <1>1, <1>2 DEF EndedFits
<1>8. \A t \in Instants : Since(t)' \in Int /\ Since(t)' <= Since(t) + 1
  BY <1>2, <1>3, <1>4
<1>9. LivingFits'
  <2>1. CASE limiterCount = 0
    <3>1. /\ limiterNow >= limiterExpires /\ limiterExpires' = limiterNow + Window
          /\ limiterCount' = 1
          /\ \A t \in Instants : /\ t >= limiterExpires => Since(t) = 0
                                 /\ t > limiterExpires - Window => Since(t) <= Max - 1
      BY <2>1, <1>1, <1>2 DEF EndedFits
    <3>2. limiterExpires' - Window <= limiterNow' /\ limiterNow' < limiterExpires'
      BY <3>1, <1>1, <1>2
    <3>3. ASSUME NEW t \in Instants, t >= limiterExpires' - Window PROVE Since(t)' <= limiterCount'
      <4>1. t >= limiterExpires
        BY <3>1, <3>3, <1>2, <1>4
      <4>2. QED
        BY <4>1, <3>1, <1>3, <1>8
    <3>4. ASSUME NEW t \in Instants, t > limiterExpires' - 2 * Window
          PROVE  Since(t)' <= Max + limiterCount' - 1
      <4>1. t > limiterExpires - Window
        BY <3>1, <3>4, <1>2, <1>4
      <4>2. Since(t) <= Max - 1
        BY <4>1, <3>1
      <4>3. QED
        BY <4>2, <3>1, <1>2, <1>3, <1>8
    <3>5. ASSUME NEW t \in Instants, t > limiterExpires' - Window
          PROVE  Since(t)' <= limiterCount' - 1
      <4>1. t > limiterNow
        BY <3>1, <3>5, <1>2, <1>4
      <4>2. QED
        BY <4>1, <3>1, <1>3, <1>4
    <3>6. QED
      BY <3>2, <3>3, <3>4, <3>5 DEF LivingFits
  <2>2. CASE limiterCount > 0
    <3>1. /\ limiterExpires' = limiterExpires /\ limiterCount' = limiterCount + 1
          /\ limiterExpires - Window <= limiterNow /\ limiterNow < limiterExpires
          /\ \A t \in Instants :
               /\ t >= limiterExpires - Window => Since(t) <= limiterCount
               /\ t > limiterExpires - Window => Since(t) <= limiterCount - 1
               /\ t > limiterExpires - 2 * Window => Since(t) <= Max + limiterCount - 1
      BY <2>2, <1>1, <1>2 DEF LivingFits
    <3>2. ASSUME NEW t \in Instants
          PROVE  /\ t >= limiterExpires' - Window => Since(t)' <= limiterCount'
                 /\ t > limiterExpires' - Window => Since(t)' <= limiterCount' - 1
                 /\ t > limiterExpires' - 2 * Window => Since(t)' <= Max + limiterCount' - 1
      BY <3>1, <1>2, <1>3, <1>8
    <3>3. QED
      BY <3>1, <3>2, <1>1 DEF LivingFits
  <2>3. QED
    BY <2>1, <2>2, <1>2
<1>10. ASSUME NEW k \in Jobs PROVE JobFits(k)'
  <2>1. JobFits(k) /\ limiterState'[k] \in {limiterState[k], "sent"}
    BY <1>1, HourParts
  <2>2. QED
    BY <2>1, <1>1 DEF JobFits
<1>11. QED
  BY <1>1, <1>3, <1>5, <1>6, <1>7, <1>9, <1>10, HourParts DEF HourInv

\* Job j is put back, or skipped: it was refused often enough to see a window end.
LEMMA BlockKeeps ==
  ASSUME HourInv, HourBounds, NEW j \in Jobs, L!IsDue(j), L!Block(j), UNCHANGED limiterNow
  PROVE  HourInv'
<1>1. /\ limiterCount >= Max /\ limiterDue[j] <= limiterNow /\ limiterState[j] = "waiting"
      /\ limiterBlocked' = [limiterBlocked EXCEPT ![j] = @ \cup {limiterExpires}]
      /\ \/ /\ limiterAttempt[j] >= MaxAttempts
            /\ limiterState' = [limiterState EXCEPT ![j] = "skipped"]
            /\ UNCHANGED <<limiterDue, limiterAttempt>>
         \/ /\ limiterAttempt[j] < MaxAttempts
            /\ limiterDue' = [limiterDue EXCEPT ![j] = limiterNow + 1]
            /\ limiterAttempt' = [limiterAttempt EXCEPT ![j] = @ + 1]
            /\ UNCHANGED limiterState
      /\ UNCHANGED <<limiterNow, limiterCount, limiterExpires, limiterGranted>>
  <2>1. limiterAttempt[j] >= MaxAttempts \/ limiterAttempt[j] < MaxAttempts
    BY HourParts
  <2>2. QED
    BY <2>1 DEF L!IsDue, L!Block
<1>2. /\ limiterNow \in Nat /\ limiterCount \in Nat /\ limiterExpires \in Nat /\ Max \in Nat
      /\ Max > 0
      /\ Window \in Nat /\ Window > 0 /\ MaxAttempts \in Nat /\ Window <= MaxAttempts
      /\ limiterDue \in [Jobs -> Nat] /\ limiterAttempt \in [Jobs -> Nat]
      /\ DOMAIN limiterBlocked = Jobs
      /\ limiterState \in [Jobs -> {"waiting", "sent", "skipped"}]
      /\ LivingFits /\ JobFits(j)
  BY HourParts
<1>3. limiterNow < limiterExpires /\ limiterExpires - Window <= limiterNow
  BY <1>1, <1>2 DEF LivingFits
<1>4. /\ limiterBlocked'[j] = limiterBlocked[j] \cup {limiterExpires}
      /\ DOMAIN limiterBlocked' = Jobs
      /\ \A k \in Jobs : k # j
           => /\ limiterBlocked'[k] = limiterBlocked[k] /\ limiterDue'[k] = limiterDue[k]
                                  /\ limiterAttempt'[k] = limiterAttempt[k]
                                  /\ limiterState'[k] = limiterState[k]
      /\ limiterDue' \in [Jobs -> Nat] /\ limiterAttempt' \in [Jobs -> Nat]
      /\ limiterState' \in [Jobs -> {"waiting", "sent", "skipped"}]
  BY <1>1, <1>2
<1>5. IsFiniteSet(limiterBlocked'[j]) /\ limiterBlocked'[j] \subseteq Int
  BY <1>2, <1>4, FS_AddElement DEF JobFits
<1>6. limiterBlocked[j] \subseteq {limiterExpires}
        => /\ limiterAttempt[j] < MaxAttempts
           /\ limiterAttempt[j] <= limiterNow - limiterExpires + Window
  <2>1. SUFFICES ASSUME limiterBlocked[j] \subseteq {limiterExpires}
                 PROVE  limiterAttempt[j] <= limiterNow - limiterExpires + Window
    BY <1>2, <1>3
  <2>2. CASE limiterBlocked[j] = {}
    BY <2>2, <1>2, <1>3 DEF JobFits
  <2>3. CASE limiterBlocked[j] = {limiterExpires}
    <3>1. limiterDue[j] >= limiterExpires - Window + limiterAttempt[j]
      BY <2>3, <1>2 DEF JobFits
    <3>2. limiterDue[j] \in Nat /\ limiterAttempt[j] \in Nat
      BY <1>2
    <3>3. QED
      BY <3>1, <3>2, <1>1, <1>2
  <2>4. QED
    BY <2>1, <2>2, <2>3
<1>7. JobFits(j)'
  <2>1. CASE limiterBlocked[j] \subseteq {limiterExpires}
    <3>1. /\ limiterAttempt[j] < MaxAttempts
          /\ limiterAttempt[j] <= limiterNow - limiterExpires + Window
          /\ limiterAttempt[j] \in Nat
      BY <2>1, <1>2, <1>6
    <3>2. limiterDue'[j] = limiterNow + 1 /\ limiterAttempt'[j] = limiterAttempt[j] + 1
          /\ limiterState'[j] = "waiting"
      BY <3>1, <1>1, <1>2
    <3>3. limiterBlocked'[j] = {limiterExpires}
          /\ limiterDue'[j] >= limiterExpires - Window + limiterAttempt'[j]
      BY <2>1, <3>1, <3>2, <1>2, <1>4
    <3>4. QED
      BY <3>2, <3>3, <1>5 DEF JobFits
  <2>2. CASE ~(limiterBlocked[j] \subseteq {limiterExpires})
    <3>1. PICK d \in limiterBlocked[j] : d # limiterExpires
      BY <2>2
    <3>2. d \in limiterBlocked'[j] /\ limiterExpires \in limiterBlocked'[j] /\ d # limiterExpires
      BY <3>1, <1>4
    <3>3. \A e \in limiterBlocked'[j] : \E c \in limiterBlocked'[j] : c # e
      BY <3>2
    <3>4. QED
      BY <3>2, <3>3, <1>5 DEF JobFits
  <2>3. QED
    BY <2>1, <2>2
<1>8. ASSUME NEW k \in Jobs PROVE JobFits(k)'
  <2>1. CASE k = j
    BY <2>1, <1>7
  <2>2. CASE k # j
    <3>1. /\ limiterBlocked'[k] = limiterBlocked[k] /\ limiterDue'[k] = limiterDue[k]
          /\ limiterAttempt'[k] = limiterAttempt[k] /\ limiterState'[k] = limiterState[k]
          /\ JobFits(k)
      BY <2>2, <1>4, HourParts
    <3>2. QED
      BY <3>1 DEF JobFits
  <2>3. QED
    BY <2>1, <2>2
<1>9. \A t \in Instants : Since(t)' = Since(t)
  BY <1>1, SinceStays
<1>10. EndedFits' /\ LivingFits'
  <2>1. EndedFits /\ LivingFits
    BY HourParts
  <2>2. QED
    BY <2>1, <1>1, <1>9 DEF EndedFits, LivingFits
<1>11. L!TypeOK' /\ \A t \in Instants : t > limiterNow' => Since(t)' = 0
  BY <1>1, <1>4, <1>9, HourParts DEF L!TypeOK
<1>12. QED
  BY <1>1, <1>4, <1>8, <1>10, <1>11, HourParts DEF HourInv

LEMMA HourInit ==
  ASSUME HourBounds, L!Init
  PROVE  HourInv
<1>1. /\ MaxTime \in Nat /\ Max \in Nat /\ Window \in Nat
      /\ limiterNow = 0 /\ limiterCount = 0 /\ limiterExpires = 0 /\ limiterDue \in [Jobs -> 0..1]
      /\ limiterAttempt = [k \in Jobs |-> 0] /\ limiterState = [k \in Jobs |-> "waiting"]
      /\ limiterGranted = [t \in L!Times |-> 0] /\ limiterBlocked = [k \in Jobs |-> {}]
  BY DEF HourBounds, L!Init
<1>2. L!Times = 0..MaxTime /\ limiterGranted \in [L!Times -> Nat]
  BY <1>1 DEF L!Times
<1> DEFINE zero == Sums(limiterGranted)
           T == {k \in Nat : k <= MaxTime => zero[k] = 0}
<1>3. \A u \in L!Times : zero[u] = 0 + (IF u = 0 THEN 0 ELSE zero[u - 1])
  BY <1>1, <1>2, SumsAre
<1>4. zero \in [L!Times -> Nat]
  BY <1>1, <1>2, SumsAre
<1> HIDE DEF zero
<1>5. \A u \in L!Times : zero[u] = 0
  <2>1. 0 \in T
    BY <1>1, <1>2, <1>3
  <2>2. ASSUME NEW k \in Nat, k \in T PROVE k + 1 \in T
    <3>1. SUFFICES ASSUME k + 1 <= MaxTime PROVE zero[k + 1] = 0
      OBVIOUS
    <3> DEFINE m == k + 1
    <3>2. zero[k] = 0 /\ m \in L!Times /\ m # 0 /\ m - 1 = k
      BY <3>1, <2>2, <1>1, <1>2
    <3> HIDE DEF m
    <3>3. zero[m] = 0
      BY <3>2, <1>3
    <3>4. QED
      BY <3>3 DEF m
  <2> HIDE DEF T
  <2>3. Nat \subseteq T
    BY <2>1, <2>2, Induction
  <2> USE DEF T
  <2>4. QED
    BY <2>3, <1>1, <1>2
<1>6. ASSUME NEW t \in Instants PROVE t \in Int /\ Since(t) = 0
  <2>1. t \in Int /\ t <= MaxTime
    BY DEF Instants
  <2>2. Since(t) = zero[MaxTime] - (IF t <= 0 THEN 0 ELSE zero[t - 1])
    BY SinceIs DEF zero
  <2>3. zero[MaxTime] = 0 /\ (t > 0 => zero[t - 1] = 0)
    BY <2>1, <1>1, <1>2, <1>5
  <2>4. QED
    BY <2>1, <2>2, <2>3
<1>7. EndedFits /\ LivingFits
  <2>1. limiterCount = 0 /\ limiterExpires = 0 /\ limiterNow = 0
    BY <1>1
  <2>2. LivingFits
    BY <2>1 DEF LivingFits
  <2>3. Max \in Nat /\ 1 <= Max
    BY DEF HourBounds
  <2>4. EndedFits
    BY <2>1, <2>3, <1>6 DEF EndedFits
  <2>5. QED
    BY <2>2, <2>4
<1>8. ASSUME NEW j \in Jobs PROVE JobFits(j)
  BY <1>1, FS_EmptySet DEF JobFits
<1>9. QED
  BY <1>1, <1>2, <1>6, <1>7, <1>8 DEF HourInv, L!TypeOK, L!Times

\* The invariant of the counter of the hour.
THEOREM HourInvariance ==
  ASSUME HourBounds
  PROVE  L!Spec => []HourInv
<1>1. L!Init => HourInv
  BY HourInit
<1>2. HourInv /\ [L!Next]_(L!vars) => HourInv'
  <2> SUFFICES ASSUME HourInv, [L!Next]_(L!vars) PROVE HourInv'
    OBVIOUS
  <2>1. CASE L!Next
    BY <2>1, TickKeeps, ReserveKeeps, BlockKeeps DEF L!Next, L!ReserveDMSlot
  <2>2. CASE UNCHANGED L!vars
    <3>1. /\ UNCHANGED <<limiterNow, limiterCount, limiterExpires, limiterDue, limiterAttempt,
                         limiterState, limiterGranted, limiterBlocked>>
          /\ \A t \in Instants : Since(t)' = Since(t)
      BY <2>2, SinceStays DEF L!vars
    <3>2. QED
      BY <3>1 DEF HourInv, L!TypeOK, L!Times, EndedFits, LivingFits, JobFits
  <2>3. QED
    BY <2>1, <2>2
<1>3. QED
  BY <1>1, <1>2, PTL DEF L!Spec

\* However many jobs ask for a slot, and however late each runs: the life of a key
\* gives the limit at most, a window across two lives one fewer than twice the limit,
\* and a job is skipped only after two windows that were full.
THEOREM LimitIsHeld ==
  ASSUME HourBounds
  PROVE  L!Spec => [](L!TypeOK /\ LimitHolds)
<1>1. HourInv => L!TypeOK /\ LimitHolds
  <2> SUFFICES ASSUME HourInv PROVE L!TypeOK /\ LimitHolds
    OBVIOUS
  <2>1. L!WindowCap
    <3>1. limiterCount > 0 => L!GrantedSince(limiterExpires - Window) <= Max
      <4>1. SUFFICES ASSUME limiterCount > 0 PROVE Since(limiterExpires - Window) <= Max
        BY DEF Since
      <4>2. limiterExpires - Window \in Instants
        BY <4>1, HourParts DEF Instants, LivingFits
      <4>3. Since(limiterExpires - Window) <= limiterCount /\ Since(limiterExpires - Window) \in Int
        BY <4>1, <4>2, HourParts DEF LivingFits
      <4>4. QED
        BY <4>3, HourParts
    <3>2. ASSUME NEW t \in L!Times, t <= limiterNow, limiterNow < t + Window
          PROVE  L!GrantedSince(t) <= 2 * Max - 1
      <4>1. t \in Instants /\ t \in Int /\ Since(t) \in Int
        BY HourParts DEF L!Times, Instants
      <4>2. CASE limiterCount = 0
        <5>1. t > limiterExpires - Window
          BY <4>1, <4>2, <3>2, HourParts DEF EndedFits
        <5>2. Since(t) <= Max - 1
          BY <5>1, <4>1, <4>2, HourParts DEF EndedFits
        <5>3. QED
          BY <5>2, <4>1, HourParts DEF Since
      <4>3. CASE limiterCount > 0
        <5>1. t > limiterExpires - 2 * Window
          BY <4>1, <4>3, <3>2, HourParts DEF LivingFits
        <5>2. Since(t) <= Max + limiterCount - 1
          BY <5>1, <4>1, <4>3, HourParts DEF LivingFits
        <5>3. QED
          BY <5>2, <4>1, HourParts DEF Since
      <4>4. QED
        BY <4>2, <4>3, HourParts
    <3>3. QED
      BY <3>1, <3>2 DEF L!WindowCap
  <2>2. ASSUME NEW j \in Jobs, limiterState[j] = "skipped"
        PROVE  L!Cardinality(limiterBlocked[j]) >= 2
    <3>1. JobFits(j)
      BY HourParts
    <3>2. PICK d \in limiterBlocked[j], e \in limiterBlocked[j] : d # e
      BY <3>1, <2>2 DEF JobFits
    <3>3. IsFiniteSet(limiterBlocked[j]) /\ {d, e} \subseteq limiterBlocked[j]
      BY <3>1, <3>2 DEF JobFits
    <3>4. Cardinality({d, e}) = 2
      <4>1. /\ IsFiniteSet({d}) /\ Cardinality({d}) = 1
        BY FS_Singleton
      <4>2. Cardinality({d} \cup {e}) = 1 + 1
        BY <4>1, <3>2, FS_AddElement
      <4>3. {d} \cup {e} = {d, e}
        OBVIOUS
      <4>4. QED
        BY <4>2, <4>3
    <3>5. Cardinality({d, e}) <= Cardinality(limiterBlocked[j])
          /\ Cardinality(limiterBlocked[j]) \in Nat
      BY <3>3, FS_Subset, FS_CardinalityType
    <3>6. QED
      BY <3>4, <3>5
         DEF L!Cardinality, Cardinality
  <2>3. QED
    BY <2>1, <2>2 DEF HourInv, LimitHolds, L!LimitHolds, L!SkippedMetTwoWindows
<1>2. QED
  BY <1>1, HourInvariance, PTL

-----------------------------------------------------------------------------
(* The nudge of a window: its invariant *)

RowStates == {"ABSENT", "PENDING", "SENDING", "HELD", "FAILED", "SKIPPED", "SENT", "DISMISSED"}

NudgePlaces == {"new", "DRAFT", "AUTO", "find DRAFT", "find AUTO", "draft DRAFT", "draft AUTO",
           "hold", "check", "skip", "claim", "send", "sent", "noted", "refused", "done"}

NudgeTypes ==
  /\ nudgeNow \in N!Times /\ nudgeLastIn \in 0..Clock /\ nudgeMode \in {"OFF", "DRAFT", "AUTO"}
  /\ nudgeArriving \in SUBSET N!Times /\ nudgeInbound \in SUBSET N!Times
  /\ nudgeOutbound \in SUBSET N!Times /\ nudgeJobs \in SUBSET N!Times
  /\ nudgeRow \in [N!Times -> RowStates]
  /\ nudgePc \in [Runs -> NudgePlaces]
  /\ nudgeAnchor \in [Runs -> 0..Clock]
  /\ \A r \in Runs : nudgePc[r] # "new" => nudgeAnchor[r] \in N!Times
  /\ nudgeHeard \in [Runs -> SUBSET N!Times]
  /\ nudgeNudges \in [N!Times -> Nat]

\* Run r is under way.  It has claimed the draft of anchor a; it is about to; it may
\* still write to its row.
Lives(r) == nudgePc[r] \notin {"new", "done"}
Sender(r, a) == nudgePc[r] \in N!Claimed /\ nudgeAnchor[r] = a
Decider(r, a) == nudgePc[r] \in {"check", "claim"} /\ nudgeAnchor[r] = a
MayWrite == {"hold", "check", "skip", "claim", "refused"}
Writer(r, a) == nudgePc[r] \in MayWrite /\ nudgeAnchor[r] = a

\* What was sent, or is being sent, has a row that no run finds to deliver, and nobody
\* is about to claim it.  The draft has one sender, who has not sent it before; once it
\* is sent, one run at most may still write to its row.
AnchorFits(a) ==
  /\ nudgeNudges[a] \in {0, 1}
  /\ nudgeNudges[a] = 1 => nudgeRow[a] \notin {"ABSENT", "PENDING"}
  /\ \A r \in Runs : Sender(r, a) => nudgeRow[a] \notin {"ABSENT", "PENDING"}
  /\ \A r \in Runs : Decider(r, a) /\ nudgeRow[a] \in {"HELD", "FAILED"} =>
       nudgeNudges[a] = 0 /\ \A s \in Runs : ~ Sender(s, a)
  /\ \A r \in Runs : Sender(r, a) /\ nudgePc[r] = "send" => nudgeNudges[a] = 0
  /\ \A r, s \in Runs : Sender(r, a) /\ Sender(s, a) => r = s
  /\ nudgeNudges[a] = 1 => \A r, s \in Runs : Writer(r, a) /\ Writer(s, a) => r = s

\* No three runs of one job are under way.
TwoLive ==
  \A r, s, t \in Runs : /\ Lives(r) /\ Lives(s) /\ Lives(t)
                        /\ nudgeAnchor[r] = nudgeAnchor[s] /\ nudgeAnchor[s] = nudgeAnchor[t]
                        => r = s \/ s = t \/ r = t

\* A run that is past the late check has seen nothing newer than its anchor, and what
\* was there when it loaded the thread is still there.
QuietFits ==
  \A r \in Runs :
    /\ nudgeHeard[r] \subseteq nudgeInbound
    /\ nudgePc[r] \in {"claim"} \cup N!Claimed => \A t \in nudgeHeard[r] : t <= nudgeAnchor[r]

NudgeInv ==
  /\ NudgeTypes
  /\ \A a \in N!Times \ nudgeUnsure : AnchorFits(a)
  /\ TwoLive
  /\ QuietFits

-----------------------------------------------------------------------------
(* The nudge of a window: its steps *)

LEMMA TimesAre ==
  ASSUME NudgeBounds
  PROVE  N!Times = 1..Clock /\ N!Times \subseteq Int
BY DEF NudgeBounds, N!Times

\* One more run begins only beside one, or none.
LEMMA OneBeside ==
  ASSUME NudgeBounds, NudgeTypes, NEW a \in N!Times, N!Cardinality(N!Live(a)) <= MaxStalls
  PROVE  \A r, s \in Runs : Lives(r) /\ Lives(s) /\ nudgeAnchor[r] = a /\ nudgeAnchor[s] = a
           => r = s
<1> SUFFICES ASSUME NEW r \in Runs, NEW s \in Runs, Lives(r), Lives(s),
                    nudgeAnchor[r] = a, nudgeAnchor[s] = a, r # s
             PROVE  FALSE
  OBVIOUS
<1> DEFINE live == N!Live(a)
<1>1. IsFiniteSet(live) /\ {r, s} \subseteq live
  BY FS_Subset DEF NudgeBounds, N!Live, Lives
<1>2. Cardinality({r, s}) = 2
  <2>1. IsFiniteSet({r}) /\ Cardinality({r}) = 1
    BY FS_Singleton
  <2>2. Cardinality({r} \cup {s}) = 1 + 1
    BY <2>1, FS_AddElement
  <2>3. {r} \cup {s} = {r, s}
    OBVIOUS
  <2>4. QED
    BY <2>2, <2>3
<1>3. Cardinality({r, s}) <= Cardinality(live) /\ Cardinality(live) \in Nat
  BY <1>1, FS_Subset, FS_CardinalityType
<1>4. N!Cardinality(live) = Cardinality(live)
  BY DEF N!Cardinality, Cardinality
<1>5. QED
  BY <1>2, <1>3, <1>4 DEF NudgeBounds

\* Nothing about anchor a changes.
LEMMA AnchorStays ==
  ASSUME NEW a, AnchorFits(a),
         nudgeRow'[a] = nudgeRow[a], nudgeNudges'[a] = nudgeNudges[a],
         \A r \in Runs : nudgeAnchor'[r] = a /\ nudgePc'[r] \in N!Claimed \cup MayWrite =>
           nudgePc'[r] = nudgePc[r] /\ nudgeAnchor'[r] = nudgeAnchor[r]
  PROVE  AnchorFits(a)'
<1>1. \A r \in Runs : /\ Sender(r, a)' => Sender(r, a) /\ nudgePc'[r] = nudgePc[r]
                      /\ Decider(r, a)' => Decider(r, a)
                      /\ Writer(r, a)' => Writer(r, a)
  BY DEF Sender, Decider, Writer, MayWrite
<1>2. QED
  BY <1>1 DEF AnchorFits

\* The thread moves on.
LEMMA ThreadKeeps ==
  ASSUME NudgeBounds, NudgeInv,
         \/ N!Tick \/ N!Write
         \/ \E t \in nudgeArriving : N!ProcessInboundDm(t)
         \/ \E human \in BOOLEAN : N!Answer(human)
         \/ \E m \in {"OFF", "DRAFT", "AUTO"} : N!SetMode(m)
  PROVE  NudgeInv'
<1>1. UNCHANGED <<nudgeRow, nudgePc, nudgeAnchor, nudgeHeard, nudgeNudges,
                  nudgeUnsure>> /\ nudgeInbound \subseteq nudgeInbound'
  BY DEF N!Tick, N!Write, N!ProcessInboundDm, N!Answer, N!SetMode, N!ghosts
<1>2. NudgeTypes'
  <2>1. nudgeNow' \in N!Times /\ nudgeMode' \in {"OFF", "DRAFT", "AUTO"}
    BY TimesAre DEF NudgeInv, NudgeTypes, N!Tick, N!Write, N!ProcessInboundDm, N!Answer, N!SetMode,
      NudgeBounds
  <2>2. /\ nudgeArriving' \in SUBSET N!Times /\ nudgeInbound' \in SUBSET N!Times
        /\ nudgeOutbound' \in SUBSET N!Times
    BY DEF NudgeInv, NudgeTypes, N!Tick, N!Write, N!ProcessInboundDm, N!Answer, N!SetMode
  <2>3. nudgeLastIn' \in 0..Clock /\ nudgeJobs' \in SUBSET N!Times
    BY TimesAre DEF NudgeInv, NudgeTypes, N!Tick, N!Write, N!ProcessInboundDm, N!Answer, N!SetMode,
      N!Armed, NudgeBounds
  <2>4. QED
    BY <1>1, <2>1, <2>2, <2>3 DEF NudgeInv, NudgeTypes
<1>3. \A a \in N!Times \ nudgeUnsure' : AnchorFits(a)'
  BY <1>1, AnchorStays DEF NudgeInv
<1>4. TwoLive' /\ QuietFits'
  BY <1>1 DEF NudgeInv, TwoLive, Lives, QuietFits
<1>5. QED
  BY <1>2, <1>3, <1>4 DEF NudgeInv

\* The owner decides on a draft, or one is recovered whose run died.
LEMMA OwnerKeeps ==
  ASSUME NudgeBounds, NudgeInv, NEW a \in N!Times, N!Approve(a) \/ N!Dismiss(a) \/ N!Recover(a)
  PROVE  NudgeInv'
<1>1. /\ UNCHANGED <<nudgeNow, nudgeLastIn, nudgeMode, nudgeArriving, nudgeInbound, nudgeJobs,
                     nudgePc, nudgeAnchor, nudgeHeard, nudgeNudges, nudgeUnsure>>
      /\ nudgeOutbound' \in SUBSET N!Times
  BY DEF NudgeInv, NudgeTypes, N!Approve, N!Dismiss, N!Recover, N!thread, N!ghosts
<1>2. /\ nudgeRow' \in [N!Times -> RowStates]
      /\ nudgeRow'[a] \in {"SENT", "DISMISSED", "HELD"}
      /\ \A b \in N!Times : b # a => nudgeRow'[b] = nudgeRow[b]
  BY DEF NudgeInv, NudgeTypes, N!Approve, N!Dismiss, N!Recover, RowStates
<1>3. nudgeRow'[a] = "HELD" => \A r \in Runs : ~ Decider(r, a)
  BY DEF NudgeInv, NudgeTypes, N!Approve, N!Dismiss, N!Recover, Decider
<1>4. NudgeTypes'
  BY <1>1, <1>2 DEF NudgeInv, NudgeTypes
<1>5. ASSUME NEW b \in N!Times \ nudgeUnsure PROVE AnchorFits(b)'
  <2>1. AnchorFits(b)
    BY DEF NudgeInv
  <2>2. CASE b # a
    BY <1>1, <1>2, <2>1, <2>2, AnchorStays
  <2>3. CASE b = a
    <3>1. \A r \in Runs : /\ Sender(r, a)' <=> Sender(r, a)
                          /\ Decider(r, a)' <=> Decider(r, a)
                          /\ Writer(r, a)' <=> Writer(r, a)
      BY <1>1 DEF Sender, Decider, Writer
    <3>2. QED
      BY <1>1, <1>2, <1>3, <2>1, <2>3, <3>1 DEF AnchorFits
  <2>4. QED
    BY <2>2, <2>3
<1>6. (TwoLive /\ QuietFits)'
  BY <1>1 DEF NudgeInv, TwoLive, Lives, QuietFits
<1>7. QED
  BY <1>1, <1>4, <1>5, <1>6 DEF NudgeInv

\* A run loads the thread.
LEMMA LoadKeeps ==
  ASSUME NudgeBounds, NudgeInv, NEW r \in Runs, NEW a \in nudgeJobs, N!Load(r, a)
  PROVE  NudgeInv'
<1>1. /\ UNCHANGED <<nudgeNow, nudgeLastIn, nudgeMode, nudgeArriving, nudgeInbound, nudgeOutbound,
                     nudgeJobs, nudgeRow, nudgeNudges, nudgeUnsure>>
      /\ nudgePc[r] = "new" /\ nudgePc'[r] \in {"DRAFT", "AUTO", "done"}
      /\ \A s \in Runs : s # r
           => /\ nudgePc'[s] = nudgePc[s]
              /\ nudgeAnchor'[s] = nudgeAnchor[s] /\ nudgeHeard'[s] = nudgeHeard[s]
      /\ nudgeAnchor'[r] = a /\ nudgeHeard'[r] = nudgeInbound /\ a \in N!Times
  BY DEF NudgeInv, NudgeTypes, N!Load, N!Goto, N!thread
<1>2. NudgeTypes'
  <2>1. nudgePc' \in [Runs -> NudgePlaces]
    <3>1. "done" \in NudgePlaces /\ nudgePc \in [Runs -> NudgePlaces] /\ (nudgeMode # "OFF"
            => nudgeMode \in NudgePlaces)
      BY DEF NudgeInv, NudgeTypes, NudgePlaces
    <3>2. \/ nudgeMode # "OFF" /\ nudgePc' = [nudgePc EXCEPT ![r] = nudgeMode]
          \/ nudgePc' = [nudgePc EXCEPT ![r] = "done"]
      BY DEF N!Load, N!Goto
    <3>3. QED
      BY <3>1, <3>2
  <2>2. nudgeAnchor' \in [Runs -> 0..Clock]
    BY TimesAre DEF NudgeInv, NudgeTypes, N!Load, NudgeBounds
  <2>3. nudgeHeard' \in [Runs -> SUBSET N!Times]
    BY DEF NudgeInv, NudgeTypes, N!Load
  <2>4. QED
    BY <1>1, <2>1, <2>2, <2>3 DEF NudgeInv, NudgeTypes
<1>3. ASSUME NEW b \in N!Times \ nudgeUnsure PROVE AnchorFits(b)'
  <2>1. \A s \in Runs : nudgePc'[s] \in N!Claimed \cup MayWrite => s # r
    BY <1>1 DEF N!Claimed, MayWrite
  <2>2. QED
    BY <1>1, <2>1, AnchorStays DEF NudgeInv
<1>4. TwoLive'
  <2>1. \A s, t \in Runs : Lives(s) /\ Lives(t) /\ nudgeAnchor[s] = a /\ nudgeAnchor[t] = a => s = t
    <3>1. N!Cardinality(N!Live(a)) <= MaxStalls
      BY DEF N!Load
    <3>2. QED
      BY <1>1, <3>1, OneBeside DEF NudgeInv
  <2>2. QED
    BY <1>1, <2>1 DEF NudgeInv, TwoLive, Lives
<1>5. QuietFits'
  BY <1>1 DEF NudgeInv, QuietFits, N!Claimed
<1>6. QED
  BY <1>1, <1>2, <1>3, <1>4, <1>5 DEF NudgeInv

\* A run that moves on, or ends, and writes nothing but what is its anchor's, keeps
\* what it keeps of its anchor.
LEMMA RunStep ==
  ASSUME NudgeBounds, NudgeInv, NEW r \in Runs,
         UNCHANGED <<nudgeNow, nudgeLastIn, nudgeMode, nudgeArriving, nudgeInbound, nudgeJobs,
         nudgeAnchor, nudgeHeard>>,
         nudgeOutbound' \in SUBSET N!Times,
         Lives(r), nudgePc'[r] # "new",
         \A s \in Runs : s # r => nudgePc'[s] = nudgePc[s],
         nudgePc' \in [Runs -> NudgePlaces],
         \A b \in N!Times : b # nudgeAnchor[r]
           => nudgeRow'[b] = nudgeRow[b] /\ nudgeNudges'[b] = nudgeNudges[b],
         nudgeRow' \in [N!Times -> RowStates], nudgeNudges' \in [N!Times -> Nat],
         nudgeUnsure' \in {nudgeUnsure, nudgeUnsure \cup {nudgeAnchor[r]}},
         nudgeAnchor[r] \notin nudgeUnsure' => AnchorFits(nudgeAnchor[r])',
         nudgePc'[r] \in {"claim"} \cup N!Claimed => \A t \in nudgeHeard[r] : t <= nudgeAnchor[r]
  PROVE  NudgeInv'
<1>1. NudgeTypes'
  BY DEF NudgeInv, NudgeTypes, Lives
<1>2. ASSUME NEW b \in N!Times \ nudgeUnsure' PROVE AnchorFits(b)'
  <2>1. CASE b = nudgeAnchor[r]
    BY <2>1
  <2>2. CASE b # nudgeAnchor[r]
    <3>1. AnchorFits(b)
      BY DEF NudgeInv
    <3>2. \A s \in Runs : nudgeAnchor'[s] = b => s # r
      BY <2>2
    <3>3. QED
      BY <2>2, <3>1, <3>2, AnchorStays
  <2>3. QED
    BY <2>1, <2>2
<1>3. TwoLive'
  BY DEF NudgeInv, TwoLive, Lives
<1>4. QuietFits'
  BY DEF NudgeInv, QuietFits
<1>5. QED
  BY <1>1, <1>2, <1>3, <1>4 DEF NudgeInv

\* A run under way comes to a place; it is at a place of a run.
LEMMA Moves ==
  ASSUME NudgeInv, NEW r \in Runs, NEW place \in NudgePlaces, N!Goto(r, place)
  PROVE  /\ nudgePc'[r] = place
         /\ \A s \in Runs : s # r => nudgePc'[s] = nudgePc[s]
         /\ nudgePc' \in [Runs -> NudgePlaces]
BY DEF NudgeInv, NudgeTypes, N!Goto

\* What the runs at anchor a are after run r has moved.
LEMMA RunsThen ==
  ASSUME NEW r \in Runs, NEW a, UNCHANGED nudgeAnchor,
         \A s \in Runs : s # r => nudgePc'[s] = nudgePc[s]
  PROVE  /\ \A s \in Runs : s # r => /\ Sender(s, a)' <=> Sender(s, a)
                                     /\ Decider(s, a)' <=> Decider(s, a)
                                     /\ Writer(s, a)' <=> Writer(s, a)
         /\ nudgePc'[r] \notin N!Claimed => ~ Sender(r, a)'
         /\ nudgePc'[r] \notin {"check", "claim"} => ~ Decider(r, a)'
         /\ nudgePc'[r] \notin MayWrite => ~ Writer(r, a)'
BY DEF Sender, Decider, Writer

\* A run only moves: it comes to deliver the draft where it finds it pending, and to
\* claim it where the thread is quiet.
LEMMA GoesKeeps ==
  ASSUME NudgeBounds, NudgeInv, NEW r \in Runs, Lives(r),
         NEW place \in NudgePlaces \ ({"new", "refused"} \cup N!Claimed), N!Goes(r, place),
         place \in {"hold", "check"} => nudgeRow[nudgeAnchor[r]] = "PENDING",
         place \in {"skip", "claim"} => nudgePc[r] = "check",
         place = "claim" => \A t \in nudgeHeard[r] : t <= nudgeAnchor[r]
  PROVE  NudgeInv'
<1> DEFINE a == nudgeAnchor[r]
<1>1. /\ UNCHANGED <<nudgeNow, nudgeLastIn, nudgeMode, nudgeArriving, nudgeInbound, nudgeOutbound,
                     nudgeJobs, nudgeRow, nudgeAnchor, nudgeHeard, nudgeNudges, nudgeUnsure>>
      /\ nudgePc'[r] = place /\ nudgePc' \in [Runs -> NudgePlaces]
      /\ \A s \in Runs : s # r => nudgePc'[s] = nudgePc[s]
  BY Moves DEF N!Goes, N!thread, N!ghosts
<1>2. /\ a \in N!Times /\ nudgeOutbound' \in SUBSET N!Times
      /\ nudgeRow' \in [N!Times -> RowStates] /\ nudgeNudges' \in [N!Times -> Nat]
  BY <1>1 DEF NudgeInv, NudgeTypes, Lives
<1>3. ASSUME a \notin nudgeUnsure PROVE AnchorFits(a)'
  <2>1. AnchorFits(a)
    BY <1>2, <1>3 DEF NudgeInv
  <2>2. /\ \A s \in Runs : s # r => /\ Sender(s, a)' <=> Sender(s, a)
                                    /\ Decider(s, a)' <=> Decider(s, a)
                                    /\ Writer(s, a)' <=> Writer(s, a)
        /\ ~ Sender(r, a)'
    BY <1>1, RunsThen
  <2>3. CASE place \in {"hold", "check"}
    BY <1>1, <2>1, <2>2, <2>3 DEF AnchorFits, Sender
  <2>4. CASE place \in {"skip", "claim"}
    <3>1. Decider(r, a) /\ Writer(r, a)
      BY <2>4 DEF Decider, Writer, MayWrite
    <3>2. QED
      BY <1>1, <2>1, <2>2, <3>1 DEF AnchorFits, Sender
  <2>5. CASE place \notin {"hold", "check", "skip", "claim"}
    <3>1. ~ Decider(r, a)' /\ ~ Writer(r, a)'
      BY <1>1, <2>5, RunsThen DEF MayWrite
    <3>2. QED
      BY <1>1, <2>1, <2>2, <3>1 DEF AnchorFits, Sender
  <2>6. QED
    BY <2>3, <2>4, <2>5
<1>4. QED
  BY <1>1, <1>2, <1>3, RunStep

\* A run ends, or dies.
LEMMA EndsKeeps ==
  ASSUME NudgeBounds, NudgeInv, NEW r \in Runs, Lives(r), N!Ends(r)
  PROVE  NudgeInv'
BY GoesKeeps DEF N!Ends, NudgePlaces, N!Claimed

\* A run looks at the thread and at the row.
LEMMA LookKeeps ==
  ASSUME NudgeBounds, NudgeInv, NEW r \in Runs,
         N!LastMessage(r) \/ N!FindRow(r) \/ N!Check(r) \/ N!Crash(r)
  PROVE  NudgeInv'
<1>0. Lives(r)
  BY DEF N!LastMessage, N!FindRow, N!Check, N!Crash, Lives
<1>1. CASE N!LastMessage(r)
  <2>1. N!Goes(r, "find AUTO") \/ N!Goes(r, "find DRAFT") \/ N!Ends(r)
    BY <1>1 DEF N!LastMessage
  <2>2. QED
    BY <1>0, <2>1, GoesKeeps, EndsKeeps DEF NudgePlaces, N!Claimed
<1>2. CASE N!FindRow(r)
  <2>1. \/ N!Goes(r, "draft AUTO") \/ N!Goes(r, "draft DRAFT")
        \/ nudgeRow[nudgeAnchor[r]] = "PENDING" /\ (N!Goes(r, "check") \/ N!Goes(r, "hold"))
        \/ N!Ends(r)
    BY <1>2 DEF N!FindRow
  <2>2. QED
    BY <1>0, <2>1, GoesKeeps, EndsKeeps DEF NudgePlaces, N!Claimed
<1>3. CASE N!Check(r)
  <2>1. nudgePc[r] = "check"
    BY <1>3 DEF N!Check
  <2>2. CASE \E t \in nudgeInbound : t > nudgeAnchor[r]
    BY <1>0, <1>3, <2>1, <2>2, GoesKeeps DEF NudgePlaces, N!Check, N!Claimed
  <2>3. CASE ~ \E t \in nudgeInbound : t > nudgeAnchor[r]
    <3>1. nudgeHeard[r] \subseteq nudgeInbound /\ nudgeInbound \subseteq N!Times
          /\ nudgeAnchor[r] \in N!Times
      BY <1>0 DEF NudgeInv, NudgeTypes, QuietFits, Lives
    <3>2. \A t \in nudgeHeard[r] : t <= nudgeAnchor[r]
      BY <2>3, <3>1, TimesAre
    <3>3. N!Goes(r, "claim")
      BY <1>3, <2>3 DEF N!Check
    <3>4. QED
      BY <1>0, <2>1, <3>2, <3>3, GoesKeeps DEF NudgePlaces, N!Claimed
  <2>4. QED
    BY <2>2, <2>3
<1>4. CASE N!Crash(r)
  BY <1>0, <1>4, EndsKeeps DEF N!Crash
<1>5. QED
  BY <1>1, <1>2, <1>3, <1>4

\* A run writes the row of its anchor and moves: what does not change, and what it leaves
\* of the types.
LEMMA RowWritten ==
  ASSUME NudgeInv, NEW r \in Runs, Lives(r), NEW status \in RowStates, NEW place \in NudgePlaces,
         nudgeRow' = [nudgeRow EXCEPT ![nudgeAnchor[r]] = status], N!Goto(r, place)
  PROVE  /\ nudgeAnchor[r] \in N!Times
         /\ nudgePc'[r] = place /\ nudgePc' \in [Runs -> NudgePlaces]
         /\ \A s \in Runs : s # r => nudgePc'[s] = nudgePc[s]
         /\ nudgeRow' \in [N!Times -> RowStates] /\ nudgeRow'[nudgeAnchor[r]] = status
         /\ \A b \in N!Times : b # nudgeAnchor[r] => nudgeRow'[b] = nudgeRow[b]
BY Moves DEF NudgeInv, NudgeTypes, Lives

\* A run writes the draft, and has it delivered or held.
LEMMA DraftKeeps ==
  ASSUME NudgeBounds, NudgeInv, NEW r \in Runs, N!Draft(r)
  PROVE  NudgeInv'
<1> DEFINE a == nudgeAnchor[r]
<1>0. Lives(r) /\ a \in N!Times
  BY DEF NudgeInv, NudgeTypes, N!Draft, Lives
<1>1. CASE nudgeRow[a] # "ABSENT"
  BY <1>0, <1>1, EndsKeeps DEF N!Draft
<1>2. CASE nudgeRow[a] = "ABSENT"
  <2>1. /\ UNCHANGED <<nudgeNow, nudgeLastIn, nudgeMode, nudgeArriving, nudgeInbound,
                       nudgeOutbound, nudgeJobs, nudgeAnchor, nudgeHeard, nudgeNudges,
                       nudgeUnsure>>
        /\ nudgeRow' = [nudgeRow EXCEPT ![a] = "PENDING"]
        /\ N!Goto(r, "check") \/ N!Goto(r, "hold")
    BY <1>2 DEF N!Draft, N!thread, N!ghosts
  <2>2. PICK place \in {"check", "hold"} : N!Goto(r, place)
    BY <2>1
  <2>3. /\ nudgePc'[r] = place /\ nudgePc' \in [Runs -> NudgePlaces]
        /\ \A s \in Runs : s # r => nudgePc'[s] = nudgePc[s]
        /\ nudgeRow' \in [N!Times -> RowStates] /\ nudgeRow'[a] = "PENDING"
        /\ \A b \in N!Times : b # a => nudgeRow'[b] = nudgeRow[b]
    <3>1. place \in NudgePlaces /\ "PENDING" \in RowStates
      BY DEF NudgePlaces, RowStates
    <3>2. QED
      BY <1>0, <2>1, <2>2, <3>1, RowWritten
  <2>4. nudgeNudges' \in [N!Times -> Nat] /\ nudgeOutbound' \in SUBSET N!Times
    BY <2>1 DEF NudgeInv, NudgeTypes
  <2>5. ASSUME a \notin nudgeUnsure PROVE AnchorFits(a)'
    <3>1. AnchorFits(a)
      BY <1>0, <2>5 DEF NudgeInv
    <3>2. nudgeNudges[a] = 0 /\ \A s \in Runs : ~ Sender(s, a)
      BY <1>2, <3>1 DEF AnchorFits
    <3>3. \A s \in Runs : ~ Sender(s, a)'
      BY <2>1, <2>3, <3>2 DEF Sender, N!Claimed
    <3>4. QED
      BY <2>1, <2>3, <3>2, <3>3 DEF AnchorFits
  <2>6. nudgePc'[r] \notin {"new", "claim"} \cup N!Claimed
    BY <2>3 DEF N!Claimed
  <2>7. QED
    BY <1>0, <2>1, <2>3, <2>4, <2>5, <2>6, RunStep
<1>3. QED
  BY <1>1, <1>2

\* A run that may still write to the row writes to it and ends: where the draft was sent
\* it is the only one that may, and beside a run that sends there is no third.
LEMMA WriteKeeps ==
  ASSUME NudgeBounds, NudgeInv, NEW r \in Runs, nudgePc[r] \in MayWrite,
         UNCHANGED <<N!thread, nudgeJobs, nudgeAnchor, N!ghosts>>, N!Goto(r, "done"),
         NEW status \in {nudgeRow[nudgeAnchor[r]], "HELD", "FAILED", "SKIPPED"},
         nudgeRow' = [nudgeRow EXCEPT ![nudgeAnchor[r]] = status]
  PROVE  NudgeInv'
<1> DEFINE a == nudgeAnchor[r]
<1>0. Lives(r) /\ a \in N!Times /\ Writer(r, a)
  BY DEF NudgeInv, NudgeTypes, MayWrite, Lives, Writer
<1>1. /\ UNCHANGED <<nudgeNow, nudgeLastIn, nudgeMode, nudgeArriving, nudgeInbound, nudgeOutbound,
                     nudgeJobs, nudgeAnchor, nudgeHeard, nudgeNudges, nudgeUnsure>>
      /\ nudgeNudges' \in [N!Times -> Nat] /\ nudgeOutbound' \in SUBSET N!Times
  BY DEF NudgeInv, NudgeTypes, N!thread, N!ghosts
<1>2. /\ nudgePc'[r] = "done" /\ nudgePc' \in [Runs -> NudgePlaces]
      /\ \A s \in Runs : s # r => nudgePc'[s] = nudgePc[s]
      /\ nudgeRow' \in [N!Times -> RowStates] /\ nudgeRow'[a] = status
      /\ \A b \in N!Times : b # a => nudgeRow'[b] = nudgeRow[b]
  <2>1. status \in RowStates /\ "done" \in NudgePlaces
    BY <1>0 DEF NudgeInv, NudgeTypes, RowStates, NudgePlaces
  <2>2. QED
    BY <1>0, <2>1, RowWritten
<1>3. ASSUME a \notin nudgeUnsure PROVE AnchorFits(a)'
  <2>1. AnchorFits(a)
    BY <1>0, <1>3 DEF NudgeInv
  <2>2. /\ \A s \in Runs : s # r => /\ Sender(s, a)' <=> Sender(s, a)
                                    /\ Decider(s, a)' <=> Decider(s, a)
                                    /\ Writer(s, a)' <=> Writer(s, a)
        /\ ~ Sender(r, a)' /\ ~ Decider(r, a)' /\ ~ Writer(r, a)'
    <3>1. nudgePc'[r] \notin N!Claimed \cup {"check", "claim"} \cup MayWrite
      BY <1>2 DEF N!Claimed, MayWrite
    <3>2. QED
      BY <1>1, <1>2, <3>1, RunsThen
  <2>3. ASSUME NEW s \in Runs, Decider(s, a)'
        PROVE  nudgeNudges[a] = 0 /\ \A t \in Runs : ~ Sender(t, a)'
    <3>1. s # r /\ Decider(s, a) /\ Writer(s, a)
      BY <2>2, <2>3 DEF Decider, Writer, MayWrite
    <3>2. nudgeNudges[a] = 0
      BY <1>0, <2>1, <3>1 DEF AnchorFits
    <3>3. ASSUME NEW t \in Runs, Sender(t, a)' PROVE FALSE
      <4>1. t # r /\ Sender(t, a)
        BY <2>2, <3>3
      <4>2. t # s /\ Lives(t) /\ Lives(s) /\ nudgeAnchor[t] = a /\ nudgeAnchor[s] = a
        BY <3>1, <4>1 DEF Sender, Decider, Lives, N!Claimed
      <4>3. QED
        BY <1>0, <3>1, <4>1, <4>2 DEF NudgeInv, TwoLive
    <3>4. QED
      BY <3>2, <3>3
  <2>4. /\ nudgeNudges[a] = 1 => status \notin {"ABSENT", "PENDING"}
        /\ \A s \in Runs : Sender(s, a)' => status \notin {"ABSENT", "PENDING"}
    BY <2>1, <2>2 DEF AnchorFits
  <2>5. \A s \in Runs : Sender(s, a)' => Sender(s, a) /\ nudgePc'[s] = nudgePc[s]
    BY <1>2, <2>2
  <2>6. \A s \in Runs : Writer(s, a)' => Writer(s, a)
    BY <2>2
  <2>7. QED
    BY <1>1, <1>2, <2>1, <2>3, <2>4, <2>5, <2>6 DEF AnchorFits
<1>4. nudgePc'[r] \notin {"claim"} \cup N!Claimed /\ nudgePc'[r] # "new"
  BY <1>2 DEF N!Claimed
<1>5. QED
  BY <1>0, <1>1, <1>2, <1>3, <1>4, RunStep

\* The claim: where it is won, nobody has sent the draft or is sending it.
LEMMA ClaimKeeps ==
  ASSUME NudgeBounds, NudgeInv, NEW r \in Runs, N!Claim(r)
  PROVE  NudgeInv'
<1> DEFINE a == nudgeAnchor[r]
<1>0. Lives(r) /\ Decider(r, a) /\ nudgePc[r] = "claim" /\ a \in N!Times
  BY DEF NudgeInv, NudgeTypes, N!Claim, Lives, Decider
<1>1. CASE nudgeRow[a] \notin {"PENDING", "HELD", "FAILED"}
  BY <1>0, <1>1, EndsKeeps DEF N!Claim
<1>2. CASE nudgeRow[a] \in {"PENDING", "HELD", "FAILED"}
  <2>1. /\ UNCHANGED <<nudgeNow, nudgeLastIn, nudgeMode, nudgeArriving, nudgeInbound,
                       nudgeOutbound, nudgeJobs, nudgeAnchor, nudgeHeard, nudgeNudges,
                       nudgeUnsure>>
        /\ nudgeRow' = [nudgeRow EXCEPT ![a] = "SENDING"]
        /\ N!Goto(r, "send")
    BY <1>2 DEF N!Claim, N!thread, N!ghosts
  <2>2. /\ nudgePc'[r] = "send" /\ nudgePc' \in [Runs -> NudgePlaces]
        /\ \A s \in Runs : s # r => nudgePc'[s] = nudgePc[s]
        /\ nudgeRow' \in [N!Times -> RowStates] /\ nudgeRow'[a] = "SENDING"
        /\ \A b \in N!Times : b # a => nudgeRow'[b] = nudgeRow[b]
    <3>1. "send" \in NudgePlaces /\ "SENDING" \in RowStates
      BY DEF NudgePlaces, RowStates
    <3>2. QED
      BY <1>0, <2>1, <3>1, RowWritten
  <2>3. nudgeNudges' \in [N!Times -> Nat] /\ nudgeOutbound' \in SUBSET N!Times
    BY <2>1 DEF NudgeInv, NudgeTypes
  <2>4. ASSUME a \notin nudgeUnsure PROVE AnchorFits(a)'
    <3>1. AnchorFits(a)
      BY <1>0, <2>4 DEF NudgeInv
    <3>2. nudgeNudges[a] = 0 /\ \A s \in Runs : ~ Sender(s, a)
      BY <1>0, <1>2, <3>1 DEF AnchorFits
    <3>3. /\ \A s \in Runs : Sender(s, a)' => s = r
      BY <2>1, <2>2, <3>2, RunsThen
    <3>4. QED
      BY <2>1, <2>2, <3>2, <3>3 DEF AnchorFits
  <2>5. \A t \in nudgeHeard[r] : t <= nudgeAnchor[r]
    BY <1>0 DEF NudgeInv, QuietFits
  <2>6. QED
    BY <1>0, <2>1, <2>2, <2>3, <2>4, <2>5, RunStep
<1>3. QED
  BY <1>1, <1>2

\* A run that won the claim sends the draft, or is refused and gives the row its status
\* back.
LEMMA SendKeeps ==
  ASSUME NudgeBounds, NudgeInv, NEW r \in Runs, N!Send(r)
  PROVE  NudgeInv'
<1> DEFINE a == nudgeAnchor[r]
<1>0. Lives(r) /\ Sender(r, a) /\ nudgePc[r] = "send" /\ a \in N!Times
  BY DEF NudgeInv, NudgeTypes, N!Send, Lives, Sender, N!Claimed
<1>1. /\ UNCHANGED <<nudgeNow, nudgeLastIn, nudgeMode, nudgeArriving, nudgeInbound, nudgeOutbound,
                     nudgeJobs, nudgeAnchor, nudgeHeard, nudgeUnsure>>
      /\ nudgeOutbound' \in SUBSET N!Times
      /\ \A t \in nudgeHeard[r] : t <= a
  BY <1>0 DEF NudgeInv, NudgeTypes, QuietFits, N!Send, N!thread, Sender
<1>2. a \notin nudgeUnsure =>
        /\ AnchorFits(a) /\ nudgeNudges[a] = 0
        /\ \A s \in Runs : s # r => ~ Sender(s, a)
  BY <1>0 DEF NudgeInv, AnchorFits
<1>3. CASE /\ nudgeNudges' = [nudgeNudges EXCEPT ![a] = @ + 1]
           /\ N!Goto(r, "sent") /\ nudgeRow' = nudgeRow
  <2>1. /\ nudgePc'[r] = "sent" /\ nudgePc' \in [Runs -> NudgePlaces]
        /\ \A s \in Runs : s # r => nudgePc'[s] = nudgePc[s]
    BY <1>3, Moves DEF NudgePlaces
  <2>2. /\ nudgeNudges' \in [N!Times -> Nat] /\ nudgeNudges'[a] = nudgeNudges[a] + 1
        /\ nudgeRow' \in [N!Times -> RowStates]
        /\ \A b \in N!Times : b # a
             => nudgeRow'[b] = nudgeRow[b] /\ nudgeNudges'[b] = nudgeNudges[b]
    BY <1>0, <1>3 DEF NudgeInv, NudgeTypes
  <2>3. ASSUME a \notin nudgeUnsure PROVE AnchorFits(a)'
    <3>1. /\ \A s \in Runs : s # r => /\ Sender(s, a)' <=> Sender(s, a)
                                      /\ Decider(s, a)' <=> Decider(s, a)
                                      /\ Writer(s, a)' <=> Writer(s, a)
          /\ ~ Decider(r, a)' /\ ~ Writer(r, a)'
      BY <1>1, <2>1, RunsThen DEF MayWrite
    <3>2. nudgeNudges'[a] = 1 /\ nudgeRow'[a] \notin {"ABSENT", "PENDING"}
      BY <1>0, <1>2, <1>3, <2>2, <2>3 DEF AnchorFits
    <3>3. ASSUME NEW s \in Runs, Decider(s, a)' PROVE nudgeRow'[a] \notin {"HELD", "FAILED"}
      BY <1>0, <1>2, <1>3, <2>3, <3>1, <3>3 DEF AnchorFits
    <3>4. \A s \in Runs : Sender(s, a)' => s = r
      BY <1>2, <2>3, <3>1
    <3>5. ASSUME NEW s \in Runs, NEW t \in Runs, Writer(s, a)', Writer(t, a)' PROVE s = t
      <4>1. s # r /\ t # r /\ Lives(s) /\ Lives(t) /\ nudgeAnchor[s] = a /\ nudgeAnchor[t] = a
        BY <3>1, <3>5 DEF Writer, MayWrite, Lives
      <4>2. QED
        BY <1>0, <4>1 DEF NudgeInv, TwoLive
    <3>6. QED
      BY <1>1, <2>1, <3>2, <3>3, <3>4, <3>5 DEF AnchorFits
  <2>4. QED
    BY <1>0, <1>1, <2>1, <2>2, <2>3, RunStep
<1>4. CASE /\ \E status \in {"PENDING", "HELD", "FAILED"} :
                nudgeRow' = [nudgeRow EXCEPT ![a] = status]
           /\ N!Goto(r, "refused") /\ nudgeNudges' = nudgeNudges
  <2>1. PICK status \in {"PENDING", "HELD", "FAILED"} :
          nudgeRow' = [nudgeRow EXCEPT ![a] = status]
    BY <1>4
  <2>2. /\ nudgePc'[r] = "refused" /\ nudgePc' \in [Runs -> NudgePlaces]
        /\ \A s \in Runs : s # r => nudgePc'[s] = nudgePc[s]
        /\ nudgeRow' \in [N!Times -> RowStates] /\ nudgeRow'[a] = status
        /\ \A b \in N!Times : b # a => nudgeRow'[b] = nudgeRow[b]
        /\ nudgeNudges' \in [N!Times -> Nat]
    <3>1. status \in RowStates /\ "refused" \in NudgePlaces
      BY DEF RowStates, NudgePlaces
    <3>2. QED
      BY <1>0, <1>4, <2>1, <3>1, RowWritten DEF NudgeInv, NudgeTypes
  <2>3. ASSUME a \notin nudgeUnsure PROVE AnchorFits(a)'
    <3>1. \A s \in Runs : ~ Sender(s, a)'
      BY <1>1, <1>2, <2>2, <2>3, RunsThen DEF N!Claimed
    <3>2. nudgeNudges'[a] = 0
      BY <1>2, <1>4, <2>3
    <3>3. QED
      BY <1>1, <3>1, <3>2 DEF AnchorFits
  <2>4. nudgePc'[r] \notin {"new", "claim"} \cup N!Claimed
    BY <2>2 DEF N!Claimed
  <2>5. QED
    BY <1>0, <1>1, <1>4, <2>2, <2>3, <2>4, RunStep
<1>5. QED
  BY <1>3, <1>4 DEF N!Send

\* The draft is held in doubt: where nobody is about to claim it, nobody will.
LEMMA QuarantineKeeps ==
  ASSUME NudgeBounds, NudgeInv, NEW r \in Runs, N!Quarantine(r)
  PROVE  NudgeInv'
<1> DEFINE a == nudgeAnchor[r]
<1>0. Lives(r) /\ Sender(r, a) /\ a \in N!Times
  BY DEF NudgeInv, NudgeTypes, N!Quarantine, Lives, Sender, N!Claimed
<1>1. /\ UNCHANGED <<nudgeNow, nudgeLastIn, nudgeMode, nudgeArriving, nudgeInbound, nudgeOutbound,
                     nudgeJobs, nudgeAnchor, nudgeHeard>>
      /\ nudgeRow' = [nudgeRow EXCEPT ![a] = "HELD"] /\ N!Goto(r, "done")
      /\ nudgeNudges' \in {nudgeNudges, [nudgeNudges EXCEPT ![a] = @ + 1]}
      /\ nudgePc[r] # "send" => nudgeNudges' = nudgeNudges
      /\ nudgeUnsure' \in {nudgeUnsure, nudgeUnsure \cup {a}}
      /\ nudgeOutbound' \in SUBSET N!Times
  BY DEF NudgeInv, NudgeTypes, N!Quarantine, N!thread
<1>2. /\ nudgePc'[r] = "done" /\ nudgePc' \in [Runs -> NudgePlaces]
      /\ \A s \in Runs : s # r => nudgePc'[s] = nudgePc[s]
      /\ nudgeRow' \in [N!Times -> RowStates] /\ nudgeRow'[a] = "HELD"
      /\ \A b \in N!Times : b # a => nudgeRow'[b] = nudgeRow[b]
  <2>1. "HELD" \in RowStates /\ "done" \in NudgePlaces
    BY DEF RowStates, NudgePlaces
  <2>2. QED
    BY <1>0, <1>1, <2>1, RowWritten
<1>3. /\ nudgeNudges' \in [N!Times -> Nat] /\ nudgeNudges'[a] \in {nudgeNudges[a], nudgeNudges[a] + 1}
      /\ \A b \in N!Times : b # a => nudgeNudges'[b] = nudgeNudges[b]
  BY <1>0, <1>1 DEF NudgeInv, NudgeTypes
<1>4. ASSUME a \notin nudgeUnsure' PROVE AnchorFits(a)'
  <2>1. a \notin nudgeUnsure /\ AnchorFits(a)
    BY <1>0, <1>1, <1>4 DEF NudgeInv
  <2>2. \A s \in Runs : ~ Decider(s, a)
    BY <1>4, <2>1 DEF N!Quarantine, N!Live, Decider
  <2>3. nudgePc'[r] \notin N!Claimed \cup {"check", "claim"} \cup MayWrite
    BY <1>2 DEF N!Claimed, MayWrite
  <2>4. /\ \A s \in Runs : s # r => /\ Sender(s, a)' <=> Sender(s, a)
                                    /\ Decider(s, a)' <=> Decider(s, a)
                                    /\ Writer(s, a)' <=> Writer(s, a)
        /\ ~ Sender(r, a)' /\ ~ Decider(r, a)' /\ ~ Writer(r, a)'
    BY <1>1, <1>2, <2>3, RunsThen
  <2>5. (\A s \in Runs : ~ Decider(s, a)') /\ (\A s \in Runs : ~ Sender(s, a)')
    BY <1>0, <2>1, <2>2, <2>4 DEF AnchorFits
  <2>6. nudgeNudges'[a] \in {0, 1}
    BY <1>0, <1>1, <1>3, <2>1 DEF AnchorFits
  <2>7. ASSUME NEW s \in Runs, NEW t \in Runs, Writer(s, a)', Writer(t, a)' PROVE s = t
    <3>1. s # r /\ t # r /\ Lives(s) /\ Lives(t) /\ nudgeAnchor[s] = a /\ nudgeAnchor[t] = a
      BY <2>4, <2>7 DEF Writer, MayWrite, Lives
    <3>2. QED
      BY <1>0, <3>1 DEF NudgeInv, TwoLive
  <2>8. QED
    BY <1>1, <1>2, <2>5, <2>6, <2>7 DEF AnchorFits
<1>5. nudgePc'[r] \notin {"new", "claim"} \cup N!Claimed
  BY <1>2 DEF N!Claimed
<1>6. QED
  BY <1>0, <1>1, <1>2, <1>3, <1>4, <1>5, RunStep

\* A refused draft is held, or failed, or left; a draft is held or skipped.
LEMMA OtherWritesKeep ==
  ASSUME NudgeBounds, NudgeInv, NEW r \in Runs, N!Hold(r) \/ N!Skip(r) \/ N!Refuse(r)
  PROVE  NudgeInv'
<1>1. /\ nudgePc[r] \in MayWrite /\ UNCHANGED <<N!thread, nudgeJobs, nudgeAnchor, N!ghosts>>
      /\ N!Goto(r, "done")
  BY DEF N!Hold, N!Skip, N!Refuse, MayWrite
<1>2. PICK status \in {nudgeRow[nudgeAnchor[r]], "HELD", "FAILED", "SKIPPED"} :
        nudgeRow' = [nudgeRow EXCEPT ![nudgeAnchor[r]] = status]
  BY DEF N!Hold, N!Skip, N!Refuse
<1>3. QED
  BY <1>1, <1>2, WriteKeeps

\* The send is recorded in the thread.
LEMMA NoteKeeps ==
  ASSUME NudgeBounds, NudgeInv, NEW r \in Runs, N!Note(r)
  PROVE  NudgeInv'
<1> DEFINE a == nudgeAnchor[r]
<1>0. Lives(r) /\ Sender(r, a) /\ a \in N!Times
  BY DEF NudgeInv, NudgeTypes, N!Note, Lives, Sender, N!Claimed
<1>1. /\ UNCHANGED <<nudgeNow, nudgeLastIn, nudgeMode, nudgeArriving, nudgeInbound, nudgeJobs,
                     nudgeRow, nudgeAnchor, nudgeHeard, nudgeNudges, nudgeUnsure>>
      /\ nudgeOutbound' \in SUBSET N!Times /\ N!Goto(r, "noted")
  BY DEF NudgeInv, NudgeTypes, N!Note, N!ghosts
<1>2. /\ nudgePc'[r] = "noted" /\ nudgePc' \in [Runs -> NudgePlaces]
      /\ \A s \in Runs : s # r => nudgePc'[s] = nudgePc[s]
  BY <1>1, Moves DEF NudgePlaces
<1>3. nudgeRow' \in [N!Times -> RowStates] /\ nudgeNudges' \in [N!Times -> Nat]
  BY <1>1 DEF NudgeInv, NudgeTypes
<1>4. ASSUME a \notin nudgeUnsure PROVE AnchorFits(a)'
  <2>1. AnchorFits(a)
    BY <1>0, <1>4 DEF NudgeInv
  <2>2. \A s \in Runs : /\ Sender(s, a)' => Sender(s, a)
                        /\ nudgePc'[s] = "send" => nudgePc[s] = "send"
                        /\ Decider(s, a)' => Decider(s, a)
                        /\ Writer(s, a)' => Writer(s, a)
    BY <1>0, <1>1, <1>2, RunsThen DEF N!Claimed, MayWrite, Sender, Decider, Writer
  <2>3. QED
    BY <1>1, <2>1, <2>2 DEF AnchorFits
<1>5. \A t \in nudgeHeard[r] : t <= nudgeAnchor[r]
  BY <1>0 DEF NudgeInv, QuietFits, Sender
<1>6. QED
  BY <1>0, <1>1, <1>2, <1>3, <1>4, <1>5, RunStep

\* The send is recorded in the row.
LEMMA RecordKeeps ==
  ASSUME NudgeBounds, NudgeInv, NEW r \in Runs, N!Record(r)
  PROVE  NudgeInv'
<1> DEFINE a == nudgeAnchor[r]
<1>0. Lives(r) /\ Sender(r, a) /\ a \in N!Times
  BY DEF NudgeInv, NudgeTypes, N!Record, Lives, Sender, N!Claimed
<1>1. /\ UNCHANGED <<nudgeNow, nudgeLastIn, nudgeMode, nudgeArriving, nudgeInbound, nudgeOutbound,
                     nudgeJobs, nudgeAnchor, nudgeHeard, nudgeNudges, nudgeUnsure>>
      /\ nudgeRow' = [nudgeRow EXCEPT ![a] = "SENT"] /\ N!Goto(r, "done")
      /\ nudgeOutbound' \in SUBSET N!Times /\ nudgeNudges' \in [N!Times -> Nat]
  BY DEF NudgeInv, NudgeTypes, N!Record, N!thread, N!ghosts
<1>2. /\ nudgePc'[r] = "done" /\ nudgePc' \in [Runs -> NudgePlaces]
      /\ \A s \in Runs : s # r => nudgePc'[s] = nudgePc[s]
      /\ nudgeRow' \in [N!Times -> RowStates] /\ nudgeRow'[a] = "SENT"
      /\ \A b \in N!Times : b # a => nudgeRow'[b] = nudgeRow[b]
  <2>1. "SENT" \in RowStates /\ "done" \in NudgePlaces
    BY DEF RowStates, NudgePlaces
  <2>2. QED
    BY <1>0, <1>1, <2>1, RowWritten
<1>3. ASSUME a \notin nudgeUnsure PROVE AnchorFits(a)'
  <2>1. AnchorFits(a)
    BY <1>0, <1>3 DEF NudgeInv
  <2>2. nudgePc'[r] \notin N!Claimed \cup {"check", "claim"} \cup MayWrite
    BY <1>2 DEF N!Claimed, MayWrite
  <2>3. \A s \in Runs : /\ Sender(s, a)' => Sender(s, a)
                        /\ nudgePc'[s] = "send" => nudgePc[s] = "send"
                        /\ Writer(s, a)' => Writer(s, a)
    BY <1>1, <1>2, <2>2, RunsThen DEF N!Claimed
  <2>4. QED
    BY <1>1, <1>2, <2>1, <2>3 DEF AnchorFits
<1>4. nudgePc'[r] \notin {"new", "claim"} \cup N!Claimed
  BY <1>2 DEF N!Claimed
<1>5. QED
  BY <1>0, <1>1, <1>2, <1>3, <1>4, RunStep

-----------------------------------------------------------------------------
(* The nudge of a window: its theorem *)

LEMMA NudgeStarts ==
  ASSUME NudgeBounds, N!Init
  PROVE  NudgeInv
<1>1. NudgeTypes
  BY TimesAre DEF N!Init, NudgeTypes, NudgeBounds, RowStates, NudgePlaces
<1>2. \A a \in N!Times : AnchorFits(a)
  BY DEF N!Init, AnchorFits, Sender, Decider, Writer, MayWrite, N!Claimed
<1>3. QED
  BY <1>1, <1>2 DEF N!Init, NudgeInv, TwoLive, QuietFits, Lives, N!Claimed

LEMMA NudgeNext ==
  ASSUME NudgeBounds, NudgeInv, [N!Next]_(N!vars)
  PROVE  NudgeInv'
<1>1. CASE \/ N!Tick \/ N!Write
           \/ \E t \in nudgeArriving : N!ProcessInboundDm(t)
           \/ \E human \in BOOLEAN : N!Answer(human)
           \/ \E m \in {"OFF", "DRAFT", "AUTO"} : N!SetMode(m)
  BY <1>1, ThreadKeeps
<1>2. CASE \E a \in N!Times : N!Approve(a) \/ N!Dismiss(a) \/ N!Recover(a)
  BY <1>2, OwnerKeeps
<1>3. ASSUME NEW r \in Runs, \E a \in nudgeJobs : N!Load(r, a)
      PROVE  NudgeInv'
  BY <1>3, LoadKeeps
<1>4. ASSUME NEW r \in Runs, N!LastMessage(r) \/ N!FindRow(r) \/ N!Check(r) \/ N!Crash(r)
      PROVE  NudgeInv'
  BY <1>4, LookKeeps
<1>5. ASSUME NEW r \in Runs, N!Draft(r) \/ N!Claim(r) \/ N!Send(r) \/ N!Quarantine(r)
                             \/ N!Note(r) \/ N!Record(r)
      PROVE  NudgeInv'
  BY <1>5, DraftKeeps, ClaimKeeps, SendKeeps, QuarantineKeeps, NoteKeeps, RecordKeeps
<1>6. ASSUME NEW r \in Runs, N!Hold(r) \/ N!Skip(r) \/ N!Refuse(r)
      PROVE  NudgeInv'
  BY <1>6, OtherWritesKeep
<1>7. CASE UNCHANGED N!vars
  <2>1. UNCHANGED <<nudgeNow, nudgeLastIn, nudgeMode, nudgeArriving, nudgeInbound, nudgeOutbound,
                    nudgeJobs, nudgeRow, nudgePc, nudgeAnchor, nudgeHeard, nudgeNudges, nudgeUnsure>>
    BY <1>7 DEF N!vars, N!thread, N!ghosts
  <2>2. NudgeTypes' /\ TwoLive' /\ QuietFits'
    BY <2>1 DEF NudgeInv, NudgeTypes, TwoLive, QuietFits, Lives
  <2>3. \A a \in N!Times \ nudgeUnsure' : AnchorFits(a)'
    BY <2>1, AnchorStays DEF NudgeInv
  <2>4. QED
    BY <2>2, <2>3 DEF NudgeInv
<1>8. QED
  BY <1>1, <1>2, <1>3, <1>4, <1>5, <1>6, <1>7 DEF N!Next

\* The parts of NudgeInv hold always.
THEOREM NudgeInvariance ==
  ASSUME NudgeBounds
  PROVE  N!Spec => []NudgeInv
<1>1. N!Init => NudgeInv
  BY NudgeStarts
<1>2. NudgeInv /\ [N!Next]_(N!vars) => NudgeInv'
  BY NudgeNext
<1>3. QED
  BY <1>1, <1>2, PTL DEF N!Spec

\* Whatever crashes, overlaps in twos, is refused, approved, dismissed or recovered: a
\* window is nudged once, but where the first send was lost and a second run was about
\* to claim the draft; and nobody who had written after its anchor when the job looked.
THEOREM NudgeIsHeld ==
  ASSUME NudgeBounds
  PROVE  N!Spec => [](N!TypeOK /\ NudgeHolds)
<1>1. ASSUME NudgeInv PROVE N!OneNudge
  <2>1. ASSUME NEW a \in N!Times \ nudgeUnsure PROVE nudgeNudges[a] <= 1
    <3>1. nudgeNudges[a] \in {0, 1}
      BY <1>1 DEF NudgeInv, AnchorFits
    <3>2. QED
      BY <3>1
  <2>2. QED
    BY <2>1 DEF N!OneNudge
<1>2. NudgeInv => N!TypeOK /\ NudgeHolds
  BY <1>1 DEF NudgeInv, NudgeTypes, RowStates, QuietFits, N!TypeOK, NudgeHolds, N!NudgeHolds,
         N!NudgesTheQuiet, N!Claimed
<1>3. QED
  BY <1>2, NudgeInvariance, PTL

-----------------------------------------------------------------------------
(* The account and its token *)

Asked == [token : Nat, saw : Tenants \cup {Nowhere}, subscribed : BOOLEAN]

AccountTypes ==
  /\ accountRow \in [ws : Tenants \cup {Nowhere}, token : Nat, left : 0..Life, subscribed : BOOLEAN]
  /\ accountReq \in [Tenants -> Asked]
  /\ accountRead \in [id : Nat, token : Nat]
  /\ accountPc \in [Tenants -> {"away", "Instagram", "check", "subscribe", "write"}]
  /\ accountCron \in {"due", "ask", "store", "done"}
  /\ {accountId, accountIssued, accountDead} \subseteq Nat /\ accountRefused \in 0..Margin

\* No token is in anybody's hands that was not issued.
TokensFit ==
  /\ accountRow.token <= accountIssued /\ accountRead.token <= accountIssued
  /\ accountDead <= accountIssued
  /\ \A w \in Tenants : accountReq[w].token <= accountIssued

\* Who has passed the check saw the account free, or its own.
ChecksFit ==
  \A w \in Tenants : accountPc[w] \in {"subscribe", "write"} => accountReq[w].saw \in {Nowhere, w}

\* The days left and the passes refused make up the margin: before the pass of a day,
\* and with a day to spare after it; a row made anew during the pass has its life.
MarginFits ==
  /\ accountRead.id <= accountId
  /\ A!Connected =>
       /\ accountCron = "due" => accountRefused + accountRow.left >= Margin
       /\ accountCron = "done"
            => accountRefused = Margin \/ accountRefused + accountRow.left > Margin
       /\ accountCron \in {"ask", "store"} =>
            IF accountRead.id = accountId THEN accountRefused + accountRow.left >= Margin
                                          ELSE accountRow.left = Life

AccountInv ==
  /\ AccountTypes
  /\ TokensFit
  /\ ChecksFit
  /\ A!TokenIsGood
  /\ MarginFits

\* A callback, up to its write; a change of the members; a removal at Instagram.
LEMMA CallbackKeeps ==
  ASSUME AccountBounds, AccountInv,
         \/ \E w \in Tenants : \/ A!Connect(w) \/ A!Expire(w) \/ A!Demote(w) \/ A!Callback(w)
                                  \/ A!Check(w) \/ A!Subscribe(w) \/ A!Fails(w)
         \/ A!RemoveApp
  PROVE  AccountInv'
<1>1. UNCHANGED <<accountRow, accountId, accountRead, accountCron, accountRefused, accountUndone>>
  BY DEF A!Connect, A!Expire, A!Demote, A!Callback, A!Check, A!Subscribe, A!Fails, A!RemoveApp,
         A!meta, A!refresh
<1>2. AccountTypes'
  <2>1. {accountIssued', accountDead'} \subseteq Nat
    BY DEF AccountInv, AccountTypes, A!Connect, A!Expire, A!Demote, A!Callback, A!Check,
           A!Subscribe, A!Fails, A!RemoveApp, A!meta, A!refresh
  <2>2. accountPc' \in [Tenants -> {"away", "Instagram", "check", "subscribe", "write"}]
    BY DEF AccountInv, AccountTypes, A!Connect, A!Expire, A!Demote, A!Callback, A!Check,
           A!Subscribe, A!Fails, A!RemoveApp, A!Goto, A!Away
  <2>3. accountReq' \in [Tenants -> Asked]
    <3>1. CASE UNCHANGED accountReq
      BY <3>1 DEF AccountInv, AccountTypes
    <3>2. ASSUME NEW w \in Tenants, NEW r \in Asked, accountReq' = [accountReq EXCEPT ![w] = r]
          PROVE  accountReq' \in [Tenants -> Asked]
      BY <3>2 DEF AccountInv, AccountTypes
    <3>3. A!NoRequest \in Asked
      BY DEF A!NoRequest, Asked
    <3>4. ASSUME NEW w \in Tenants, A!Callback(w) \/ A!Check(w) \/ A!Subscribe(w)
          PROVE  \/ UNCHANGED accountReq \/ accountReq' = [accountReq EXCEPT ![w] = A!NoRequest]
                 \/ \E r \in Asked : accountReq' = [accountReq EXCEPT ![w] = r]
      <4>1. accountReq[w] \in Asked /\ accountRow.ws \in Tenants \cup {Nowhere}
            /\ accountIssued + 1 \in Nat
        BY DEF AccountInv, AccountTypes
      <4>2. /\ [accountReq[w] EXCEPT !.token = accountIssued + 1] \in Asked
            /\ [accountReq[w] EXCEPT !.saw = accountRow.ws] \in Asked
            /\ \A ok \in BOOLEAN : [accountReq[w] EXCEPT !.subscribed = ok] \in Asked
        BY <4>1 DEF Asked
      <4>3. CASE A!Callback(w)
        BY <4>2, <4>3 DEF A!Callback, A!Away
      <4>4. CASE A!Check(w)
        BY <4>2, <4>4 DEF A!Check, A!Away
      <4>5. CASE A!Subscribe(w)
        BY <4>2, <4>5 DEF A!Subscribe
      <4>6. QED
        BY <3>4, <4>3, <4>4, <4>5
    <3>5. QED
      BY <3>1, <3>2, <3>3, <3>4 DEF A!Connect, A!Expire, A!Demote, A!Fails, A!RemoveApp, A!Away
  <2>4. QED
    BY <1>1, <2>1, <2>2, <2>3 DEF AccountInv, AccountTypes
<1>3. TokensFit'
  <2>1. accountIssued <= accountIssued' /\ accountDead' <= accountIssued'
        /\ accountIssued \in Nat /\ accountIssued' \in Nat
    BY DEF AccountInv, AccountTypes, TokensFit, A!Connect, A!Expire, A!Demote, A!Callback,
           A!Check, A!Subscribe, A!Fails, A!RemoveApp, A!meta, A!refresh
  <2>2. ASSUME NEW w \in Tenants
        PROVE  accountReq'[w].token \in {accountReq[w].token, 0, accountIssued'}
    BY DEF AccountInv, AccountTypes, Asked, A!Connect, A!Expire, A!Demote, A!Callback,
           A!Check, A!Subscribe, A!Fails, A!RemoveApp, A!meta, A!refresh, A!Away, A!NoRequest
  <2>3. /\ \A w \in Tenants : accountReq[w].token \in Nat
        /\ accountRow.token \in Nat /\ accountRead.token \in Nat
    BY DEF AccountInv, AccountTypes, Asked
  <2>4. QED
    BY <1>1, <2>1, <2>2, <2>3 DEF AccountInv, TokensFit
<1>4. ChecksFit'
  <2> SUFFICES ASSUME NEW v \in Tenants, accountPc'[v] \in {"subscribe", "write"}
               PROVE  accountReq'[v].saw \in {Nowhere, v}
    BY DEF ChecksFit
  <2>1. /\ \A u \in Tenants :
            u \in DOMAIN accountPc /\ u \in DOMAIN accountReq /\ accountReq[u] \in Asked
        /\ accountPc[v] \in {"subscribe", "write"} => accountReq[v].saw \in {Nowhere, v}
    BY DEF AccountInv, AccountTypes, ChecksFit
  <2>2. CASE UNCHANGED <<accountPc, accountReq>>
    BY <2>1, <2>2
  <2>3. ASSUME NEW w \in Tenants, A!Connect(w) \/ A!Expire(w) \/ A!Fails(w) \/ A!Callback(w)
        PROVE  accountReq'[v].saw \in {Nowhere, v}
    BY <2>1, <2>3 DEF A!Connect, A!Expire, A!Callback, A!Fails, A!Goto, A!Away
  <2>4. ASSUME NEW w \in Tenants, A!Check(w)
        PROVE  accountReq'[v].saw \in {Nowhere, v}
    BY <2>1, <2>4 DEF A!Check, A!Goto, A!Away, Asked
  <2>5. ASSUME NEW w \in Tenants, A!Subscribe(w)
        PROVE  accountReq'[v].saw \in {Nowhere, v}
    BY <2>1, <2>5 DEF A!Subscribe, A!Goto, Asked
  <2>6. QED
    BY <2>2, <2>3, <2>4, <2>5 DEF A!Demote, A!RemoveApp
<1>5. A!TokenIsGood'
  BY <1>1 DEF AccountInv, A!TokenIsGood, A!Connected, A!Valid, A!Connect, A!Expire, A!Demote,
         A!Callback, A!Check, A!Subscribe, A!Fails, A!RemoveApp, A!meta, A!refresh
<1>6. MarginFits'
  BY <1>1 DEF AccountInv, MarginFits, A!Connected
<1>7. QED
  BY <1>2, <1>3, <1>4, <1>5, <1>6 DEF AccountInv

\* A row is written, or goes.
LEMMA RowKeeps ==
  ASSUME AccountBounds, AccountInv, NEW w \in Tenants, A!Write(w) \/ A!Disconnect(w)
  PROVE  AccountInv'
<1>0. UNCHANGED <<accountIssued, accountDead, accountCron, accountRead>>
  BY DEF A!Write, A!Disconnect, A!meta
<1>1. AccountTypes'
  <2>1. accountRow' \in
         [ws : Tenants \cup {Nowhere}, token : Nat, left : 0..Life, subscribed : BOOLEAN]
    <3>1. Life \in 0..Life /\ 0 \in 0..Life
      BY DEF AccountBounds, A!TokenBounds
    <3>2. accountReq[w].token \in Nat /\ accountReq[w].subscribed \in BOOLEAN
      BY DEF AccountInv, AccountTypes, Asked
    <3>3. CASE A!Write(w)
      BY <3>1, <3>2, <3>3 DEF A!Write
    <3>4. CASE A!Disconnect(w)
      BY <3>1, <3>4 DEF A!Disconnect, A!NoRow
    <3>5. QED
      BY <3>3, <3>4
  <2>2. A!NoRequest \in Asked
    BY DEF A!NoRequest, Asked
  <2>3. /\ accountReq' \in [Tenants -> Asked]
        /\ accountPc' \in [Tenants -> {"away", "Instagram", "check", "subscribe", "write"}]
    BY <2>2 DEF AccountInv, AccountTypes, A!Write, A!Disconnect, A!Away, A!Goto
  <2>4. accountId' \in Nat /\ accountRefused' \in 0..Margin
    BY DEF AccountBounds, A!TokenBounds, AccountInv, AccountTypes, A!Write, A!Disconnect
  <2>5. QED
    BY <1>0, <2>1, <2>3, <2>4 DEF AccountInv, AccountTypes
<1>2. TokensFit'
  BY <1>0 DEF AccountInv, AccountTypes, TokensFit, A!Write, A!Disconnect, A!Away, A!NoRequest,
      A!NoRow
<1>3. ChecksFit'
  BY DEF AccountInv, AccountTypes, ChecksFit, A!Write, A!Disconnect, A!Goto, A!Away, A!NoRequest
<1>4. A!TokenIsGood'
  <2>1. CASE A!Write(w)
    <3>1. accountRow'.token = accountReq[w].token
          /\ accountRemoved' = ~ A!Valid(accountReq[w].token)
      BY <2>1 DEF A!Write
    <3>2. QED
      BY <1>0, <3>1 DEF A!TokenIsGood, A!Valid
  <2>2. CASE A!Disconnect(w)
    BY <2>2 DEF A!TokenIsGood, A!Connected, A!Disconnect, A!NoRow
  <2>3. QED
    BY <2>1, <2>2
<1>5. MarginFits'
  <2>1. CASE A!Write(w)
    <3>1. accountRow'.left = Life /\ accountRefused' = 0
          /\ accountId' \in {accountId, accountId + 1}
      BY <2>1 DEF A!Write
    <3>2. Life \in Nat /\ Margin \in Nat /\ Margin < Life
      BY DEF AccountBounds, A!TokenBounds, A!MarginWithinLife
    <3>3. accountRead.id <= accountId' /\ accountRefused' + accountRow'.left > Margin
      BY <3>1, <3>2 DEF AccountInv, AccountTypes, MarginFits
    <3>4. QED
      BY <1>0, <3>1, <3>2, <3>3 DEF MarginFits
  <2>2. CASE A!Disconnect(w)
    BY <1>0, <2>2 DEF AccountInv, MarginFits, A!Disconnect, A!Connected, A!NoRow
  <2>3. QED
    BY <2>1, <2>2
<1>6. QED
  BY <1>1, <1>2, <1>3, <1>4, <1>5 DEF AccountInv

\* The cron goes on.
LEMMA CronKeeps ==
  ASSUME AccountBounds, AccountInv, A!Pick \/ A!Ask \/ A!Store \/ A!NextDay
  PROVE  AccountInv'
<1>0. Life \in Nat /\ Margin \in Nat /\ 0 < Margin /\ Margin < Life
  BY DEF AccountBounds, A!TokenBounds, A!MarginWithinLife
<1>1. UNCHANGED <<accountManages, accountId, accountDead, accountPc, accountReq, accountRemoved>>
  BY DEF A!Pick, A!Ask, A!Store, A!NextDay, A!meta
<1>2. /\ accountRow.left \in 0..Life /\ accountRow.token \in Nat /\ accountRead.token \in Nat
      /\ accountRead.id \in Nat
      /\ accountIssued \in Nat /\ accountId \in Nat /\ accountDead \in Nat
      /\ accountRefused \in 0..Margin
  BY DEF AccountInv, AccountTypes
<1>3. CASE A!Pick
  <2>1. /\ UNCHANGED <<accountRow, accountIssued, accountRefused, accountUndone>>
        /\ \/ /\ A!Connected /\ accountRow.left <= Margin /\ accountCron' = "ask"
              /\ accountRead' = [id |-> accountId, token |-> accountRow.token]
           \/ /\ ~ (A!Connected /\ accountRow.left <= Margin) /\ accountCron' = "done"
              /\ accountRead' = [id |-> 0, token |-> 0]
        /\ accountCron = "due"
    BY <1>3 DEF A!Pick, A!Done, A!meta
  <2>2. AccountTypes'
    BY <1>1, <1>2, <2>1 DEF AccountInv, AccountTypes
  <2>3. (TokensFit /\ ChecksFit /\ A!TokenIsGood)'
    BY <1>1, <1>2, <2>1 DEF AccountInv, TokensFit, ChecksFit, A!TokenIsGood, A!Connected, A!Valid
  <2>4. MarginFits'
    BY <1>0, <1>1, <1>2, <2>1 DEF AccountInv, MarginFits, A!Connected
  <2>5. QED
    BY <2>2, <2>3, <2>4 DEF AccountInv
<1>4. CASE A!Ask
  <2>1. /\ UNCHANGED <<accountRow, accountUndone>> /\ accountCron = "ask"
        /\ \/ /\ accountCron' = "store" /\ accountIssued' = accountIssued + 1
              /\ accountRefused' = accountRefused
              /\ accountRead' = [accountRead EXCEPT !.token = accountIssued + 1]
           \/ /\ accountCron' = "done" /\ accountIssued' = accountIssued
              /\ accountRead' = [id |-> 0, token |-> 0]
              /\ accountRefused' =
                   IF A!Connected /\ accountRead.id = accountId /\ accountRefused < Margin
                     THEN accountRefused + 1 ELSE accountRefused
    BY <1>4 DEF A!Ask, A!Done
  <2>2. /\ accountIssued' \in Nat /\ accountIssued <= accountIssued'
        /\ accountRefused' \in 0..Margin
        /\ accountRead' \in [id : Nat, token : Nat] /\ accountRead'.token <= accountIssued'
        /\ accountCron' = "store" => accountRead'.id = accountRead.id
        /\ accountCron' = "done" => accountRead'.id = 0
    <3>1. accountRead \in [id : Nat, token : Nat]
      BY DEF AccountInv, AccountTypes
    <3>2. QED
      BY <1>0, <1>2, <2>1, <3>1
  <2>3. AccountTypes'
    BY <1>1, <2>1, <2>2 DEF AccountInv, AccountTypes
  <2>4. (TokensFit /\ ChecksFit /\ A!TokenIsGood)'
    <3>1. \A w \in Tenants : accountReq[w].token \in Nat
      BY DEF AccountInv, AccountTypes, Asked
    <3>2. QED
      BY <1>1, <1>2, <2>1, <2>2, <3>1
         DEF AccountInv, TokensFit, ChecksFit, A!TokenIsGood, A!Connected, A!Valid
  <2>5. MarginFits'
    <3>1. CASE accountCron' = "store"
      BY <1>1, <2>1, <2>2, <3>1 DEF AccountInv, MarginFits, A!Connected
    <3>2. CASE accountCron' = "done"
      <4>1. A!Connected /\ accountRead.id = accountId /\ accountRefused < Margin
              => accountRefused' = accountRefused + 1
        BY <2>1, <3>2
      <4>2. A!Connected /\ accountRead.id # accountId
              => accountRow.left = Life /\ accountRefused' = accountRefused
        BY <2>1, <3>2 DEF AccountInv, MarginFits
      <4>3. accountRefused >= Margin => accountRefused' = accountRefused
        BY <1>0, <1>2, <2>1, <3>2
      <4>4. QED
        BY <1>0, <1>1, <1>2, <2>1, <2>2, <3>2, <4>1, <4>2, <4>3
           DEF AccountInv, MarginFits, A!Connected
    <3>3. QED
      BY <2>1, <3>1, <3>2
  <2>6. QED
    BY <2>3, <2>4, <2>5 DEF AccountInv
<1>5. CASE A!Store
  <2>1. /\ accountCron = "store" /\ accountCron' = "done" /\ accountRead' = [id |-> 0, token |-> 0]
        /\ accountIssued' = accountIssued
    BY <1>5 DEF A!Store, A!Done, A!meta
  <2>2. CASE A!Connected /\ accountRead.id = accountId
    <3>1. /\ accountRow' = [accountRow EXCEPT !.token = accountRead.token, !.left = Life]
          /\ accountUndone' = (accountUndone \/ accountRow.token > accountRead.token)
          /\ accountRefused' = 0
      BY <1>5, <2>2 DEF A!Store
    <3>2. /\ accountRow' \in [ws : Tenants \cup {Nowhere}, token : Nat, left : 0..Life,
                      subscribed : BOOLEAN]
          /\ accountRow'.token = accountRead.token /\ accountRow'.left = Life
          /\ accountRow'.ws = accountRow.ws
      <4>1. accountRow \in [ws : Tenants \cup {Nowhere}, token : Nat, left : 0..Life,
                     subscribed : BOOLEAN]
        BY DEF AccountInv, AccountTypes
      <4>2. Life \in 0..Life
        BY <1>0
      <4>3. accountRow' = [ws |-> accountRow.ws, token |-> accountRead.token, left |-> Life,
                    subscribed |-> accountRow.subscribed]
        BY <3>1, <4>1
      <4>4. QED
        BY <1>2, <4>1, <4>2, <4>3
    <3>3. AccountTypes'
      BY <1>0, <1>1, <1>2, <2>1, <3>1, <3>2 DEF AccountInv, AccountTypes
    <3>4. (TokensFit /\ ChecksFit)'
      BY <1>1, <1>2, <2>1, <3>2 DEF AccountInv, TokensFit, ChecksFit
    <3>5. A!TokenIsGood'
      <4>1. ~ accountUndone' => ~ accountUndone /\ ~ (accountRow.token > accountRead.token)
        BY <3>1, Zenon
      <4>2. QED
        BY <1>1, <1>2, <2>2, <3>2, <4>1 DEF AccountInv, A!TokenIsGood, A!Connected, A!Valid
    <3>6. MarginFits'
      BY <1>0, <1>1, <1>2, <2>1, <3>1, <3>2 DEF MarginFits
    <3>7. QED
      BY <3>3, <3>4, <3>5, <3>6 DEF AccountInv
  <2>3. CASE ~ (A!Connected /\ accountRead.id = accountId)
    <3>1. UNCHANGED <<accountRow, accountRefused, accountUndone>>
      BY <1>5, <2>3 DEF A!Store
    <3>2. AccountTypes'
      BY <1>1, <2>1, <3>1 DEF AccountInv, AccountTypes
    <3>3. (TokensFit /\ ChecksFit /\ A!TokenIsGood)'
      BY <1>1, <1>2, <2>1, <3>1 DEF AccountInv, TokensFit, ChecksFit, A!TokenIsGood, A!Connected,
          A!Valid
    <3>4. MarginFits'
      BY <1>0, <1>1, <1>2, <2>1, <2>3, <3>1 DEF AccountInv, MarginFits, A!Connected
    <3>5. QED
      BY <3>2, <3>3, <3>4 DEF AccountInv
  <2>4. QED
    BY <2>2, <2>3
<1>6. CASE A!NextDay
  <2>1. /\ accountCron = "done" /\ accountCron' = "due"
        /\ UNCHANGED <<accountIssued, accountRead, accountRefused, accountUndone>>
        /\ accountRow' = [accountRow EXCEPT !.left = IF @ > 0 THEN @ - 1 ELSE 0]
    BY <1>6 DEF A!NextDay, A!meta
  <2>2. /\ accountRow' \in [ws : Tenants \cup {Nowhere}, token : Nat, left : 0..Life,
                    subscribed : BOOLEAN]
        /\ accountRow'.token = accountRow.token /\ accountRow'.ws = accountRow.ws
        /\ accountRow'.left = IF accountRow.left > 0 THEN accountRow.left - 1 ELSE 0
    <3>1. accountRow \in [ws : Tenants \cup {Nowhere}, token : Nat, left : 0..Life,
                   subscribed : BOOLEAN]
      BY DEF AccountInv, AccountTypes
    <3>2. QED
      BY <1>0, <1>2, <2>1, <3>1
  <2>3. AccountTypes'
    BY <1>1, <2>1, <2>2 DEF AccountInv, AccountTypes
  <2>4. (TokensFit /\ ChecksFit /\ A!TokenIsGood)'
    BY <1>1, <2>1, <2>2 DEF AccountInv, TokensFit, ChecksFit, A!TokenIsGood, A!Connected, A!Valid
  <2>5. MarginFits'
    BY <1>0, <1>1, <1>2, <2>1, <2>2 DEF AccountInv, MarginFits, A!Connected
  <2>6. QED
    BY <2>3, <2>4, <2>5 DEF AccountInv
<1>7. QED
  BY <1>3, <1>4, <1>5, <1>6

LEMMA AccountStarts ==
  ASSUME AccountBounds, A!Init
  PROVE  AccountInv
<1>1. Life \in Nat /\ Margin \in Nat
  BY DEF AccountBounds, A!TokenBounds
<1>2. accountRow.ws = Nowhere /\ accountRow.token = 0 /\ accountRow.left = 0
      /\ accountRead = [id |-> 0, token |-> 0]
  BY DEF A!Init, A!NoRow
<1>3. ~ A!Connected
  BY <1>2 DEF A!Connected
<1>4. AccountTypes
  BY <1>1 DEF A!Init, A!NoRow, A!NoRequest, AccountTypes, Asked
<1>5. TokensFit /\ ChecksFit /\ MarginFits /\ A!TokenIsGood
  BY <1>2, <1>3 DEF A!Init, A!NoRequest, TokensFit, ChecksFit, MarginFits, A!TokenIsGood
<1>6. QED
  BY <1>4, <1>5 DEF AccountInv

LEMMA AccountNext ==
  ASSUME AccountBounds, AccountInv, [A!Next]_(A!vars)
  PROVE  AccountInv'
<1>1. CASE UNCHANGED A!vars
  BY <1>1 DEF A!vars, A!meta, A!refresh, AccountInv, AccountTypes, TokensFit, ChecksFit, MarginFits,
              A!TokenIsGood, A!Connected, A!Valid
<1>2. CASE A!Next
  BY <1>2, CallbackKeeps, RowKeeps, CronKeeps DEF A!Next
<1>3. QED
  BY <1>1, <1>2

LEMMA AccountInvariance ==
  ASSUME AccountBounds
  PROVE  A!Spec => []AccountInv
<1>1. A!Init => AccountInv
  BY AccountStarts
<1>2. AccountInv /\ [A!Next]_(A!vars) => AccountInv'
  BY AccountNext
<1>3. QED
  BY <1>1, <1>2, PTL DEF A!Spec

\* Whatever is connected, disconnected, demoted, removed or refused while the cron is
\* between its read and its write: the token of the row is good unless a refresh was put
\* over a newer one, and it never runs out before as many refused passes as the margin has
\* days.
THEOREM TokenIsHeld ==
  ASSUME AccountBounds
  PROVE  A!Spec => [](A!TypeOK /\ TokenHolds)
<1>1. AccountInv => TokenHolds
  BY DEF AccountBounds, A!TokenBounds, A!MarginWithinLife, AccountInv, AccountTypes, MarginFits,
         TokenHolds, A!TokenHolds, A!MarginIsKept
<1>2. AccountInv => A!TypeOK
  BY DEF AccountInv, AccountTypes, TokensFit, A!TypeOK
<1>3. QED
  BY <1>1, <1>2, AccountInvariance, PTL

\* The account passes to another workspace only by a connection whose check saw it free.
THEOREM AccountIsKept ==
  ASSUME AccountBounds
  PROVE  A!Spec => AccountStays
<1> DEFINE Passes == \E w \in Tenants :
             accountPc[w] = "write" /\ accountRow'.ws = w /\ accountReq[w].saw # accountRow.ws
           Stays == A!Connected /\ accountRow'.ws \notin {accountRow.ws, Nowhere} => Passes
<1>1. AccountInv /\ [A!Next]_(A!vars) => [Stays]_(A!vars)
  <2> SUFFICES ASSUME AccountInv, A!Next, A!Connected,
                      accountRow'.ws \notin {accountRow.ws, Nowhere}
               PROVE  Passes
    OBVIOUS
  <2>0. A!Store \/ A!NextDay => accountRow'.ws = accountRow.ws
    BY DEF AccountInv, AccountTypes, A!Store, A!NextDay
  <2>1. PICK w \in Tenants : A!Write(w)
    BY <2>0 DEF A!Next, A!Connect, A!Expire, A!Demote, A!Callback, A!Check,
           A!Subscribe, A!Fails, A!Disconnect, A!NoRow, A!RemoveApp, A!Pick, A!Ask
  <2>2. accountPc[w] = "write" /\ accountRow'.ws = w
    BY <2>1 DEF A!Write
  <2>3. accountReq[w].saw # accountRow.ws
    BY <2>2 DEF AccountInv, ChecksFit, A!Connected
  <2>4. QED
    BY <2>2, <2>3
<1>2. QED
  BY <1>1, AccountInvariance, PTL DEF A!Spec, AccountStays, A!AccountStays

-----------------------------------------------------------------------------
(* The follower history: sums of its changes *)

DayBounds == MaxDay \in Nat \ {0}
Gain(g, f) == [e \in 0..MaxDay |-> IF e = 0 THEN 0 ELSE f[e - 1] + g[e]]
Gains(g) == CHOOSE f : f = Gain(g, f)

\* What was gained up to a day.
LEMMA GainsAre ==
  ASSUME DayBounds, NEW g \in [F!Days -> Int]
  PROVE  /\ Gains(g) \in [0..MaxDay -> Int] /\ Gains(g)[0] = 0
         /\ \A e \in 1..MaxDay : Gains(g)[e] = Gains(g)[e - 1] + g[e]
<1> DEFINE step == [p \in (1..MaxDay) \X Int |-> p[2] + g[p[1]]]
<1>1. F!Days = 1..MaxDay /\ MaxDay \in Nat
  BY DEF F!Days, DayBounds
<1>2. 0 \in Int /\ step \in [(1..MaxDay) \X Int -> Int]
  BY <1>1
<1>3. PICK f \in [0..MaxDay -> Int] : Recursive(f, 0, step, MaxDay)
  <2> HIDE DEF step
  <2>1. QED
    BY <1>1, <1>2, Recursion
<1>4. f[0] = 0 /\ \A e \in 1..MaxDay : f[e] = f[e - 1] + g[e]
  <2>1. ASSUME NEW e \in 1..MaxDay PROVE f[e] = f[e - 1] + g[e]
    <3>1. f[e - 1] \in Int /\ <<e, f[e - 1]>> \in (1..MaxDay) \X Int
      BY <1>1
    <3>2. f[e] = step[<<e, f[e - 1]>>]
      BY <1>3 DEF Recursive
    <3>3. QED
      BY <3>1, <3>2
  <2>2. QED
    BY <2>1, <1>3 DEF Recursive
<1>5. f = Gain(g, f)
  BY <1>1, <1>4 DEF Gain
<1>6. Gains(g) = Gain(g, Gains(g))
  BY <1>5, Zenon DEF Gains
<1> DEFINE all == Gains(g)
           T == {k \in Nat : k <= MaxDay => all[k] = f[k]}
<1>7. all = Gain(g, all)
  BY <1>6
<1> HIDE DEF all
<1>8. \A e \in 0..MaxDay : all[e] = IF e = 0 THEN 0 ELSE all[e - 1] + g[e]
  BY <1>7 DEF Gain
<1>9. 0 \in T
  BY <1>1, <1>4, <1>8
<1>10. ASSUME NEW k \in Nat, k \in T PROVE k + 1 \in T
  <2>1. SUFFICES ASSUME k + 1 <= MaxDay PROVE all[k + 1] = f[k + 1]
    OBVIOUS
  <2> DEFINE m == k + 1
  <2>2. m \in 1..MaxDay /\ m # 0 /\ m - 1 = k /\ all[k] = f[k]
    BY <2>1, <1>10, <1>1
  <2> HIDE DEF m
  <2>3. all[m] = all[k] + g[m] /\ f[m] = f[k] + g[m]
    BY <2>2, <1>1, <1>4, <1>8
  <2>4. QED
    BY <2>2, <2>3 DEF m
<1>11. Nat \subseteq T
  <2> HIDE DEF T
  <2>1. QED
    BY <1>9, <1>10, Induction
<1>12. all = f
  <2>1. \A k \in 0..MaxDay : all[k] = f[k]
    BY <1>1, <1>11
  <2>2. all = [e \in 0..MaxDay |-> all[e]]
    BY <1>7 DEF Gain
  <2>3. QED
    BY <2>1, <2>2
<1>13. QED
  BY <1>4, <1>12 DEF all

\* Sums that differ from one day on.
LEMMA GainsDiffer ==
  ASSUME DayBounds, NEW g \in [F!Days -> Int], NEW h \in [F!Days -> Int],
         NEW d \in 0..MaxDay, NEW n \in Int, Gains(h)[d] = Gains(g)[d] + n,
         \A e \in F!Days : e > d => h[e] = g[e]
  PROVE  \A e \in d..MaxDay : Gains(h)[e] = Gains(g)[e] + n
<1> DEFINE T == {k \in Nat : d <= k /\ k <= MaxDay => Gains(h)[k] = Gains(g)[k] + n}
<1>1. F!Days = 1..MaxDay /\ MaxDay \in Nat
  BY DEF F!Days, DayBounds
<1>2. /\ Gains(g) \in [0..MaxDay -> Int] /\ Gains(h) \in [0..MaxDay -> Int]
      /\ Gains(g)[0] = 0 /\ Gains(h)[0] = 0
      /\ \A e \in 1..MaxDay : Gains(g)[e] = Gains(g)[e - 1] + g[e]
      /\ \A e \in 1..MaxDay : Gains(h)[e] = Gains(h)[e - 1] + h[e]
  BY GainsAre
<1>3. 0 \in T
  <2>1. SUFFICES ASSUME d <= 0 PROVE Gains(h)[0] = Gains(g)[0] + n
    BY <1>1
  <2>2. d = 0
    BY <2>1, <1>1
  <2>3. QED
    BY <2>2
<1>4. ASSUME NEW k \in Nat, k \in T PROVE k + 1 \in T
  <2> DEFINE m == k + 1
  <2>1. SUFFICES ASSUME d <= m, m <= MaxDay PROVE Gains(h)[m] = Gains(g)[m] + n
    OBVIOUS
  <2>2. m \in 1..MaxDay /\ m - 1 = k /\ k \in 0..MaxDay /\ d \in Int /\ m \in Int
    BY <2>1, <1>1
  <2>3. d <= k => Gains(h)[k] = Gains(g)[k] + n
    BY <2>2, <1>4, <1>1
  <2> HIDE DEF m
  <2>4. CASE d = m
    BY <2>4
  <2>5. CASE d # m
    <3>1. d <= k /\ h[m] = g[m] /\ g[m] \in Int
      BY <2>1, <2>2, <2>5, <1>1
    <3>2. /\ Gains(h)[m] = Gains(h)[k] + h[m] /\ Gains(g)[m] = Gains(g)[k] + g[m]
          /\ Gains(g)[k] \in Int /\ Gains(h)[k] \in Int
      BY <2>2, <1>2
    <3>3. QED
      BY <3>1, <3>2, <2>3
  <2>6. QED
    BY <2>4, <2>5
<1>5. Nat \subseteq T
  <2> HIDE DEF T
  <2>1. QED
    BY <1>3, <1>4, Induction
<1>6. QED
  BY <1>1, <1>5

\* Sums of changes that agree up to a day.
LEMMA GainsAgree ==
  ASSUME DayBounds, NEW g \in [F!Days -> Int], NEW h \in [F!Days -> Int],
         NEW d \in 0..MaxDay, \A e \in F!Days : e <= d => h[e] = g[e]
  PROVE  \A e \in 0..d : Gains(h)[e] = Gains(g)[e]
<1> DEFINE T == {k \in Nat : k <= d => Gains(h)[k] = Gains(g)[k]}
<1>1. F!Days = 1..MaxDay /\ MaxDay \in Nat
  BY DEF F!Days, DayBounds
<1>2. /\ Gains(g) \in [0..MaxDay -> Int] /\ Gains(h) \in [0..MaxDay -> Int]
      /\ Gains(g)[0] = 0 /\ Gains(h)[0] = 0
      /\ \A e \in 1..MaxDay : Gains(g)[e] = Gains(g)[e - 1] + g[e]
      /\ \A e \in 1..MaxDay : Gains(h)[e] = Gains(h)[e - 1] + h[e]
  BY GainsAre
<1>3. 0 \in T
  BY <1>2
<1>4. ASSUME NEW k \in Nat, k \in T PROVE k + 1 \in T
  <2> DEFINE m == k + 1
  <2>1. SUFFICES ASSUME m <= d PROVE Gains(h)[m] = Gains(g)[m]
    OBVIOUS
  <2>2. m \in 1..MaxDay /\ m - 1 = k /\ Gains(h)[k] = Gains(g)[k]
    BY <2>1, <1>1, <1>4
  <2> HIDE DEF m
  <2>3. h[m] = g[m]
    BY <2>1, <2>2, <1>1
  <2>4. QED
    BY <2>2, <2>3, <1>2
<1>5. Nat \subseteq T
  <2> HIDE DEF T
  <2>1. QED
    BY <1>3, <1>4, Induction
<1>6. QED
  BY <1>1, <1>5

\* Nothing is gained by no change.
LEMMA NothingGained ==
  ASSUME DayBounds
  PROVE  \A d \in 0..MaxDay : Gains([e \in F!Days |-> 0])[d] = 0
<1> DEFINE none == [e \in F!Days |-> 0]
           T == {k \in Nat : k <= MaxDay => Gains(none)[k] = 0}
<1>1. F!Days = 1..MaxDay /\ MaxDay \in Nat /\ none \in [F!Days -> Int]
  BY DEF F!Days, DayBounds
<1>2. Gains(none)[0] = 0 /\ \A e \in 1..MaxDay : Gains(none)[e] = Gains(none)[e - 1] + none[e]
  BY <1>1, GainsAre
<1>3. 0 \in T
  BY <1>2
<1>4. ASSUME NEW k \in Nat, k \in T PROVE k + 1 \in T
  <2> DEFINE m == k + 1
  <2>1. SUFFICES ASSUME m <= MaxDay PROVE Gains(none)[m] = 0
    OBVIOUS
  <2>2. m \in 1..MaxDay /\ m - 1 = k /\ Gains(none)[k] = 0
    BY <2>1, <1>4, <1>1
  <2> HIDE DEF m
  <2>3. Gains(none)[m] = Gains(none)[k] + none[m] /\ none[m] = 0
    BY <2>2, <1>2, <1>1
  <2>4. QED
    BY <2>2, <2>3
<1>5. Nat \subseteq T
  <2> HIDE DEF T
  <2>1. QED
    BY <1>3, <1>4, Induction
<1>6. QED
  BY <1>5, <1>1

\* Behind the last change the sums stay.
LEMMA GainsEnd ==
  ASSUME DayBounds, NEW g \in [F!Days -> Int], NEW t \in 0..MaxDay,
         \A e \in F!Days : e > t => g[e] = 0
  PROVE  Gains(g)[MaxDay] = Gains(g)[t]
<1> DEFINE none == [e \in F!Days |-> 0]
<1>1. MaxDay \in t..MaxDay /\ MaxDay \in 0..MaxDay /\ none \in [F!Days -> Int]
      /\ \A e \in F!Days : e > t => g[e] = none[e]
  BY DEF DayBounds
<1>2. Gains(none)[MaxDay] = 0 /\ Gains(none)[t] = 0
  BY <1>1, NothingGained
<1> HIDE DEF none
<1>3. PICK n \in Int : n = Gains(g)[t]
  BY GainsAre
<1>4. Gains(g)[t] = Gains(none)[t] + n
  BY <1>2, <1>3
<1>5. \A e \in t..MaxDay : Gains(g)[e] = Gains(none)[e] + n
  BY <1>1, <1>4, GainsDiffer
<1>6. QED
  BY <1>1, <1>2, <1>3, <1>5

\* What was gained after a day, as AtEnd sums it up.
After(g, d) ==
  LET after[e \in 0..MaxDay] == IF e = 0 THEN 0 ELSE after[e - 1] + (IF e > d THEN g[e] ELSE 0)
  IN  after[MaxDay]

LEMMA AfterIs ==
  ASSUME DayBounds, NEW g \in [F!Days -> Int], NEW d \in 0..MaxDay
  PROVE  /\ After(g, d) = Gains(g)[MaxDay] - Gains(g)[d]
         /\ After(g, d) \in Int
<1> DEFINE after == [e \in F!Days |-> IF e > d THEN g[e] ELSE 0]
           none == [e \in F!Days |-> 0]
<1>1. F!Days = 1..MaxDay /\ MaxDay \in Nat /\ after \in [F!Days -> Int] /\ none \in [F!Days -> Int]
  BY DEF F!Days, DayBounds
<1>2. After(g, d) = Gains(after)[MaxDay]
  <2> DEFINE P(f) == [e \in 0..MaxDay |-> IF e = 0 THEN 0
                                          ELSE f[e - 1] + (IF e > d THEN g[e] ELSE 0)]
  <2>1. ASSUME NEW f PROVE P(f) = Gain(after, f)
    BY <1>1 DEF Gain
  <2>2. (CHOOSE f : f = P(f)) = Gains(after)
    <3> HIDE DEF P, after
    <3>1. \A f : (f = P(f)) <=> (f = Gain(after, f))
      BY <2>1
    <3>2. QED
      BY <3>1 DEF Gains
  <2>3. QED
    BY <2>2 DEF After
<1>3. Gains(after)[d] = Gains(none)[d]
  <2>1. d \in 0..d /\ \A e \in F!Days : e <= d => after[e] = none[e]
    BY <1>1
  <2> HIDE DEF after, none
  <2>2. QED
    BY <2>1, <1>1, GainsAgree
<1>4. Gains(none)[d] = 0
  BY NothingGained
<1>5. PICK n \in Int : n = Gains(g)[d]
  BY GainsAre
<1>6. Gains(g)[d] = Gains(after)[d] + n
  BY <1>3, <1>4, <1>5
<1>7. \A e \in d..MaxDay : Gains(g)[e] = Gains(after)[e] + n
  <2>1. \A e \in F!Days : e > d => g[e] = after[e]
    OBVIOUS
  <2> HIDE DEF after
  <2>2. QED
    BY <2>1, <1>1, <1>6, GainsDiffer
<1>8. /\ Gains(g)[MaxDay] = Gains(after)[MaxDay] + n
      /\ Gains(g)[MaxDay] \in Int /\ Gains(after)[MaxDay] \in Int
  <2>1. MaxDay \in d..MaxDay /\ MaxDay \in 0..MaxDay
    BY <1>1
  <2>2. Gains(g) \in [0..MaxDay -> Int] /\ Gains(after) \in [0..MaxDay -> Int]
    BY <1>1, GainsAre
  <2> HIDE DEF after
  <2>3. QED
    BY <2>1, <2>2, <1>7
<1> HIDE DEF after
<1>9. QED
  BY <1>2, <1>5, <1>8

\* The number at the end of a day, now and after a step, by the sums.
LEMMA AtEndIs ==
  ASSUME DayBounds, followerGained \in [F!Days -> Int], followerFollowers \in Int,
         NEW d \in 0..MaxDay
  PROVE  /\ F!AtEnd(d) = followerFollowers - (Gains(followerGained)[MaxDay]
                                              - Gains(followerGained)[d])
         /\ F!AtEnd(d) \in Int
<1>1. F!AtEnd(d) = followerFollowers - After(followerGained, d)
  BY DEF F!AtEnd, After
<1>2. QED
  BY <1>1, AfterIs

LEMMA AtEndIsThen ==
  ASSUME DayBounds, followerGained' \in [F!Days -> Int], followerFollowers' \in Int,
         NEW d \in 0..MaxDay
  PROVE  F!AtEnd(d)' = followerFollowers' - (Gains(followerGained')[MaxDay]
                                              - Gains(followerGained')[d])
<1> DEFINE h == followerGained'
<1>1. F!AtEnd(d)' = followerFollowers' - After(h, d)
  BY DEF F!AtEnd, After
<1>2. QED
  BY <1>1, AfterIs

\* The number of entries of a series.
LEMMA SeriesLength ==
  ASSUME NEW n \in Nat, NEW X, NEW series \in [1..n -> X]
  PROVE  F!Len(series) = n
<1>1. series \in Seq(X)
  BY SeqDef
<1>2. Len(series) = n
  BY <1>1, LenProperties
<1>3. QED
  BY <1>2

\* What the walk back from a count comes to.
LEMMA TotalsAre ==
  ASSUME DayBounds, NEW n \in 1..MaxDay, NEW series \in [1..n -> [day : Int, delta : Int]],
         NEW count \in Int, NEW g \in [F!Days -> Int],
         \A i \in 1..n : series[i].day = i /\ series[i].delta = g[i]
  PROVE  /\ DOMAIN F!Totals(series, count) \subseteq 1..n
         /\ \A d \in DOMAIN F!Totals(series, count) :
              F!Totals(series, count)[d] = count - (Gains(g)[n] - Gains(g)[d])
<1> DEFINE P(f) == [i \in 1..n |-> IF i = n THEN count ELSE f[i + 1] - series[i + 1].delta]
           total == CHOOSE f : f = P(f)
           w == [i \in 1..n |-> count - (Gains(g)[n] - Gains(g)[i])]
           T == {k \in Nat : k < n => total[n - k] = w[n - k]}
           from == {i \in 1..n : \A j \in i..n : total[j] >= 0}
<1>1. n \in Nat /\ n >= 1 /\ n \in 0..MaxDay
  BY DEF DayBounds
<1>2. /\ \A e \in 0..n : Gains(g)[e] \in Int
      /\ \A e \in 1..n : Gains(g)[e] = Gains(g)[e - 1] + g[e]
      /\ \A e \in 1..n : g[e] \in Int
  <2>1. F!Days = 1..MaxDay /\ MaxDay \in Nat /\ 0..n \subseteq 0..MaxDay /\ 1..n \subseteq 1..MaxDay
    BY <1>1 DEF F!Days, DayBounds
  <2>2. Gains(g) \in [0..MaxDay -> Int] /\ \A e \in 1..MaxDay : Gains(g)[e] = Gains(g)[e - 1] + g[e]
    BY GainsAre
  <2>3. QED
    BY <2>1, <2>2
<1>3. w = P(w)
  <2>1. ASSUME NEW i \in 1..n, i # n PROVE w[i] = w[i + 1] - series[i + 1].delta
    <3> DEFINE m == i + 1
    <3>1. m \in 1..n /\ m - 1 = i /\ i \in 0..n /\ n \in 0..n
      BY <2>1, <1>1
    <3> HIDE DEF m
    <3>2. /\ Gains(g)[m] = Gains(g)[i] + g[m] /\ series[m].delta = g[m]
          /\ {Gains(g)[m], Gains(g)[i], Gains(g)[n], g[m]} \subseteq Int
      BY <3>1, <1>2
    <3>3. w[i] = count - (Gains(g)[n] - Gains(g)[i]) /\ w[m] = count - (Gains(g)[n] - Gains(g)[m])
      BY <3>1
    <3> HIDE DEF w
    <3>4. w[i] = w[m] - series[m].delta
      BY <3>2, <3>3
    <3>5. QED
      BY <3>4 DEF m
  <2>2. w[n] = count
    BY <1>1, <1>2
  <2>3. QED
    BY <2>1, <2>2
<1>4. total = P(total)
  <2> HIDE DEF P, w
  <2>1. QED
    BY <1>3, Zenon
<1> HIDE DEF total
<1>5. total[n] = count /\ \A i \in 1..n : i # n => total[i] = total[i + 1] - series[i + 1].delta
  BY <1>1, <1>4
<1>6. w[n] = count /\ \A i \in 1..n : i # n => w[i] = w[i + 1] - series[i + 1].delta
  <2>1. w[n] = P(w)[n] /\ \A i \in 1..n : w[i] = P(w)[i]
    <3> HIDE DEF P, w
    <3>1. QED
      BY <1>3
  <2> HIDE DEF w
  <2>2. QED
    BY <2>1, <1>1
<1> HIDE DEF w
<1>7. 0 \in T
  BY <1>1, <1>5, <1>6
<1>8. ASSUME NEW k \in Nat, k \in T PROVE k + 1 \in T
  <2> DEFINE i == n - (k + 1)
  <2>1. SUFFICES ASSUME k + 1 < n PROVE total[i] = w[i]
    OBVIOUS
  <2>2. i \in 1..n /\ i # n /\ i + 1 = n - k /\ k < n
    BY <2>1, <1>1
  <2>3. total[i + 1] = w[i + 1]
    BY <2>2, <1>8
  <2> HIDE DEF i
  <2>4. QED
    BY <2>2, <2>3, <1>5, <1>6
<1>9. Nat \subseteq T
  <2> HIDE DEF T
  <2>1. QED
    BY <1>7, <1>8, Induction
<1>10. \A i \in 1..n : total[i] = w[i]
  <2>1. SUFFICES ASSUME NEW i \in 1..n PROVE total[i] = w[i]
    OBVIOUS
  <2>2. n - i \in Nat /\ n - i < n /\ n - (n - i) = i
    BY <1>1
  <2>3. QED
    BY <2>2, <1>9
<1>11. F!Totals(series, count)
         = [d \in {series[i].day : i \in from} |-> total[CHOOSE i \in from : series[i].day = d]]
  <2>1. F!Len(series) = n
    BY <1>1, SeriesLength
  <2>2. QED
    BY <2>1 DEF F!Totals, total
<1>12. {series[i].day : i \in from} = from /\ from \subseteq 1..n
  OBVIOUS
<1>13. ASSUME NEW d \in from PROVE (CHOOSE i \in from : series[i].day = d) = d
  <2>1. \E i \in from : series[i].day = d
    BY <1>12, <1>13
  <2>2. (CHOOSE i \in from : series[i].day = d) \in from
           /\ series[CHOOSE i \in from : series[i].day = d].day = d
    <3> HIDE DEF from
    <3>1. QED
      BY <2>1, Zenon
  <2> HIDE DEF from
  <2>3. QED
    BY <2>2, <1>12
<1>14. \A d \in from : w[d] = count - (Gains(g)[n] - Gains(g)[d])
  BY <1>12 DEF w
<1> HIDE DEF from
<1>15. DOMAIN F!Totals(series, count) = from
  BY <1>11, <1>12
<1>16. \A d \in from : F!Totals(series, count)[d] = total[d]
  BY <1>11, <1>12, <1>13
<1>17. QED
  BY <1>10, <1>12, <1>14, <1>15, <1>16

-----------------------------------------------------------------------------
(* The follower history: its invariant *)

\* Where a caller has recorded its day, and where it fills up the days before.
Recorded == {"count", "series", "observed", "write"}
Filling == {"series", "observed", "write"}
Kinds == {"none", "observed", "backfilled", "guessed"}

\* What a caller has read is a record.
SeenShaped ==
  followerSeen = [c \in Callers |->
    [count |-> followerSeen[c].count, day |-> followerSeen[c].day,
     series |-> followerSeen[c].series, totals |-> followerSeen[c].totals,
     observed |-> followerSeen[c].observed, early |-> followerSeen[c].early]]

\* A day to come has no row and no change, a day filled in has gone by.
HistoryTypes ==
  /\ followerToday \in F!Days /\ followerFollowers \in Least..Most
  /\ followerGained \in [F!Days -> Int]
  /\ followerSnapshot \in [F!Days -> [count : Int, kind : Kinds]]
  /\ \A d \in F!Days : d > followerToday => followerGained[d] = 0 /\ followerSnapshot[d] = F!NoRow
  /\ \A d \in F!Days : followerSnapshot[d].kind = "backfilled" => d < followerToday
  /\ followerPc \in [Callers -> Recorded \cup {"new", "record", "done"}]
  /\ SeenShaped
  /\ \A c \in Callers :
       /\ followerSeen[c].count \in Int /\ followerSeen[c].early \in BOOLEAN
       /\ followerPc[c] \in Recorded => followerSeen[c].day \in 1..followerToday

\* The row of the day a caller recorded, with another beside it or observed; and
\* observed as long as the caller fills up the days before.
RowFits(c) ==
  /\ followerPc[c] = "count" =>
       /\ followerSnapshot[followerSeen[c].day].kind # "none"
       /\ \/ followerSnapshot[followerSeen[c].day].kind = "observed"
          \/ \E e \in F!Days : e # followerSeen[c].day /\ followerSnapshot[e].kind # "none"
  /\ followerPc[c] \in Filling => followerSnapshot[followerSeen[c].day].kind = "observed"

\* What the series says of the days gone by, and what the count says of yesterday.
SeriesFits(c) ==
  followerPc[c] = "observed" =>
    \E last \in 1..followerToday :
      /\ followerSeen[c].series \in [1..last -> [day : Int, delta : Int]]
      /\ \A d \in 1..last : followerSeen[c].series[d].day = d
      /\ ~ followerSeen[c].early =>
           /\ last = followerSeen[c].day
           /\ \A d \in 1..last : d < last => followerSeen[c].series[d].delta = followerGained[d]
           /\ followerSeen[c].count - followerSeen[c].series[last].delta = F!AtEnd(last - 1)

\* What is about to be written: no day observed, and true totals of days gone by.
TotalsFit(c) ==
  followerPc[c] = "write" =>
    /\ DOMAIN followerSeen[c].totals \subseteq 1..followerToday
    /\ \A d \in DOMAIN followerSeen[c].totals :
         /\ followerSeen[c].totals[d] \in Int
         /\ d <= followerSeen[c].day /\ followerSnapshot[d].kind = "observed"
              => d \in followerSeen[c].observed
         /\ ~ followerSeen[c].early =>
              /\ d <= followerSeen[c].day
              /\ d < followerSeen[c].day => followerSeen[c].totals[d] = F!AtEnd(d)

\* Those who fill up have recorded one and the same day.
SameDay ==
  \A c, e \in Callers : followerPc[c] \in Filling /\ followerPc[e] \in Filling
                          => followerSeen[c].day = followerSeen[e].day

HistoryInv ==
  /\ HistoryTypes /\ SameDay /\ F!TotalsAreTrue
  /\ \A c \in Callers : RowFits(c) /\ SeriesFits(c) /\ TotalsFit(c)

LEMMA HistoryStarts ==
  ASSUME F!HistoryBounds, F!Init
  PROVE  HistoryInv
<1>1. F!Days = 1..MaxDay /\ MaxDay \in Nat /\ MaxDay >= 1
  BY DEF F!Days, F!HistoryBounds
<1>2. HistoryTypes
  <2>1. SeenShaped
    BY DEF SeenShaped, F!Init, F!NoRead
  <2>2. /\ followerSnapshot \in [F!Days -> [count : Int, kind : Kinds]]
        /\ \A d \in F!Days : followerSnapshot[d] = F!NoRow
    BY DEF F!Init, F!NoRow, Kinds
  <2>3. /\ followerGained \in [F!Days -> Int] /\ \A d \in F!Days : followerGained[d] = 0
        /\ followerPc \in [Callers -> Recorded \cup {"new", "record", "done"}]
        /\ \A c \in Callers : followerPc[c] = "new"
        /\ followerToday \in F!Days /\ followerFollowers \in Least..Most
    BY <1>1 DEF F!Init
  <2>4. \A c \in Callers : followerSeen[c].count \in Int /\ followerSeen[c].early \in BOOLEAN
    <3>1. \A c \in Callers : followerSeen[c].count = 0
      BY DEF F!Init, F!NoRead
    <3>2. \A c \in Callers : followerSeen[c].early \in BOOLEAN
      BY DEF F!Init, F!NoRead
    <3>3. QED
      BY <3>1, <3>2
  <2>5. QED
    BY <2>1, <2>2, <2>3, <2>4 DEF HistoryTypes, Recorded, F!NoRow
<1>3. QED
  BY <1>2 DEF HistoryInv, SameDay, RowFits, SeriesFits, TotalsFit, F!TotalsAreTrue, F!Init, F!NoRow,
              Filling

\* What is read of the invariant.
LEMMA HistoryParts ==
  ASSUME F!HistoryBounds, HistoryInv
  PROVE  /\ DayBounds /\ F!Days = 1..MaxDay /\ MaxDay \in Nat
         /\ followerToday \in 1..MaxDay /\ followerFollowers \in Int
         /\ followerGained \in [F!Days -> Int]
         /\ \A d \in 0..MaxDay : F!AtEnd(d) \in Int
<1>1. DayBounds /\ F!Days = 1..MaxDay /\ MaxDay \in Nat /\ {Least, Most} \subseteq Nat
  BY DEF F!HistoryBounds, DayBounds, F!Days
<1>2. followerToday \in 1..MaxDay /\ followerFollowers \in Int /\ followerGained \in [F!Days -> Int]
  BY <1>1 DEF HistoryInv, HistoryTypes
<1>3. QED
  BY <1>1, <1>2, AtEndIs

\* People follow and unfollow: the days gone by end with as many as before.
LEMMA FollowingKeeps ==
  ASSUME F!HistoryBounds, HistoryInv, NEW n \in Changes, F!Follow(n)
  PROVE  HistoryInv'
<1> DEFINE g == followerGained
           h == followerGained'
           t == followerToday
<1>1. /\ DayBounds /\ F!Days = 1..MaxDay /\ MaxDay \in Nat /\ t \in 1..MaxDay /\ t \in Int
      /\ n \in Int /\ g \in [F!Days -> Int] /\ followerFollowers \in Int
  BY HistoryParts DEF F!HistoryBounds
<1>2. /\ h = [g EXCEPT ![t] = g[t] + n] /\ followerFollowers' = followerFollowers + n
      /\ followerFollowers' \in Least..Most
      /\ UNCHANGED <<followerToday, followerSnapshot, followerPc, followerSeen>>
  BY DEF F!Follow
<1>3. h \in [F!Days -> Int] /\ h[t] = g[t] + n /\ \A d \in F!Days : d # t => h[d] = g[d]
  BY <1>1, <1>2
<1>4. \A d \in 0..MaxDay : d < t => F!AtEnd(d)' = F!AtEnd(d)
  <2>1. Gains(h)[t - 1] = Gains(g)[t - 1] /\ \A d \in 0..t - 1 : Gains(h)[d] = Gains(g)[d]
    <3>1. t - 1 \in 0..MaxDay /\ \A d \in F!Days : d <= t - 1 => h[d] = g[d]
      BY <1>1, <1>3
    <3> HIDE DEF g, h
    <3>2. \A d \in 0..t - 1 : Gains(h)[d] = Gains(g)[d]
      BY <3>1, <1>1, <1>3, GainsAgree
    <3>3. QED
      BY <3>2, <1>1
  <2>2. Gains(h)[t] = Gains(g)[t] + n
    <3>1. Gains(h)[t] = Gains(h)[t - 1] + h[t] /\ Gains(g)[t] = Gains(g)[t - 1] + g[t]
      BY <1>1, <1>3, GainsAre
    <3>2. Gains(g)[t - 1] \in Int /\ g[t] \in Int /\ Gains(h)[t - 1] \in Int
      <4>1. t - 1 \in 0..MaxDay
        BY <1>1
      <4>2. QED
        BY <4>1, <1>1, <1>3, GainsAre
    <3> HIDE DEF g, h
    <3>3. QED
      BY <2>1, <3>1, <3>2, <1>1, <1>3
  <2>3. Gains(h)[MaxDay] = Gains(g)[MaxDay] + n
    <3>1. t \in 0..MaxDay /\ MaxDay \in t..MaxDay /\ \A d \in F!Days : d > t => h[d] = g[d]
      BY <1>1, <1>3
    <3> HIDE DEF g, h
    <3>2. QED
      BY <3>1, <2>2, <1>1, <1>3, GainsDiffer
  <2>4. ASSUME NEW d \in 0..MaxDay, d < t PROVE F!AtEnd(d)' = F!AtEnd(d)
    <3>1. F!AtEnd(d) = followerFollowers - (Gains(g)[MaxDay] - Gains(g)[d])
      BY <1>1, AtEndIs
    <3>2. F!AtEnd(d)' = followerFollowers' - (Gains(h)[MaxDay] - Gains(h)[d])
      <4>1. followerFollowers' \in Int
        BY <1>1, <1>2
      <4>2. QED
        BY <1>1, <1>3, <4>1, AtEndIsThen DEF h
    <3>3. d \in 0..t - 1 /\ MaxDay \in 0..MaxDay
      BY <2>4, <1>1
    <3>4. {Gains(g)[MaxDay], Gains(g)[d]} \subseteq Int
      BY <3>3, <1>1, GainsAre
    <3>5. Gains(h)[d] = Gains(g)[d]
      BY <2>1, <3>3
    <3> DEFINE all == Gains(g)[MaxDay]
               some == Gains(g)[d]
               more == Gains(h)[MaxDay]
               f == followerFollowers
    <3>6. more = all + n /\ all \in Int /\ some \in Int /\ f \in Int /\ n \in Int
      BY <2>3, <3>4, <1>1
    <3>7. F!AtEnd(d) = f - (all - some) /\ F!AtEnd(d)' = (f + n) - (more - some)
      BY <3>1, <3>2, <3>5, <1>2
    <3> HIDE DEF all, some, more, f
    <3>8. QED
      BY <3>6, <3>7
  <2>5. QED
    BY <2>4
<1> HIDE DEF g, h
<1>5. HistoryTypes'
  BY <1>1, <1>2, <1>3 DEF HistoryInv, HistoryTypes, SeenShaped, F!NoRow, F!Days, g, h
<1>6. SameDay' /\ \A c \in Callers : RowFits(c)'
  BY <1>2 DEF HistoryInv, SameDay, RowFits, F!Days
<1>7. F!TotalsAreTrue'
  BY <1>1, <1>2, <1>4 DEF HistoryInv, F!TotalsAreTrue, F!Days
<1>8. ASSUME NEW c \in Callers PROVE SeriesFits(c)'
  <2>1. SUFFICES ASSUME followerPc[c] = "observed" PROVE SeriesFits(c)'
    BY <1>2 DEF SeriesFits
  <2>2. PICK last \in 1..t :
          /\ followerSeen[c].series \in [1..last -> [day : Int, delta : Int]]
          /\ \A d \in 1..last : followerSeen[c].series[d].day = d
          /\ ~ followerSeen[c].early =>
               /\ last = followerSeen[c].day
               /\ \A d \in 1..last : d < last => followerSeen[c].series[d].delta = g[d]
               /\ followerSeen[c].count - followerSeen[c].series[last].delta = F!AtEnd(last - 1)
    BY <2>1 DEF HistoryInv, SeriesFits, g
  <2>3. last - 1 \in 0..MaxDay /\ last - 1 < t /\ \A d \in 1..last : d < last
          => d \in F!Days /\ d # t
    BY <2>2, <1>1
  <2>4. QED
    BY <2>2, <2>3, <1>2, <1>3, <1>4 DEF SeriesFits, g, h
<1>9. ASSUME NEW c \in Callers PROVE TotalsFit(c)'
  <2>1. SUFFICES ASSUME followerPc[c] = "write" PROVE TotalsFit(c)'
    BY <1>2 DEF TotalsFit
  <2>2. TotalsFit(c) /\ followerSeen[c].day \in 1..t
    BY <2>1 DEF HistoryInv, HistoryTypes, Recorded
  <2>3. \A d \in DOMAIN followerSeen[c].totals : d < followerSeen[c].day => d \in 0..MaxDay /\ d < t
    BY <2>1, <2>2, <1>1 DEF TotalsFit
  <2>4. QED
    BY <2>1, <2>2, <2>3, <1>2, <1>4 DEF TotalsFit
<1>10. QED
  BY <1>5, <1>6, <1>7, <1>8, <1>9 DEF HistoryInv

\* A step that changes neither the followers nor their changes.
LEMMA EndsStay ==
  ASSUME UNCHANGED <<followerFollowers, followerGained>>
  PROVE  \A d : F!AtEnd(d)' = F!AtEnd(d)
BY DEF F!AtEnd

\* A midnight: today's row is no day filled in.
LEMMA MidnightKeeps ==
  ASSUME F!HistoryBounds, HistoryInv, F!Midnight
  PROVE  HistoryInv'
<1> DEFINE t == followerToday
<1>1. /\ followerToday' = t + 1 /\ t < MaxDay /\ t \in 1..MaxDay
      /\ F!Days = 1..MaxDay /\ MaxDay \in Nat
      /\ UNCHANGED <<followerFollowers, followerGained, followerSnapshot, followerPc, followerSeen>>
  BY HistoryParts DEF F!Midnight
<1>2. \A d : F!AtEnd(d)' = F!AtEnd(d)
  BY <1>1, EndsStay
<1>3. HistoryTypes'
  BY <1>1 DEF HistoryInv, HistoryTypes, SeenShaped, F!Days, F!NoRow
<1>4. SameDay' /\ \A c \in Callers : RowFits(c)'
  BY <1>1 DEF HistoryInv, SameDay, RowFits, F!Days
<1>5. F!TotalsAreTrue'
  BY <1>1, <1>2 DEF HistoryInv, HistoryTypes, F!TotalsAreTrue, F!Days
<1>6. ASSUME NEW c \in Callers PROVE SeriesFits(c)'
  BY <1>1, <1>2 DEF HistoryInv, SeriesFits
<1>7. ASSUME NEW c \in Callers PROVE TotalsFit(c)'
  BY <1>1, <1>2 DEF HistoryInv, TotalsFit
<1>8. QED
  BY <1>3, <1>4, <1>5, <1>6, <1>7 DEF HistoryInv

\* What a series says stays true as long as nobody changes the followers.
LEMMA SeriesStay ==
  ASSUME NEW e \in Callers, SeriesFits(e), \A d : F!AtEnd(d)' = F!AtEnd(d),
         UNCHANGED <<followerToday, followerGained>>,
         followerPc'[e] = followerPc[e], followerSeen'[e] = followerSeen[e]
  PROVE  SeriesFits(e)'
<1>1. SUFFICES ASSUME followerPc[e] = "observed" PROVE SeriesFits(e)'
  BY DEF SeriesFits
<1> DEFINE s == followerSeen[e]
           Fits(last) ==
             /\ s.series \in [1..last -> [day : Int, delta : Int]]
             /\ \A d \in 1..last : s.series[d].day = d
             /\ ~ s.early =>
                  /\ last = s.day
                  /\ \A d \in 1..last : d < last => s.series[d].delta = followerGained[d]
                  /\ s.count - s.series[last].delta = F!AtEnd(last - 1)
<1>2. PICK last \in 1..followerToday : Fits(last)
  BY <1>1 DEF SeriesFits
<1>3. F!AtEnd(last - 1)' = F!AtEnd(last - 1)
  OBVIOUS
<1>4. QED
  BY <1>2, <1>3 DEF SeriesFits

\* What a caller has read, and what it has read then.
LEMMA SeenThen ==
  ASSUME SeenShaped, NEW c \in Callers, NEW row,
         followerSeen' = [followerSeen EXCEPT ![c] = row],
         row = [count |-> row.count, day |-> row.day, series |-> row.series,
                totals |-> row.totals, observed |-> row.observed, early |-> row.early]
  PROVE  /\ SeenShaped' /\ followerSeen'[c] = row
         /\ \A e \in Callers \ {c} : followerSeen'[e] = followerSeen[e]
<1>1. \A e \in Callers \ {c} : followerSeen'[e] = followerSeen[e]
  BY DEF SeenShaped
<1>2. followerSeen'[c] = row /\ DOMAIN followerSeen' = Callers
  BY DEF SeenShaped
<1>3. SeenShaped'
  BY <1>1, <1>2 DEF SeenShaped
<1>4. QED
  BY <1>1, <1>2, <1>3

\* A step of one caller that touches no row.
LEMMA CallerStep ==
  ASSUME HistoryInv, NEW c \in Callers,
         UNCHANGED <<followerToday, followerFollowers, followerGained, followerSnapshot>>,
         \A e \in Callers \ {c} :
           followerPc'[e] = followerPc[e] /\ followerSeen'[e] = followerSeen[e],
         HistoryTypes', SameDay', RowFits(c)', SeriesFits(c)', TotalsFit(c)'
  PROVE  HistoryInv'
<1>1. \A d : F!AtEnd(d)' = F!AtEnd(d)
  BY EndsStay
<1>2. F!TotalsAreTrue'
  BY <1>1 DEF HistoryInv, F!TotalsAreTrue, F!Days
<1>3. ASSUME NEW e \in Callers, e # c PROVE RowFits(e)' /\ SeriesFits(e)' /\ TotalsFit(e)'
  <2>1. RowFits(e)'
    BY <1>3 DEF HistoryInv, RowFits, F!Days
  <2>2. SeriesFits(e)'
    BY <1>1, <1>3, SeriesStay DEF HistoryInv
  <2>3. TotalsFit(e)'
    BY <1>1, <1>3 DEF HistoryInv, TotalsFit
  <2>4. QED
    BY <2>1, <2>2, <2>3
<1>4. QED
  BY <1>2, <1>3 DEF HistoryInv

\* Where a caller has nothing to keep.
Idle == {"new", "record", "done"}

\* A caller that comes to a place where it has nothing to keep.
LEMMA IdleStep ==
  ASSUME HistoryInv, NEW c \in Callers, NEW place \in Idle, NEW row,
         UNCHANGED <<followerToday, followerFollowers, followerGained, followerSnapshot>>,
         followerPc' = [followerPc EXCEPT ![c] = place],
         followerSeen' = [followerSeen EXCEPT ![c] = row],
         row = [count |-> row.count, day |-> row.day, series |-> row.series,
                totals |-> row.totals, observed |-> row.observed, early |-> row.early],
         row.count \in Int, row.early \in BOOLEAN
  PROVE  HistoryInv'
<1>1. followerPc \in [Callers -> Recorded \cup Idle] /\ SeenShaped
  BY DEF HistoryInv, HistoryTypes, Recorded, Idle
<1>2. /\ \A e \in Callers \ {c} :
           followerPc'[e] = followerPc[e] /\ followerSeen'[e] = followerSeen[e]
      /\ followerPc'[c] = place /\ followerSeen'[c] = row
      /\ followerPc' \in [Callers -> Recorded \cup Idle]
  BY <1>1 DEF SeenShaped
<1>3. SeenShaped'
  BY <1>1, <1>2 DEF SeenShaped
<1>4. place \notin Recorded /\ place \notin Filling
  BY DEF Idle, Recorded, Filling
<1>5. HistoryTypes'
  <2>1. \A e \in Callers : /\ followerSeen'[e].count \in Int /\ followerSeen'[e].early \in BOOLEAN
                           /\ followerPc'[e] \in Recorded
                                => followerSeen'[e].day \in 1..followerToday
    BY <1>2, <1>4 DEF HistoryInv, HistoryTypes
  <2>2. followerPc' \in [Callers -> Recorded \cup {"new", "record", "done"}]
    BY <1>2 DEF Idle
  <2>3. QED
    <3>1. HistoryTypes
      BY DEF HistoryInv
    <3>2. QED
      BY <1>3, <2>1, <2>2, <3>1 DEF HistoryTypes, F!NoRow, F!Days
<1>6. SameDay'
  BY <1>2, <1>4 DEF HistoryInv, SameDay
<1>7. RowFits(c)' /\ SeriesFits(c)' /\ TotalsFit(c)'
  BY <1>2 DEF RowFits, SeriesFits, TotalsFit, Filling, Idle
<1>8. QED
  BY <1>2, <1>5, <1>6, <1>7, CallerStep

\* A caller that ends, and one that has read the count.
LEMMA EndKeeps ==
  ASSUME HistoryInv, NEW c \in Callers, F!End(c),
         UNCHANGED <<followerToday, followerFollowers, followerGained, followerSnapshot>>
  PROVE  HistoryInv'
<1> DEFINE row == F!NoRead
<1>1. /\ row = [count |-> row.count, day |-> row.day, series |-> row.series,
                totals |-> row.totals, observed |-> row.observed, early |-> row.early]
      /\ row.count = 0 /\ row.early \in BOOLEAN
  BY DEF F!NoRead
<1>2. row.count \in Int
  BY <1>1
<1>3. /\ followerPc' = [followerPc EXCEPT ![c] = "done"] /\ "done" \in Idle
      /\ followerSeen' = [followerSeen EXCEPT ![c] = row]
  BY DEF F!End, F!Goto, Idle
<1> HIDE DEF row
<1>4. QED
  BY <1>1, <1>2, <1>3, IdleStep

LEMMA ReadCountKeeps ==
  ASSUME F!HistoryBounds, HistoryInv, NEW c \in Callers, F!ReadCount(c)
  PROVE  HistoryInv'
<1>1. UNCHANGED <<followerToday, followerFollowers, followerGained, followerSnapshot>>
  BY DEF F!ReadCount, F!world
<1>2. CASE F!End(c)
  BY <1>1, <1>2, EndKeeps
<1>3. CASE /\ F!Goto(c, "record")
           /\ followerSeen' = [followerSeen EXCEPT ![c].count = followerFollowers]
  <2> DEFINE row == [followerSeen[c] EXCEPT !.count = followerFollowers]
  <2>1. followerFollowers \in Int /\ SeenShaped /\ followerSeen[c].early \in BOOLEAN
    BY HistoryParts DEF HistoryInv, HistoryTypes
  <2>2. /\ row = [count |-> row.count, day |-> row.day, series |-> row.series,
                  totals |-> row.totals, observed |-> row.observed, early |-> row.early]
        /\ row.count = followerFollowers /\ row.early = followerSeen[c].early
    BY <2>1 DEF SeenShaped
  <2>3. row.count \in Int /\ row.early \in BOOLEAN
    BY <2>1, <2>2
  <2>4. /\ followerPc' = [followerPc EXCEPT ![c] = "record"] /\ "record" \in Idle
        /\ followerSeen' = [followerSeen EXCEPT ![c] = row]
    BY <1>3 DEF F!Goto, Idle
  <2> HIDE DEF row
  <2>5. QED
    BY <1>1, <2>2, <2>3, <2>4, IdleStep
<1>4. QED
  BY <1>2, <1>3 DEF F!ReadCount

LEMMA HistoryFailsKeeps ==
  ASSUME HistoryInv, NEW c \in Callers, F!Fails(c)
  PROVE  HistoryInv'
<1>1. F!End(c) /\ UNCHANGED <<followerToday, followerFollowers, followerGained, followerSnapshot>>
  BY DEF F!Fails, F!world
<1>2. QED
  BY <1>1, EndKeeps

\* The row of the day: who fills up has it observed already.
LEMMA DayRecordKeeps ==
  ASSUME F!HistoryBounds, HistoryInv, NEW c \in Callers, F!Record(c)
  PROVE  HistoryInv'
<1> DEFINE t == followerToday
           s == followerSeen[c]
           new == [count |-> s.count, kind |-> "observed"]
<1>1. /\ t \in 1..MaxDay /\ F!Days = 1..MaxDay /\ MaxDay \in Nat /\ HistoryTypes /\ SameDay
      /\ F!TotalsAreTrue
      /\ s.count \in Int /\ \A e \in Callers : RowFits(e) /\ SeriesFits(e) /\ TotalsFit(e)
  BY HistoryParts DEF HistoryInv, HistoryTypes
<1>2. /\ followerPc' = [followerPc EXCEPT ![c] = "count"]
      /\ followerSnapshot' = [followerSnapshot EXCEPT ![t] = new]
      /\ followerSeen' = [followerSeen EXCEPT ![c].day = t]
      /\ UNCHANGED <<followerToday, followerFollowers, followerGained>>
  BY DEF F!Record, F!Goto, F!world
<1>3. \A d : F!AtEnd(d)' = F!AtEnd(d)
  BY <1>2, EndsStay
<1>4. /\ followerPc'[c] = "count" /\ followerSeen'[c].day = t
      /\ followerSeen'[c].count = s.count /\ followerSeen'[c].early = s.early
      /\ \A e \in Callers \ {c} :
           followerPc'[e] = followerPc[e] /\ followerSeen'[e] = followerSeen[e]
  BY <1>1, <1>2 DEF HistoryTypes, SeenShaped
<1>0. SeenShaped'
  <2> DEFINE row == [s EXCEPT !.day = t]
  <2>1. SeenShaped /\ followerSeen' = [followerSeen EXCEPT ![c] = row]
    BY <1>1, <1>2 DEF HistoryTypes
  <2>2. row = [count |-> row.count, day |-> row.day, series |-> row.series,
               totals |-> row.totals, observed |-> row.observed, early |-> row.early]
    BY <2>1 DEF SeenShaped
  <2> HIDE DEF row
  <2>3. QED
    BY <2>1, <2>2, SeenThen
<1>5. /\ followerSnapshot' \in [F!Days -> [count : Int, kind : Kinds]]
      /\ followerSnapshot'[t].kind = "observed"
      /\ \A d \in F!Days : d # t => followerSnapshot'[d] = followerSnapshot[d]
  BY <1>1, <1>2 DEF HistoryTypes, Kinds
<1>6. \A d \in F!Days :
        /\ followerSnapshot[d].kind = "observed" => followerSnapshot'[d].kind = "observed"
        /\ followerSnapshot[d].kind # "none" => followerSnapshot'[d].kind # "none"
  BY <1>5
<1>7. HistoryTypes'
  <2>1. /\ followerPc' \in [Callers -> Recorded \cup {"new", "record", "done"}]
        /\ \A e \in Callers :
             /\ followerSeen'[e].count \in Int /\ followerSeen'[e].early \in BOOLEAN
             /\ followerPc'[e] \in Recorded => followerSeen'[e].day \in 1..t
    BY <1>1, <1>2, <1>4 DEF HistoryTypes, Recorded
  <2>2. \A d \in F!Days : d > t => followerGained[d] = 0 /\ followerSnapshot'[d] = F!NoRow
    <3>1. \A d \in F!Days : d > t => followerGained[d] = 0 /\ followerSnapshot[d] = F!NoRow
      BY <1>1 DEF HistoryTypes
    <3>2. t \in Int
      BY <1>1
    <3> HIDE DEF t
    <3>3. QED
      BY <3>1, <3>2, <1>5
  <2>3. \A d \in F!Days : followerSnapshot'[d].kind = "backfilled" => d < t
    <3>1. \A d \in F!Days : followerSnapshot[d].kind = "backfilled" => d < t
      BY <1>1 DEF HistoryTypes
    <3>2. "backfilled" # "observed"
      OBVIOUS
    <3> HIDE DEF t
    <3>3. QED
      BY <3>1, <3>2, <1>5
  <2>4. QED
    BY <1>0, <1>1, <1>2, <1>5, <2>1, <2>2, <2>3 DEF HistoryTypes, F!Days, F!NoRow
<1>8. SameDay'
  BY <1>1, <1>4 DEF SameDay, Filling
<1>9. F!TotalsAreTrue'
  BY <1>1, <1>2, <1>3, <1>5 DEF F!TotalsAreTrue, F!Days
<1>10. ASSUME NEW e \in Callers PROVE RowFits(e)'
  <2>1. CASE e = c
    BY <2>1, <1>4, <1>5 DEF RowFits, Filling
  <2>2. CASE e # c
    <3>1. followerPc[e] \in Recorded => followerSeen[e].day \in F!Days
      BY <1>1 DEF HistoryTypes
    <3>2. followerPc'[e] = followerPc[e] /\ followerSeen'[e] = followerSeen[e] /\ RowFits(e)
      BY <1>1, <1>4, <2>2
    <3>3. QED
      BY <3>1, <3>2, <1>6 DEF RowFits, Filling, Recorded, F!Days
  <2>3. QED
    BY <2>1, <2>2
<1>11. ASSUME NEW e \in Callers PROVE SeriesFits(e)'
  <2>1. CASE e = c
    BY <2>1, <1>4 DEF SeriesFits
  <2>2. CASE e # c
    BY <2>2, <1>1, <1>2, <1>3, <1>4, SeriesStay
  <2>3. QED
    BY <2>1, <2>2
<1>12. ASSUME NEW e \in Callers PROVE TotalsFit(e)'
  <2>1. SUFFICES ASSUME followerPc'[e] = "write" PROVE TotalsFit(e)'
    BY DEF TotalsFit
  <2>2. e # c /\ followerPc'[e] = followerPc[e] /\ followerSeen'[e] = followerSeen[e]
    BY <2>1, <1>4
  <2> DEFINE r == followerSeen[e]
  <2>3. /\ followerPc[e] \in Filling /\ followerPc[e] = "write" /\ TotalsFit(e)
        /\ r.day \in 1..t /\ followerSnapshot[r.day].kind = "observed"
    BY <2>1, <2>2, <1>1 DEF HistoryTypes, RowFits, Filling, Recorded
  <2>4. ASSUME NEW d \in DOMAIN r.totals, d <= r.day, followerSnapshot'[d].kind = "observed"
        PROVE  d \in r.observed
    <3>1. d \in F!Days /\ d \in Int
      BY <2>3, <2>4, <1>1 DEF TotalsFit
    <3>2. d = t => followerSnapshot[d].kind = "observed"
      BY <2>3, <2>4, <3>1, <1>1
    <3>3. QED
      BY <3>1, <3>2, <2>3, <2>4, <1>5 DEF TotalsFit
  <2>5. QED
    BY <2>2, <2>3, <2>4, <1>2, <1>3 DEF TotalsFit
<1>13. QED
  BY <1>7, <1>8, <1>9, <1>10, <1>11, <1>12 DEF HistoryInv

\* A history of one row at most: that row is the caller's, and that of all who fill up.
LEMMA CountRowsKeeps ==
  ASSUME F!HistoryBounds, HistoryInv, NEW c \in Callers, F!CountRows(c)
  PROVE  HistoryInv'
<1> DEFINE s == followerSeen[c]
           R == F!Rows
<1>0. UNCHANGED <<followerToday, followerFollowers, followerGained, followerSnapshot>>
  BY DEF F!CountRows, F!world
<1>1. CASE F!End(c)
  BY <1>0, <1>1, EndKeeps
<1>2. CASE F!Cardinality(R) <= 1 /\ F!Goto(c, "series") /\ UNCHANGED followerSeen
  <2>1. /\ followerToday \in 1..MaxDay /\ F!Days = 1..MaxDay /\ HistoryTypes /\ SameDay
        /\ MaxDay \in Nat
        /\ followerPc[c] = "count" /\ RowFits(c) /\ s.day \in F!Days
    BY HistoryParts DEF HistoryInv, HistoryTypes, F!CountRows, Recorded
  <2>2. /\ followerPc' = [followerPc EXCEPT ![c] = "series"]
        /\ followerPc \in [Callers -> Recorded \cup {"new", "record", "done"}]
    BY <1>2, <2>1 DEF F!Goto, HistoryTypes
  <2>3. ASSUME NEW d \in F!Days, NEW e \in F!Days, d \in R, e \in R PROVE d = e
    <3>1. F!Cardinality(R) = Cardinality(R)
      BY DEF F!Cardinality, Cardinality
    <3>2. R \in SUBSET (1..MaxDay) /\ IsFiniteSet(R)
      <4>1. IsFiniteSet(1..MaxDay)
        BY <2>1, FS_Interval
      <4>2. QED
        BY <4>1, <2>1, FS_Subset DEF F!Rows
    <3>3. {d, e} \subseteq R
      BY <2>3
    <3>4. Cardinality({d, e}) <= Cardinality(R)
      BY <3>2, <3>3, FS_Subset
    <3>5. d # e => Cardinality({d, e}) = 2
      <4>1. Cardinality({d}) = 1 /\ IsFiniteSet({d})
        BY FS_Singleton
      <4>2. d # e => Cardinality({d} \cup {e}) = Cardinality({d}) + 1
        BY <4>1, FS_AddElement
      <4>3. {d} \cup {e} = {d, e}
        OBVIOUS
      <4>4. QED
        BY <4>1, <4>2, <4>3
    <3>6. Cardinality(R) <= 1 /\ Cardinality(R) \in Nat
      BY <1>2, <3>1, <3>2, FS_CardinalityType
    <3>7. QED
      BY <3>4, <3>5, <3>6
  <2>4. \A d \in F!Days : followerSnapshot[d].kind # "none" <=> d \in R
    BY DEF F!Rows
  <2>5. s.day \in R /\ followerSnapshot[s.day].kind = "observed"
    BY <2>1, <2>3, <2>4 DEF RowFits
  <2>6. \A e \in Callers : followerPc[e] \in Filling => followerSeen[e].day = s.day
    <3>1. ASSUME NEW e \in Callers, followerPc[e] \in Filling PROVE followerSeen[e].day = s.day
      <4>1. followerSeen[e].day \in F!Days
            /\ followerSnapshot[followerSeen[e].day].kind = "observed"
        BY <3>1, <2>1 DEF HistoryInv, HistoryTypes, RowFits, Filling, Recorded
      <4>2. followerSeen[e].day \in R
        BY <4>1, <2>4
      <4>3. QED
        BY <4>1, <4>2, <2>1, <2>3, <2>5
    <3>2. QED
      BY <3>1
  <2>7. HistoryTypes'
    BY <2>1, <2>2, <1>0, <1>2 DEF HistoryTypes, SeenShaped, Recorded, F!NoRow, F!Days
  <2>8. SameDay'
    BY <2>1, <2>2, <2>6, <1>2 DEF SameDay, Filling
  <2>9. RowFits(c)' /\ SeriesFits(c)' /\ TotalsFit(c)'
    BY <2>2, <2>5, <1>0, <1>2 DEF RowFits, SeriesFits, TotalsFit
  <2>10. QED
    BY <2>2, <2>7, <2>8, <2>9, <1>0, <1>2, CallerStep
<1>3. QED
  BY <1>1, <1>2 DEF F!CountRows

\* Yesterday's number, by the count and today's change.
LEMMA Yesterday ==
  ASSUME F!HistoryBounds, HistoryInv
  PROVE  followerFollowers - followerGained[followerToday] = F!AtEnd(followerToday - 1)
<1> DEFINE t == followerToday
           g == followerGained
           y == t - 1
<1>1. /\ DayBounds /\ F!Days = 1..MaxDay /\ MaxDay \in Nat /\ t \in 1..MaxDay
      /\ followerFollowers \in Int /\ g \in [F!Days -> Int]
      /\ \A d \in F!Days : d > t => g[d] = 0
  BY HistoryParts DEF HistoryInv, HistoryTypes
<1>2. t \in 0..MaxDay /\ y \in 0..MaxDay
  BY <1>1
<1>3. Gains(g)[MaxDay] = Gains(g)[t]
  <2> HIDE DEF g, t
  <2>1. QED
    BY <1>1, <1>2, GainsEnd
<1>4. Gains(g)[t] = Gains(g)[y] + g[t] /\ Gains(g)[y] \in Int /\ g[t] \in Int
  BY <1>1, <1>2, GainsAre
<1>5. F!AtEnd(y) = followerFollowers - (Gains(g)[MaxDay] - Gains(g)[y])
  BY <1>1, <1>2, AtEndIs
<1> DEFINE f == followerFollowers
           a == Gains(g)[MaxDay]
           b == Gains(g)[y]
           n == g[t]
<1>6. a = b + n /\ b \in Int /\ n \in Int /\ f \in Int /\ F!AtEnd(y) = f - (a - b)
  BY <1>1, <1>3, <1>4, <1>5
<1>7. f - n = F!AtEnd(y)
  <2> HIDE DEF a, b, n, f, y
  <2>1. QED
    BY <1>6
<1>8. QED
  BY <1>7

LEMMA ReadSeriesKeeps ==
  ASSUME F!HistoryBounds, HistoryInv, NEW c \in Callers, F!ReadSeries(c)
  PROVE  HistoryInv'
<1> DEFINE s == followerSeen[c]
           t == followerToday
           read == [d \in 1..t |-> [day |-> d, delta |-> followerGained[d]]]
           soon == s.count # followerFollowers \/ s.day # t
           row == [s EXCEPT !.series = read, !.early = soon]
<1>0. UNCHANGED <<followerToday, followerFollowers, followerGained, followerSnapshot>>
  BY DEF F!ReadSeries, F!world
<1>1. CASE F!End(c)
  BY <1>0, <1>1, EndKeeps
<1>2. CASE /\ followerSeen' = [followerSeen EXCEPT ![c].series = read, ![c].early = soon]
           /\ F!Goto(c, "observed")
  <2>1. /\ t \in 1..MaxDay /\ F!Days = 1..MaxDay /\ HistoryTypes /\ SameDay /\ MaxDay \in Nat
        /\ followerPc[c] = "series" /\ RowFits(c) /\ s.day \in 1..t /\ SeenShaped
        /\ followerGained \in [1..MaxDay -> Int]
    BY HistoryParts DEF HistoryInv, HistoryTypes, F!ReadSeries, Recorded
  <2>2. /\ followerPc' = [followerPc EXCEPT ![c] = "observed"]
        /\ followerPc \in [Callers -> Recorded \cup {"new", "record", "done"}]
    BY <1>2, <2>1 DEF F!Goto, HistoryTypes
  <2>3. followerSeen' = [followerSeen EXCEPT ![c] = row]
    BY <1>2
  <2>4. /\ row = [count |-> row.count, day |-> row.day, series |-> row.series,
                  totals |-> row.totals, observed |-> row.observed, early |-> row.early]
        /\ row.count = s.count /\ row.day = s.day /\ row.series = read /\ row.early = soon
    <3>1. s = [count |-> s.count, day |-> s.day, series |-> s.series,
               totals |-> s.totals, observed |-> s.observed, early |-> s.early]
      BY <2>1 DEF SeenShaped
    <3> HIDE DEF s, soon, read
    <3> DEFINE mid == [s EXCEPT !.series = read]
    <3>2. mid = [count |-> s.count, day |-> s.day, series |-> read,
                 totals |-> s.totals, observed |-> s.observed, early |-> s.early]
      BY <3>1
    <3>3. row = [mid EXCEPT !.early = soon]
      OBVIOUS
    <3> HIDE DEF mid, row
    <3>4. row = [count |-> s.count, day |-> s.day, series |-> read,
                 totals |-> s.totals, observed |-> s.observed, early |-> soon]
      BY <3>2, <3>3
    <3> HIDE DEF row
    <3>5. QED
      BY <3>4
  <2> HIDE DEF row
  <2>5. /\ SeenShaped' /\ followerSeen'[c] = row
        /\ \A e \in Callers \ {c} : followerSeen'[e] = followerSeen[e]
    BY <2>1, <2>3, <2>4, SeenThen
  <2>6. followerPc'[c] = "observed" /\ \A e \in Callers \ {c} : followerPc'[e] = followerPc[e]
    BY <2>2
  <2>7. HistoryTypes'
    <3>1. soon \in BOOLEAN
      OBVIOUS
    <3>2. row.early \in BOOLEAN
      BY <3>1, <2>4
    <3> HIDE DEF soon
    <3>3. \A e \in Callers : /\ followerSeen'[e].count \in Int /\ followerSeen'[e].early \in BOOLEAN
                             /\ followerPc'[e] \in Recorded => followerSeen'[e].day \in 1..t
      BY <2>1, <2>4, <2>5, <2>6, <3>2 DEF HistoryTypes
    <3>4. followerPc' \in [Callers -> Recorded \cup {"new", "record", "done"}]
      BY <2>2 DEF Recorded
    <3>5. QED
      BY <2>1, <2>5, <3>3, <3>4, <1>0 DEF HistoryTypes, F!NoRow, F!Days
  <2>8. SameDay'
    BY <2>1, <2>4, <2>5, <2>6 DEF SameDay, Filling
  <2>9. RowFits(c)' /\ TotalsFit(c)'
    BY <2>1, <2>4, <2>5, <2>6, <1>0 DEF RowFits, TotalsFit, Filling
  <2>10. SeriesFits(c)'
    <3>1. read \in [1..t -> [day : Int, delta : Int]] /\ \A d \in 1..t : read[d].day = d
      BY <2>1
    <3>2. \A d \in 1..t : read[d].delta = followerGained[d]
      OBVIOUS
    <3>3. ~ soon => s.count = followerFollowers /\ s.day = t
      OBVIOUS
    <3>4. followerFollowers - followerGained[t] = F!AtEnd(t - 1) /\ t \in 1..t
      BY <2>1, Yesterday
    <3>5. F!AtEnd(t - 1)' = F!AtEnd(t - 1)
      BY <1>0, EndsStay
    <3> HIDE DEF soon, read
    <3>6. ~ soon => s.count - read[t].delta = F!AtEnd(t - 1)
      BY <3>2, <3>3, <3>4
    <3> DEFINE Fits(last) ==
                 /\ row.series \in [1..last -> [day : Int, delta : Int]]
                 /\ \A d \in 1..last : row.series[d].day = d
                 /\ ~ row.early =>
                      /\ last = row.day
                      /\ \A d \in 1..last : d < last => row.series[d].delta = followerGained[d]
                      /\ row.count - row.series[last].delta = F!AtEnd(last - 1)
    <3>7. Fits(t)
      BY <2>4, <3>1, <3>2, <3>3, <3>6
    <3>8. QED
      BY <3>4, <3>5, <3>7, <2>5, <1>0 DEF SeriesFits
  <2>11. QED
    BY <2>5, <2>6, <2>7, <2>8, <2>9, <2>10, <1>0, CallerStep
<1>3. QED
  BY <1>1, <1>2 DEF F!ReadSeries

\* The walk back: it sees the changes of the days before, whatever today's has become.
LEMMA WalkFits ==
  ASSUME F!HistoryBounds, HistoryInv, NEW last \in 1..followerToday,
         NEW series \in [1..last -> [day : Int, delta : Int]], NEW count \in Int,
         \A d \in 1..last : series[d].day = d
  PROVE  /\ DOMAIN F!Totals(series, count) \subseteq 1..last
         /\ \A d \in DOMAIN F!Totals(series, count) : F!Totals(series, count)[d] \in Int
         /\ /\ \A d \in 1..last : d < last => series[d].delta = followerGained[d]
            /\ count - series[last].delta = F!AtEnd(last - 1)
            => \A d \in DOMAIN F!Totals(series, count) :
                 d < last => F!Totals(series, count)[d] = F!AtEnd(d)
<1> DEFINE g == followerGained
           y == last - 1
           h == [e \in F!Days |-> IF e <= last THEN series[e].delta ELSE 0]
           T == F!Totals(series, count)
<1>1. /\ DayBounds /\ F!Days = 1..MaxDay /\ MaxDay \in Nat /\ followerToday \in 1..MaxDay
      /\ followerFollowers \in Int /\ g \in [F!Days -> Int]
  BY HistoryParts
<1>2. /\ last \in 1..MaxDay /\ last \in 0..MaxDay /\ y \in 0..MaxDay /\ last \in Int
      /\ last \in F!Days /\ last \in 1..last
  BY <1>1
<1>3. h \in [F!Days -> Int]
  BY <1>1, <1>2
<1>4. \A i \in 1..last : series[i].day = i /\ series[i].delta = h[i]
  BY <1>1, <1>2
<1> HIDE DEF h
<1>5. /\ DOMAIN T \subseteq 1..last
      /\ \A d \in DOMAIN T : T[d] = count - (Gains(h)[last] - Gains(h)[d])
  BY <1>1, <1>2, <1>3, <1>4, TotalsAre
<1>6. \A e \in 0..MaxDay : Gains(h)[e] \in Int /\ Gains(g)[e] \in Int
  BY <1>1, <1>3, GainsAre
<1> HIDE DEF T
<1>7. \A d \in DOMAIN T : T[d] \in Int /\ d \in 1..last /\ d \in 0..MaxDay /\ d \in Int
  <2>1. SUFFICES ASSUME NEW d \in DOMAIN T PROVE T[d] \in Int /\ d \in 1..last /\ d \in 0..MaxDay
    BY <1>5
  <2>2. d \in 1..last /\ d \in 0..MaxDay
    BY <1>5, <1>1, <1>2
  <2>3. Gains(h)[last] \in Int /\ Gains(h)[d] \in Int
    BY <2>2, <1>2, <1>6
  <2>4. QED
    BY <2>2, <2>3, <1>5
<1>8. ASSUME \A d \in 1..last : d < last => series[d].delta = g[d],
             count - series[last].delta = F!AtEnd(y), NEW d \in DOMAIN T, d < last
      PROVE  T[d] = F!AtEnd(d)
  <2>1. \A e \in F!Days : e <= y => h[e] = g[e]
    BY <1>1, <1>2, <1>4, <1>8
  <2>2. d \in 0..y /\ d \in 0..MaxDay /\ y \in 0..y
    BY <1>2, <1>7, <1>8
  <2>3. Gains(h)[d] = Gains(g)[d] /\ Gains(h)[y] = Gains(g)[y]
    <3> HIDE DEF g, y
    <3>1. \A e \in 0..y : Gains(h)[e] = Gains(g)[e]
      BY <1>1, <1>2, <1>3, <2>1, GainsAgree
    <3>2. QED
      BY <3>1, <2>2
  <2>4. Gains(h)[last] = Gains(h)[y] + h[last] /\ h[last] = series[last].delta
    BY <1>1, <1>2, <1>3, <1>4, GainsAre
  <2>5. F!AtEnd(y) = followerFollowers - (Gains(g)[MaxDay] - Gains(g)[y])
        /\ F!AtEnd(d) = followerFollowers - (Gains(g)[MaxDay] - Gains(g)[d])
    BY <1>1, <1>2, <2>2, AtEndIs
  <2> DEFINE all == Gains(g)[MaxDay]
             gy == Gains(g)[y]
             gd == Gains(g)[d]
             f == followerFollowers
             n == series[last].delta
  <2>6. /\ all \in Int /\ gy \in Int /\ gd \in Int /\ f \in Int /\ n \in Int
        /\ MaxDay \in 0..MaxDay
    <3>1. MaxDay \in 0..MaxDay
      BY <1>1
    <3>2. h[last] \in Int
      BY <1>2, <1>3
    <3>3. QED
      BY <3>1, <3>2, <2>2, <2>4, <1>1, <1>2, <1>6
  <2>7. T[d] = count - ((gy + n) - gd)
    BY <1>5, <2>3, <2>4
  <2>8. count - n = f - (all - gy) /\ F!AtEnd(d) = f - (all - gd)
    BY <1>8, <2>5
  <2> HIDE DEF all, gy, gd, f, n
  <2>9. QED
    BY <2>6, <2>7, <2>8
<1>9. QED
  BY <1>5, <1>7, <1>8 DEF T

LEMMA ReadObservedKeeps ==
  ASSUME F!HistoryBounds, HistoryInv, NEW c \in Callers, F!ReadObserved(c)
  PROVE  HistoryInv'
<1> DEFINE s == followerSeen[c]
           t == followerToday
           totals == F!Totals(s.series, s.count)
           found == {d \in DOMAIN totals : followerSnapshot[d].kind = "observed"}
           row == [s EXCEPT !.totals = totals, !.observed = found]
<1>0. UNCHANGED <<followerToday, followerFollowers, followerGained, followerSnapshot>>
  BY DEF F!ReadObserved, F!world
<1>1. /\ t \in 1..MaxDay /\ F!Days = 1..MaxDay /\ HistoryTypes /\ SameDay /\ MaxDay \in Nat
      /\ followerPc[c] = "observed" /\ RowFits(c) /\ SeriesFits(c) /\ s.day \in 1..t /\ SeenShaped
      /\ s.count \in Int
  BY HistoryParts DEF HistoryInv, HistoryTypes, F!ReadObserved, Recorded
<1>2. /\ followerPc' = [followerPc EXCEPT ![c] = "write"]
      /\ followerPc \in [Callers -> Recorded \cup {"new", "record", "done"}]
  BY <1>1 DEF F!ReadObserved, F!Goto, HistoryTypes
<1>3. followerSeen' = [followerSeen EXCEPT ![c] = row]
  BY DEF F!ReadObserved
<1>4. /\ row = [count |-> row.count, day |-> row.day, series |-> row.series,
                totals |-> row.totals, observed |-> row.observed, early |-> row.early]
      /\ row.count = s.count /\ row.day = s.day /\ row.early = s.early
      /\ row.totals = totals /\ row.observed = found
  <2>1. s = [count |-> s.count, day |-> s.day, series |-> s.series,
             totals |-> s.totals, observed |-> s.observed, early |-> s.early]
    BY <1>1 DEF SeenShaped
  <2> HIDE DEF s, totals, found
  <2> DEFINE mid == [s EXCEPT !.totals = totals]
  <2>2. mid = [count |-> s.count, day |-> s.day, series |-> s.series,
               totals |-> totals, observed |-> s.observed, early |-> s.early]
    BY <2>1
  <2>3. row = [mid EXCEPT !.observed = found]
    OBVIOUS
  <2> HIDE DEF mid, row
  <2>4. row = [count |-> s.count, day |-> s.day, series |-> s.series,
               totals |-> totals, observed |-> found, early |-> s.early]
    BY <2>2, <2>3
  <2>5. QED
    BY <2>4
<1> HIDE DEF row
<1>5. /\ SeenShaped' /\ followerSeen'[c] = row
      /\ \A e \in Callers \ {c} : followerSeen'[e] = followerSeen[e]
  BY <1>1, <1>3, <1>4, SeenThen
<1>6. followerPc'[c] = "write" /\ \A e \in Callers \ {c} : followerPc'[e] = followerPc[e]
  BY <1>2
<1>7. HistoryTypes'
  <2>1. \A e \in Callers : /\ followerSeen'[e].count \in Int /\ followerSeen'[e].early \in BOOLEAN
                           /\ followerPc'[e] \in Recorded => followerSeen'[e].day \in 1..t
    BY <1>1, <1>4, <1>5, <1>6 DEF HistoryTypes
  <2>2. followerPc' \in [Callers -> Recorded \cup {"new", "record", "done"}]
    BY <1>2 DEF Recorded
  <2>3. QED
    BY <1>1, <1>5, <2>1, <2>2, <1>0 DEF HistoryTypes, F!NoRow, F!Days
<1>8. SameDay'
  BY <1>1, <1>4, <1>5, <1>6 DEF SameDay, Filling
<1>9. RowFits(c)' /\ SeriesFits(c)'
  BY <1>1, <1>4, <1>5, <1>6, <1>0 DEF RowFits, SeriesFits, Filling
<1>10. TotalsFit(c)'
  <2> DEFINE Fits(last) ==
               /\ s.series \in [1..last -> [day : Int, delta : Int]]
               /\ \A d \in 1..last : s.series[d].day = d
               /\ ~ s.early =>
                    /\ last = s.day
                    /\ \A d \in 1..last : d < last => s.series[d].delta = followerGained[d]
                    /\ s.count - s.series[last].delta = F!AtEnd(last - 1)
  <2>1. PICK last \in 1..t : Fits(last)
    BY <1>1 DEF SeriesFits
  <2>2. /\ DOMAIN totals \subseteq 1..last
        /\ \A d \in DOMAIN totals : totals[d] \in Int
        /\ /\ \A d \in 1..last : d < last => s.series[d].delta = followerGained[d]
           /\ s.count - s.series[last].delta = F!AtEnd(last - 1)
           => \A d \in DOMAIN totals : d < last => totals[d] = F!AtEnd(d)
    BY <2>1, <1>1, WalkFits
  <2> HIDE DEF totals
  <2>3. ~ s.early => /\ last = s.day
                     /\ \A d \in DOMAIN totals : d < s.day => totals[d] = F!AtEnd(d)
    BY <2>1, <2>2
  <2>4. DOMAIN totals \subseteq 1..t /\ \A d \in DOMAIN totals : d <= last /\ d \in Int
    BY <2>1, <2>2, <1>1
  <2>5. \A d : F!AtEnd(d)' = F!AtEnd(d)
    BY <1>0, EndsStay
  <2>6. \A d \in DOMAIN totals : followerSnapshot[d].kind = "observed" => d \in found
    OBVIOUS
  <2> HIDE DEF found, s
  <2>7. QED
    BY <2>2, <2>3, <2>4, <2>5, <2>6, <1>0, <1>4, <1>5 DEF TotalsFit
<1>11. QED
  BY <1>0, <1>5, <1>6, <1>7, <1>8, <1>9, <1>10, CallerStep

\* The write spares the day its caller recorded, which others may have recorded too;
\* a later day whose row it takes has that one beside it.
LEMMA BackfillKeeps ==
  ASSUME F!HistoryBounds, HistoryInv, NEW c \in Callers, F!Backfill(c)
  PROVE  HistoryInv'
<1> DEFINE s == followerSeen[c]
           t == followerToday
           days == DOMAIN s.totals \ s.observed
           kind == IF s.early THEN "guessed" ELSE "backfilled"
<1>1. /\ t \in 1..MaxDay /\ F!Days = 1..MaxDay /\ HistoryTypes /\ SameDay /\ MaxDay \in Nat
      /\ followerPc[c] = "write" /\ RowFits(c) /\ TotalsFit(c) /\ s.day \in 1..t /\ SeenShaped
      /\ F!TotalsAreTrue /\ s.early \in BOOLEAN
  BY HistoryParts DEF HistoryInv, HistoryTypes, F!Backfill, Recorded
<1>2. /\ followerSnapshot' = [d \in F!Days |->
           IF d \in days THEN [count |-> s.totals[d], kind |-> kind] ELSE followerSnapshot[d]]
      /\ F!End(c) /\ UNCHANGED <<followerToday, followerFollowers, followerGained>>
  BY DEF F!Backfill, F!world
<1>3. \A d : F!AtEnd(d)' = F!AtEnd(d)
  BY <1>2, EndsStay
<1>4. /\ SeenShaped' /\ followerSeen'[c] = F!NoRead
      /\ \A e \in Callers \ {c} : followerSeen'[e] = followerSeen[e]
      /\ F!NoRead.count = 0 /\ F!NoRead.early \in BOOLEAN
  <2> DEFINE row == F!NoRead
  <2>1. /\ row = [count |-> row.count, day |-> row.day, series |-> row.series,
                  totals |-> row.totals, observed |-> row.observed, early |-> row.early]
        /\ row.count = 0 /\ row.early \in BOOLEAN
    BY DEF F!NoRead
  <2>2. followerSeen' = [followerSeen EXCEPT ![c] = row]
    BY <1>2 DEF F!End
  <2> HIDE DEF row
  <2>3. /\ SeenShaped' /\ followerSeen'[c] = row
        /\ \A e \in Callers \ {c} : followerSeen'[e] = followerSeen[e]
    BY <1>1, <2>1, <2>2, SeenThen
  <2>4. QED
    BY <2>1, <2>3 DEF row
<1>5. /\ followerPc'[c] = "done" /\ \A e \in Callers \ {c} : followerPc'[e] = followerPc[e]
      /\ followerPc' \in [Callers -> Recorded \cup {"new", "record", "done"}]
  BY <1>1, <1>2 DEF F!End, F!Goto, HistoryTypes
<1>6. /\ days \subseteq 1..t
      /\ \A d \in days : /\ d \in F!Days /\ d \in Int /\ d <= t /\ s.totals[d] \in Int
                         /\ d <= s.day => followerSnapshot[d].kind # "observed"
                         /\ ~ s.early => d < s.day /\ s.totals[d] = F!AtEnd(d)
  <2>1. DOMAIN s.totals \subseteq 1..t
    BY <1>1 DEF TotalsFit
  <2>2. followerSnapshot[s.day].kind = "observed" /\ s.day \in Int
    BY <1>1 DEF RowFits, Filling
  <2>3. ASSUME NEW d \in days
        PROVE  /\ d \in F!Days /\ d \in Int /\ d <= t /\ s.totals[d] \in Int
               /\ d <= s.day => followerSnapshot[d].kind # "observed"
               /\ ~ s.early => d < s.day /\ s.totals[d] = F!AtEnd(d)
    <3>1. d \in DOMAIN s.totals /\ d \notin s.observed /\ d \in 1..t
      BY <2>1
    <3>2. /\ s.totals[d] \in Int
          /\ d <= s.day => followerSnapshot[d].kind # "observed"
          /\ ~ s.early => /\ d <= s.day
                          /\ d < s.day => s.totals[d] = F!AtEnd(d)
      BY <3>1, <1>1 DEF TotalsFit
    <3>3. d # s.day
      BY <3>2, <2>2
    <3>4. QED
      BY <3>1, <3>2, <3>3, <2>2, <1>1
  <2>4. QED
    BY <2>1, <2>3
<1> HIDE DEF days
<1>7. /\ \A d \in F!Days : d \notin days => followerSnapshot'[d] = followerSnapshot[d]
      /\ \A d \in days : /\ followerSnapshot'[d].count = s.totals[d]
                         /\ followerSnapshot'[d].kind = kind
  BY <1>2, <1>6
<1>8. /\ kind \in {"guessed", "backfilled"} /\ kind \notin {"none", "observed"}
      /\ kind = "backfilled" => ~ s.early
  BY <1>1
<1> HIDE DEF kind
<1>9. followerSnapshot' \in [F!Days -> [count : Int, kind : Kinds]]
  <2>1. \A d \in days : [count |-> s.totals[d], kind |-> kind] \in [count : Int, kind : Kinds]
    BY <1>6, <1>8 DEF Kinds
  <2>2. \A d \in F!Days : followerSnapshot[d] \in [count : Int, kind : Kinds]
    BY <1>1 DEF HistoryTypes
  <2>3. QED
    BY <2>1, <2>2, <1>2
<1>10. HistoryTypes'
  <2>1. \A e \in Callers : /\ followerSeen'[e].count \in Int /\ followerSeen'[e].early \in BOOLEAN
                           /\ followerPc'[e] \in Recorded => followerSeen'[e].day \in 1..t
    <3>1. \A e \in Callers \ {c} :
            /\ followerSeen'[e].count \in Int /\ followerSeen'[e].early \in BOOLEAN
            /\ followerPc'[e] \in Recorded => followerSeen'[e].day \in 1..t
      BY <1>1, <1>4, <1>5 DEF HistoryTypes
    <3>2. "done" \notin Recorded /\ 0 \in Int
      BY DEF Recorded
    <3>3. followerSeen'[c].count \in Int /\ followerSeen'[c].early \in BOOLEAN
      BY <1>4, <3>2
    <3>4. QED
      BY <3>1, <3>2, <3>3, <1>5
  <2>2. \A d \in F!Days : d > t => followerGained[d] = 0 /\ followerSnapshot'[d] = F!NoRow
    <3>1. \A d \in F!Days : d > t => d \notin days
      BY <1>1, <1>6
    <3>2. QED
      BY <3>1, <1>1, <1>7 DEF HistoryTypes
  <2>3. \A d \in F!Days : followerSnapshot'[d].kind = "backfilled" => d < t
    <3>1. ASSUME NEW d \in F!Days, followerSnapshot'[d].kind = "backfilled" PROVE d < t
      <4>1. CASE d \in days
        BY <4>1, <3>1, <1>1, <1>6, <1>7, <1>8
      <4>2. CASE d \notin days
        BY <4>2, <3>1, <1>1, <1>7 DEF HistoryTypes
      <4>3. QED
        BY <4>1, <4>2
    <3>2. QED
      BY <3>1
  <2>4. QED
    BY <1>1, <1>2, <1>4, <1>5, <1>9, <2>1, <2>2, <2>3 DEF HistoryTypes, F!NoRow, F!Days
<1>11. SameDay'
  BY <1>1, <1>4, <1>5 DEF SameDay, Filling
<1>12. F!TotalsAreTrue'
  <2>1. ASSUME NEW d \in F!Days, d < t, followerSnapshot'[d].kind = "backfilled"
        PROVE  followerSnapshot'[d].count = F!AtEnd(d)
    <3>1. CASE d \in days
      BY <3>1, <2>1, <1>6, <1>7, <1>8
    <3>2. CASE d \notin days
      BY <3>2, <2>1, <1>1, <1>7 DEF F!TotalsAreTrue
    <3>3. QED
      BY <3>1, <3>2
  <2>2. QED
    BY <2>1, <1>2, <1>3 DEF F!TotalsAreTrue, F!Days
\* A row that was there is there still; the caller's own is observed.
<1>13. /\ \A d \in F!Days : followerSnapshot[d].kind # "none" => followerSnapshot'[d].kind # "none"
       /\ s.day \in F!Days /\ s.day \notin days /\ followerSnapshot[s.day].kind = "observed"
  <2>1. followerSnapshot[s.day].kind = "observed" /\ s.day \in F!Days
    BY <1>1 DEF RowFits, Filling
  <2>2. s.day \notin days
    BY <2>1, <1>1, <1>6
  <2>3. QED
    BY <2>1, <2>2, <1>7, <1>8
<1>14. ASSUME NEW e \in Callers, e # c PROVE RowFits(e)' /\ SeriesFits(e)' /\ TotalsFit(e)'
  <2>1. /\ followerPc'[e] = followerPc[e] /\ followerSeen'[e] = followerSeen[e]
        /\ RowFits(e) /\ SeriesFits(e) /\ TotalsFit(e)
    BY <1>4, <1>5, <1>14 DEF HistoryInv
  <2> DEFINE r == followerSeen[e]
  <2>2. followerPc[e] \in Recorded => r.day \in F!Days /\ r.day \in Int
    BY <1>1 DEF HistoryTypes
  <2>3. RowFits(e)'
    <3>1. CASE followerPc[e] = "count"
      <4>1. r.day \in F!Days /\ followerSnapshot'[r.day].kind # "none"
        BY <3>1, <2>1, <2>2, <1>13 DEF RowFits, Recorded
      <4>2. CASE r.day \in days
        <5>1. s.day # r.day /\ followerSnapshot'[s.day].kind # "none"
          BY <4>2, <1>13
        <5>2. QED
          BY <5>1, <4>1, <3>1, <2>1, <1>13 DEF RowFits, F!Days, Filling
      <4>3. CASE r.day \notin days
        <5>1. \/ followerSnapshot'[r.day].kind = "observed"
              \/ \E x \in F!Days : x # r.day /\ followerSnapshot'[x].kind # "none"
          BY <4>1, <4>3, <3>1, <2>1, <1>7, <1>13 DEF RowFits
        <5>2. QED
          BY <5>1, <4>1, <3>1, <2>1 DEF RowFits, F!Days, Filling
      <4>4. QED
        BY <4>2, <4>3
    <3>2. CASE followerPc[e] \in Filling
      <4>1. r.day = s.day
        BY <3>2, <1>1 DEF SameDay, Filling
      <4>2. followerSnapshot'[r.day].kind = "observed"
        BY <4>1, <1>7, <1>13
      <4>3. QED
        BY <4>2, <3>2, <2>1 DEF RowFits, Filling
    <3>3. CASE followerPc[e] # "count" /\ followerPc[e] \notin Filling
      BY <3>3, <2>1 DEF RowFits
    <3>4. QED
      BY <3>1, <3>2, <3>3
  <2>4. SeriesFits(e)'
    BY <2>1, <1>2, <1>3, SeriesStay
  <2>5. TotalsFit(e)'
    <3>1. SUFFICES ASSUME followerPc[e] = "write" PROVE TotalsFit(e)'
      BY <2>1 DEF TotalsFit
    <3>2. ASSUME NEW d \in DOMAIN r.totals, d <= r.day, followerSnapshot'[d].kind = "observed"
          PROVE  d \in r.observed
      <4>1. d \in F!Days
        BY <3>1, <3>2, <2>1, <1>1 DEF TotalsFit
      <4>2. followerSnapshot[d].kind = "observed"
        BY <4>1, <3>2, <1>7, <1>8
      <4>3. QED
        BY <4>2, <3>1, <3>2, <2>1 DEF TotalsFit
    <3>3. QED
      BY <3>1, <3>2, <2>1, <1>2, <1>3 DEF TotalsFit
  <2>6. QED
    BY <2>3, <2>4, <2>5
<1>15. RowFits(c)' /\ SeriesFits(c)' /\ TotalsFit(c)'
  BY <1>5 DEF RowFits, SeriesFits, TotalsFit, Filling
<1>16. QED
  BY <1>10, <1>11, <1>12, <1>14, <1>15 DEF HistoryInv

LEMMA HistoryNext ==
  ASSUME F!HistoryBounds, HistoryInv, [F!Next]_(F!vars)
  PROVE  HistoryInv'
<1>1. CASE UNCHANGED F!vars
  <2>1. UNCHANGED <<followerToday, followerFollowers, followerGained, followerSnapshot,
                    followerPc, followerSeen>>
    BY <1>1 DEF F!vars, F!world
  <2>2. \A d : F!AtEnd(d)' = F!AtEnd(d)
    BY <2>1, EndsStay
  <2>3. HistoryTypes' /\ SameDay' /\ F!TotalsAreTrue'
    BY <2>1, <2>2
       DEF HistoryInv, HistoryTypes, SeenShaped, F!NoRow, F!Days, SameDay, F!TotalsAreTrue
  <2>4. ASSUME NEW c \in Callers PROVE RowFits(c)' /\ SeriesFits(c)' /\ TotalsFit(c)'
    <3>1. RowFits(c)' /\ TotalsFit(c)'
      BY <2>1, <2>2 DEF HistoryInv, RowFits, TotalsFit, F!Days
    <3>2. SeriesFits(c)'
      BY <2>1, <2>2, SeriesStay DEF HistoryInv
    <3>3. QED
      BY <3>1, <3>2
  <2>5. QED
    BY <2>3, <2>4 DEF HistoryInv
<1>2. CASE \E n \in Changes : F!Follow(n)
  BY <1>2, FollowingKeeps
<1>3. CASE F!Midnight
  BY <1>3, MidnightKeeps
<1>4. ASSUME NEW c \in Callers,
             \/ F!ReadCount(c) \/ F!Record(c) \/ F!CountRows(c) \/ F!ReadSeries(c)
             \/ F!ReadObserved(c) \/ F!Backfill(c) \/ F!Fails(c)
      PROVE  HistoryInv'
  BY <1>4, ReadCountKeeps, DayRecordKeeps, CountRowsKeeps, ReadSeriesKeeps, ReadObservedKeeps,
     BackfillKeeps, HistoryFailsKeeps
<1>5. QED
  BY <1>1, <1>2, <1>3, <1>4 DEF F!Next

\* Whatever the callers find, whoever records beside them and whenever midnight comes, what a
\* caller has read says of the days gone by what they were.
THEOREM HistoryInvariance ==
  ASSUME F!HistoryBounds
  PROVE  F!Spec => []HistoryInv
<1>1. F!Init => HistoryInv
  BY HistoryStarts
<1>2. HistoryInv /\ [F!Next]_(F!vars) => HistoryInv'
  BY HistoryNext
<1>3. QED
  BY <1>1, <1>2, PTL DEF F!Spec

\* For any callers, days and changes: the total filled in for a day gone by is the number of
\* followers it ended with, when count and changes were read on one day with nothing between,
\* and a backfill takes no observed row of a day up to the one its caller recorded.
THEOREM HistoryIsKept ==
  ASSUME F!HistoryBounds
  PROVE  F!Spec => []F!TypeOK /\ HistoryHolds
<1>1. HistoryInv => F!TypeOK /\ F!TotalsAreTrue
  BY DEF HistoryInv, HistoryTypes, F!TypeOK, Kinds
<1> DEFINE Takes == \A d \in F!Days :
                      followerSnapshot[d].kind = "observed"
                      /\ followerSnapshot'[d].kind # "observed"
                        => \E c \in Callers : followerPc[c] = "write" /\ d > followerSeen[c].day
<1>2. HistoryInv /\ [F!Next]_(F!vars) => [Takes]_(F!vars)
  <2> SUFFICES ASSUME HistoryInv, F!Next, NEW d \in F!Days,
                      followerSnapshot[d].kind = "observed", followerSnapshot'[d].kind # "observed"
               PROVE  \E c \in Callers : followerPc[c] = "write" /\ d > followerSeen[c].day
    OBVIOUS
  <2>1. /\ followerSnapshot \in [F!Days -> [count : Int, kind : Kinds]]
        /\ followerToday \in F!Days
    BY DEF HistoryInv, HistoryTypes
  <2>2. ASSUME NEW c \in Callers, F!Record(c) PROVE followerSnapshot'[d].kind = "observed"
    BY <2>1, <2>2 DEF F!Record
  <2>3. PICK c \in Callers : F!Backfill(c)
    BY <2>2 DEF F!Next, F!Follow, F!Midnight, F!ReadCount, F!CountRows, F!ReadSeries,
                F!ReadObserved, F!Fails
  <2>4. /\ followerPc[c] = "write" /\ TotalsFit(c) /\ followerSeen[c].day \in 1..followerToday
        /\ followerToday \in 1..MaxDay /\ F!Days = 1..MaxDay
    BY <2>3, HistoryParts DEF F!Backfill, HistoryInv, HistoryTypes, Recorded
  <2>5. d \in DOMAIN followerSeen[c].totals \ followerSeen[c].observed
    BY <2>3 DEF F!Backfill
  <2>6. d \in Int /\ followerSeen[c].day \in Int
    BY <2>4
  <2>7. ~ (d <= followerSeen[c].day)
    BY <2>4, <2>5 DEF TotalsFit
  <2>8. QED
    BY <2>4, <2>6, <2>7
<1>3. QED
  BY <1>1, <1>2, HistoryInvariance, PTL DEF F!Spec, HistoryHolds, F!HistoryHolds, F!ObservedStays

-----------------------------------------------------------------------------
(* Campaigns: the invariant *)

CampaignPlaces == {"new", "import", "primary", "write first", "secondary", "write second",
                   "answer", "list", "media", "bind", "done"}
Editing == {"primary", "write first", "secondary", "write second", "answer"}

Target == [post : Nat, any : BOOLEAN, next : BOOLEAN]
TrackedLink == [id : Nat, url : {"u", "v", "w", "x"}, made : Nat]
Automation ==
  [live : BOOLEAN, target : Target, slug : Nat, born : Nat, links : Seq(TrackedLink),
   from : Callers \cup {"no one"}, imported : Nat, by : Callers \cup {"no one", "several"},
   bound : Nat \X Nat, raced : BOOLEAN]
Changed ==
  [c : Nat, target : Target, primary : {"keep", "empty", "w"}, secondary : {"keep", "empty", "x"},
   before : Seq(TrackedLink), link : Nat, posts : Seq(Nat), used : SUBSET Nat,
   todo : SUBSET Nat, seen : Nat, reels : SUBSET Nat]

CampaignTypes ==
  /\ campaignRows \in Seq(Automation) /\ Len(campaignRows) <= MaxCampaigns
  /\ campaignMedia \in Seq(BOOLEAN) /\ Len(campaignMedia) <= MaxMedia
  /\ campaignConnected \in BOOLEAN /\ campaignLinks \in Nat /\ campaignSlugs \in Nat
  /\ campaignPc \in [Callers -> CampaignPlaces]
  /\ campaignReq \in [Callers -> Changed]

\* One of the three ways to choose posts.
Single(t) ==
  \/ t.post # 0 /\ ~ t.any /\ ~ t.next
  \/ t.post = 0 /\ t.any /\ ~ t.next
  \/ t.post = 0 /\ ~ t.any /\ t.next

\* Links were numbered as they were made, each once, and stand in the order of their times.
LinksFit(own, last) ==
  /\ \A i \in 1..Len(own) : own[i].id \in 1..last /\ own[i].made \in 1..last
  /\ \A i, j \in 1..Len(own) : own[i].id = own[j].id => i = j
  /\ \A i, j \in 1..Len(own) : i < j => own[i].made <= own[j].made

\* A row bound to a reel: the first since it was made, of the page that was read.
BoundFits(r, posts) ==
  r.bound[1] # 0 =>
    /\ r.born < r.bound[1] /\ r.bound[1] <= Len(posts)
    /\ \A i \in 1..Len(posts) :
         posts[i] /\ r.born < i /\ i < r.bound[1] => i + Page <= r.bound[2]

\* What a row says by itself, of the media, the links and the slugs there are.
GoodRow(r, posts, last, top) ==
  /\ r.target.post <= Len(posts) /\ r.slug <= top
  /\ LinksFit(r.links, last)
  /\ ~ r.raced => Single(r.target)
  /\ BoundFits(r, posts)

RowsAreGood ==
  \A c \in 1..Len(campaignRows) :
    GoodRow(campaignRows[c], campaignMedia, campaignLinks, campaignSlugs)

\* The campaign an edit is about has not changed under it.
Undisturbed(q) ==
  /\ campaignRows[campaignReq[q].c].live
  /\ campaignRows[campaignReq[q].c].by = q
Own(q) == campaignRows[campaignReq[q].c].links
Apart(own) == Len(own) = 2 => own[1].made # own[2].made
Plain(r) ==
  /\ Len(r.before) <= 2 /\ Apart(r.before)
  /\ ~ (r.primary = "empty" /\ Len(r.before) = 2)

\* An edit knows which links it found, at each of its places: r is the request, own the
\* links of its campaign.
FoundAll(r, own) == own = r.before
FoundFirst(r, own) ==
  own = r.before /\ (Plain(r) => r.link = IF Len(own) = 0 THEN 0 ELSE own[1].id)
WroteFirst(r, own) ==
  IF r.primary = "empty" THEN Len(own) = 0
  ELSE Len(own) \in {1, 2} /\ own[1].url = "w" /\ Apart(own)
FoundSecond(r, own) ==
  WroteFirst(r, own) /\ r.link = IF Len(own) = 2 THEN own[2].id ELSE 0
WroteBoth(r, own) ==
  [i \in DOMAIN own |-> own[i].url] = C!Given(r.primary, r.secondary)

\* At place p of an edit.
KnowsLinks(p, r, own) ==
  /\ p = "primary" => FoundAll(r, own)
  /\ p = "write first" => FoundFirst(r, own)
  /\ p = "secondary" /\ Plain(r) => WroteFirst(r, own)
  /\ p = "write second" /\ Plain(r) => FoundSecond(r, own)
  /\ p = "answer" /\ Plain(r) => WroteBoth(r, own)

EditFits(q) ==
  campaignPc[q] \in Editing =>
    /\ campaignReq[q].c \in 1..Len(campaignRows)
    /\ campaignReq[q].primary = "keep" <=> campaignReq[q].secondary = "keep"
    /\ campaignPc[q] # "primary" => campaignReq[q].primary # "keep"
    /\ Undisturbed(q) => KnowsLinks(campaignPc[q], campaignReq[q], Own(q))

\* An import knows the posts its own rows took.
ImportFits(q) ==
  /\ campaignPc[q] = "new" => \A c \in 1..Len(campaignRows) : campaignRows[c].from # q
  /\ campaignPc[q] = "import" =>
       /\ \A c \in 1..Len(campaignRows) :
            campaignRows[c].from = q => campaignRows[c].imported \in campaignReq[q].used
       /\ \A i \in 1..Len(campaignReq[q].posts) :
            campaignReq[q].posts[i] \in 1..Len(campaignMedia)

\* A list: what got a slug since it was read has a later one.
ListFits(q) ==
  campaignPc[q] = "list" =>
    /\ campaignReq[q].seen <= campaignSlugs
    /\ \A c \in campaignReq[q].todo :
         /\ c \in 1..Len(campaignRows)
         /\ campaignRows[c].slug # 0 => campaignReq[q].seen < campaignRows[c].slug

\* The cron: the reels of the last page, when it was read.
PageOf(posts, held, reels) ==
  /\ held <= Len(posts)
  /\ \A i \in reels : i \in 1..held
  /\ \A i \in 1..held : i \in reels <=> posts[i] /\ i + Page > held

BindFits(q) ==
  /\ campaignPc[q] \in {"media", "bind"} =>
       \A c \in campaignReq[q].todo : c \in 1..Len(campaignRows)
  /\ campaignPc[q] = "bind" =>
       PageOf(campaignMedia, campaignReq[q].seen, campaignReq[q].reels)

RequestFits(q) == EditFits(q) /\ ImportFits(q) /\ ListFits(q) /\ BindFits(q)

FileApart ==
  \A c, d \in 1..Len(campaignRows) :
    c # d /\ campaignRows[c].imported # 0 /\ campaignRows[c].from = campaignRows[d].from
      => campaignRows[c].imported # campaignRows[d].imported

CampaignInv ==
  CampaignTypes /\ RowsAreGood /\ FileApart /\ \A q \in Callers : RequestFits(q)

-----------------------------------------------------------------------------
(* Campaigns: rows and requests as data *)

LEMMA RowTyped ==
  ASSUME NEW r \in Automation
  PROVE  /\ r.live \in BOOLEAN /\ r.raced \in BOOLEAN
         /\ r.target \in Target /\ r.target.post \in Nat
         /\ r.target.any \in BOOLEAN /\ r.target.next \in BOOLEAN
         /\ r.slug \in Nat /\ r.born \in Nat /\ r.imported \in Nat
         /\ r.links \in Seq(TrackedLink) /\ Len(r.links) \in Nat
         /\ DOMAIN r.links = 1..Len(r.links)
         /\ \A i \in 1..Len(r.links) : /\ r.links[i] \in TrackedLink
                                        /\ r.links[i].id \in Nat /\ r.links[i].made \in Nat
         /\ r.bound \in Nat \X Nat /\ r.bound[1] \in Nat /\ r.bound[2] \in Nat
<1>1. r.links \in Seq(TrackedLink)
  BY DEF Automation
<1>2. /\ Len(r.links) \in Nat /\ DOMAIN r.links = 1..Len(r.links)
      /\ \A i \in 1..Len(r.links) : r.links[i] \in TrackedLink
  BY <1>1
<1>3. \A k \in TrackedLink : k.id \in Nat /\ k.made \in Nat
  BY DEF TrackedLink
<1>4. QED
  BY <1>1, <1>2, <1>3 DEF Automation, Target

LEMMA RowsTyped ==
  ASSUME NEW s \in Seq(Automation)
  PROVE  /\ Len(s) \in Nat /\ DOMAIN s = 1..Len(s)
         /\ \A c \in 1..Len(s) : s[c] \in Automation
  OBVIOUS

LEMMA ChangedTyped ==
  ASSUME NEW f \in [Callers -> Changed], NEW q \in Callers
  PROVE  /\ f[q] \in Changed /\ f[q].c \in Nat /\ f[q].link \in Nat /\ f[q].seen \in Nat
         /\ f[q].primary \in {"keep", "empty", "w"} /\ f[q].secondary \in {"keep", "empty", "x"}
         /\ f[q].before \in Seq(TrackedLink) /\ f[q].posts \in Seq(Nat)
         /\ f[q].used \in SUBSET Nat /\ f[q].todo \in SUBSET Nat /\ f[q].reels \in SUBSET Nat
  BY DEF Changed

LEMMA GoodStays ==
  ASSUME NEW r \in Automation, NEW posts \in Seq(BOOLEAN),
         NEW last \in Nat, NEW top \in Nat, NEW later \in Nat, NEW after \in Nat,
         last <= later, top <= after, GoodRow(r, posts, last, top)
  PROVE  GoodRow(r, posts, later, after)
<1>1. 1..last \subseteq 1..later
  OBVIOUS
<1>2. LinksFit(r.links, later)
  BY <1>1 DEF GoodRow, LinksFit
<1>3. r.slug <= after
  BY RowTyped DEF GoodRow
<1>4. QED
  BY <1>2, <1>3 DEF GoodRow

-----------------------------------------------------------------------------
(* Campaigns: what a step does *)

\* What a step of one request may do to a row there was.
RowMoves(q, old, new) ==
  /\ new.from = old.from /\ new.imported = old.imported
  /\ new.live => /\ old.live
                 /\ \/ new.by \in {q, "several"}
                    \/ new.by = old.by /\ new.links = old.links
  /\ new.slug = old.slug \/ campaignSlugs < new.slug

\* What it leaves to the others.
StateMoves(q) ==
  /\ Len(campaignRows) <= Len(campaignRows')
  /\ \A c \in 1..Len(campaignRows) : RowMoves(q, campaignRows[c], campaignRows'[c])
  /\ \A c \in 1..Len(campaignRows') : c > Len(campaignRows) => campaignRows'[c].from = q
  /\ Len(campaignMedia) <= Len(campaignMedia')
  /\ \A i \in 1..Len(campaignMedia) : campaignMedia'[i] = campaignMedia[i]
  /\ campaignSlugs <= campaignSlugs'

LEMMA CampaignLengths ==
  ASSUME CampaignInv
  PROVE  /\ CampaignTypes /\ RowsAreGood /\ FileApart
         /\ campaignRows \in Seq(Automation) /\ campaignMedia \in Seq(BOOLEAN)
         /\ Len(campaignRows) \in Nat /\ Len(campaignMedia) \in Nat
         /\ DOMAIN campaignRows = 1..Len(campaignRows)
         /\ DOMAIN campaignMedia = 1..Len(campaignMedia)
         /\ \A c \in 1..Len(campaignRows) : campaignRows[c] \in Automation
         /\ campaignSlugs \in Nat /\ campaignLinks \in Nat
         /\ campaignPc \in [Callers -> CampaignPlaces] /\ campaignReq \in [Callers -> Changed]
         /\ \A q \in Callers : campaignReq[q] \in Changed /\ RequestFits(q)
<1>1. CampaignTypes /\ RowsAreGood /\ FileApart /\ \A q \in Callers : RequestFits(q)
  BY DEF CampaignInv
<1>2. /\ campaignRows \in Seq(Automation) /\ campaignMedia \in Seq(BOOLEAN)
      /\ campaignSlugs \in Nat /\ campaignLinks \in Nat
      /\ campaignPc \in [Callers -> CampaignPlaces] /\ campaignReq \in [Callers -> Changed]
  BY <1>1 DEF CampaignTypes
<1>3. /\ Len(campaignRows) \in Nat /\ DOMAIN campaignRows = 1..Len(campaignRows)
      /\ \A c \in 1..Len(campaignRows) : campaignRows[c] \in Automation
  BY <1>2, RowsTyped
<1>4. Len(campaignMedia) \in Nat /\ DOMAIN campaignMedia = 1..Len(campaignMedia)
  BY <1>2
<1>5. \A q \in Callers : campaignReq[q] \in Changed
  BY <1>2
<1>6. QED
  BY <1>1, <1>2, <1>3, <1>4, <1>5

LEMMA PageStays ==
  ASSUME NEW posts \in Seq(BOOLEAN), NEW more \in Seq(BOOLEAN), NEW held \in Nat, NEW reels,
         Len(posts) <= Len(more), \A i \in 1..Len(posts) : more[i] = posts[i],
         PageOf(posts, held, reels)
  PROVE  PageOf(more, held, reels)
<1>1. /\ held <= Len(posts) /\ Len(posts) \in Nat /\ Len(more) \in Nat
      /\ \A i \in 1..held : more[i] = posts[i]
  BY DEF PageOf
<1>2. QED
  BY <1>1 DEF PageOf

\* A step of one request leaves what the others know.
LEMMA OthersFit ==
  ASSUME C!CampaignBounds, CampaignInv, NEW q, StateMoves(q),
         campaignRows' \in Seq(Automation), campaignMedia' \in Seq(BOOLEAN),
         campaignSlugs' \in Nat,
         NEW e \in Callers, e # q,
         campaignPc'[e] = campaignPc[e], campaignReq'[e] = campaignReq[e]
  PROVE  RequestFits(e)'
<1> DEFINE r == campaignReq[e]
           rows1 == campaignRows'
           posts1 == campaignMedia'
<1>1. /\ RequestFits(e) /\ r \in Changed
      /\ Len(campaignRows) \in Nat /\ Len(campaignMedia) \in Nat /\ campaignSlugs \in Nat
  BY CampaignLengths
<1>2. Len(rows1) \in Nat /\ Len(posts1) \in Nat
      /\ \A c \in 1..Len(rows1) : rows1[c] \in Automation
  BY RowsTyped
<1>3. e # "several"
  BY DEF C!CampaignBounds
<1>4. 1..Len(campaignRows) \subseteq 1..Len(rows1) /\ 1..Len(campaignMedia) \subseteq 1..Len(posts1)
  BY <1>1, <1>2 DEF StateMoves
<1>5. EditFits(e)'
  <2>1. SUFFICES ASSUME campaignPc[e] \in Editing PROVE EditFits(e)'
    BY DEF EditFits
  <2>2. EditFits(e) /\ r.c \in 1..Len(campaignRows) /\ r.c \in 1..Len(rows1)
    BY <2>1, <1>1, <1>4 DEF RequestFits, EditFits
  <2>3. Undisturbed(e)' => Undisturbed(e) /\ Own(e)' = Own(e)
    BY <2>2, <1>3 DEF StateMoves, RowMoves, Undisturbed, Own
  <2>4. QED
    BY <2>1, <2>2, <2>3 DEF EditFits
<1>6. ImportFits(e)'
  <2>1. ASSUME NEW c \in 1..Len(rows1), rows1[c].from = e
        PROVE  /\ c \in 1..Len(campaignRows) /\ campaignRows[c].from = e
               /\ rows1[c].imported = campaignRows[c].imported
    BY <2>1, <1>1, <1>2 DEF StateMoves, RowMoves
  <2>2. QED
    BY <2>1, <1>1, <1>4 DEF RequestFits, ImportFits
<1>7. ListFits(e)'
  <2>1. SUFFICES ASSUME campaignPc[e] = "list" PROVE ListFits(e)'
    BY DEF ListFits
  <2>2. r.seen <= campaignSlugs /\ r.seen \in Nat
        /\ \A c \in r.todo : /\ c \in 1..Len(campaignRows)
                             /\ campaignRows[c].slug # 0 => r.seen < campaignRows[c].slug
    BY <2>1, <1>1, ChangedTyped DEF RequestFits, ListFits, CampaignInv, CampaignTypes
  <2>3. ASSUME NEW c \in r.todo, rows1[c].slug # 0 PROVE r.seen < rows1[c].slug
    <3>1. rows1[c].slug = campaignRows[c].slug \/ campaignSlugs < rows1[c].slug
      BY <2>2 DEF StateMoves, RowMoves
    <3>2. rows1[c].slug \in Nat
      BY <2>2, <1>2, <1>4, RowTyped
    <3>3. QED
      BY <3>1, <3>2, <2>2, <2>3, <1>1
  <2>4. r.seen <= campaignSlugs'
    BY <2>2, <1>1 DEF StateMoves
  <2>5. QED
    BY <2>2, <2>3, <2>4, <1>4 DEF ListFits
<1>8. BindFits(e)'
  <2>1. campaignPc[e] = "bind" => PageOf(posts1, r.seen, r.reels)
    <3>1. r.seen \in Nat /\ campaignMedia \in Seq(BOOLEAN)
      BY CampaignLengths, ChangedTyped
    <3>2. QED
      BY <3>1, <1>1, PageStays DEF RequestFits, BindFits, StateMoves
  <2>2. QED
    BY <2>1, <1>1, <1>4 DEF RequestFits, BindFits
<1>9. QED
  BY <1>5, <1>6, <1>7, <1>8 DEF RequestFits

-----------------------------------------------------------------------------
(* Campaigns: the steps *)

\* The request at a place of its own, with what it knows there.
Turned(q, place, n) ==
  /\ campaignPc' = [campaignPc EXCEPT ![q] = place]
  /\ campaignReq' = [campaignReq EXCEPT ![q] = n]

LEMMA TurnedTo ==
  ASSUME CampaignInv, NEW q \in Callers, NEW place \in CampaignPlaces, NEW n \in Changed,
         Turned(q, place, n)
  PROVE  /\ campaignPc' \in [Callers -> CampaignPlaces] /\ campaignPc'[q] = place
         /\ campaignReq' \in [Callers -> Changed] /\ campaignReq'[q] = n
         /\ \A e \in Callers \ {q} :
              campaignPc'[e] = campaignPc[e] /\ campaignReq'[e] = campaignReq[e]
<1>1. campaignPc \in [Callers -> CampaignPlaces] /\ campaignReq \in [Callers -> Changed]
  BY CampaignLengths
<1>2. QED
  BY <1>1 DEF Turned

LEMMA CampaignStep ==
  ASSUME C!CampaignBounds, CampaignInv, NEW q \in Callers,
         StateMoves(q), CampaignTypes', RowsAreGood', FileApart', RequestFits(q)',
         \A e \in Callers \ {q} :
           campaignPc'[e] = campaignPc[e] /\ campaignReq'[e] = campaignReq[e]
  PROVE  CampaignInv'
<1>1. ASSUME NEW e \in Callers PROVE RequestFits(e)'
  <2>1. CASE e = q
    BY <2>1
  <2>2. CASE e # q
    BY <2>2, OthersFit DEF CampaignTypes
  <2>3. QED
    BY <2>1, <2>2
<1>2. QED
  BY <1>1 DEF CampaignInv

StateStays ==
  UNCHANGED <<campaignRows, campaignMedia, campaignConnected, campaignLinks, campaignSlugs>>

LEMMA CampaignQuiet ==
  ASSUME C!CampaignBounds, CampaignInv, NEW q \in Callers, StateStays,
         NEW place \in CampaignPlaces, NEW n \in Changed, Turned(q, place, n), RequestFits(q)'
  PROVE  CampaignInv'
<1>1. CampaignTypes /\ RowsAreGood /\ FileApart
  BY CampaignLengths
<1>2. CampaignTypes'
  BY <1>1, TurnedTo DEF CampaignTypes, StateStays
<1>3. RowsAreGood'
  BY <1>1 DEF RowsAreGood, StateStays
<1>4. FileApart'
  BY <1>1 DEF FileApart, StateStays
<1>5. StateMoves(q)
  <2>1. /\ Len(campaignRows) \in Nat /\ Len(campaignMedia) \in Nat /\ campaignSlugs \in Nat
        /\ \A c \in 1..Len(campaignRows) : campaignRows[c].by = campaignRows[c].by
    BY CampaignLengths
  <2>2. /\ campaignRows' = campaignRows /\ campaignMedia' = campaignMedia
        /\ campaignSlugs' = campaignSlugs
    BY DEF StateStays
  <2>3. QED
    BY <2>1, <2>2 DEF StateMoves, RowMoves
<1>6. QED
  BY <1>2, <1>3, <1>4, <1>5, TurnedTo, CampaignStep

LEMMA IdleIsTyped == C!Idle \in Changed
<1>1. <<>> \in Seq(TrackedLink) /\ <<>> \in Seq(Nat)
  OBVIOUS
<1>2. QED
  BY <1>1 DEF C!Idle, C!AnyPost, Changed, Target

LEMMA DoneFits ==
  ASSUME NEW q \in Callers, campaignPc'[q] = "done"
  PROVE  RequestFits(q)'
  BY DEF RequestFits, EditFits, Editing, ImportFits, ListFits, BindFits

LEMMA EndIsTurned ==
  ASSUME CampaignInv, NEW q \in Callers, C!End(q)
  PROVE  Turned(q, "done", C!Idle) /\ campaignPc'[q] = "done"
<1>1. Turned(q, "done", C!Idle)
  BY DEF C!End, C!Goto, Turned
<1>2. QED
  BY <1>1, TurnedTo, IdleIsTyped DEF CampaignPlaces

LEMMA EndQuiet ==
  ASSUME C!CampaignBounds, CampaignInv, NEW q \in Callers, StateStays, C!End(q)
  PROVE  CampaignInv'
<1>1. "done" \in CampaignPlaces
  BY DEF CampaignPlaces
<1>2. QED
  BY <1>1, EndIsTurned, IdleIsTyped, DoneFits, CampaignQuiet

-----------------------------------------------------------------------------
(* Campaigns: the steps that write no row *)

LEMMA QuietEnds ==
  ASSUME C!CampaignBounds, CampaignInv, NEW q \in Callers,
         C!ImportEnds(q) \/ C!Untouched(q) \/ C!Answer(q) \/ C!Listed(q) \/ C!Bound(q)
  PROVE  CampaignInv'
  BY EndQuiet DEF StateStays, C!state, C!ImportEnds, C!Untouched, C!Answer, C!Listed, C!Bound

LEMMA ImportReadKeeps ==
  ASSUME C!CampaignBounds, CampaignInv, NEW q \in Callers,
         NEW i \in 1..Len(campaignMedia), NEW j \in 1..Len(campaignMedia),
         C!ImportRead(q, <<i, j>>)
  PROVE  CampaignInv'
<1> DEFINE used == {campaignRows[c].target.post : c \in {d \in C!Ids : C!Live(d)}}
           n == [campaignReq[q] EXCEPT !.posts = <<i, j>>, !.used = used]
<1>1. StateStays /\ campaignPc[q] = "new" /\ Turned(q, "import", n)
  <2>1. campaignReq \in [Callers -> Changed]
    BY CampaignLengths
  <2>2. QED
    BY <2>1 DEF C!ImportRead, C!Goto, Turned, StateStays, C!state
<1>2. n \in Changed /\ n.posts = <<i, j>> /\ n.used = used
  <2>1. used \in SUBSET Nat
    <3>1. \A c \in 1..Len(campaignRows) : campaignRows[c].target.post \in Nat
      BY CampaignLengths, RowTyped
    <3>2. QED
      BY <3>1 DEF C!Ids, C!Live
  <2>2. <<i, j>> \in Seq(Nat) /\ campaignReq[q] \in Changed
    BY CampaignLengths
  <2> HIDE DEF used
  <2>3. QED
    BY <2>1, <2>2 DEF Changed
<1> HIDE DEF n
<1>3. "import" \in CampaignPlaces
  BY DEF CampaignPlaces
<1>4. campaignPc'[q] = "import" /\ campaignReq'[q] = n
  BY <1>1, <1>2, <1>3, TurnedTo
<1>5. RequestFits(q)'
  <2>1. \A c \in 1..Len(campaignRows) : campaignRows[c].from # q
    BY <1>1, CampaignLengths DEF RequestFits, ImportFits
  <2>2. ImportFits(q)'
    BY <2>1, <1>1, <1>2, <1>4 DEF ImportFits, StateStays
  <2>3. QED
    BY <2>2, <1>4 DEF RequestFits, EditFits, Editing, ListFits, BindFits
<1>6. QED
  BY <1>1, <1>2, <1>3, <1>5, CampaignQuiet

LEMMA ListKeeps ==
  ASSUME C!CampaignBounds, CampaignInv, NEW q \in Callers, C!List(q)
  PROVE  CampaignInv'
<1> DEFINE todo == {c \in C!Ids : C!Live(c) /\ campaignRows[c].slug = 0}
           n == [campaignReq[q] EXCEPT !.todo = todo, !.seen = campaignSlugs]
<1>0. campaignReq \in [Callers -> Changed] /\ campaignReq[q] \in Changed /\ campaignSlugs \in Nat
  BY CampaignLengths
<1>1. StateStays /\ Turned(q, "list", n)
  BY <1>0 DEF C!List, C!Goto, Turned, StateStays, C!state
<1>2. n \in Changed /\ n.todo = todo /\ n.seen = campaignSlugs
  <2>1. todo \in SUBSET Nat
    BY CampaignLengths DEF C!Ids
  <2> HIDE DEF todo
  <2>2. QED
    BY <2>1, <1>0 DEF Changed
<1> HIDE DEF n
<1>3. "list" \in CampaignPlaces
  BY DEF CampaignPlaces
<1>4. campaignPc'[q] = "list" /\ campaignReq'[q] = n
  BY <1>1, <1>2, <1>3, TurnedTo
<1>5. RequestFits(q)'
  <2>1. ListFits(q)'
    BY <1>0, <1>1, <1>2, <1>4 DEF ListFits, StateStays, C!Ids
  <2>2. QED
    BY <2>1, <1>4 DEF RequestFits, EditFits, Editing, ImportFits, BindFits
<1>6. QED
  BY <1>1, <1>2, <1>3, <1>5, CampaignQuiet

LEMMA PendingKeeps ==
  ASSUME C!CampaignBounds, CampaignInv, NEW q \in Callers, C!Pending(q)
  PROVE  CampaignInv'
<1> DEFINE todo == {c \in C!Ids : C!Live(c) /\ campaignRows[c].target.next}
           n == [campaignReq[q] EXCEPT !.todo = todo]
<1>0. campaignReq \in [Callers -> Changed] /\ campaignReq[q] \in Changed
  BY CampaignLengths
<1>1. StateStays /\ Turned(q, "media", n)
  BY <1>0 DEF C!Pending, C!Goto, Turned, StateStays, C!state
<1>2. n \in Changed /\ n.todo = todo
  <2>1. todo \in SUBSET Nat
    BY CampaignLengths DEF C!Ids
  <2> HIDE DEF todo
  <2>2. QED
    BY <2>1, <1>0 DEF Changed
<1> HIDE DEF n
<1>3. "media" \in CampaignPlaces
  BY DEF CampaignPlaces
<1>4. campaignPc'[q] = "media" /\ campaignReq'[q] = n
  BY <1>1, <1>2, <1>3, TurnedTo
<1>5. RequestFits(q)'
  <2>1. BindFits(q)'
    BY <1>1, <1>2, <1>4 DEF BindFits, StateStays, C!Ids
  <2>2. QED
    BY <2>1, <1>4 DEF RequestFits, EditFits, Editing, ImportFits, ListFits
<1>6. QED
  BY <1>1, <1>2, <1>3, <1>5, CampaignQuiet

LEMMA MediaKeeps ==
  ASSUME C!CampaignBounds, CampaignInv, NEW q \in Callers, C!Media(q)
  PROVE  CampaignInv'
<1> DEFINE last == Len(campaignMedia)
           reels == {i \in DOMAIN campaignMedia : campaignMedia[i] /\ i + Page > last}
           n == [campaignReq[q] EXCEPT !.seen = last, !.reels = reels]
<1>0. /\ campaignReq \in [Callers -> Changed] /\ campaignReq[q] \in Changed /\ RequestFits(q)
      /\ last \in Nat /\ DOMAIN campaignMedia = 1..last
  BY CampaignLengths
<1>1. CASE C!End(q)
  BY <1>1, EndQuiet DEF C!Media, StateStays, C!state
<1>2. CASE ~ C!End(q)
  <2>1. StateStays /\ campaignPc[q] = "media" /\ Turned(q, "bind", n)
    BY <1>0, <1>2 DEF C!Media, C!Goto, Turned, StateStays, C!state
  <2>2. n \in Changed /\ n.seen = last /\ n.reels = reels /\ n.todo = campaignReq[q].todo
    <3>1. reels \in SUBSET Nat
      BY <1>0
    <3> HIDE DEF reels, last
    <3>2. QED
      BY <3>1, <1>0 DEF Changed
  <2> HIDE DEF n
  <2>3. "bind" \in CampaignPlaces
    BY DEF CampaignPlaces
  <2>4. campaignPc'[q] = "bind" /\ campaignReq'[q] = n
    BY <2>1, <2>2, <2>3, TurnedTo
  <2>5. RequestFits(q)'
    <3>1. PageOf(campaignMedia, last, reels)
      BY <1>0 DEF PageOf
    <3>2. \A c \in n.todo : c \in 1..Len(campaignRows)
      BY <1>0, <2>1, <2>2 DEF RequestFits, BindFits
    <3> HIDE DEF last, reels
    <3>3. BindFits(q)'
      BY <3>1, <3>2, <2>1, <2>2, <2>4 DEF BindFits, StateStays
    <3>4. QED
      BY <3>3, <2>4 DEF RequestFits, EditFits, Editing, ImportFits, ListFits
  <2>6. QED
    BY <2>1, <2>2, <2>3, <2>5, CampaignQuiet
<1>3. QED
  BY <1>1, <1>2

\* The links that may be listed first and second, of two at most that were made apart.
LEMMA FirstsAre ==
  ASSUME NEW own \in Seq(TrackedLink), NEW last \in Nat, LinksFit(own, last),
         Len(own) <= 2, Apart(own)
  PROVE  /\ Len(own) \in {0, 1, 2}
         /\ C!Firsts(own) = IF Len(own) = 0 THEN {} ELSE {1}
         /\ C!Seconds(own) = IF Len(own) = 2 THEN {2} ELSE {}
<1>1. Len(own) \in Nat /\ DOMAIN own = 1..Len(own)
  OBVIOUS
<1>2. /\ \A i \in 1..Len(own) : own[i].made \in Int
      /\ \A i, j \in 1..Len(own) : i < j => own[i].made <= own[j].made
  BY DEF LinksFit
<1>3. Len(own) \in {0, 1, 2}
  BY <1>1
<1>4. CASE Len(own) = 0
  <2>1. DOMAIN own = {}
    BY <1>1, <1>4
  <2>2. QED
    BY <2>1, <1>3, <1>4 DEF C!Firsts, C!Seconds, C!Oldest
<1>5. CASE Len(own) = 1
  <2>1. DOMAIN own = {1} /\ own[1].made \in Int
    BY <1>1, <1>2, <1>5
  <2>2. C!Firsts(own) = {1}
    BY <2>1 DEF C!Firsts, C!Oldest
  <2>3. C!Seconds(own) = {}
    BY <2>1, <2>2 DEF C!Seconds, C!Oldest
  <2>4. QED
    BY <2>2, <2>3, <1>5
<1>6. CASE Len(own) = 2
  <2>1. /\ DOMAIN own = {1, 2} /\ own[1].made \in Int /\ own[2].made \in Int
        /\ own[1].made <= own[2].made /\ own[1].made # own[2].made
    BY <1>1, <1>2, <1>6 DEF Apart
  <2>2. C!Firsts(own) = {1}
    BY <2>1 DEF C!Firsts, C!Oldest
  <2>3. C!Seconds(own) = {2}
    <3>1. C!Seconds(own) = C!Oldest(own, {2})
      <4>1. {1, 2} \ {1} = {2}
        OBVIOUS
      <4>2. QED
        BY <4>1, <2>1, <2>2 DEF C!Seconds
    <3>2. C!Oldest(own, {2}) = {2}
      BY <2>1 DEF C!Oldest
    <3>3. QED
      BY <3>1, <3>2
  <2>4. QED
    BY <2>2, <2>3, <1>6
<1>7. QED
  BY <1>3, <1>4, <1>5, <1>6

\* What a query for a link finds: none, or a link of the campaign among the choices.
LEMMA FoundLink ==
  ASSUME CampaignInv, NEW q \in Callers, NEW place, NEW next,
         NEW choices \in SUBSET DOMAIN C!Own(q), C!ReadLink(q, place, next, choices)
  PROVE  \E id \in Nat :
           /\ Turned(q, next, [campaignReq[q] EXCEPT !.link = id])
           /\ choices = {} => id = 0
           /\ \A k : choices = {k} => id = C!Own(q)[k].id
<1> DEFINE own == C!Own(q)
<1>1. PICK id \in (IF choices = {} THEN {0} ELSE {own[i].id : i \in choices}) :
        campaignReq' = [campaignReq EXCEPT ![q].link = id]
  BY DEF C!ReadLink
<1>2. \A i \in DOMAIN own : own[i].id \in Nat
  <2>1. CASE C!Live(campaignReq[q].c)
    <3>1. campaignRows[campaignReq[q].c] \in Automation
      BY <2>1, CampaignLengths DEF C!Live, C!Ids
    <3>2. own = campaignRows[campaignReq[q].c].links
      BY <2>1 DEF C!Own
    <3> HIDE DEF own
    <3>3. QED
      BY <3>1, <3>2, RowTyped
  <2>2. CASE ~ C!Live(campaignReq[q].c)
    <3>1. own = <<>>
      BY <2>2 DEF C!Own
    <3>2. DOMAIN own = {}
      BY <3>1
    <3>3. QED
      BY <3>2
  <2>3. QED
    BY <2>1, <2>2
<1> HIDE DEF own
<1>3. id \in Nat
  BY <1>1, <1>2 DEF own
<1>4. campaignReq \in [Callers -> Changed] /\ campaignPc' = [campaignPc EXCEPT ![q] = next]
  BY CampaignLengths DEF C!ReadLink, C!Goto
<1>5. Turned(q, next, [campaignReq[q] EXCEPT !.link = id])
  BY <1>1, <1>4 DEF Turned
<1>6. QED
  BY <1>1, <1>3, <1>5 DEF own

\* The choices are among the links there are.
LEMMA ChoicesAreLinks ==
  ASSUME NEW own
  PROVE  C!Firsts(own) \in SUBSET DOMAIN own /\ C!Seconds(own) \in SUBSET DOMAIN own
  BY DEF C!Firsts, C!Seconds, C!Oldest

LEMMA ReadPrimaryKeeps ==
  ASSUME C!CampaignBounds, CampaignInv, NEW q \in Callers, C!ReadPrimary(q)
  PROVE  CampaignInv'
<1> DEFINE r == campaignReq[q]
           choices == C!Firsts(C!Own(q))
<1>0. campaignReq \in [Callers -> Changed] /\ r \in Changed /\ RequestFits(q)
  BY CampaignLengths
<1>1. /\ StateStays /\ campaignPc[q] = "primary" /\ r.primary # "keep"
      /\ C!ReadLink(q, "primary", "write first", choices)
  BY DEF C!ReadPrimary, C!ReadLink, StateStays, C!state
<1>2. PICK id \in Nat :
        /\ Turned(q, "write first", [r EXCEPT !.link = id])
        /\ choices = {} => id = 0
        /\ \A k : choices = {k} => id = C!Own(q)[k].id
  <2>1. choices \in SUBSET DOMAIN C!Own(q)
    BY ChoicesAreLinks
  <2> HIDE DEF choices
  <2>2. QED
    BY <1>1, <2>1, FoundLink
<1> DEFINE n == [r EXCEPT !.link = id]
<1>3. /\ n \in Changed /\ n.link = id /\ n.c = r.c /\ n.primary = r.primary
      /\ n.secondary = r.secondary /\ n.before = r.before
  <2> HIDE DEF r
  <2>1. QED
    BY <1>0 DEF Changed
<1>4. Turned(q, "write first", n) /\ "write first" \in CampaignPlaces
  BY <1>2 DEF CampaignPlaces
<1> HIDE DEF n
<1>5. campaignPc'[q] = "write first" /\ campaignReq'[q] = n
  BY <1>3, <1>4, TurnedTo
<1>6. EditFits(q)'
  <2>1. /\ r.c \in 1..Len(campaignRows) /\ (r.primary = "keep" <=> r.secondary = "keep")
        /\ Undisturbed(q) => Own(q) = r.before
    BY <1>0, <1>1 DEF RequestFits, EditFits, Editing, KnowsLinks, FoundAll
  <2>2. Undisturbed(q)' => Undisturbed(q) /\ Own(q)' = Own(q)
    BY <1>1, <1>3, <1>5 DEF Undisturbed, Own, StateStays
  <2>3. Undisturbed(q) => /\ C!Own(q) = Own(q) /\ Own(q) \in Seq(TrackedLink)
                          /\ LinksFit(Own(q), campaignLinks) /\ campaignLinks \in Nat
    <3>1. /\ campaignRows[r.c] \in Automation /\ campaignLinks \in Nat
          /\ GoodRow(campaignRows[r.c], campaignMedia, campaignLinks, campaignSlugs)
      BY <2>1, CampaignLengths DEF RowsAreGood
    <3>2. QED
      BY <2>1, <3>1, RowTyped DEF Undisturbed, Own, C!Own, C!Live, C!Ids, GoodRow
  <2>4. Undisturbed(q) => FoundFirst(n, Own(q))
    <3>1. SUFFICES ASSUME Undisturbed(q), Plain(n)
                   PROVE  n.link = IF Len(Own(q)) = 0 THEN 0 ELSE Own(q)[1].id
      BY <2>1, <1>3 DEF FoundFirst
    <3>2. Len(Own(q)) <= 2 /\ Apart(Own(q))
      BY <2>1, <3>1, <1>3 DEF Plain
    <3>3. choices = IF Len(Own(q)) = 0 THEN {} ELSE {1}
      BY <2>3, <3>1, <3>2, FirstsAre
    <3>4. QED
      BY <1>2, <1>3, <2>3, <3>1, <3>3
  <2>5. QED
    BY <2>1, <2>2, <2>4, <1>1, <1>3, <1>5 DEF EditFits, KnowsLinks, StateStays
<1>7. RequestFits(q)'
  BY <1>5, <1>6 DEF RequestFits, ImportFits, ListFits, BindFits
<1>8. QED
  BY <1>1, <1>3, <1>4, <1>7, CampaignQuiet

LEMMA ReadSecondKeeps ==
  ASSUME C!CampaignBounds, CampaignInv, NEW q \in Callers, C!ReadSecond(q)
  PROVE  CampaignInv'
<1> DEFINE r == campaignReq[q]
           choices == C!Seconds(C!Own(q))
<1>0. campaignReq \in [Callers -> Changed] /\ r \in Changed /\ RequestFits(q)
  BY CampaignLengths
<1>1. /\ StateStays /\ campaignPc[q] = "secondary"
      /\ C!ReadLink(q, "secondary", "write second", choices)
  BY DEF C!ReadSecond, C!ReadLink, StateStays, C!state
<1>2. PICK id \in Nat :
        /\ Turned(q, "write second", [r EXCEPT !.link = id])
        /\ choices = {} => id = 0
        /\ \A k : choices = {k} => id = C!Own(q)[k].id
  <2>1. choices \in SUBSET DOMAIN C!Own(q)
    BY ChoicesAreLinks
  <2> HIDE DEF choices
  <2>2. QED
    BY <1>1, <2>1, FoundLink
<1> DEFINE n == [r EXCEPT !.link = id]
<1>3. /\ n \in Changed /\ n.link = id /\ n.c = r.c /\ n.primary = r.primary
      /\ n.secondary = r.secondary /\ n.before = r.before
  <2> HIDE DEF r
  <2>1. QED
    BY <1>0 DEF Changed
<1>4. Turned(q, "write second", n) /\ "write second" \in CampaignPlaces
  BY <1>2 DEF CampaignPlaces
<1> HIDE DEF n
<1>5. campaignPc'[q] = "write second" /\ campaignReq'[q] = n
  BY <1>3, <1>4, TurnedTo
<1>6. EditFits(q)'
  <2>1. /\ r.c \in 1..Len(campaignRows) /\ (r.primary = "keep" <=> r.secondary = "keep")
        /\ r.primary # "keep"
        /\ Undisturbed(q) /\ Plain(r) => WroteFirst(r, Own(q))
    BY <1>0, <1>1 DEF RequestFits, EditFits, Editing, KnowsLinks
  <2>2. Undisturbed(q)' => Undisturbed(q) /\ Own(q)' = Own(q)
    BY <1>1, <1>3, <1>5 DEF Undisturbed, Own, StateStays
  <2>3. Undisturbed(q) => /\ C!Own(q) = Own(q) /\ Own(q) \in Seq(TrackedLink)
                          /\ LinksFit(Own(q), campaignLinks) /\ campaignLinks \in Nat
    <3>1. /\ campaignRows[r.c] \in Automation /\ campaignLinks \in Nat
          /\ GoodRow(campaignRows[r.c], campaignMedia, campaignLinks, campaignSlugs)
      BY <2>1, CampaignLengths DEF RowsAreGood
    <3>2. QED
      BY <2>1, <3>1, RowTyped DEF Undisturbed, Own, C!Own, C!Live, C!Ids, GoodRow
  <2>4. Undisturbed(q) /\ Plain(n) => FoundSecond(n, Own(q))
    <3>1. SUFFICES ASSUME Undisturbed(q), Plain(n) PROVE FoundSecond(n, Own(q))
      OBVIOUS
    <3>2. WroteFirst(n, Own(q))
      BY <2>1, <3>1, <1>3 DEF WroteFirst, Plain
    <3>3. Len(Own(q)) <= 2 /\ Apart(Own(q))
      BY <3>2 DEF WroteFirst, Apart
    <3>4. choices = IF Len(Own(q)) = 2 THEN {2} ELSE {}
      BY <2>3, <3>1, <3>3, FirstsAre
    <3>5. n.link = IF Len(Own(q)) = 2 THEN Own(q)[2].id ELSE 0
      BY <1>2, <1>3, <2>3, <3>1, <3>4
    <3>6. QED
      BY <3>2, <3>5 DEF FoundSecond
  <2>5. QED
    BY <2>1, <2>2, <2>4, <1>1, <1>3, <1>5 DEF EditFits, KnowsLinks, StateStays
<1>7. RequestFits(q)'
  BY <1>5, <1>6 DEF RequestFits, ImportFits, ListFits, BindFits
<1>8. QED
  BY <1>1, <1>3, <1>4, <1>7, CampaignQuiet

-----------------------------------------------------------------------------
(* Campaigns: the steps that write rows *)

\* One row is written, and links or slugs are made.
LEMMA Rewritten ==
  ASSUME CampaignInv, NEW q, NEW c \in 1..Len(campaignRows), NEW new \in Automation,
         campaignRows' = [campaignRows EXCEPT ![c] = new],
         UNCHANGED <<campaignMedia, campaignConnected>>,
         campaignLinks' \in Nat, campaignLinks <= campaignLinks',
         campaignSlugs' \in Nat, campaignSlugs <= campaignSlugs',
         GoodRow(new, campaignMedia, campaignLinks', campaignSlugs'),
         RowMoves(q, campaignRows[c], new)
  PROVE  /\ campaignRows' \in Seq(Automation) /\ Len(campaignRows') = Len(campaignRows)
         /\ campaignRows'[c] = new
         /\ \A d \in 1..Len(campaignRows) : d # c => campaignRows'[d] = campaignRows[d]
         /\ StateMoves(q) /\ RowsAreGood' /\ FileApart'
<1>0. /\ campaignRows \in Seq(Automation) /\ Len(campaignRows) \in Nat /\ RowsAreGood /\ FileApart
      /\ Len(campaignMedia) \in Nat /\ campaignLinks \in Nat /\ campaignSlugs \in Nat
      /\ \A d \in 1..Len(campaignRows) : campaignRows[d] \in Automation
      /\ campaignMedia \in Seq(BOOLEAN)
  BY CampaignLengths
<1>1. campaignRows' \in Seq(Automation) /\ Len(campaignRows') = Len(campaignRows)
  BY <1>0
<1>2. /\ campaignRows'[c] = new
      /\ \A d \in 1..Len(campaignRows) : d # c => campaignRows'[d] = campaignRows[d]
  BY <1>0
<1>3. StateMoves(q)
  <2>1. \A d \in 1..Len(campaignRows) : RowMoves(q, campaignRows[d], campaignRows'[d])
    BY <1>2 DEF RowMoves
  <2>2. QED
    BY <2>1, <1>0, <1>1 DEF StateMoves
<1>4. RowsAreGood'
  <2>1. ASSUME NEW d \in 1..Len(campaignRows)
        PROVE  GoodRow(campaignRows'[d], campaignMedia, campaignLinks', campaignSlugs')
    <3>1. CASE d = c
      BY <3>1, <1>2
    <3>2. CASE d # c
      <4>1. GoodRow(campaignRows[d], campaignMedia, campaignLinks', campaignSlugs')
        BY <1>0, GoodStays DEF RowsAreGood
      <4>2. QED
        BY <4>1, <3>2, <1>2
    <3>3. QED
      BY <3>1, <3>2
  <2>2. QED
    BY <2>1, <1>1 DEF RowsAreGood
<1>5. FileApart'
  <2>1. \A d \in 1..Len(campaignRows) : /\ campaignRows'[d].from = campaignRows[d].from
                                        /\ campaignRows'[d].imported = campaignRows[d].imported
    BY <1>2 DEF RowMoves
  <2>2. QED
    BY <2>1, <1>0, <1>1 DEF FileApart
<1>6. QED
  BY <1>1, <1>2, <1>3, <1>4, <1>5

\* One row is added.
LEMMA Appended ==
  ASSUME CampaignInv, NEW q, NEW new \in Automation,
         campaignRows' = Append(campaignRows, new),
         UNCHANGED <<campaignMedia, campaignConnected>>,
         campaignLinks' \in Nat, campaignLinks <= campaignLinks',
         campaignSlugs' \in Nat, campaignSlugs <= campaignSlugs',
         GoodRow(new, campaignMedia, campaignLinks', campaignSlugs'), new.from = q,
         new.imported # 0 => \A c \in 1..Len(campaignRows) :
           campaignRows[c].from = q => campaignRows[c].imported # new.imported
  PROVE  /\ campaignRows' \in Seq(Automation) /\ Len(campaignRows') = Len(campaignRows) + 1
         /\ campaignRows'[Len(campaignRows')] = new
         /\ \A d \in 1..Len(campaignRows) : campaignRows'[d] = campaignRows[d]
         /\ StateMoves(q) /\ RowsAreGood' /\ FileApart'
<1> DEFINE k == Len(campaignRows) + 1
<1>0. /\ campaignRows \in Seq(Automation) /\ Len(campaignRows) \in Nat /\ RowsAreGood /\ FileApart
      /\ Len(campaignMedia) \in Nat /\ campaignLinks \in Nat /\ campaignSlugs \in Nat
      /\ \A d \in 1..Len(campaignRows) : campaignRows[d] \in Automation
      /\ campaignMedia \in Seq(BOOLEAN)
  BY CampaignLengths
<1>1. campaignRows' \in Seq(Automation) /\ Len(campaignRows') = k
  BY <1>0
<1>2. /\ campaignRows'[k] = new
      /\ \A d \in 1..Len(campaignRows) : campaignRows'[d] = campaignRows[d]
  BY <1>0
<1>3. StateMoves(q)
  <2>1. \A d \in 1..Len(campaignRows) : RowMoves(q, campaignRows[d], campaignRows'[d])
    BY <1>2 DEF RowMoves
  <2>2. \A d \in 1..Len(campaignRows') : d > Len(campaignRows) => d = k
    BY <1>0, <1>1
  <2> HIDE DEF k
  <2>3. QED
    BY <2>1, <2>2, <1>0, <1>1, <1>2 DEF StateMoves, k
<1>4. \A d \in 1..k : d \in 1..Len(campaignRows) \/ d = k
  BY <1>0
<1> HIDE DEF k
<1>5. RowsAreGood'
  <2>1. ASSUME NEW d \in 1..k
        PROVE  GoodRow(campaignRows'[d], campaignMedia, campaignLinks', campaignSlugs')
    <3>1. CASE d = k
      BY <3>1, <1>2
    <3>2. CASE d \in 1..Len(campaignRows)
      <4>1. GoodRow(campaignRows[d], campaignMedia, campaignLinks', campaignSlugs')
        BY <1>0, <3>2, GoodStays DEF RowsAreGood
      <4>2. QED
        BY <4>1, <3>2, <1>2
    <3>3. QED
      BY <3>1, <3>2, <1>4
  <2>2. QED
    BY <2>1, <1>1 DEF RowsAreGood
<1>6. FileApart'
  <2> SUFFICES ASSUME NEW c \in 1..k, NEW d \in 1..k, c # d, campaignRows'[c].imported # 0,
                      campaignRows'[c].from = campaignRows'[d].from,
                      campaignRows'[c].imported = campaignRows'[d].imported
               PROVE  FALSE
    BY <1>1 DEF FileApart
  <2>1. CASE c \in 1..Len(campaignRows) /\ d \in 1..Len(campaignRows)
    BY <2>1, <1>0, <1>2 DEF FileApart
  <2>2. CASE c = k /\ d \in 1..Len(campaignRows)
    BY <2>2, <1>2
  <2>3. CASE d = k /\ c \in 1..Len(campaignRows)
    BY <2>3, <1>2
  <2>4. QED
    BY <2>1, <2>2, <2>3, <1>4
<1>7. QED
  BY <1>1, <1>2, <1>3, <1>5, <1>6 DEF k

\* A request writes one row, and knows what it needs at its next place.
LEMMA WroteRow ==
  ASSUME C!CampaignBounds, CampaignInv, NEW q \in Callers,
         NEW c \in 1..Len(campaignRows), NEW new \in Automation,
         campaignRows' = [campaignRows EXCEPT ![c] = new],
         UNCHANGED <<campaignMedia, campaignConnected>>,
         campaignLinks' \in Nat, campaignLinks <= campaignLinks',
         campaignSlugs' \in Nat, campaignSlugs <= campaignSlugs',
         GoodRow(new, campaignMedia, campaignLinks', campaignSlugs'),
         RowMoves(q, campaignRows[c], new),
         NEW place \in CampaignPlaces, NEW n \in Changed, Turned(q, place, n), RequestFits(q)'
  PROVE  CampaignInv'
<1>1. /\ campaignRows' \in Seq(Automation) /\ Len(campaignRows') = Len(campaignRows)
      /\ StateMoves(q) /\ RowsAreGood' /\ FileApart'
  BY Rewritten
<1>2. CampaignTypes
  BY CampaignLengths
<1>3. CampaignTypes'
  BY <1>1, <1>2, TurnedTo DEF CampaignTypes
<1>4. QED
  BY <1>1, <1>3, TurnedTo, CampaignStep

LEMMA DeleteKeeps ==
  ASSUME C!CampaignBounds, CampaignInv, NEW q \in Callers, NEW c \in C!Ids, C!Delete(q, c)
  PROVE  CampaignInv'
<1> DEFINE old == campaignRows[c]
           new == [old EXCEPT !.live = FALSE, !.links = <<>>]
<1>0. /\ c \in 1..Len(campaignRows) /\ campaignRows \in Seq(Automation) /\ old \in Automation
      /\ GoodRow(old, campaignMedia, campaignLinks, campaignSlugs)
      /\ campaignLinks \in Nat /\ campaignSlugs \in Nat
  BY CampaignLengths DEF C!Ids, RowsAreGood
<1>1. /\ campaignRows' = [campaignRows EXCEPT ![c] = new] /\ C!End(q)
      /\ UNCHANGED <<campaignMedia, campaignConnected, campaignLinks, campaignSlugs>>
  BY <1>0 DEF C!Delete
<1>2. /\ new \in Automation /\ new.live = FALSE /\ new.links = <<>>
      /\ new.target = old.target /\ new.slug = old.slug /\ new.born = old.born
      /\ new.from = old.from /\ new.imported = old.imported
      /\ new.bound = old.bound /\ new.raced = old.raced
  <2>1. <<>> \in Seq(TrackedLink)
    OBVIOUS
  <2>2. QED
    BY <2>1, <1>0 DEF Automation
<1> HIDE DEF new
<1>3. GoodRow(new, campaignMedia, campaignLinks, campaignSlugs)
  <2>1. LinksFit(<<>>, campaignLinks)
    BY DEF LinksFit
  <2>2. QED
    BY <2>1, <1>0, <1>2 DEF GoodRow, BoundFits
<1>4. RowMoves(q, old, new)
  BY <1>2 DEF RowMoves
<1>5. Turned(q, "done", C!Idle) /\ RequestFits(q)' /\ "done" \in CampaignPlaces
  BY <1>1, EndIsTurned, DoneFits DEF CampaignPlaces
<1>6. /\ UNCHANGED <<campaignMedia, campaignConnected>>
      /\ campaignLinks' \in Nat /\ campaignLinks <= campaignLinks'
      /\ campaignSlugs' \in Nat /\ campaignSlugs <= campaignSlugs'
      /\ GoodRow(new, campaignMedia, campaignLinks', campaignSlugs')
  BY <1>0, <1>1, <1>3
<1>7. QED
  BY <1>0, <1>1, <1>2, <1>4, <1>5, <1>6, IdleIsTyped, WroteRow

LEMMA SlugKeeps ==
  ASSUME C!CampaignBounds, CampaignInv, NEW q \in Callers, NEW c \in C!Ids, C!Slug(q, c)
  PROVE  CampaignInv'
<1> DEFINE old == campaignRows[c]
           next == campaignSlugs + 1
           new == [old EXCEPT !.slug = next]
           r == campaignReq[q]
           n == [r EXCEPT !.todo = @ \ {c}]
<1>0. /\ c \in 1..Len(campaignRows) /\ campaignRows \in Seq(Automation) /\ old \in Automation
      /\ GoodRow(old, campaignMedia, campaignLinks, campaignSlugs)
      /\ campaignLinks \in Nat /\ campaignSlugs \in Nat /\ next \in Nat
      /\ campaignReq \in [Callers -> Changed] /\ campaignPc \in [Callers -> CampaignPlaces]
      /\ r \in Changed /\ RequestFits(q)
  BY CampaignLengths DEF C!Ids, RowsAreGood
<1>1. CASE ~ C!Live(c)
  <2>1. StateStays /\ campaignPc[q] = "list" /\ Turned(q, "list", n)
    BY <1>0, <1>1 DEF C!Slug, StateStays, Turned
  <2>2. n \in Changed /\ n.todo = r.todo \ {c} /\ n.seen = r.seen
    <3> HIDE DEF r
    <3>1. QED
      BY <1>0 DEF Changed
  <2> HIDE DEF n
  <2>3. "list" \in CampaignPlaces
    BY DEF CampaignPlaces
  <2>4. campaignPc'[q] = "list" /\ campaignReq'[q] = n
    BY <2>1, <2>2, <2>3, TurnedTo
  <2>5. ListFits(q)'
    BY <1>0, <2>1, <2>2, <2>4 DEF RequestFits, ListFits, StateStays
  <2>6. RequestFits(q)'
    BY <2>4, <2>5 DEF RequestFits, EditFits, Editing, ImportFits, BindFits
  <2>7. QED
    BY <2>1, <2>2, <2>3, <2>6, CampaignQuiet
<1>2. CASE C!Live(c)
  <2>1. /\ campaignRows' = [campaignRows EXCEPT ![c] = new] /\ campaignSlugs' = next
        /\ UNCHANGED <<campaignMedia, campaignConnected, campaignLinks>>
        /\ campaignPc[q] = "list" /\ c \in r.todo
        /\ Turned(q, "list", n)
    BY <1>0, <1>2 DEF C!Slug, Turned
  <2>2. /\ new \in Automation /\ new.slug = next /\ new.live = old.live /\ new.links = old.links
        /\ new.target = old.target /\ new.born = old.born /\ new.by = old.by
        /\ new.from = old.from /\ new.imported = old.imported
        /\ new.bound = old.bound /\ new.raced = old.raced
    <3> HIDE DEF old, next
    <3>1. QED
      BY <1>0 DEF Automation
  <2>3. n \in Changed /\ n.todo = r.todo \ {c} /\ n.seen = r.seen /\ r.seen \in Nat
    <3> HIDE DEF r
    <3>1. QED
      BY <1>0 DEF Changed
  <2> HIDE DEF new, n
  <2>4. GoodRow(new, campaignMedia, campaignLinks, next)
    BY <2>2, <1>0 DEF GoodRow, BoundFits
  <2>5. RowMoves(q, old, new)
    BY <2>2, <1>0 DEF RowMoves
  <2>6. /\ Len(campaignRows') = Len(campaignRows)
        /\ \A d \in 1..Len(campaignRows) : d # c => campaignRows'[d] = campaignRows[d]
    BY <2>1, <1>0
  <2>7. "list" \in CampaignPlaces
    BY DEF CampaignPlaces
  <2>8. campaignPc'[q] = "list" /\ campaignReq'[q] = n
    BY <2>1, <2>3, <2>7, TurnedTo
  <2>9. ListFits(q)'
    <3>1. /\ r.seen <= campaignSlugs
          /\ \A d \in r.todo : /\ d \in 1..Len(campaignRows)
                               /\ campaignRows[d].slug # 0 => r.seen < campaignRows[d].slug
      BY <2>1, <1>0 DEF RequestFits, ListFits
    <3>2. r.seen <= campaignSlugs'
      BY <3>1, <2>1, <2>3, <1>0
    <3>3. QED
      BY <3>1, <3>2, <2>3, <2>6, <2>8 DEF ListFits
  <2>10. RequestFits(q)'
    BY <2>8, <2>9 DEF RequestFits, EditFits, Editing, ImportFits, BindFits
  <2>11. /\ UNCHANGED <<campaignMedia, campaignConnected>>
         /\ campaignLinks' \in Nat /\ campaignLinks <= campaignLinks'
         /\ campaignSlugs' \in Nat /\ campaignSlugs <= campaignSlugs'
         /\ GoodRow(new, campaignMedia, campaignLinks', campaignSlugs')
    BY <1>0, <2>1, <2>4
  <2>12. QED
    BY <1>0, <2>1, <2>2, <2>3, <2>5, <2>7, <2>10, <2>11, WroteRow
<1>3. QED
  BY <1>1, <1>2

LEMMA TargetsAreSingle ==
  ASSUME CampaignInv, NEW t \in C!Targets
  PROVE  t \in Target /\ Single(t) /\ t.post <= Len(campaignMedia)
<1>1. Len(campaignMedia) \in Nat
  BY CampaignLengths
<1>2. CASE t \in {C!AnyPost, C!NextReel}
  <2>1. C!AnyPost \in Target /\ Single(C!AnyPost) /\ C!AnyPost.post = 0
    BY DEF C!AnyPost, Target, Single
  <2>2. C!NextReel \in Target /\ Single(C!NextReel) /\ C!NextReel.post = 0
    BY DEF C!NextReel, Target, Single
  <2>3. QED
    BY <2>1, <2>2, <1>1, <1>2
<1>3. CASE t \notin {C!AnyPost, C!NextReel}
  <2>1. PICK p \in 1..Len(campaignMedia) : t = C!Post(p)
    BY <1>3 DEF C!Targets
  <2>2. p \in Nat /\ p # 0 /\ p <= Len(campaignMedia)
    BY <1>1
  <2>3. QED
    BY <2>1, <2>2 DEF C!Post, Target, Single
<1>4. QED
  BY <1>2, <1>3

\* The builder sends a target and both links, the list the target that is there and none.
LEMMA UpdateKeeps ==
  ASSUME C!CampaignBounds, CampaignInv, NEW q \in Callers, NEW c \in C!Ids, NEW t,
         NEW primary \in {"keep", "empty", "w"}, NEW secondary \in {"keep", "empty", "x"},
         primary = "keep" <=> secondary = "keep",
         t \in C!Targets \/ t = campaignRows[c].target,
         C!Update(q, c, t, primary, secondary)
  PROVE  CampaignInv'
<1> DEFINE old == campaignRows[c]
           new == [old EXCEPT !.target = t, !.by = q]
           r == campaignReq[q]
           n == [r EXCEPT !.c = c, !.primary = primary, !.secondary = secondary,
                          !.before = old.links]
<1>0. /\ c \in 1..Len(campaignRows) /\ campaignRows \in Seq(Automation) /\ old \in Automation
      /\ GoodRow(old, campaignMedia, campaignLinks, campaignSlugs) /\ Len(campaignRows) \in Nat
      /\ campaignLinks \in Nat /\ campaignSlugs \in Nat
      /\ campaignReq \in [Callers -> Changed] /\ r \in Changed
  BY CampaignLengths DEF C!Ids, RowsAreGood
<1>1. CASE ~ C!Live(c)
  BY <1>1, EndQuiet DEF C!Update, StateStays
<1>2. CASE C!Live(c)
  <2>1. /\ campaignRows' = [campaignRows EXCEPT ![c] = new] /\ old.live
        /\ UNCHANGED <<campaignMedia, campaignConnected, campaignLinks, campaignSlugs>>
        /\ Turned(q, "primary", n)
    BY <1>0, <1>2 DEF C!Update, C!Goto, Turned, C!Live
  <2>2. t \in Target /\ t.post <= Len(campaignMedia) /\ (~ old.raced => Single(t))
    BY <1>0, TargetsAreSingle, RowTyped DEF GoodRow
  <2>3. /\ new \in Automation /\ new.by = q /\ new.live = old.live /\ new.links = old.links
        /\ new.target = t /\ new.born = old.born /\ new.slug = old.slug
        /\ new.from = old.from /\ new.imported = old.imported
        /\ new.bound = old.bound /\ new.raced = old.raced
    <3> HIDE DEF old
    <3>1. QED
      BY <1>0, <2>2 DEF Automation
  <2>4. /\ n \in Changed /\ n.c = c /\ n.primary = primary /\ n.secondary = secondary
        /\ n.before = old.links
    <3>0. c \in Nat
      BY <1>0
    <3>1. old.links \in Seq(TrackedLink) /\ c \in Nat
      BY <3>0, <1>0, RowTyped
    <3> HIDE DEF old, r
    <3>2. QED
      BY <3>1, <1>0 DEF Changed
  <2> HIDE DEF new, n
  <2>5. GoodRow(new, campaignMedia, campaignLinks, campaignSlugs)
    BY <2>2, <2>3, <1>0 DEF GoodRow, BoundFits
  <2>6. RowMoves(q, old, new)
    BY <2>3, <2>1 DEF RowMoves
  <2>7. campaignRows'[c] = new /\ Len(campaignRows') = Len(campaignRows)
    <3>1. campaignRows \in Seq(Automation) /\ c \in 1..Len(campaignRows) /\ new \in Automation
      BY <1>0, <2>3
    <3>2. campaignRows' = [campaignRows EXCEPT ![c] = new]
      BY <2>1
    <3>3. QED
      BY ONLY <3>1, <3>2
  <2>8. "primary" \in CampaignPlaces
    BY DEF CampaignPlaces
  <2>9. campaignPc'[q] = "primary" /\ campaignReq'[q] = n
    BY <2>1, <2>4, <2>8, TurnedTo
  <2>10. EditFits(q)'
    BY <1>0, <2>3, <2>4, <2>7, <2>9 DEF EditFits, KnowsLinks, FoundAll, Own
  <2>11. RequestFits(q)'
    BY <2>9, <2>10 DEF RequestFits, ImportFits, ListFits, BindFits
  <2>12. /\ UNCHANGED <<campaignMedia, campaignConnected>>
         /\ campaignLinks' \in Nat /\ campaignLinks <= campaignLinks'
         /\ campaignSlugs' \in Nat /\ campaignSlugs <= campaignSlugs'
         /\ GoodRow(new, campaignMedia, campaignLinks', campaignSlugs')
    <3>1. campaignLinks \in Nat /\ campaignSlugs \in Nat
      BY <1>0
    <3>2. UNCHANGED <<campaignMedia, campaignConnected, campaignLinks, campaignSlugs>>
      BY <2>1
    <3>3. QED
      BY ONLY <3>1, <3>2, <2>5
  <2>13. QED
    BY <1>0, <2>1, <2>3, <2>4, <2>6, <2>8, <2>11, <2>12, WroteRow
<1>3. QED
  BY <1>1, <1>2

-----------------------------------------------------------------------------
(* Campaigns: rows and links made, cut and set *)

LEMMA RowMade ==
  ASSUME CampaignInv, NEW q \in Callers, NEW t \in Target, Single(t),
         t.post <= Len(campaignMedia), NEW urls \in Seq({"w", "x"}), NEW p \in Nat
  PROVE  LET row == C!Row(t, urls, q, p) IN
         /\ row \in Automation /\ row.from = q /\ row.imported = p /\ Len(row.links) \in Nat
         /\ GoodRow(row, campaignMedia, campaignLinks + Len(row.links), campaignSlugs + 1)
<1> DEFINE own == [i \in 1..Len(urls) |->
                    [id |-> campaignLinks + i, url |-> urls[i], made |-> campaignLinks + 1]]
           row == C!Row(t, urls, q, p)
<1>1. campaignLinks \in Nat /\ campaignSlugs \in Nat /\ Len(campaignMedia) \in Nat
  BY CampaignLengths
<1>2. Len(urls) \in Nat /\ \A i \in 1..Len(urls) : urls[i] \in {"w", "x"}
  OBVIOUS
<1>3. \A i \in 1..Len(urls) :
        [id |-> campaignLinks + i, url |-> urls[i], made |-> campaignLinks + 1] \in TrackedLink
  BY <1>1, <1>2 DEF TrackedLink
<1>4. own \in Seq(TrackedLink) /\ Len(own) = Len(urls)
  BY <1>2, <1>3
<1>5. \A i \in 1..Len(own) : own[i].id = campaignLinks + i /\ own[i].made = campaignLinks + 1
  BY <1>4
<1>6. LinksFit(own, campaignLinks + Len(own))
  <2> HIDE DEF own
  <2>1. QED
    BY <1>1, <1>2, <1>4, <1>5 DEF LinksFit
<1>7. row = [live |-> TRUE, target |-> t, slug |-> campaignSlugs + 1, born |-> Len(campaignMedia),
             links |-> own, from |-> q, imported |-> p, by |-> q, bound |-> <<0, 0>>,
             raced |-> FALSE]
  BY DEF C!Row
<1> HIDE DEF own, row
<1>8. /\ row.target = t /\ row.slug = campaignSlugs + 1 /\ row.links = own /\ row.from = q
      /\ row.imported = p /\ row.bound = <<0, 0>> /\ row.raced = FALSE
  BY <1>7
<1>9. row \in Automation
  <2> DEFINE born == Len(campaignMedia)
             none == <<0, 0>>
             slug == campaignSlugs + 1
  <2>1. none \in Nat \X Nat /\ born \in Nat /\ slug \in Nat
    BY <1>1
  <2>2. row = [live |-> TRUE, target |-> t, slug |-> slug, born |-> born, links |-> own,
               from |-> q, imported |-> p, by |-> q, bound |-> none, raced |-> FALSE]
    BY <1>7
  <2> HIDE DEF born, none, slug
  <2>3. QED
    BY <2>1, <2>2, <1>4 DEF Automation
<1>10. GoodRow(row, campaignMedia, campaignLinks + Len(own), campaignSlugs + 1)
  BY <1>1, <1>6, <1>8 DEF GoodRow, BoundFits
<1>11. QED
  BY <1>2, <1>4, <1>8, <1>9, <1>10 DEF row

\* A link cut out.
LEMMA CutLinks ==
  ASSUME NEW own \in Seq(TrackedLink), NEW last \in Nat, LinksFit(own, last),
         NEW i \in 1..Len(own)
  PROVE  LET cut == C!Without(own, i) IN
         /\ cut \in Seq(TrackedLink) /\ Len(cut) = Len(own) - 1 /\ LinksFit(cut, last)
         /\ \A j \in 1..Len(cut) : cut[j] = IF j < i THEN own[j] ELSE own[j + 1]
<1> DEFINE cut == C!Without(own, i)
           k == Len(own) - 1
<1>1. Len(own) \in Nat /\ k \in Nat /\ i \in Int
  OBVIOUS
<1>2. cut = [j \in 1..k |-> IF j < i THEN own[j] ELSE own[j + 1]]
  BY DEF C!Without
<1>3. \A j \in 1..k : j \in 1..Len(own) /\ j + 1 \in 1..Len(own)
  BY <1>1
<1>4. \A j \in 1..k : (IF j < i THEN own[j] ELSE own[j + 1]) \in TrackedLink
  BY <1>3
<1> HIDE DEF cut
<1>5. cut \in Seq(TrackedLink) /\ Len(cut) = k
  BY <1>1, <1>2, <1>4
<1>6. \A j \in 1..k : cut[j] = IF j < i THEN own[j] ELSE own[j + 1]
  BY <1>2
<1>7. LinksFit(cut, last)
  <2>1. /\ \A j \in 1..Len(own) : own[j].id \in 1..last /\ own[j].made \in 1..last
        /\ \A j, l \in 1..Len(own) : own[j].id = own[l].id => j = l
        /\ \A j, l \in 1..Len(own) : j < l => own[j].made <= own[l].made
    BY DEF LinksFit
  <2>2. \A j \in 1..k : cut[j].id \in 1..last /\ cut[j].made \in 1..last
    BY <2>1, <1>3, <1>6
  <2>3. ASSUME NEW j \in 1..k, NEW l \in 1..k, cut[j].id = cut[l].id PROVE j = l
    <3>1. (IF j < i THEN j ELSE j + 1) = (IF l < i THEN l ELSE l + 1)
      BY <2>1, <2>3, <1>3, <1>6
    <3>2. QED
      BY <3>1, <1>1
  <2>4. ASSUME NEW j \in 1..k, NEW l \in 1..k, j < l PROVE cut[j].made <= cut[l].made
    <3> DEFINE j1 == IF j < i THEN j ELSE j + 1
               l1 == IF l < i THEN l ELSE l + 1
    <3>1. j1 \in 1..Len(own) /\ l1 \in 1..Len(own) /\ j1 < l1
      BY <2>4, <1>1, <1>3
    <3>2. cut[j] = own[j1] /\ cut[l] = own[l1]
      BY <1>6
    <3> HIDE DEF j1, l1
    <3>3. QED
      BY <2>1, <3>1, <3>2
  <2>5. QED
    BY <2>2, <2>3, <2>4, <1>5 DEF LinksFit
<1>8. QED
  BY <1>5, <1>6, <1>7 DEF cut

\* A link given another URL.
WithUrl(own, id, url) ==
  [i \in DOMAIN own |-> IF own[i].id = id THEN [own[i] EXCEPT !.url = url] ELSE own[i]]

LEMMA SetLinks ==
  ASSUME NEW own \in Seq(TrackedLink), NEW last \in Nat, LinksFit(own, last),
         NEW id \in Nat, NEW url \in {"w", "x"}
  PROVE  LET set == WithUrl(own, id, url) IN
         /\ set \in Seq(TrackedLink) /\ Len(set) = Len(own) /\ LinksFit(set, last)
         /\ \A i \in 1..Len(own) :
              /\ own[i].id = id => set[i].url = url
              /\ own[i].id # id => set[i] = own[i]
              /\ set[i].made = own[i].made
<1> DEFINE set == WithUrl(own, id, url)
           one(t) == [t EXCEPT !.url = url]
<1>1. Len(own) \in Nat /\ DOMAIN own = 1..Len(own) /\ \A i \in 1..Len(own) : own[i] \in TrackedLink
  OBVIOUS
<1>2. ASSUME NEW t \in TrackedLink
      PROVE  /\ one(t) \in TrackedLink /\ one(t).id = t.id /\ one(t).url = url
             /\ one(t).made = t.made
  BY DEF TrackedLink
<1>3. set = [i \in 1..Len(own) |-> IF own[i].id = id THEN one(own[i]) ELSE own[i]]
  BY <1>1 DEF WithUrl
<1> HIDE DEF set, one
<1>4. \A i \in 1..Len(own) : (IF own[i].id = id THEN one(own[i]) ELSE own[i]) \in TrackedLink
  BY <1>1, <1>2
<1>5. set \in Seq(TrackedLink) /\ Len(set) = Len(own)
  BY <1>1, <1>3, <1>4
<1>6. \A i \in 1..Len(own) : /\ set[i].id = own[i].id /\ set[i].made = own[i].made
                             /\ own[i].id = id => set[i].url = url
                             /\ own[i].id # id => set[i] = own[i]
  BY <1>1, <1>2, <1>3
<1>7. LinksFit(set, last)
  BY <1>5, <1>6 DEF LinksFit
<1>8. QED
  BY <1>5, <1>6, <1>7 DEF set

\* A link added.
LEMMA AddLinks ==
  ASSUME NEW own \in Seq(TrackedLink), NEW last \in Nat, LinksFit(own, last),
         NEW url \in {"w", "x"}
  PROVE  LET more == Append(own, [id |-> last + 1, url |-> url, made |-> last + 1]) IN
         /\ more \in Seq(TrackedLink) /\ Len(more) = Len(own) + 1 /\ LinksFit(more, last + 1)
         /\ \A i \in 1..Len(own) : more[i] = own[i]
         /\ more[Len(own) + 1].url = url /\ more[Len(own) + 1].made = last + 1
<1> DEFINE one == [id |-> last + 1, url |-> url, made |-> last + 1]
           more == Append(own, one)
<1>1. Len(own) \in Nat
  OBVIOUS
<1>2. one \in TrackedLink /\ one.id = last + 1 /\ one.url = url /\ one.made = last + 1
  BY DEF TrackedLink
<1> HIDE DEF one
<1>3. /\ more \in Seq(TrackedLink) /\ Len(more) = Len(own) + 1
      /\ \A i \in 1..Len(own) : more[i] = own[i]
      /\ more[Len(own) + 1] = one
  BY <1>1, <1>2
<1> HIDE DEF more
<1>4. \A i \in 1..Len(more) : i \in 1..Len(own) \/ i = Len(own) + 1
  BY <1>1, <1>3
<1>5. /\ \A j \in 1..Len(own) : own[j].id \in 1..last /\ own[j].made \in 1..last
      /\ \A j, l \in 1..Len(own) : own[j].id = own[l].id => j = l
      /\ \A j, l \in 1..Len(own) : j < l => own[j].made <= own[l].made
  BY DEF LinksFit
<1>6. \A i \in 1..Len(more) : more[i].id \in 1..(last + 1) /\ more[i].made \in 1..(last + 1)
  BY <1>2, <1>3, <1>4, <1>5
<1>7. ASSUME NEW j \in 1..Len(more), NEW l \in 1..Len(more), more[j].id = more[l].id
      PROVE  j = l
  <2>1. CASE j \in 1..Len(own) /\ l \in 1..Len(own)
    BY <2>1, <1>3, <1>5, <1>7
  <2>2. CASE j \in 1..Len(own) /\ l = Len(own) + 1
    BY <2>2, <1>2, <1>3, <1>5, <1>7
  <2>3. CASE l \in 1..Len(own) /\ j = Len(own) + 1
    BY <2>3, <1>2, <1>3, <1>5, <1>7
  <2>4. QED
    BY <2>1, <2>2, <2>3, <1>4
<1>8. ASSUME NEW j \in 1..Len(more), NEW l \in 1..Len(more), j < l
      PROVE  more[j].made <= more[l].made
  <2>1. CASE l \in 1..Len(own)
    BY <2>1, <1>3, <1>4, <1>5, <1>8
  <2>2. CASE l = Len(own) + 1
    <3>1. j \in 1..Len(own)
      BY <2>2, <1>4, <1>8
    <3>2. QED
      BY <2>2, <3>1, <1>2, <1>3, <1>5
  <2>3. QED
    BY <2>1, <2>2, <1>4
<1>9. LinksFit(more, last + 1)
  BY <1>6, <1>7, <1>8 DEF LinksFit
<1>10. QED
  BY <1>2, <1>3, <1>9 DEF more, one

-----------------------------------------------------------------------------
(* Campaigns: a link is written *)

\* How a write leaves the links own, when id was found and asked is the URL.
LinkWritten(own, id, asked, last, own2) ==
  \/ asked = "empty" /\ id = 0 /\ own2 = own
  \/ /\ asked = "empty"
     /\ \E i \in 1..Len(own) : own[i].id = id /\ own2 = C!Without(own, i)
  \/ /\ asked # "empty" /\ \E i \in 1..Len(own) : own[i].id = id
     /\ own2 = WithUrl(own, id, asked)
  \/ /\ asked # "empty" /\ id = 0
     /\ own2 = Append(own, [id |-> last + 1, url |-> asked, made |-> last + 1])

\* The first write leaves no link, or the one asked for before at most one other.
LEMMA FirstWritten ==
  ASSUME NEW own \in Seq(TrackedLink), NEW last \in Nat, LinksFit(own, last),
         NEW r \in Changed, r.primary # "keep", FoundFirst(r, own), Plain(r),
         NEW own2, LinkWritten(own, r.link, r.primary, last, own2)
  PROVE  WroteFirst(r, own2)
<1>1. /\ Len(own) \in {0, 1, 2} /\ (r.primary = "empty" => Len(own) # 2) /\ Apart(own)
      /\ r.link = IF Len(own) = 0 THEN 0 ELSE own[1].id
      /\ r.primary \in {"empty", "w"} /\ r.link \in Nat
  <2>1. own = r.before /\ Len(own) \in Nat
    BY DEF FoundFirst
  <2>2. r.primary \in {"empty", "w"} /\ r.link \in Nat
    BY DEF Changed
  <2>3. r.link = IF Len(own) = 0 THEN 0 ELSE own[1].id
    BY DEF FoundFirst
  <2>4. Len(own) <= 2 /\ ~ (r.primary = "empty" /\ Len(own) = 2) /\ Apart(own)
    BY <2>1 DEF Plain
  <2>5. Len(own) \in {0, 1, 2}
    <3>1. Len(own) \in Nat
      BY <2>1
    <3>2. Len(own) <= 2
      BY <2>4
    <3>3. \A k \in Nat : k <= 2 => k \in {0, 1, 2}
      OBVIOUS
    <3>4. QED
      BY <3>1, <3>2, <3>3
  <2>6. QED
    BY <2>2, <2>3, <2>4, <2>5
<1>2. \A i \in 1..Len(own) : own[i].id # 0
  BY DEF LinksFit
<1>3. Len(own) # 0 => 1 \in 1..Len(own) /\ own[1].id = r.link
  BY <1>1
<1>4. CASE r.primary = "empty"
  <2>1. CASE r.link = 0 /\ own2 = own
    BY <2>1, <1>1, <1>2, <1>3, <1>4 DEF WroteFirst
  <2>2. CASE \E i \in 1..Len(own) : own[i].id = r.link /\ own2 = C!Without(own, i)
    <3>1. PICK i \in 1..Len(own) : own2 = C!Without(own, i)
      BY <2>2
    <3>2. Len(own2) = Len(own) - 1 /\ Len(own) # 0
      BY <3>1, <1>1, CutLinks
    <3>3. QED
      BY <3>2, <1>1, <1>4 DEF WroteFirst
  <2>3. QED
    BY <2>1, <2>2, <1>4 DEF LinkWritten
<1>5. CASE r.primary = "w"
  <2> DEFINE set == WithUrl(own, r.link, "w")
             more == Append(own, [id |-> last + 1, url |-> "w", made |-> last + 1])
  <2>1. CASE (\E i \in 1..Len(own) : own[i].id = r.link) /\ own2 = set
    <3>1. Len(set) = Len(own) /\ \A i \in 1..Len(own) :
             /\ own[i].id = r.link => set[i].url = "w"
             /\ set[i].made = own[i].made
      BY <1>1, SetLinks
    <3> HIDE DEF set
    <3>2. Len(own) # 0
      BY <2>1
    <3>3. set[1].url = "w"
      BY <3>1, <3>2, <1>3
    <3>4. Apart(set)
      <4>1. Len(own) = 2 => 1 \in 1..Len(own) /\ 2 \in 1..Len(own)
        OBVIOUS
      <4>2. QED
        BY <4>1, <3>1, <1>1 DEF Apart
    <3>5. QED
      BY <2>1, <3>1, <3>2, <3>3, <3>4, <1>1, <1>5 DEF WroteFirst
  <2>2. CASE r.link = 0 /\ own2 = more
    <3>1. Len(own) = 0
      BY <2>2, <1>2, <1>3
    <3>2. Len(more) = Len(own) + 1 /\ more[Len(own) + 1].url = "w"
      BY AddLinks
    <3> HIDE DEF more
    <3>3. QED
      BY <2>2, <3>1, <3>2, <1>5 DEF WroteFirst, Apart
  <2>3. QED
    BY <2>1, <2>2, <1>5 DEF LinkWritten
<1>6. QED
  BY <1>1, <1>4, <1>5

Urls == {"u", "v", "w", "x"}

LEMMA UrlsTyped ==
  ASSUME NEW own \in Seq(TrackedLink)
  PROVE  LET urls == [i \in DOMAIN own |-> own[i].url] IN
         /\ urls \in Seq(Urls) /\ Len(urls) = Len(own) /\ Len(own) \in Nat
         /\ \A i \in 1..Len(own) : urls[i] = own[i].url
<1>1. \A i \in 1..Len(own) : own[i] \in TrackedLink
  OBVIOUS
<1>2. \A t \in TrackedLink : t.url \in Urls
  BY DEF TrackedLink, Urls
<1>3. \A i \in 1..Len(own) : own[i].url \in Urls
  BY <1>1, <1>2
<1>4. QED
  BY <1>3

\* The links are those asked for: none, one or two.
HasUrls(r, own) ==
  /\ r.primary = "empty" /\ r.secondary = "empty" => Len(own) = 0
  /\ r.primary = "w" /\ r.secondary = "empty" => Len(own) = 1 /\ own[1].url = "w"
  /\ r.primary = "empty" /\ r.secondary = "x" => Len(own) = 1 /\ own[1].url = "x"
  /\ r.primary = "w" /\ r.secondary = "x" =>
       Len(own) = 2 /\ own[1].url = "w" /\ own[2].url = "x"

\* Then their URLs are the ones a request gave.
LEMMA UrlsAre ==
  ASSUME NEW own \in Seq(TrackedLink), NEW r \in Changed,
         r.primary \in {"empty", "w"}, r.secondary \in {"empty", "x"}, HasUrls(r, own)
  PROVE  WroteBoth(r, own)
<1> DEFINE urls == [i \in DOMAIN own |-> own[i].url]
           asked == C!Given(r.primary, r.secondary)
<1>1. /\ urls \in Seq(Urls) /\ Len(urls) = Len(own) /\ Len(own) \in Nat
      /\ \A i \in 1..Len(own) : urls[i] = own[i].url
  BY UrlsTyped
<1> HIDE DEF urls
<1>2. SUFFICES urls = asked
  BY DEF WroteBoth, urls
<1>3. CASE r.primary = "empty" /\ r.secondary = "empty"
  <2>1. asked = <<>>
    BY <1>3 DEF C!Given
  <2>2. Len(own) = 0
    BY <1>3 DEF HasUrls
  <2>3. urls = <<>>
    BY ONLY <1>1, <2>2
  <2>4. QED
    BY <2>1, <2>3
<1>4. CASE r.primary = "w" /\ r.secondary = "empty"
  <2>1. asked = <<"w">>
    BY <1>4 DEF C!Given
  <2>2. Len(own) = 1 /\ own[1].url = "w"
    BY <1>4 DEF HasUrls
  <2>3. asked \in Seq(Urls) /\ Len(asked) = 1 /\ asked[1] = "w"
    BY ONLY <2>1 DEF Urls
  <2> HIDE DEF asked
  <2>4. \A i \in 1..Len(urls) : urls[i] = asked[i]
    BY ONLY <1>1, <2>2, <2>3
  <2>5. QED
    BY ONLY <1>1, <2>2, <2>3, <2>4, SeqEqual
<1>5. CASE r.primary = "empty" /\ r.secondary = "x"
  <2>1. asked = Append(<<>>, "x")
    BY <1>5 DEF C!Given
  <2>2. Len(own) = 1 /\ own[1].url = "x"
    BY <1>5 DEF HasUrls
  <2>3. asked \in Seq(Urls) /\ Len(asked) = 1 /\ asked[1] = "x"
    BY ONLY <2>1 DEF Urls
  <2> HIDE DEF asked
  <2>4. \A i \in 1..Len(urls) : urls[i] = asked[i]
    BY ONLY <1>1, <2>2, <2>3
  <2>5. QED
    BY ONLY <1>1, <2>2, <2>3, <2>4, SeqEqual
<1>6. CASE r.primary = "w" /\ r.secondary = "x"
  <2>1. asked = Append(<<"w">>, "x")
    BY <1>6 DEF C!Given
  <2>2. Len(own) = 2 /\ own[1].url = "w" /\ own[2].url = "x"
    BY <1>6 DEF HasUrls
  <2>3. asked \in Seq(Urls) /\ Len(asked) = 2 /\ asked[1] = "w" /\ asked[2] = "x"
    BY ONLY <2>1 DEF Urls
  <2> HIDE DEF asked
  <2>4. \A i \in 1..Len(urls) : urls[i] = asked[i]
    BY ONLY <1>1, <2>2, <2>3
  <2>5. QED
    BY ONLY <1>1, <2>2, <2>3, <2>4, SeqEqual
<1>7. QED
  BY <1>3, <1>4, <1>5, <1>6

\* The second write leaves the links asked for.
LEMMA SecondWritten ==
  ASSUME NEW own \in Seq(TrackedLink), NEW last \in Nat, LinksFit(own, last),
         NEW r \in Changed, r.primary # "keep", r.secondary # "keep", FoundSecond(r, own),
         NEW own2, LinkWritten(own, r.link, r.secondary, last, own2)
  PROVE  WroteBoth(r, own2)
<1>1. /\ r.primary \in {"empty", "w"} /\ r.secondary \in {"empty", "x"} /\ r.link \in Nat
  BY DEF Changed
<1>2. /\ IF r.primary = "empty" THEN Len(own) = 0 ELSE Len(own) \in {1, 2} /\ own[1].url = "w"
      /\ r.link = IF Len(own) = 2 THEN own[2].id ELSE 0
  BY DEF FoundSecond, WroteFirst
<1>3. /\ \A i \in 1..Len(own) : own[i].id # 0
      /\ \A i, j \in 1..Len(own) : own[i].id = own[j].id => i = j
  BY DEF LinksFit
<1>4. (\E i \in 1..Len(own) : own[i].id = r.link) => Len(own) = 2 /\ r.primary = "w"
  BY <1>1, <1>2, <1>3
<1>5. Len(own) = 2 => r.link # 0
  BY <1>2, <1>3
<1>6. CASE r.secondary = "empty"
  <2>1. CASE r.link = 0 /\ own2 = own
    <3>1. Len(own) = (IF r.primary = "w" THEN 1 ELSE 0) /\ (r.primary = "w" => own[1].url = "w")
      BY <2>1, <1>1, <1>2, <1>5
    <3>2. HasUrls(r, own2)
      BY <2>1, <3>1, <1>1, <1>6 DEF HasUrls
    <3>3. QED
      BY <2>1, <3>2, <1>1, <1>6, UrlsAre
  <2>2. CASE \E i \in 1..Len(own) : own[i].id = r.link /\ own2 = C!Without(own, i)
    <3>1. PICK i \in 1..Len(own) : own[i].id = r.link /\ own2 = C!Without(own, i)
      BY <2>2
    <3>2. Len(own) = 2 /\ r.primary = "w" /\ own[1].url = "w" /\ i = 2
      BY <3>1, <1>2, <1>3, <1>4
    <3>3. own2 \in Seq(TrackedLink) /\ Len(own2) = 1 /\ own2[1] = own[1]
      <4>1. /\ own2 \in Seq(TrackedLink) /\ Len(own2) = Len(own) - 1
            /\ \A j \in 1..Len(own2) : own2[j] = IF j < i THEN own[j] ELSE own[j + 1]
        BY <3>1, CutLinks
      <4>2. QED
        BY <4>1, <3>2
    <3>4. HasUrls(r, own2)
      BY <3>2, <3>3, <1>1, <1>6 DEF HasUrls
    <3>5. QED
      BY <3>3, <3>4, <1>1, <1>6, UrlsAre
  <2>3. QED
    BY <2>1, <2>2, <1>6 DEF LinkWritten
<1>7. CASE r.secondary = "x"
  <2> DEFINE set == WithUrl(own, r.link, "x")
             more == Append(own, [id |-> last + 1, url |-> "x", made |-> last + 1])
  <2>1. CASE (\E i \in 1..Len(own) : own[i].id = r.link) /\ own2 = set
    <3>1. set \in Seq(TrackedLink) /\ Len(set) = Len(own) /\ \A i \in 1..Len(own) :
             /\ own[i].id = r.link => set[i].url = "x"
             /\ own[i].id # r.link => set[i] = own[i]
      BY <1>1, SetLinks
    <3> HIDE DEF set
    <3>2. Len(own) = 2 /\ r.primary = "w" /\ own[1].url = "w" /\ own[2].id = r.link
      BY <2>1, <1>2, <1>4
    <3>3. set[1] = own[1] /\ set[2].url = "x"
      <4>1. own[1].id # r.link
        BY <3>2, <1>3
      <4>2. QED
        BY <3>1, <3>2, <4>1
    <3>4. HasUrls(r, own2)
      BY <2>1, <3>1, <3>2, <3>3, <1>7 DEF HasUrls
    <3>5. QED
      BY <2>1, <3>1, <3>2, <3>4, <1>7, UrlsAre
  <2>2. CASE r.link = 0 /\ own2 = more
    <3>1. /\ more \in Seq(TrackedLink) /\ Len(more) = Len(own) + 1
          /\ \A i \in 1..Len(own) : more[i] = own[i]
          /\ more[Len(own) + 1].url = "x"
      BY AddLinks
    <3> HIDE DEF more
    <3>2. Len(own) # 2
      BY <2>2, <1>5
    <3>3. CASE r.primary = "empty"
      <4>1. Len(own) = 0
        BY <3>3, <1>2
      <4>2. HasUrls(r, own2)
        BY <2>2, <3>1, <3>3, <4>1, <1>7 DEF HasUrls
      <4>3. QED
        BY <2>2, <3>1, <3>3, <4>2, <1>7, UrlsAre
    <3>4. CASE r.primary = "w"
      <4>1. Len(own) = 1 /\ own[1].url = "w"
        BY <3>2, <3>4, <1>2
      <4>2. HasUrls(r, own2)
        BY <2>2, <3>1, <3>4, <4>1, <1>7 DEF HasUrls
      <4>3. QED
        BY <2>2, <3>1, <3>4, <4>2, <1>7, UrlsAre
    <3>5. QED
      BY <3>3, <3>4, <1>1
  <2>3. QED
    BY <2>1, <2>2, <1>7 DEF LinkWritten
<1>8. QED
  BY <1>1, <1>6, <1>7

-----------------------------------------------------------------------------
(* Campaigns: an edit writes its links *)

\* A row whose links a request wrote.
LEMMA RowTouched ==
  ASSUME C!CampaignBounds, NEW old \in Automation, NEW q \in Callers,
         NEW own2 \in Seq(TrackedLink)
  PROVE  LET new == [C!Touch(old, q) EXCEPT !.links = own2] IN
         /\ new \in Automation /\ new.live = old.live /\ new.links = own2
         /\ new.by = (IF old.by = q THEN q ELSE "several")
         /\ new.target = old.target /\ new.born = old.born /\ new.slug = old.slug
         /\ new.from = old.from /\ new.imported = old.imported
         /\ new.bound = old.bound /\ new.raced = old.raced
<1> DEFINE by == IF old.by = q THEN q ELSE "several"
           new == [old EXCEPT !.by = by, !.links = own2]
<1>1. [C!Touch(old, q) EXCEPT !.links = own2] = new
  BY DEF C!Touch, Automation
<1>2. by \in Callers \cup {"no one", "several"}
  OBVIOUS
<1> HIDE DEF by
<1>3. /\ new \in Automation /\ new.live = old.live /\ new.links = own2 /\ new.by = by
      /\ new.target = old.target /\ new.born = old.born /\ new.slug = old.slug
      /\ new.from = old.from /\ new.imported = old.imported
      /\ new.bound = old.bound /\ new.raced = old.raced
  BY <1>2 DEF Automation
<1>4. QED
  BY <1>1, <1>3 DEF by

LEMMA LinksWritten ==
  ASSUME C!CampaignBounds, CampaignInv, NEW q \in Callers,
         NEW c \in 1..Len(campaignRows), campaignReq[q].c = c, campaignReq[q].primary # "keep",
         campaignPc[q] \in Editing,
         NEW own2 \in Seq(TrackedLink), LinksFit(own2, campaignLinks'),
         campaignRows' = [campaignRows EXCEPT ![c] =
                            [C!Touch(campaignRows[c], q) EXCEPT !.links = own2]],
         UNCHANGED <<campaignMedia, campaignConnected, campaignSlugs>>,
         campaignLinks' \in Nat, campaignLinks <= campaignLinks',
         NEW next \in {"secondary", "answer"}, C!Goto(q, next), UNCHANGED campaignReq,
         Undisturbed(q) => KnowsLinks(next, campaignReq[q], own2)
  PROVE  CampaignInv'
<1> DEFINE old == campaignRows[c]
           new == [C!Touch(old, q) EXCEPT !.links = own2]
           r == campaignReq[q]
<1>0. /\ campaignRows \in Seq(Automation) /\ old \in Automation /\ Len(campaignRows) \in Nat
      /\ GoodRow(old, campaignMedia, campaignLinks, campaignSlugs)
      /\ campaignLinks \in Nat /\ campaignSlugs \in Nat
      /\ campaignReq \in [Callers -> Changed] /\ r \in Changed /\ RequestFits(q)
  BY CampaignLengths DEF RowsAreGood
<1>1. /\ new \in Automation /\ new.live = old.live /\ new.links = own2
      /\ new.by = (IF old.by = q THEN q ELSE "several")
      /\ new.target = old.target /\ new.born = old.born /\ new.slug = old.slug
      /\ new.from = old.from /\ new.imported = old.imported
      /\ new.bound = old.bound /\ new.raced = old.raced
  BY <1>0, RowTouched
<1>2. campaignRows' = [campaignRows EXCEPT ![c] = new]
  OBVIOUS
<1> HIDE DEF new, old
<1>3. Turned(q, next, r) /\ next \in CampaignPlaces
  BY <1>0 DEF C!Goto, Turned, CampaignPlaces
<1>4. campaignPc'[q] = next /\ campaignReq'[q] = r
  BY <1>0, <1>3, TurnedTo
<1>5. GoodRow(new, campaignMedia, campaignLinks', campaignSlugs')
  <2>1. campaignSlugs' = campaignSlugs
    OBVIOUS
  <2>2. QED
    BY <2>1, <1>0, <1>1 DEF GoodRow, BoundFits
<1>6. RowMoves(q, old, new)
  BY <1>1 DEF RowMoves
<1>7. campaignRows'[c] = new /\ Len(campaignRows') = Len(campaignRows)
  BY <1>0, <1>1, <1>2
<1>8. EditFits(q)'
  <2>1. q # "several"
    BY DEF C!CampaignBounds
  <2>2. Undisturbed(q)' => Undisturbed(q) /\ Own(q)' = own2
    BY <2>1, <1>1, <1>4, <1>7 DEF Undisturbed, Own, old
  <2>3. r.primary = "keep" <=> r.secondary = "keep"
    BY <1>0 DEF RequestFits, EditFits
  <2>4. QED
    BY <2>2, <2>3, <1>4, <1>7 DEF EditFits
<1>9. RequestFits(q)'
  BY <1>4, <1>8 DEF RequestFits, ImportFits, ListFits, BindFits
<1>10. campaignSlugs' \in Nat /\ campaignSlugs <= campaignSlugs'
  BY <1>0
<1>11. QED
  BY <1>0, <1>1, <1>2, <1>3, <1>5, <1>6, <1>9, <1>10, WroteRow DEF old

\* The places of an edit around a write, and the URLs it may be asked for.
Writing(place, next, asked) ==
  /\ place \in {"write first", "write second"} /\ next \in {"secondary", "answer"}
  /\ asked \in {"empty", "w", "x"}

\* A write keeps the invariant when it leaves what its request then knows.
LEMMA WriteLinkKeeps ==
  ASSUME C!CampaignBounds, CampaignInv, NEW q \in Callers,
         NEW place, NEW next, NEW asked, Writing(place, next, asked),
         C!WriteLink(q, place, next, asked),
         ASSUME NEW own2, Undisturbed(q),
                LinkWritten(Own(q), campaignReq[q].link, asked, campaignLinks, own2)
         PROVE  KnowsLinks(next, campaignReq[q], own2)
  PROVE  CampaignInv'
<1> DEFINE r == campaignReq[q]
           own == campaignRows[r.c].links
           Set(own2) == campaignRows' = [campaignRows EXCEPT ![r.c] =
                          [C!Touch(campaignRows[r.c], q) EXCEPT !.links = own2]]
<1>0. campaignPc[q] = place /\ UNCHANGED <<campaignConnected, campaignMedia, campaignSlugs>>
  BY DEF C!WriteLink
<1>1. /\ campaignRows \in Seq(Automation) /\ Len(campaignRows) \in Nat
      /\ campaignLinks \in Nat /\ campaignSlugs \in Nat
      /\ campaignReq \in [Callers -> Changed] /\ r \in Changed /\ RequestFits(q)
  BY CampaignLengths
<1>2. /\ r.c \in 1..Len(campaignRows) /\ r.primary # "keep" /\ campaignPc[q] \in Editing
      /\ (r.primary = "keep" <=> r.secondary = "keep") /\ r.link \in Nat
  <2>1. campaignPc[q] \in Editing /\ campaignPc[q] # "primary"
    BY <1>0 DEF Editing, Writing
  <2>2. r.link \in Nat
    BY <1>1, ChangedTyped
  <2>3. QED
    BY <2>1, <2>2, <1>1 DEF RequestFits, EditFits
<1>3. campaignRows[r.c] \in Automation /\ own \in Seq(TrackedLink) /\ DOMAIN own = 1..Len(own)
      /\ LinksFit(own, campaignLinks) /\ Own(q) = own
  BY <1>2, CampaignLengths, RowTyped DEF RowsAreGood, GoodRow, Own
<1>4. CASE asked = "empty" /\ r.link = 0 /\ C!Goto(q, next)
           /\ UNCHANGED <<campaignRows, campaignLinks, campaignReq>>
  <2>1. StateStays /\ Turned(q, next, r) /\ next \in CampaignPlaces
    BY <1>0, <1>1, <1>4 DEF StateStays, Turned, C!Goto, CampaignPlaces, Writing
  <2>2. campaignPc'[q] = next /\ campaignReq'[q] = r
    BY <1>1, <2>1, TurnedTo
  <2>3. Undisturbed(q) => KnowsLinks(next, r, own)
    BY <1>3, <1>4 DEF LinkWritten
  <2>4. EditFits(q)'
    BY <1>2, <1>3, <2>1, <2>2, <2>3 DEF EditFits, Undisturbed, Own, StateStays
  <2>5. RequestFits(q)'
    BY <2>2, <2>4 DEF RequestFits, ImportFits, ListFits, BindFits, Writing
  <2>6. QED
    BY <1>1, <2>1, <2>5, CampaignQuiet
<1>5. CASE asked = "empty" /\ (\E i \in DOMAIN own : own[i].id = r.link /\ Set(C!Without(own, i)))
           /\ C!Goto(q, next) /\ UNCHANGED <<campaignLinks, campaignReq>>
  <2>1. PICK i \in 1..Len(own) : own[i].id = r.link /\ Set(C!Without(own, i))
    BY <1>3, <1>5
  <2> DEFINE own2 == C!Without(own, i)
  <2>2. own2 \in Seq(TrackedLink) /\ LinksFit(own2, campaignLinks)
    BY <1>1, <1>3, CutLinks
  <2>3. Undisturbed(q) => KnowsLinks(next, r, own2)
    BY <1>3, <1>5, <2>1 DEF LinkWritten
  <2> HIDE DEF own2
  <2>4. LinksFit(own2, campaignLinks') /\ campaignLinks' \in Nat /\ campaignLinks <= campaignLinks'
    <3>1. campaignLinks' = campaignLinks
      BY <1>5
    <3>2. campaignLinks \in Nat
      BY <1>1
    <3>3. QED
      BY ONLY <2>2, <3>1, <3>2
  <2>5. Set(own2)
    BY <2>1 DEF own2
  <2>6. next \in {"secondary", "answer"}
    BY DEF Writing
  <2>7. QED
    BY <1>0, <1>2, <1>5, <2>2, <2>3, <2>4, <2>5, <2>6, LinksWritten
<1>6. CASE /\ asked # "empty" /\ \E i \in DOMAIN own : own[i].id = r.link
           /\ Set(WithUrl(own, r.link, asked))
           /\ C!Goto(q, next) /\ UNCHANGED <<campaignLinks, campaignReq>>
  <2> DEFINE own2 == WithUrl(own, r.link, asked)
  <2>1. asked \in {"w", "x"}
    BY <1>6 DEF Writing
  <2>2. own2 \in Seq(TrackedLink) /\ LinksFit(own2, campaignLinks)
    <3>1. /\ own \in Seq(TrackedLink) /\ LinksFit(own, campaignLinks)
          /\ campaignLinks \in Nat /\ r.link \in Nat
      BY <1>1, <1>2, <1>3
    <3> HIDE DEF own, r
    <3>2. QED
      BY ONLY <2>1, <3>1, SetLinks
  <2>3. Undisturbed(q) => KnowsLinks(next, r, own2)
    BY <1>3, <1>6 DEF LinkWritten
  <2>4. Set(own2)
    BY <1>6
  <2> HIDE DEF own2
  <2>5. LinksFit(own2, campaignLinks') /\ campaignLinks' \in Nat /\ campaignLinks <= campaignLinks'
    <3>1. campaignLinks' = campaignLinks
      BY <1>6
    <3>2. campaignLinks \in Nat
      BY <1>1
    <3>3. QED
      BY ONLY <2>2, <3>1, <3>2
  <2>6. next \in {"secondary", "answer"}
    BY DEF Writing
  <2>7. QED
    BY <1>0, <1>2, <1>6, <2>2, <2>3, <2>4, <2>5, <2>6, LinksWritten
<1>7. CASE /\ asked # "empty" /\ r.link = 0
           /\ Set(Append(own, [id |-> campaignLinks + 1, url |-> asked, made |-> campaignLinks + 1]))
           /\ campaignLinks' = campaignLinks + 1
           /\ C!Goto(q, next) /\ UNCHANGED campaignReq
  <2> DEFINE own2 == Append(own, [id |-> campaignLinks + 1, url |-> asked, made |-> campaignLinks + 1])
  <2>1. asked \in {"w", "x"}
    BY <1>7 DEF Writing
  <2>2. own2 \in Seq(TrackedLink) /\ LinksFit(own2, campaignLinks + 1)
    BY <1>1, <1>3, <2>1, AddLinks
  <2>3. Undisturbed(q) => KnowsLinks(next, r, own2)
    BY <1>3, <1>7 DEF LinkWritten
  <2>4. Set(own2)
    BY <1>7
  <2> HIDE DEF own2
  <2>5. LinksFit(own2, campaignLinks') /\ campaignLinks' \in Nat /\ campaignLinks <= campaignLinks'
    <3>1. campaignLinks' = campaignLinks + 1
      BY <1>7
    <3>2. campaignLinks \in Nat
      BY <1>1
    <3>3. QED
      BY ONLY <2>2, <3>1, <3>2
  <2>6. next \in {"secondary", "answer"}
    BY DEF Writing
  <2>7. C!Goto(q, next) /\ UNCHANGED campaignReq
    BY <1>7
  <2>8. QED
    BY <1>0, <1>2, <2>2, <2>3, <2>4, <2>5, <2>6, <2>7, LinksWritten
<1>8. CASE C!End(q) /\ UNCHANGED <<campaignRows, campaignLinks>>
  BY <1>0, <1>8, EndQuiet DEF StateStays
<1>9. QED
  BY <1>4, <1>5, <1>6, <1>7, <1>8 DEF C!WriteLink, C!Has, WithUrl

LEMMA WritePrimaryKeeps ==
  ASSUME C!CampaignBounds, CampaignInv, NEW q \in Callers, C!WritePrimary(q)
  PROVE  CampaignInv'
<1> DEFINE r == campaignReq[q]
<1>1. campaignPc[q] = "write first" /\ C!WriteLink(q, "write first", "secondary", r.primary)
  BY DEF C!WritePrimary, C!WriteLink
<1>2. /\ r \in Changed /\ RequestFits(q) /\ campaignLinks \in Nat
      /\ campaignReq \in [Callers -> Changed]
      /\ \A c \in 1..Len(campaignRows) : campaignRows[c] \in Automation
      /\ RowsAreGood
  BY CampaignLengths
<1>3. /\ r.c \in 1..Len(campaignRows) /\ r.primary # "keep"
      /\ Undisturbed(q) => FoundFirst(r, Own(q))
  BY <1>1, <1>2 DEF RequestFits, EditFits, Editing, KnowsLinks
<1>4. Own(q) \in Seq(TrackedLink) /\ LinksFit(Own(q), campaignLinks)
  BY <1>2, <1>3, RowTyped DEF Own, RowsAreGood, GoodRow
<1>5. r.primary \in {"empty", "w", "x"}
  BY <1>2, <1>3, ChangedTyped
<1>6. ASSUME NEW own2, Undisturbed(q), LinkWritten(Own(q), r.link, r.primary, campaignLinks, own2)
      PROVE  KnowsLinks("secondary", r, own2)
  <2>1. Plain(r) => WroteFirst(r, own2)
    BY <1>2, <1>3, <1>4, <1>6, FirstWritten
  <2>2. QED
    BY <2>1 DEF KnowsLinks
<1>7. QED
  BY <1>1, <1>5, <1>6, WriteLinkKeeps DEF Writing

LEMMA WriteSecondKeeps ==
  ASSUME C!CampaignBounds, CampaignInv, NEW q \in Callers, C!WriteSecond(q)
  PROVE  CampaignInv'
<1> DEFINE r == campaignReq[q]
<1>1. campaignPc[q] = "write second" /\ C!WriteLink(q, "write second", "answer", r.secondary)
  BY DEF C!WriteSecond, C!WriteLink
<1>2. /\ r \in Changed /\ RequestFits(q) /\ campaignLinks \in Nat
      /\ campaignReq \in [Callers -> Changed]
      /\ \A c \in 1..Len(campaignRows) : campaignRows[c] \in Automation
      /\ RowsAreGood
  BY CampaignLengths
<1>3. /\ r.c \in 1..Len(campaignRows) /\ r.primary # "keep" /\ r.secondary # "keep"
      /\ Undisturbed(q) /\ Plain(r) => FoundSecond(r, Own(q))
  BY <1>1, <1>2 DEF RequestFits, EditFits, Editing, KnowsLinks
<1>4. Own(q) \in Seq(TrackedLink) /\ LinksFit(Own(q), campaignLinks)
  BY <1>2, <1>3, RowTyped DEF Own, RowsAreGood, GoodRow
<1>5. r.secondary \in {"empty", "w", "x"}
  BY <1>2, <1>3, ChangedTyped
<1>6. ASSUME NEW own2, Undisturbed(q), LinkWritten(Own(q), r.link, r.secondary, campaignLinks, own2)
      PROVE  KnowsLinks("answer", r, own2)
  <2>1. Plain(r) => WroteBoth(r, own2)
    BY <1>2, <1>3, <1>4, <1>6, SecondWritten
  <2>2. QED
    BY <2>1 DEF KnowsLinks
<1>7. QED
  BY <1>1, <1>5, <1>6, WriteLinkKeeps DEF Writing

-----------------------------------------------------------------------------
(* Campaigns: rows are added *)

\* A request adds a row, and knows what it needs at its next place.
LEMMA AddedRow ==
  ASSUME C!CampaignBounds, CampaignInv, NEW q \in Callers, NEW new \in Automation,
         campaignRows' = Append(campaignRows, new), Len(campaignRows) < MaxCampaigns,
         UNCHANGED <<campaignMedia, campaignConnected>>,
         campaignLinks' \in Nat, campaignLinks <= campaignLinks',
         campaignSlugs' \in Nat, campaignSlugs <= campaignSlugs',
         GoodRow(new, campaignMedia, campaignLinks', campaignSlugs'), new.from = q,
         new.imported # 0 => \A c \in 1..Len(campaignRows) :
           campaignRows[c].from = q => campaignRows[c].imported # new.imported,
         NEW place \in CampaignPlaces, NEW n \in Changed, Turned(q, place, n), RequestFits(q)'
  PROVE  CampaignInv'
<1>1. /\ campaignRows' \in Seq(Automation) /\ Len(campaignRows') = Len(campaignRows) + 1
      /\ StateMoves(q) /\ RowsAreGood' /\ FileApart'
  BY Appended
<1>2. CampaignTypes /\ Len(campaignRows) \in Nat
  BY CampaignLengths
<1>3. Len(campaignRows') <= MaxCampaigns
  <2>1. MaxCampaigns \in Nat
    BY DEF C!CampaignBounds
  <2>2. QED
    BY <1>1, <1>2, <2>1
<1>4. CampaignTypes'
  BY <1>1, <1>2, <1>3, TurnedTo DEF CampaignTypes
<1>5. QED
  BY <1>1, <1>4, TurnedTo, CampaignStep

\* The counters after a row was inserted.
LEMMA CountersGrow ==
  ASSUME CampaignInv, NEW k \in Nat, campaignLinks' = campaignLinks + k,
         campaignSlugs' = campaignSlugs + 1
  PROVE  /\ campaignLinks' \in Nat /\ campaignLinks <= campaignLinks'
         /\ campaignSlugs' \in Nat /\ campaignSlugs <= campaignSlugs'
<1>1. campaignLinks \in Nat /\ campaignSlugs \in Nat
  BY CampaignLengths
<1>2. QED
  BY <1>1

LEMMA CreateKeeps ==
  ASSUME C!CampaignBounds, CampaignInv, NEW q \in Callers, NEW t \in C!Targets,
         NEW urls \in Seq({"w", "x"}), C!Create(q, t, urls)
  PROVE  CampaignInv'
<1> DEFINE row == C!Row(t, urls, q, 0)
<1>1. CASE ~ campaignConnected
  <2>1. StateStays /\ C!End(q)
    BY <1>1 DEF C!Create, StateStays
  <2>2. QED
    BY <2>1, EndQuiet
<1>2. CASE campaignConnected
  <2>1. /\ C!End(q) /\ Len(campaignRows) < MaxCampaigns /\ C!Insert(row)
        /\ UNCHANGED <<campaignMedia, campaignConnected>>
    BY <1>2 DEF C!Create
  <2>2. t \in Target /\ Single(t) /\ t.post <= Len(campaignMedia)
    BY TargetsAreSingle
  <2>3. /\ row \in Automation /\ row.from = q /\ row.imported = 0 /\ Len(row.links) \in Nat
        /\ GoodRow(row, campaignMedia, campaignLinks + Len(row.links), campaignSlugs + 1)
    BY <2>2, RowMade
  <2> HIDE DEF row
  <2>4. /\ campaignRows' = Append(campaignRows, row) /\ campaignSlugs' = campaignSlugs + 1
        /\ campaignLinks' = campaignLinks + Len(row.links)
    BY <2>1 DEF C!Insert
  <2>5. /\ campaignLinks' \in Nat /\ campaignLinks <= campaignLinks'
        /\ campaignSlugs' \in Nat /\ campaignSlugs <= campaignSlugs'
    BY <2>3, <2>4, CountersGrow
  <2>6. GoodRow(row, campaignMedia, campaignLinks', campaignSlugs')
    BY <2>3, <2>4
  <2>7. Turned(q, "done", C!Idle) /\ RequestFits(q)' /\ "done" \in CampaignPlaces
    BY <2>1, EndIsTurned, DoneFits DEF CampaignPlaces
  <2>8. QED
    BY <2>1, <2>3, <2>4, <2>5, <2>6, <2>7, IdleIsTyped, AddedRow
<1>3. QED
  BY <1>1, <1>2

\* The rest of a file.
LEMMA RestOfFile ==
  ASSUME NEW posts \in Seq(Nat), posts # <<>>
  PROVE  /\ Tail(posts) \in Seq(Nat) /\ Len(posts) \in Nat /\ 1 \in 1..Len(posts)
         /\ Head(posts) = posts[1] /\ Head(posts) \in Nat
         /\ \A i \in 1..Len(Tail(posts)) : i + 1 \in 1..Len(posts) /\ Tail(posts)[i] = posts[i + 1]
  OBVIOUS

LEMMA ImportRowKeeps ==
  ASSUME C!CampaignBounds, CampaignInv, NEW q \in Callers, C!ImportRow(q)
  PROVE  CampaignInv'
<1> DEFINE r == campaignReq[q]
           p == Head(r.posts)
           row == C!Row(C!Post(p), <<>>, q, p)
           skip == [r EXCEPT !.posts = Tail(@)]
           took == [r EXCEPT !.posts = Tail(@), !.used = @ \cup {p}]
<1>1. /\ campaignPc[q] = "import" /\ r.posts # <<>> /\ Len(campaignRows) < MaxCampaigns
      /\ UNCHANGED <<campaignMedia, campaignConnected>>
  BY DEF C!ImportRow
<1>2. /\ campaignReq \in [Callers -> Changed] /\ campaignPc \in [Callers -> CampaignPlaces]
      /\ r \in Changed /\ RequestFits(q)
      /\ Len(campaignRows) \in Nat /\ Len(campaignMedia) \in Nat
  BY CampaignLengths
<1>3. r.posts \in Seq(Nat) /\ r.used \in SUBSET Nat
  BY <1>2, ChangedTyped
<1>4. /\ Tail(r.posts) \in Seq(Nat) /\ p \in Nat /\ p = r.posts[1] /\ 1 \in 1..Len(r.posts)
      /\ \A i \in 1..Len(Tail(r.posts)) :
           i + 1 \in 1..Len(r.posts) /\ Tail(r.posts)[i] = r.posts[i + 1]
  BY <1>1, <1>3, RestOfFile
<1>5. /\ \A c \in 1..Len(campaignRows) :
           campaignRows[c].from = q => campaignRows[c].imported \in r.used
      /\ \A i \in 1..Len(r.posts) : r.posts[i] \in 1..Len(campaignMedia)
  BY <1>1, <1>2 DEF RequestFits, ImportFits
<1>6. /\ p \in 1..Len(campaignMedia)
      /\ \A i \in 1..Len(Tail(r.posts)) : Tail(r.posts)[i] \in 1..Len(campaignMedia)
  BY <1>4, <1>5
<1>7. /\ skip \in Changed /\ skip.posts = Tail(r.posts) /\ skip.used = r.used
      /\ took \in Changed /\ took.posts = Tail(r.posts) /\ took.used = r.used \cup {p}
  <2>1. r.used \cup {p} \in SUBSET Nat
    BY <1>3, <1>4
  <2> HIDE DEF r, p
  <2>2. QED
    BY <2>1, <1>2, <1>4 DEF Changed
<1> HIDE DEF skip, took
<1>8. "import" \in CampaignPlaces
  BY DEF CampaignPlaces
<1>9. CASE p \in r.used
  <2>1. StateStays /\ Turned(q, "import", skip)
    BY <1>1, <1>2, <1>9 DEF C!ImportRow, StateStays, Turned, skip
  <2>2. campaignPc'[q] = "import" /\ campaignReq'[q] = skip
    BY <1>7, <1>8, <2>1, TurnedTo
  <2>3. ImportFits(q)'
    BY <1>5, <1>6, <1>7, <2>1, <2>2 DEF ImportFits, StateStays
  <2>4. RequestFits(q)'
    BY <2>2, <2>3 DEF RequestFits, EditFits, Editing, ListFits, BindFits
  <2>5. QED
    BY <1>7, <1>8, <2>1, <2>4, CampaignQuiet
<1>10. CASE p \notin r.used /\ campaignConnected
  <2>1. C!Insert(row) /\ Turned(q, "import", took)
    BY <1>1, <1>2, <1>10 DEF C!ImportRow, Turned, took
  <2>2. C!Post(p) \in Target /\ Single(C!Post(p)) /\ C!Post(p).post <= Len(campaignMedia)
    <3>1. C!Post(p) \in C!Targets
      BY <1>6 DEF C!Targets
    <3>2. QED
      BY <3>1, TargetsAreSingle
  <2>3. /\ row \in Automation /\ row.from = q /\ row.imported = p /\ Len(row.links) \in Nat
        /\ GoodRow(row, campaignMedia, campaignLinks + Len(row.links), campaignSlugs + 1)
    <3>1. <<>> \in Seq({"w", "x"})
      OBVIOUS
    <3> HIDE DEF row
    <3>2. QED
      BY <1>4, <2>2, <3>1, RowMade DEF row
  <2> HIDE DEF row
  <2>4. /\ campaignRows' = Append(campaignRows, row) /\ campaignSlugs' = campaignSlugs + 1
        /\ campaignLinks' = campaignLinks + Len(row.links)
    BY <2>1 DEF C!Insert
  <2>5. /\ campaignLinks' \in Nat /\ campaignLinks <= campaignLinks'
        /\ campaignSlugs' \in Nat /\ campaignSlugs <= campaignSlugs'
    BY <2>3, <2>4, CountersGrow
  <2>6. GoodRow(row, campaignMedia, campaignLinks', campaignSlugs')
    BY <2>3, <2>4
  <2>7. \A c \in 1..Len(campaignRows) :
          campaignRows[c].from = q => campaignRows[c].imported # row.imported
    BY <1>5, <1>10, <2>3
  <2>8. campaignPc'[q] = "import" /\ campaignReq'[q] = took
    BY <1>7, <1>8, <2>1, TurnedTo
  <2>9. /\ Len(campaignRows') = Len(campaignRows) + 1
        /\ campaignRows'[Len(campaignRows) + 1] = row
        /\ \A c \in 1..Len(campaignRows) : campaignRows'[c] = campaignRows[c]
    <3>1. campaignRows \in Seq(Automation)
      BY CampaignLengths
    <3>2. QED
      BY <3>1, <2>3, <2>4
  <2>10. ImportFits(q)'
    <3>1. \A c \in 1..Len(campaignRows') : c \in 1..Len(campaignRows) \/ c = Len(campaignRows) + 1
      BY <1>2, <2>9
    <3>2. \A c \in 1..Len(campaignRows') :
            campaignRows'[c].from = q => campaignRows'[c].imported \in took.used
      BY <3>1, <1>5, <1>7, <2>3, <2>9
    <3>3. campaignMedia' = campaignMedia
      BY <1>1
    <3>4. QED
      BY <3>2, <3>3, <1>6, <1>7, <2>8 DEF ImportFits
  <2>11. RequestFits(q)'
    BY <2>8, <2>10 DEF RequestFits, EditFits, Editing, ListFits, BindFits
  <2>12. QED
    BY <1>1, <1>7, <1>8, <2>1, <2>3, <2>4, <2>5, <2>6, <2>7, <2>11, AddedRow
<1>11. CASE p \notin r.used /\ ~ campaignConnected
  <2>1. StateStays /\ C!End(q)
    BY <1>1, <1>11 DEF C!ImportRow, StateStays
  <2>2. QED
    BY <2>1, EndQuiet
<1>12. QED
  BY <1>9, <1>10, <1>11

-----------------------------------------------------------------------------
(* Campaigns: the cron, and what no request does *)

LEMMA EarliestIs ==
  ASSUME NEW T \in SUBSET Nat, T # {}
  PROVE  C!Earliest(T) \in T /\ \A j \in T : C!Earliest(T) <= j
<1>1. \E i \in T : \A j \in T : i <= j
  BY LeastNumber
<1>2. QED
  BY <1>1 DEF C!Earliest

\* The reel taken from a page is the first after the row was made, of that page.
LEMMA ReelIsNext ==
  ASSUME NEW posts \in Seq(BOOLEAN), NEW held \in Nat, NEW reels \in SUBSET Nat,
         Page \in Nat, NEW born \in Nat, PageOf(posts, held, reels),
         {i \in reels : i > born} # {}
  PROVE  LET k == C!Earliest({i \in reels : i > born}) IN
         /\ k \in Nat /\ born < k /\ k <= Len(posts) /\ k # 0
         /\ \A i \in 1..Len(posts) : posts[i] /\ born < i /\ i < k => i + Page <= held
<1> DEFINE after == {i \in reels : i > born}
           k == C!Earliest(after)
<1>1. k \in after /\ \A j \in after : k <= j
  BY EarliestIs
<1> HIDE DEF k
<1>2. k \in Nat /\ k \in reels /\ k > born /\ \A j \in reels : j > born => k <= j
  BY <1>1
<1>3. /\ held <= Len(posts) /\ Len(posts) \in Nat /\ k \in 1..held
      /\ \A i \in 1..held : i \in reels <=> posts[i] /\ i + Page > held
  BY <1>2 DEF PageOf
<1>4. ASSUME NEW i \in 1..Len(posts), posts[i], born < i, i < k PROVE i + Page <= held
  <2>1. i \in 1..held /\ i \notin reels
    BY <1>2, <1>3, <1>4
  <2>2. ~ (i + Page > held)
    BY <2>1, <1>3, <1>4
  <2>3. QED
    BY <2>1, <2>2
<1>5. QED
  BY <1>2, <1>3, <1>4 DEF k

\* The row after it was bound.
LEMMA RowBound ==
  ASSUME C!CampaignBounds, NEW old \in Automation, NEW q \in Callers, NEW k \in Nat, k # 0,
         NEW held \in Nat, ~ old.raced => Single(old.target)
  PROVE  LET new == [C!Touch(old, q) EXCEPT
                       !.target = [@ EXCEPT !.post = k, !.next = FALSE],
                       !.bound = <<k, held>>,
                       !.raced = @ \/ ~ old.target.next] IN
         /\ new \in Automation /\ new.live = old.live /\ new.links = old.links
         /\ new.by \in {q, "several"} /\ new.born = old.born /\ new.slug = old.slug
         /\ new.from = old.from /\ new.imported = old.imported
         /\ new.target.post = k /\ new.bound = <<k, held>>
         /\ ~ new.raced => Single(new.target)
<1> DEFINE by == IF old.by = q THEN q ELSE "several"
           t == [old.target EXCEPT !.post = k, !.next = FALSE]
           pair == <<k, held>>
           raced == old.raced \/ ~ old.target.next
           new == [old EXCEPT !.by = by, !.target = t, !.bound = pair, !.raced = raced]
<1>0. [C!Touch(old, q) EXCEPT !.target = [@ EXCEPT !.post = k, !.next = FALSE],
                              !.bound = <<k, held>>, !.raced = @ \/ ~ old.target.next] = new
  BY DEF C!Touch, Automation
<1>1. by \in Callers \cup {"no one", "several"} /\ by \in {q, "several"}
  OBVIOUS
<1>2. /\ old.target \in Target /\ old.target.next \in BOOLEAN /\ old.raced \in BOOLEAN
  BY RowTyped
<1>3. t \in Target /\ t.post = k /\ t.any = old.target.any /\ t.next = FALSE
  BY <1>2 DEF Target
<1>4. pair \in Nat \X Nat /\ raced \in BOOLEAN
  BY <1>2
<1>5. ~ raced => Single(t)
  BY <1>2, <1>3 DEF Single
<1> HIDE DEF by, t, pair, raced
<1>6. /\ new \in Automation /\ new.live = old.live /\ new.links = old.links /\ new.by = by
      /\ new.born = old.born /\ new.slug = old.slug /\ new.from = old.from
      /\ new.imported = old.imported /\ new.target = t /\ new.bound = pair /\ new.raced = raced
  BY <1>1, <1>3, <1>4 DEF Automation
<1> HIDE DEF new
<1>7. QED
  BY <1>0, <1>1, <1>3, <1>5, <1>6 DEF pair

LEMMA BindKeeps ==
  ASSUME C!CampaignBounds, CampaignInv, NEW q \in Callers, C!Bind(q)
  PROVE  CampaignInv'
<1> DEFINE r == campaignReq[q]
           c == C!Earliest(r.todo)
           old == campaignRows[c]
           after == {i \in r.reels : i > old.born}
           k == C!Earliest(after)
           new == [C!Touch(old, q) EXCEPT !.target = [@ EXCEPT !.post = k, !.next = FALSE],
                                          !.bound = <<k, r.seen>>,
                                          !.raced = @ \/ ~ old.target.next]
           n == [r EXCEPT !.todo = @ \ {c}]
<1>1. /\ campaignPc[q] = "bind" /\ r.todo # {}
      /\ UNCHANGED <<campaignConnected, campaignMedia, campaignLinks, campaignSlugs>>
  BY DEF C!Bind
<1>2. /\ campaignRows \in Seq(Automation) /\ campaignMedia \in Seq(BOOLEAN)
      /\ campaignReq \in [Callers -> Changed] /\ campaignPc \in [Callers -> CampaignPlaces]
      /\ r \in Changed /\ RequestFits(q) /\ Len(campaignRows) \in Nat
      /\ campaignLinks \in Nat /\ campaignSlugs \in Nat
  BY CampaignLengths
<1>3. r.todo \in SUBSET Nat /\ r.reels \in SUBSET Nat /\ r.seen \in Nat
  BY <1>2, ChangedTyped
<1>4. /\ \A d \in r.todo : d \in 1..Len(campaignRows)
      /\ PageOf(campaignMedia, r.seen, r.reels)
  BY <1>1, <1>2 DEF RequestFits, BindFits
<1>5. c \in r.todo /\ c \in 1..Len(campaignRows)
  BY <1>1, <1>3, <1>4, EarliestIs
<1>6. old \in Automation /\ GoodRow(old, campaignMedia, campaignLinks, campaignSlugs)
      /\ old.born \in Nat
  BY <1>5, CampaignLengths, RowTyped DEF RowsAreGood
<1>7. n \in Changed /\ n.todo = r.todo \ {c} /\ n.seen = r.seen /\ n.reels = r.reels
  <2> HIDE DEF r, c
  <2>1. QED
    BY <1>2, <1>3 DEF Changed
<1>8. "bind" \in CampaignPlaces
  BY DEF CampaignPlaces
<1>9. ASSUME Turned(q, "bind", n), UNCHANGED campaignMedia,
             Len(campaignRows') = Len(campaignRows)
      PROVE  RequestFits(q)'
  <2> HIDE DEF n, c
  <2>1. campaignPc'[q] = "bind" /\ campaignReq'[q] = n
    BY <1>7, <1>8, <1>9, TurnedTo
  <2>2. BindFits(q)'
    BY <2>1, <1>4, <1>7, <1>9 DEF BindFits
  <2>3. QED
    BY <2>1, <2>2 DEF RequestFits, EditFits, Editing, ImportFits, ListFits
<1>10. CASE after = {}
  <2>1. StateStays /\ Turned(q, "bind", n)
    BY <1>1, <1>2, <1>10 DEF C!Bind, StateStays, Turned
  <2>2. RequestFits(q)'
    BY <2>1, <1>9 DEF StateStays
  <2> HIDE DEF n
  <2>3. QED
    BY <2>1, <2>2, <1>7, <1>8, CampaignQuiet
<1>11. CASE after # {} /\ C!Live(c)
  <2>1. campaignRows' = [campaignRows EXCEPT ![c] = new] /\ Turned(q, "bind", n)
    BY <1>1, <1>2, <1>11 DEF C!Bind, Turned
  <2>2. /\ k \in Nat /\ old.born < k /\ k <= Len(campaignMedia) /\ k # 0
        /\ \A i \in 1..Len(campaignMedia) :
             campaignMedia[i] /\ old.born < i /\ i < k => i + Page <= r.seen
    <3>1. Page \in Nat
      BY DEF C!CampaignBounds
    <3> HIDE DEF r, old
    <3>2. QED
      BY <3>1, <1>2, <1>3, <1>4, <1>6, <1>11, ReelIsNext
  <2> HIDE DEF k
  <2>3. /\ new \in Automation /\ new.live = old.live /\ new.links = old.links
        /\ new.by \in {q, "several"} /\ new.born = old.born /\ new.slug = old.slug
        /\ new.from = old.from /\ new.imported = old.imported
        /\ new.target.post = k /\ new.bound = <<k, r.seen>>
        /\ ~ new.raced => Single(new.target)
    <3>1. ~ old.raced => Single(old.target)
      BY <1>6 DEF GoodRow
    <3>2. QED
      BY <3>1, <1>3, <1>6, <2>2, RowBound
  <2> HIDE DEF new
  <2>4. GoodRow(new, campaignMedia, campaignLinks, campaignSlugs)
    <3>1. new.bound[1] = k /\ new.bound[2] = r.seen
      BY <2>3
    <3>2. BoundFits(new, campaignMedia)
      BY <3>1, <2>2, <2>3 DEF BoundFits
    <3>3. QED
      BY <3>2, <1>6, <2>2, <2>3 DEF GoodRow
  <2>5. RowMoves(q, old, new)
    BY <2>3 DEF RowMoves
  <2>6. Len(campaignRows') = Len(campaignRows)
    <3> HIDE DEF c
    <3>1. QED
      BY <2>1, <2>3, <1>2, <1>5
  <2>7. RequestFits(q)'
    BY <2>1, <2>6, <1>1, <1>9
  <2>8. /\ UNCHANGED <<campaignMedia, campaignConnected>>
        /\ campaignLinks' \in Nat /\ campaignLinks <= campaignLinks'
        /\ campaignSlugs' \in Nat /\ campaignSlugs <= campaignSlugs'
        /\ GoodRow(new, campaignMedia, campaignLinks', campaignSlugs')
    BY <1>1, <1>2, <2>4
  <2> HIDE DEF n, c
  <2>9. QED
    BY <1>5, <1>7, <1>8, <2>1, <2>3, <2>5, <2>7, <2>8, WroteRow
<1>12. CASE after # {} /\ ~ C!Live(c)
  <2>1. C!End(q) /\ StateStays
    BY <1>1, <1>12 DEF C!Bind, StateStays
  <2>2. QED
    BY <2>1, EndQuiet
<1>13. QED
  BY <1>10, <1>11, <1>12

\* What no request does leaves all of them what they know.
LEMMA NoRequestsStep ==
  ASSUME C!CampaignBounds, CampaignInv, NEW q, q = "no one", StateMoves(q),
         CampaignTypes', RowsAreGood', FileApart', UNCHANGED <<campaignPc, campaignReq>>
  PROVE  CampaignInv'
<1>1. ASSUME NEW e \in Callers PROVE RequestFits(e)'
  <2>1. e # q
    BY DEF C!CampaignBounds
  <2>2. QED
    BY <2>1, OthersFit DEF CampaignTypes
<1>2. QED
  BY <1>1 DEF CampaignInv

\* A row that is deleted.
Emptied(r) == [r EXCEPT !.live = FALSE, !.links = <<>>]

LEMMA RowEmptied ==
  ASSUME NEW r \in Automation
  PROVE  /\ Emptied(r) \in Automation /\ Emptied(r).live = FALSE /\ Emptied(r).links = <<>>
         /\ Emptied(r).target = r.target /\ Emptied(r).slug = r.slug /\ Emptied(r).born = r.born
         /\ Emptied(r).from = r.from /\ Emptied(r).imported = r.imported
         /\ Emptied(r).bound = r.bound /\ Emptied(r).raced = r.raced
<1>1. <<>> \in Seq(TrackedLink)
  OBVIOUS
<1>2. QED
  BY <1>1 DEF Automation, Emptied

LEMMA DisconnectKeeps ==
  ASSUME C!CampaignBounds, CampaignInv, C!Disconnect
  PROVE  CampaignInv'
<1>1. /\ CampaignTypes /\ RowsAreGood /\ FileApart
      /\ campaignRows \in Seq(Automation) /\ Len(campaignRows) \in Nat
      /\ Len(campaignMedia) \in Nat /\ campaignSlugs \in Nat
      /\ \A c \in 1..Len(campaignRows) : campaignRows[c] \in Automation
  BY CampaignLengths
<1>2. /\ campaignConnected' = FALSE
      /\ campaignRows' = [c \in 1..Len(campaignRows) |-> Emptied(campaignRows[c])]
      /\ UNCHANGED <<campaignMedia, campaignLinks, campaignSlugs, campaignPc, campaignReq>>
  BY DEF C!Disconnect, C!Ids, Emptied
<1>3. /\ campaignRows' \in Seq(Automation) /\ Len(campaignRows') = Len(campaignRows)
      /\ \A c \in 1..Len(campaignRows) :
           /\ campaignRows'[c].live = FALSE /\ campaignRows'[c].links = <<>>
           /\ campaignRows'[c].target = campaignRows[c].target
           /\ campaignRows'[c].slug = campaignRows[c].slug
           /\ campaignRows'[c].born = campaignRows[c].born
           /\ campaignRows'[c].from = campaignRows[c].from
           /\ campaignRows'[c].imported = campaignRows[c].imported
           /\ campaignRows'[c].bound = campaignRows[c].bound
           /\ campaignRows'[c].raced = campaignRows[c].raced
  <2> DEFINE f == [c \in 1..Len(campaignRows) |-> Emptied(campaignRows[c])]
  <2>1. \A c \in 1..Len(campaignRows) : f[c] = Emptied(campaignRows[c]) /\ f[c] \in Automation
    <3>1. ASSUME NEW c \in 1..Len(campaignRows) PROVE Emptied(campaignRows[c]) \in Automation
      BY <1>1, RowEmptied
    <3>2. QED
      BY <3>1
  <2>2. DOMAIN f = 1..Len(campaignRows)
    OBVIOUS
  <2>3. campaignRows' = f
    BY <1>2
  <2>4. f = [c \in 1..Len(campaignRows) |-> f[c]]
    OBVIOUS
  <2> HIDE DEF f
  <2>5. campaignRows' \in Seq(Automation) /\ Len(campaignRows') = Len(campaignRows)
    BY <2>1, <2>3, <2>4, <1>1
  <2>6. ASSUME NEW c \in 1..Len(campaignRows)
        PROVE  /\ campaignRows'[c].live = FALSE /\ campaignRows'[c].links = <<>>
               /\ campaignRows'[c].target = campaignRows[c].target
               /\ campaignRows'[c].slug = campaignRows[c].slug
               /\ campaignRows'[c].born = campaignRows[c].born
               /\ campaignRows'[c].from = campaignRows[c].from
               /\ campaignRows'[c].imported = campaignRows[c].imported
               /\ campaignRows'[c].bound = campaignRows[c].bound
               /\ campaignRows'[c].raced = campaignRows[c].raced
    <3>1. campaignRows'[c] = Emptied(campaignRows[c]) /\ campaignRows[c] \in Automation
      BY <2>1, <2>3, <1>1
    <3>2. QED
      BY <3>1, RowEmptied
  <2>7. QED
    BY <2>5, <2>6
<1>4. CampaignTypes'
  BY <1>1, <1>2, <1>3 DEF CampaignTypes
<1>5. RowsAreGood'
  <2>1. LinksFit(<<>>, campaignLinks)
    BY DEF LinksFit
  <2>2. ASSUME NEW c \in 1..Len(campaignRows)
        PROVE  GoodRow(campaignRows'[c], campaignMedia, campaignLinks, campaignSlugs)
    <3>1. GoodRow(campaignRows[c], campaignMedia, campaignLinks, campaignSlugs)
      BY <1>1 DEF RowsAreGood
    <3>2. QED
      BY <2>1, <3>1, <1>1, <1>3 DEF GoodRow, BoundFits
  <2>3. QED
    BY <2>2, <1>2, <1>3 DEF RowsAreGood
<1>6. FileApart'
  BY <1>1, <1>3 DEF FileApart
<1>7. PICK none : none = "no one"
  OBVIOUS
<1>8. StateMoves(none)
  <2>1. \A c \in 1..Len(campaignRows) : RowMoves(none, campaignRows[c], campaignRows'[c])
    BY <1>1, <1>3 DEF RowMoves
  <2>2. QED
    BY <2>1, <1>1, <1>2, <1>3 DEF StateMoves
<1>9. QED
  BY <1>2, <1>4, <1>5, <1>6, <1>7, <1>8, NoRequestsStep

LEMMA PublishKeeps ==
  ASSUME C!CampaignBounds, CampaignInv, NEW isReel \in BOOLEAN, C!Publish(isReel)
  PROVE  CampaignInv'
<1>1. /\ CampaignTypes /\ RowsAreGood /\ FileApart
      /\ campaignRows \in Seq(Automation) /\ Len(campaignRows) \in Nat
      /\ campaignMedia \in Seq(BOOLEAN) /\ Len(campaignMedia) \in Nat
      /\ campaignLinks \in Nat /\ campaignSlugs \in Nat
      /\ \A c \in 1..Len(campaignRows) : campaignRows[c] \in Automation
  BY CampaignLengths
<1>2. /\ campaignMedia' = Append(campaignMedia, isReel) /\ Len(campaignMedia) < MaxMedia
      /\ UNCHANGED <<campaignRows, campaignConnected, campaignLinks, campaignSlugs,
                     campaignPc, campaignReq>>
  BY DEF C!Publish
<1>3. /\ campaignMedia' \in Seq(BOOLEAN) /\ Len(campaignMedia') = Len(campaignMedia) + 1
      /\ \A i \in 1..Len(campaignMedia) : campaignMedia'[i] = campaignMedia[i]
  BY <1>1, <1>2
<1>4. CampaignTypes'
  <2>1. MaxMedia \in Nat
    BY DEF C!CampaignBounds
  <2>2. Len(campaignMedia') <= MaxMedia
    BY <2>1, <1>1, <1>2, <1>3
  <2>3. QED
    BY <2>2, <1>1, <1>2, <1>3 DEF CampaignTypes
<1>5. RowsAreGood'
  <2>1. ASSUME NEW c \in 1..Len(campaignRows)
        PROVE  GoodRow(campaignRows[c], campaignMedia', campaignLinks, campaignSlugs)
    <3> DEFINE r == campaignRows[c]
    <3>1. /\ GoodRow(r, campaignMedia, campaignLinks, campaignSlugs)
          /\ r.target.post \in Nat /\ r.born \in Nat /\ r.bound[1] \in Nat
      BY <1>1, RowTyped DEF RowsAreGood
    <3> HIDE DEF r
    <3>2. BoundFits(r, campaignMedia')
      <4>1. SUFFICES ASSUME r.bound[1] # 0 PROVE BoundFits(r, campaignMedia')
        BY DEF BoundFits
      <4>2. /\ r.born < r.bound[1] /\ r.bound[1] <= Len(campaignMedia)
            /\ \A i \in 1..Len(campaignMedia) :
                 campaignMedia[i] /\ r.born < i /\ i < r.bound[1] => i + Page <= r.bound[2]
        BY <3>1, <4>1 DEF GoodRow, BoundFits
      <4>3. \A i \in 1..Len(campaignMedia') : i < r.bound[1] => i \in 1..Len(campaignMedia)
        BY <4>2, <3>1, <1>1, <1>3
      <4>4. \A i \in 1..Len(campaignMedia) : campaignMedia'[i] = campaignMedia[i]
        BY <1>3
      <4>5. r.bound[1] <= Len(campaignMedia')
        BY <4>2, <3>1, <1>1, <1>3
      <4>6. QED
        BY ONLY <4>2, <4>3, <4>4, <4>5 DEF BoundFits
    <3>3. QED
      BY <3>1, <3>2, <1>1, <1>3 DEF GoodRow, r
  <2>2. QED
    BY <2>1, <1>2 DEF RowsAreGood
<1>6. FileApart'
  BY <1>1, <1>2 DEF FileApart
<1>7. PICK none : none = "no one"
  OBVIOUS
<1>8. StateMoves(none)
  <2>1. \A c \in 1..Len(campaignRows) : RowMoves(none, campaignRows[c], campaignRows'[c])
    BY <1>2 DEF RowMoves
  <2>2. /\ campaignRows' = campaignRows /\ campaignSlugs' = campaignSlugs
        /\ Len(campaignMedia') = Len(campaignMedia) + 1
        /\ \A i \in 1..Len(campaignMedia) : campaignMedia'[i] = campaignMedia[i]
    BY <1>2, <1>3
  <2>3. Len(campaignRows) \in Nat /\ Len(campaignMedia) \in Nat /\ campaignSlugs \in Nat
    BY <1>1
  <2>4. QED
    BY ONLY <2>1, <2>2, <2>3 DEF StateMoves
<1>9. QED
  BY <1>2, <1>4, <1>5, <1>6, <1>7, <1>8, NoRequestsStep

-----------------------------------------------------------------------------
(* Campaigns: the invariant and what follows from it *)

LEMMA CampaignStarts ==
  ASSUME C!CampaignBounds, C!Init
  PROVE  CampaignInv
<1>0. PICK later \in {1, 2} :
        campaignRows = <<[C!Row(C!Post(1), <<>>, "no one", 0) EXCEPT !.slug = 0,
                            !.links = <<[id |-> 1, url |-> "u", made |-> 1],
                                        [id |-> 2, url |-> "v", made |-> later]>>]>>
  BY DEF C!Init
<1> DEFINE one == [id |-> 1, url |-> "u", made |-> 1]
           two == [id |-> 2, url |-> "v", made |-> later]
           own == <<one, two>>
           none == <<0, 0>>
           first == C!Post(1)
           any == [i \in 1..Len(<<>>) |->
                     [id |-> campaignLinks + i, url |-> <<>>[i], made |-> campaignLinks + 1]]
           born == Len(campaignMedia)
           slug == campaignSlugs + 1
           row == [[live |-> TRUE, target |-> first, slug |-> slug, born |-> born,
                    links |-> any, from |-> "no one", imported |-> 0, by |-> "no one",
                    bound |-> none, raced |-> FALSE] EXCEPT !.slug = 0, !.links = own]
<1>1. /\ campaignMedia \in Seq(BOOLEAN) /\ Len(campaignMedia) = 1
      /\ campaignLinks = 2 /\ campaignSlugs = 0 /\ campaignConnected = TRUE
      /\ campaignPc = [q \in Callers |-> "new"] /\ campaignReq = [q \in Callers |-> C!Idle]
  <2>1. campaignMedia = <<FALSE>>
    BY DEF C!Init
  <2>2. campaignMedia \in Seq(BOOLEAN) /\ Len(campaignMedia) = 1
    BY <2>1
  <2>3. QED
    BY <2>2 DEF C!Init
<1>2. campaignRows = <<row>>
  BY <1>0 DEF C!Row
<1>3. /\ own \in Seq(TrackedLink) /\ Len(own) = 2 /\ own[1].id = 1 /\ own[2].id = 2
      /\ own[1].made = 1 /\ own[2].made = later
  <2>1. /\ one \in TrackedLink /\ two \in TrackedLink /\ one.id = 1 /\ two.id = 2
        /\ one.made = 1 /\ two.made = later
    BY DEF TrackedLink
  <2> HIDE DEF one, two
  <2>2. QED
    BY <2>1
<1>4. LinksFit(own, 2)
  <2> HIDE DEF own
  <2>1. QED
    BY <1>3 DEF LinksFit
<1>5. first \in Target /\ Single(first) /\ first.post = 1
  BY DEF C!Post, Target, Single
<1>6. none \in Nat \X Nat /\ none[1] = 0
  OBVIOUS
<1>7. born \in Nat
  BY <1>1
<1> HIDE DEF none, own, first, any, born, slug
<1>8. /\ row \in Automation /\ row.target = first /\ row.slug = 0 /\ row.links = own
      /\ row.from = "no one" /\ row.imported = 0 /\ row.bound = none
  BY <1>3, <1>5, <1>6, <1>7 DEF Automation
<1> HIDE DEF row
<1>9. row.bound[1] = 0 /\ row.target.post = 1 /\ Single(row.target) /\ LinksFit(row.links, 2)
  BY <1>4, <1>5, <1>6, <1>8
<1>10. GoodRow(row, campaignMedia, campaignLinks, campaignSlugs)
  <2>1. Len(campaignMedia) = 1 /\ campaignLinks = 2 /\ campaignSlugs = 0 /\ row.slug = 0
    BY <1>1, <1>8
  <2>2. QED
    BY <2>1, <1>9 DEF GoodRow, BoundFits
<1>11. campaignRows \in Seq(Automation) /\ Len(campaignRows) = 1 /\ campaignRows[1] = row
  <2>1. row \in Automation
    BY <1>8
  <2>2. QED
    BY ONLY <1>2, <2>1
<1>12. CampaignTypes
  <2>1. MaxCampaigns \in Nat \ {0} /\ MaxMedia \in Nat \ {0}
    BY DEF C!CampaignBounds
  <2>2. campaignMedia \in Seq(BOOLEAN) /\ Len(campaignMedia) = 1
    BY <1>1
  <2>3. Len(campaignRows) <= MaxCampaigns /\ Len(campaignMedia) <= MaxMedia
    BY <2>1, <2>2, <1>11
  <2>4. campaignPc \in [Callers -> CampaignPlaces] /\ campaignReq \in [Callers -> Changed]
    BY <1>1, IdleIsTyped DEF CampaignPlaces
  <2>5. campaignConnected \in BOOLEAN /\ campaignLinks \in Nat /\ campaignSlugs \in Nat
    BY <1>1
  <2>6. QED
    BY <2>2, <2>3, <2>4, <2>5, <1>11 DEF CampaignTypes
<1>13. RowsAreGood
  <2>1. \A c \in 1..Len(campaignRows) : campaignRows[c] = row
    BY <1>11
  <2>2. QED
    BY <2>1, <1>10 DEF RowsAreGood
<1>14. FileApart
  BY <1>11 DEF FileApart
<1>15. ASSUME NEW q \in Callers PROVE RequestFits(q)
  <2>1. campaignPc[q] = "new"
    BY <1>1
  <2>2. \A c \in 1..Len(campaignRows) : campaignRows[c].from # q
    <3>1. q # "no one"
      BY DEF C!CampaignBounds
    <3>2. \A c \in 1..Len(campaignRows) : campaignRows[c] = row
      BY <1>11
    <3>3. QED
      BY <3>1, <3>2, <1>8
  <2>3. QED
    BY <2>1, <2>2 DEF RequestFits, EditFits, Editing, ImportFits, ListFits, BindFits
<1>16. QED
  BY <1>12, <1>13, <1>14, <1>15 DEF CampaignInv

LEMMA GivenUrls ==
  ASSUME NEW primary \in {"empty", "w"}, NEW secondary \in {"empty", "x"}
  PROVE  C!Given(primary, secondary) \in Seq({"w", "x"})
<1> DEFINE first == IF primary = "empty" THEN <<>> ELSE <<primary>>
<1>1. first \in Seq({"w", "x"})
  <2>1. CASE primary = "empty"
    <3>1. first = <<>>
      BY <2>1
    <3>2. QED
      BY <3>1
  <2>2. CASE primary = "w"
    <3>1. first = <<"w">>
      BY <2>2
    <3> HIDE DEF first
    <3>2. QED
      BY <3>1
  <2>3. QED
    BY <2>1, <2>2
<1> HIDE DEF first
<1>2. secondary # "empty" => Append(first, secondary) \in Seq({"w", "x"})
  BY <1>1
<1>3. QED
  BY <1>1, <1>2 DEF C!Given, first

LEMMA CampaignNext ==
  ASSUME C!CampaignBounds, CampaignInv, [C!Next]_(C!vars)
  PROVE  CampaignInv'
<1>1. CASE UNCHANGED C!vars
  BY <1>1 DEF C!vars, C!state, CampaignInv, CampaignTypes, RowsAreGood, FileApart, RequestFits,
              EditFits, Undisturbed, Own, ImportFits, ListFits, BindFits
<1>2. ASSUME NEW q \in Callers, NEW t \in C!Targets,
             NEW primary \in {"empty", "w"}, NEW secondary \in {"empty", "x"},
             C!Create(q, t, C!Given(primary, secondary))
      PROVE  CampaignInv'
  BY <1>2, GivenUrls, CreateKeeps
<1>3. ASSUME NEW q \in Callers, NEW i \in DOMAIN campaignMedia, NEW j \in DOMAIN campaignMedia,
             C!ImportRead(q, <<i, j>>)
      PROVE  CampaignInv'
  <2>1. DOMAIN campaignMedia = 1..Len(campaignMedia)
    BY CampaignLengths
  <2>2. QED
    BY <1>3, <2>1, ImportReadKeeps
<1>4. ASSUME NEW q \in Callers, NEW c \in C!Ids, NEW t \in C!Targets,
             NEW primary \in {"empty", "w"}, NEW secondary \in {"empty", "x"},
             C!Update(q, c, t, primary, secondary)
      PROVE  CampaignInv'
  BY <1>4, UpdateKeeps
<1>5. ASSUME NEW q \in Callers, NEW c \in C!Ids,
             C!Update(q, c, campaignRows[c].target, "keep", "keep")
      PROVE  CampaignInv'
  BY <1>5, UpdateKeeps
<1>6. ASSUME NEW q \in Callers,
             \/ C!ImportRow(q) \/ C!ImportEnds(q) \/ C!Untouched(q) \/ C!ReadPrimary(q)
             \/ C!WritePrimary(q) \/ C!ReadSecond(q) \/ C!WriteSecond(q) \/ C!Answer(q)
             \/ C!List(q) \/ C!Listed(q) \/ C!Pending(q) \/ C!Media(q) \/ C!Bind(q) \/ C!Bound(q)
      PROVE  CampaignInv'
  BY <1>6, ImportRowKeeps, QuietEnds, ReadPrimaryKeeps, WritePrimaryKeeps, ReadSecondKeeps,
     WriteSecondKeeps, ListKeeps, PendingKeeps, MediaKeeps, BindKeeps
<1>7. ASSUME NEW q \in Callers, NEW c \in C!Ids, C!Delete(q, c) \/ C!Slug(q, c)
      PROVE  CampaignInv'
  BY <1>7, DeleteKeeps, SlugKeeps
<1>8. CASE C!Disconnect \/ \E isReel \in BOOLEAN : C!Publish(isReel)
  BY <1>8, DisconnectKeeps, PublishKeeps
<1>9. QED
  BY <1>1, <1>2, <1>3, <1>4, <1>5, <1>6, <1>7, <1>8 DEF C!Next

\* For any requests, campaigns and media: rows are typed and each says of the media, the links
\* and the slugs what is so; an edit whose campaign nobody else wrote knows its links; an
\* import knows the posts its own rows took, and a list and the cron what they read.
THEOREM CampaignInvariance ==
  ASSUME C!CampaignBounds
  PROVE  C!Spec => []CampaignInv
<1>1. C!Init => CampaignInv
  BY CampaignStarts
<1>2. CampaignInv /\ [C!Next]_(C!vars) => CampaignInv'
  BY CampaignNext
<1>3. QED
  BY <1>1, <1>2, PTL DEF C!Spec

\* One way to choose posts is one of the three names.
LEMMA SingleIsOne ==
  ASSUME NEW t \in Target, Single(t)
  PROVE  C!Cardinality({k \in {"post", "any", "next"} :
           CASE k = "post" -> t.post # 0 [] k = "any" -> t.any [] OTHER -> t.next}) = 1
<1> DEFINE Ways == {k \in {"post", "any", "next"} :
             CASE k = "post" -> t.post # 0 [] k = "any" -> t.any [] OTHER -> t.next}
<1>1. t.any \in BOOLEAN /\ t.next \in BOOLEAN
  BY DEF Target
<1>2. Ways = {"post"} \/ Ways = {"any"} \/ Ways = {"next"}
  BY <1>1 DEF Single
<1> HIDE DEF Ways
<1>3. Cardinality(Ways) = 1
  BY <1>2, FS_Singleton
<1>4. C!Cardinality(Ways) = Cardinality(Ways)
  BY DEF C!Cardinality, Cardinality
<1>5. QED
  BY <1>3, <1>4 DEF Ways

LEMMA CampaignsAreGood ==
  ASSUME CampaignInv
  PROVE  C!TypeOK /\ C!CampaignsHold
<1>1. /\ CampaignTypes /\ RowsAreGood /\ FileApart /\ Len(campaignRows) \in Nat
      /\ Len(campaignMedia) \in Nat /\ campaignSlugs \in Nat /\ campaignLinks \in Nat
      /\ DOMAIN campaignMedia = 1..Len(campaignMedia)
      /\ campaignReq \in [Callers -> Changed]
      /\ \A q \in Callers : campaignReq[q] \in Changed /\ RequestFits(q)
  BY CampaignLengths
<1>2. ASSUME NEW c \in 1..Len(campaignRows)
      PROVE  /\ campaignRows[c] \in Automation
             /\ GoodRow(campaignRows[c], campaignMedia, campaignLinks, campaignSlugs)
             /\ campaignRows[c].target \in Target
             /\ campaignRows[c].target.post \in 0..Len(campaignMedia)
             /\ campaignRows[c].slug \in 0..campaignSlugs
             /\ DOMAIN campaignRows[c].links = 1..Len(campaignRows[c].links)
  <2>1. /\ campaignRows[c] \in Automation
        /\ GoodRow(campaignRows[c], campaignMedia, campaignLinks, campaignSlugs)
    BY CampaignLengths DEF RowsAreGood
  <2>2. QED
    BY <2>1, <1>1, RowTyped DEF GoodRow
<1>3. C!TypeOK
  BY <1>1, <1>2 DEF C!TypeOK, C!Ids, CampaignTypes, GoodRow, LinksFit
<1>4. C!OneTarget
  BY <1>2, SingleIsOne DEF C!OneTarget, C!Ids, GoodRow
<1>5. C!BoundIsNext
  BY <1>1, <1>2 DEF C!BoundIsNext, C!Ids, GoodRow, BoundFits
<1>6. C!ButtonsAsAsked
  <2> SUFFICES ASSUME NEW q \in Callers, campaignPc[q] = "answer",
                      C!Live(campaignReq[q].c), campaignRows[campaignReq[q].c].by = q,
                      Plain(campaignReq[q])
               PROVE  WroteBoth(campaignReq[q], Own(q))
    BY DEF C!ButtonsAsAsked, C!Undisturbed, C!Tied, WroteBoth, Own, Plain, Apart
  <2>1. EditFits(q) /\ campaignPc[q] \in Editing
    BY <1>1 DEF RequestFits, Editing
  <2>2. Undisturbed(q)
    BY DEF Undisturbed, C!Live
  <2>3. QED
    BY <2>1, <2>2 DEF EditFits, KnowsLinks
<1>7. C!FileRowsApart
  BY <1>1 DEF C!FileRowsApart, C!Ids, FileApart
<1>8. QED
  BY <1>3, <1>4, <1>5, <1>6, <1>7 DEF C!CampaignsHold

\* For any requests, campaigns and media: a campaign has one target unless the cron undid an
\* edit, is bound to the next reel, has the links its last edit asked for when nobody else came
\* between, and no two rows of a file make campaigns for one post.
THEOREM CampaignsAreKept ==
  ASSUME C!CampaignBounds
  PROVE  C!Spec => [](C!TypeOK /\ CampaignsHold)
<1>1. CampaignInv => C!TypeOK /\ CampaignsHold
  BY CampaignsAreGood DEF CampaignsHold
<1>2. QED
  BY <1>1, CampaignInvariance, PTL

\* Only the update of a list gives a campaign there was another slug.
LEMMA SlugsChange ==
  ASSUME CampaignInv, C!Next, NEW c \in 1..Len(campaignRows),
         campaignRows'[c].slug # campaignRows[c].slug
  PROVE  \E q \in Callers : campaignPc[q] = "list" /\ c \in campaignReq[q].todo
<1>1. /\ campaignRows \in Seq(Automation) /\ Len(campaignRows) \in Nat
      /\ \A d \in 1..Len(campaignRows) : campaignRows[d] \in Automation
  BY CampaignLengths
<1>2. ASSUME NEW row, C!Insert(row) PROVE FALSE
  BY <1>1, <1>2 DEF C!Insert
<1>3. ASSUME NEW d, NEW new, campaignRows' = [campaignRows EXCEPT ![d] = new],
             d \in 1..Len(campaignRows) => new.slug = campaignRows[d].slug
      PROVE  FALSE
  BY <1>1, <1>3
<1>4. ASSUME NEW x \in Automation, NEW q \in Callers, NEW own
      PROVE  [C!Touch(x, q) EXCEPT !.links = own].slug = x.slug
  <2>1. C!Touch(x, q) \in Automation /\ C!Touch(x, q).slug = x.slug
    <3> DEFINE by == IF x.by = q THEN q ELSE "several"
    <3>1. C!Touch(x, q) = [x EXCEPT !.by = by] /\ by \in Callers \cup {"no one", "several"}
      BY DEF C!Touch, Automation
    <3> HIDE DEF by
    <3>2. QED
      BY <3>1 DEF Automation
  <2>2. \A y \in Automation : [y EXCEPT !.links = own].slug = y.slug
    BY DEF Automation
  <2>3. QED
    BY <2>1, <2>2
<1>5. ASSUME NEW q \in Callers, NEW place, NEW next, NEW asked, C!WriteLink(q, place, next, asked)
      PROVE  FALSE
  <2> DEFINE d == campaignReq[q].c
             New(own) == [C!Touch(campaignRows[d], q) EXCEPT !.links = own]
  <2>1. \/ \E own : campaignRows' = [campaignRows EXCEPT ![d] = New(own)]
        \/ UNCHANGED campaignRows
    BY <1>5 DEF C!WriteLink
  <2>2. ASSUME NEW own, campaignRows' = [campaignRows EXCEPT ![d] = New(own)] PROVE FALSE
    <3>1. d \in 1..Len(campaignRows) => New(own).slug = campaignRows[d].slug
      BY <1>1, <1>4
    <3> HIDE DEF New
    <3>2. QED
      BY <3>1, <2>2, <1>3
  <2>3. QED
    BY <2>1, <2>2
<1>6. ASSUME NEW q \in Callers, NEW d \in C!Ids, NEW t, NEW primary, NEW secondary,
             C!Update(q, d, t, primary, secondary)
      PROVE  FALSE
  <2> DEFINE new == [campaignRows[d] EXCEPT !.target = t, !.by = q]
  <2>1. d \in 1..Len(campaignRows) /\ campaignRows[d] \in Automation
    BY <1>1 DEF C!Ids
  <2>2. campaignRows' = [campaignRows EXCEPT ![d] = new] \/ UNCHANGED campaignRows
    BY <1>1, <1>6, <2>1 DEF C!Update
  <2>3. new.slug = campaignRows[d].slug
    BY <2>1 DEF Automation
  <2> HIDE DEF new
  <2>4. QED
    BY <2>2, <2>3, <1>3
<1>7. ASSUME NEW q \in Callers, NEW d \in C!Ids, C!Delete(q, d)
      PROVE  FALSE
  <2> DEFINE new == [campaignRows[d] EXCEPT !.live = FALSE, !.links = <<>>]
  <2>1. d \in 1..Len(campaignRows) /\ campaignRows[d] \in Automation
    BY <1>1 DEF C!Ids
  <2>2. campaignRows' = [campaignRows EXCEPT ![d] = new]
    BY <1>1, <1>7, <2>1 DEF C!Delete
  <2>3. new.slug = campaignRows[d].slug
    BY <2>1 DEF Automation
  <2> HIDE DEF new
  <2>4. QED
    BY <2>2, <2>3, <1>3
<1>8. ASSUME NEW q \in Callers, C!Bind(q)
      PROVE  FALSE
  <2> DEFINE d == C!Earliest(campaignReq[q].todo)
             old == campaignRows[d]
             k == C!Earliest({i \in campaignReq[q].reels : i > old.born})
             held == campaignReq[q].seen
             new == [C!Touch(old, q) EXCEPT !.target = [@ EXCEPT !.post = k, !.next = FALSE],
                                            !.bound = <<k, held>>,
                                            !.raced = @ \/ ~ old.target.next]
  <2>1. campaignRows' = [campaignRows EXCEPT ![d] = new] \/ UNCHANGED campaignRows
    BY <1>8 DEF C!Bind
  <2>2. d \in 1..Len(campaignRows) => new.slug = old.slug
    <3> HIDE DEF k, held, d
    <3>1. SUFFICES ASSUME d \in 1..Len(campaignRows) PROVE new.slug = old.slug
      OBVIOUS
    <3>2. old \in Automation
      BY <1>1, <3>1
    <3>3. [old EXCEPT !.by = IF old.by = q THEN q ELSE "several",
                      !.target = [old.target EXCEPT !.post = k, !.next = FALSE],
                      !.bound = <<k, held>>, !.raced = old.raced \/ ~ old.target.next] = new
      BY <3>2 DEF C!Touch, Automation
    <3>4. QED
      BY <3>2, <3>3 DEF Automation
  <2> HIDE DEF new, d
  <2>3. QED
    BY <2>1, <2>2, <1>3
<1>9. ASSUME C!Disconnect
      PROVE  FALSE
  <2>1. campaignRows' = [d \in 1..Len(campaignRows) |->
                           [campaignRows[d] EXCEPT !.live = FALSE, !.links = <<>>]]
    BY <1>9 DEF C!Disconnect, C!Ids
  <2>2. campaignRows'[c] = [campaignRows[c] EXCEPT !.live = FALSE, !.links = <<>>]
    BY <2>1
  <2>3. QED
    BY <2>2, <1>1 DEF Automation
<1>10. ASSUME NEW q \in Callers, NEW d \in C!Ids, C!Slug(q, d)
       PROVE  campaignPc[q] = "list" /\ c \in campaignReq[q].todo
  <2>1. campaignPc[q] = "list" /\ d \in campaignReq[q].todo
    BY <1>10 DEF C!Slug
  <2> DEFINE new == [campaignRows[d] EXCEPT !.slug = campaignSlugs + 1]
  <2>2. campaignRows' = [campaignRows EXCEPT ![d] = new] \/ UNCHANGED campaignRows
    BY <1>1, <1>10 DEF C!Slug, C!Ids
  <2> HIDE DEF new
  <2>3. c = d
    BY <1>1, <2>2
  <2>4. QED
    BY <2>1, <2>3
<1>11. ASSUME NEW q \in Callers, NEW t, NEW urls, C!Create(q, t, urls)
       PROVE  FALSE
  BY <1>2, <1>11 DEF C!Create
<1>12. ASSUME NEW q \in Callers, C!ImportRow(q)
       PROVE  FALSE
  BY <1>2, <1>12 DEF C!ImportRow
<1>13. ASSUME UNCHANGED campaignRows
       PROVE  FALSE
  BY <1>13
<1>14. QED
  <2>1. CASE C!Disconnect \/ \E isReel \in BOOLEAN : C!Publish(isReel)
    BY <2>1, <1>9, <1>13 DEF C!Publish
  <2>2. ASSUME NEW q \in Callers,
               \/ C!ImportEnds(q) \/ C!Untouched(q) \/ C!ReadPrimary(q) \/ C!ReadSecond(q)
               \/ C!Answer(q) \/ C!List(q) \/ C!Listed(q) \/ C!Pending(q) \/ C!Media(q)
               \/ C!Bound(q)
        PROVE  FALSE
    BY <2>2, <1>13 DEF C!state, C!ImportEnds, C!Untouched, C!ReadPrimary, C!ReadSecond,
                       C!ReadLink, C!Answer, C!List, C!Listed, C!Pending, C!Media, C!Bound
  <2>3. ASSUME NEW q \in Callers, NEW i, NEW j, C!ImportRead(q, <<i, j>>) PROVE FALSE
    BY <2>3, <1>13 DEF C!state, C!ImportRead
  <2>4. ASSUME NEW q \in Callers, C!WritePrimary(q) \/ C!WriteSecond(q) PROVE FALSE
    BY <2>4, <1>5 DEF C!WritePrimary, C!WriteSecond
  <2>5. QED
    BY <2>1, <2>2, <2>3, <2>4, <1>6, <1>7, <1>8, <1>10, <1>11, <1>12 DEF C!Next

\* For any requests, campaigns and media: only the update of a list that began before the
\* campaign had its report slug replaces it.
THEOREM SlugIsKept ==
  ASSUME C!CampaignBounds
  PROVE  C!Spec => SlugStays
<1> DEFINE Stays == \A c \in C!Ids :
                      campaignRows[c].slug # 0 /\ campaignRows'[c].slug # campaignRows[c].slug =>
                        \E q \in Callers :
                          c \in campaignReq[q].todo /\ campaignReq[q].seen < campaignRows[c].slug
<1>1. CampaignInv /\ [C!Next]_(C!vars) => [Stays]_(C!vars)
  <2> SUFFICES ASSUME CampaignInv, C!Next, NEW c \in C!Ids, campaignRows[c].slug # 0,
                      campaignRows'[c].slug # campaignRows[c].slug
               PROVE  \E q \in Callers :
                        c \in campaignReq[q].todo /\ campaignReq[q].seen < campaignRows[c].slug
    OBVIOUS
  <2>1. PICK q \in Callers : campaignPc[q] = "list" /\ c \in campaignReq[q].todo
    BY SlugsChange DEF C!Ids
  <2>2. ListFits(q)
    BY CampaignLengths DEF RequestFits
  <2>3. QED
    BY <2>1, <2>2 DEF ListFits
<1>2. QED
  BY <1>1, CampaignInvariance, PTL DEF C!Spec, SlugStays, C!SlugStays

-----------------------------------------------------------------------------
(* The server *)

\* The server does to each part what the part's own specification allows.
LEMMA PartsRun ==
  ServerSpec => /\ Spec /\ C!Spec /\ A!Spec /\ F!Spec
                /\ L!Spec /\ U!Spec /\ N!Spec
<1>1. ServerInit => /\ Init /\ C!Init /\ A!Init /\ F!Init
                    /\ L!Init /\ U!Init /\ N!Init
  BY DEF ServerInit
<1> DEFINE Moved == [ServerNext]_serverVars
<1>2. Moved => [Next]_vars
  BY DEF ServerNext, serverVars, Others
<1>3. Moved => [C!Next]_(C!vars)
  BY DEF ServerNext, serverVars, Others, campaignVars, C!vars, C!state
<1>4. Moved => [A!Next]_(A!vars)
  BY DEF ServerNext, serverVars, Others, accountVars, A!vars, A!meta, A!refresh
<1>5. Moved => [F!Next]_(F!vars)
  BY DEF ServerNext, serverVars, Others, followerVars, F!vars, F!world
<1>6. Moved => [L!Next]_(L!vars)
  BY DEF ServerNext, serverVars, Others, limiterVars, L!vars
<1>7. Moved => [U!Next]_(U!vars)
  BY DEF ServerNext, serverVars, Others, usageVars, U!vars
<1>8. Moved => [N!Next]_(N!vars)
  BY DEF ServerNext, serverVars, Others, nudgeVars, N!vars, N!thread, N!ghosts
<1>9. QED
  BY <1>1, <1>2, <1>3, <1>4, <1>5, <1>6, <1>7, <1>8, PTL
     DEF ServerSpec, Spec, C!Spec, A!Spec, F!Spec, L!Spec, U!Spec, N!Spec

\* Of everything the server does: the types of every part; nobody has a role that was not
\* chosen for him; a campaign has one target, its own reel and the links asked for; the token
\* in the row works and outlives one refused pass; no hour lets too many out; the counter of
\* the month forgets no send; a window is nudged once; a reconstructed total is true, and no
\* observed day, report slug or owner of an account is replaced but in the way they state; only
\* who was invited and accepted in time gets in.
THEOREM ServerIsSafe ==
  ServerSpec =>
    /\ [](/\ TypesOK /\ RolesHold /\ CampaignsHold
         /\ TokenHolds /\ LimitHolds /\ CounterHolds /\ NudgeHolds)
    /\ HistoryHolds /\ SlugStays /\ AccountStays /\ OpenInvitationOnly
<1>1. F!HistoryBounds /\ C!CampaignBounds /\ AccountBounds /\ HourBounds
      /\ NudgeBounds /\ U!QuotaBounds /\ OneZone
  BY ServerBounds
<1>2. F!Spec => []F!TypeOK /\ HistoryHolds
  BY <1>1, HistoryIsKept
<1>3. C!Spec => [](C!TypeOK /\ CampaignsHold)
  BY <1>1, CampaignsAreKept
<1>4. C!Spec => SlugStays
  BY <1>1, SlugIsKept
<1>5. A!Spec => [](A!TypeOK /\ TokenHolds)
  BY <1>1, TokenIsHeld
<1>6. A!Spec => AccountStays
  BY <1>1, AccountIsKept
<1>7. L!Spec => [](L!TypeOK /\ LimitHolds)
  BY <1>1, LimitIsHeld
<1>8. U!Spec => []CounterHolds
  BY <1>1, CounterIsHeld
<1>9. N!Spec => [](N!TypeOK /\ NudgeHolds)
  BY <1>1, NudgeIsHeld
<1>10. Spec => []TypeOK /\ []RolesHold /\ OpenInvitationOnly
  BY MembersTypeCorrect, RolesAreHeld, OnlyInvited
<1>11. (/\ TypeOK /\ C!TypeOK /\ A!TypeOK /\ F!TypeOK /\ L!TypeOK /\ N!TypeOK) => TypesOK
  BY DEF TypesOK
<1>12. QED
  BY <1>2, <1>3, <1>4, <1>5, <1>6, <1>7, <1>8, <1>9, <1>10, <1>11, PartsRun, PTL
=============================================================================
