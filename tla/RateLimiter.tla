---------------------------- MODULE RateLimiter -----------------------------
(***************************************************************************)
(* The hourly limit on the private replies of one Instagram account: a     *)
(* counter in Redis whose key lives for one window from its first use, and *)
(* the jobs that reserve a slot before they send, are put back when there  *)
(* is none, and give up after some attempts.  Time is counted in the delay *)
(* of a job that is put back, half a window.                               *)
(***************************************************************************)
EXTENDS Integers, FiniteSets

CONSTANTS
  Jobs,        \* jobs that need a slot
  Max,         \* RATE_LIMIT_MAX
  Window,      \* RATE_LIMIT_WINDOW, in delays of a job put back
  MaxAttempts, \* MAX_REQUEUE_ATTEMPTS
  MaxTime      \* bound on the clock

VARIABLES
  now,       \* the clock
  count,     \* the counter, 0 for no key
  expires,   \* when the key ends
  due,       \* due[j]: when job j runs next
  attempt,   \* requeueAttempt of job j
  state,     \* state[j]: "waiting", "sent" or "skipped"
  granted,   \* granted[t]: slots given at time t (observation)
  blocked    \* blocked[j]: the windows job j was refused in (observation)

vars == <<now, count, expires, due, attempt, state, granted, blocked>>

Times == 0..MaxTime

Init ==
  /\ now = 0 /\ count = 0 /\ expires = 0
  /\ due \in [Jobs -> 0..1]
  /\ attempt = [j \in Jobs |-> 0]
  /\ state = [j \in Jobs |-> "waiting"]
  /\ granted = [t \in Times |-> 0]
  /\ blocked = [j \in Jobs |-> {}]

\* Time goes on; a key that ends is gone.
Tick ==
  /\ now < MaxTime
  /\ now' = now + 1
  /\ count' = IF now + 1 >= expires THEN 0 ELSE count
  /\ UNCHANGED <<expires, due, attempt, state, granted, blocked>>

IsDue(j) == state[j] = "waiting" /\ due[j] <= now

\* A slip: the key lives for half a window.
ReserveShort(j) ==
  /\ count < Max
  /\ count' = count + 1
  /\ expires' = now + 1
  /\ granted' = [granted EXCEPT ![now] = @ + 1]
  /\ state' = [state EXCEPT ![j] = "sent"]
  /\ UNCHANGED <<due, attempt, blocked>>

\* A slip: the counter is compared after one more.
ReserveOneMore(j) ==
  /\ count <= Max
  /\ count' = count + 1
  /\ expires' = IF count = 0 THEN now + Window ELSE expires
  /\ granted' = [granted EXCEPT ![now] = @ + 1]
  /\ state' = [state EXCEPT ![j] = "sent"]
  /\ UNCHANGED <<due, attempt, blocked>>

\* RESERVE_DM_SLOT_SCRIPT has a slot: one script, so one step.  The first use of a key
\* sets its end.
Reserve(j) ==
  /\ count < Max
  /\ count' = count + 1
  /\ expires' = IF count = 0 THEN now + Window ELSE expires
  /\ granted' = [granted EXCEPT ![now] = @ + 1]
  /\ state' = [state EXCEPT ![j] = "sent"]
  /\ UNCHANGED <<due, attempt, blocked>>

\* A slip: the job is put back without a delay.
BlockSoon(j) ==
  /\ count >= Max
  /\ blocked' = [blocked EXCEPT ![j] = @ \cup {expires}]
  /\ IF attempt[j] >= MaxAttempts
       THEN state' = [state EXCEPT ![j] = "skipped"] /\ UNCHANGED <<due, attempt>>
       ELSE /\ attempt' = [attempt EXCEPT ![j] = @ + 1]
            /\ UNCHANGED <<due, state>>
  /\ UNCHANGED <<count, expires, granted>>

\* blockedResult: the job is put back, or skipped after its last attempt.
Block(j) ==
  /\ count >= Max
  /\ blocked' = [blocked EXCEPT ![j] = @ \cup {expires}]
  /\ IF attempt[j] >= MaxAttempts
       THEN state' = [state EXCEPT ![j] = "skipped"] /\ UNCHANGED <<due, attempt>>
       ELSE /\ due' = [due EXCEPT ![j] = now + 1]
            /\ attempt' = [attempt EXCEPT ![j] = @ + 1]
            /\ UNCHANGED state
  /\ UNCHANGED <<count, expires, granted>>

\* reserveDMSlot in a run of a job, which may be late.
ReserveDMSlot(j) ==
  /\ IsDue(j)
  /\ Reserve(j) \/ Block(j)
  /\ UNCHANGED now

Next == Tick \/ \E j \in Jobs : ReserveDMSlot(j)

Spec == Init /\ [][Next]_vars

-----------------------------------------------------------------------------
(* Properties *)

\* Every variable has its type.
TypeOK ==
  /\ now \in Times /\ count \in 0..Max /\ expires \in Nat
  /\ state \in [Jobs -> {"waiting", "sent", "skipped"}]

GrantedSince(t) ==
  LET sum[u \in Times] == granted[u] + (IF u = 0 THEN 0 ELSE sum[u - 1])
  IN  sum[MaxTime] - (IF t <= 0 THEN 0 ELSE sum[t - 1])

\* The life of a key gives out no more than the limit, however its slots are taken.  A
\* window of the same length that falls across two lives may give out one fewer than
\* twice as many (the first use of a key begins its life), and never more.
WindowCap ==
  /\ count > 0 => GrantedSince(expires - Window) <= Max
  /\ \A t \in Times : t <= now /\ now < t + Window => GrantedSince(t) <= 2 * Max - 1

\* A job is skipped only after it met two windows that were full: it is not given up
\* for one busy hour.
SkippedMetTwoWindows == \A j \in Jobs : state[j] = "skipped" => Cardinality(blocked[j]) >= 2

\* The limit holds in both directions: not too many go out, none is given up early.
LimitHolds == WindowCap /\ SkippedMetTwoWindows
=============================================================================
