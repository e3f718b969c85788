--------------------------- MODULE WebhookProofs ---------------------------
(***************************************************************************)
(* What the webhook promises, proved for any batches, campaigns, number of *)
(* requests at a time and bounds: nothing the account did itself is        *)
(* queued, a row that says PROCESSED stands for a batch whose events were  *)
(* all queued, and an event runs its job once.                             *)
(*                                                                         *)
(* The argument is an invariant of the loops: what a batch promises is     *)
(* queued, dropped for want of an account, or still among what the request *)
(* has left.                                                               *)
(***************************************************************************)
EXTENDS Webhook, SequenceTheorems, Counting

-----------------------------------------------------------------------------
(* Sequences *)

\* What is kept of a sequence is a sequence of what is to be kept.
LEMMA KeptIsASeq ==
  ASSUME NEW I, NEW items \in Seq(I), NEW Keep
  PROVE  Kept(items, Keep) \in Seq(Keep)
<1> DEFINE n == Len(items)
           step == [p \in (1..n) \X Seq(Keep) |->
                      IF items[p[1]] \in Keep THEN Append(p[2], items[p[1]])
                      ELSE p[2]]
           Step(g) == [m \in 0..n |->
                      IF m = 0 THEN << >>
                      ELSE IF items[m] \in Keep THEN Append(g[m - 1], items[m])
                      ELSE g[m - 1]]
           kept == CHOOSE g: g = Step(g)
           T == {k \in Nat: k <= n => kept[k] \in Seq(Keep)}
<1>1. n \in Nat
  OBVIOUS
<1>2. step \in [(1..n) \X Seq(Keep) -> Seq(Keep)]
  OBVIOUS
<1>3. << >> \in Seq(Keep)
  OBVIOUS
<1>4. PICK g \in [0..n -> Seq(Keep)]: Recursive(g, << >>, step, n)
  <2> HIDE DEF n, step
  <2>1. QED
    BY <1>1, <1>2, <1>3, Recursion
<1>5. g = Step(g)
  <2>1. ASSUME NEW m \in 0..n
        PROVE  g[m] = IF m = 0 THEN << >>
                      ELSE IF items[m] \in Keep THEN Append(g[m - 1], items[m])
                      ELSE g[m - 1]
    <3>1. CASE m = 0
      BY <3>1, <1>4 DEF Recursive
    <3>2. CASE m # 0
      <4>1. m \in 1..n /\ m - 1 \in 0..n
        BY <3>2, <1>1
      <4>2. g[m - 1] \in Seq(Keep) /\ <<m, g[m - 1]>> \in (1..n) \X Seq(Keep)
        BY <4>1
      <4>3. g[m] = step[<<m, g[m - 1]>>]
        BY <4>1, <1>4 DEF Recursive
      <4>4. QED
        BY <4>2, <4>3, <3>2
    <3>3. QED
      BY <3>1, <3>2
  <2>2. QED
    BY <2>1
<1>6. kept = Step(kept)
  <2> HIDE DEF Step
  <2>1. QED
    BY <1>5
<1>7. Nat \subseteq T
  <2>1. 0 \in T
    <3>1. kept[0] = << >>
      <4> HIDE DEF kept
      <4>1. QED
        BY <1>6
    <3>2. QED
      BY <3>1, <1>3
  <2>2. ASSUME NEW k \in Nat, k \in T PROVE k + 1 \in T
    <3>1. SUFFICES ASSUME k + 1 <= n PROVE kept[k + 1] \in Seq(Keep)
      <4> HIDE DEF kept, n
      <4>1. QED
        OBVIOUS
    <3>2. kept[k] \in Seq(Keep)
      <4> HIDE DEF kept
      <4>1. QED
        BY <2>2, <3>1
    <3>3. kept[k + 1] = IF items[k + 1] \in Keep THEN Append(kept[k], items[k + 1])
                        ELSE kept[k]
      <4> HIDE DEF kept, n
      <4>1. k + 1 \in 0..n /\ k + 1 # 0 /\ (k + 1) - 1 = k
        BY <3>1, <1>1
      <4>2. kept[k + 1] = Step(kept)[k + 1]
        BY <1>6, Zenon
      <4>3. QED
        BY <4>1, <4>2
    <3>4. QED
      <4> HIDE DEF kept
      <4>1. QED
        BY <3>2, <3>3
  <2>3. QED
    <3> HIDE DEF T
    <3>1. QED
      BY <2>1, <2>2, Induction
<1>8. kept[n] \in Seq(Keep)
  <2> HIDE DEF kept
  <2>1. QED
    BY <1>7, <1>1
<1>9. QED
  BY <1>8, Zenon DEF Kept

\* The first element of a sequence and the others.
LEMMA HeadAndTail ==
  ASSUME NEW S, NEW s \in Seq(S), s # << >>
  PROVE  /\ Head(s) \in S /\ Tail(s) \in Seq(S)
         /\ ToSet(s) = {Head(s)} \cup ToSet(Tail(s))
<1>1. /\ Head(s) \in S /\ Tail(s) \in Seq(S)
      /\ Len(s) \in Nat \ {0} /\ DOMAIN s = 1..Len(s)
      /\ DOMAIN Tail(s) = 1..Len(s) - 1
      /\ Head(s) = s[1] /\ \A i \in 1..Len(s) - 1: Tail(s)[i] = s[i + 1]
  OBVIOUS
<1>2. ASSUME NEW x \in ToSet(s) PROVE x \in {Head(s)} \cup ToSet(Tail(s))
  <2>1. PICK i \in 1..Len(s): x = s[i]
    BY <1>1 DEF ToSet
  <2>2. CASE i = 1
    BY <2>1, <2>2, <1>1
  <2>3. CASE i # 1
    <3>1. i - 1 \in 1..Len(s) - 1 /\ (i - 1) + 1 = i
      BY <2>3, <1>1
    <3>2. Tail(s)[i - 1] = x
      BY <3>1, <2>1, <1>1
    <3>3. QED
      BY <3>1, <3>2, <1>1 DEF ToSet
  <2>4. QED
    BY <2>2, <2>3
<1>3. ASSUME NEW x \in ToSet(Tail(s)) PROVE x \in ToSet(s)
  <2>1. PICK i \in 1..Len(s) - 1: x = Tail(s)[i]
    BY <1>1 DEF ToSet
  <2>2. i + 1 \in 1..Len(s) /\ x = s[i + 1]
    BY <2>1, <1>1
  <2>3. QED
    BY <2>2, <1>1 DEF ToSet
<1>4. Head(s) \in ToSet(s)
  <2>1. 1 \in DOMAIN s
    BY <1>1
  <2>2. QED
    BY <2>1, <1>1 DEF ToSet
<1>5. QED
  BY <1>1, <1>2, <1>3, <1>4

\* The elements of two sequences after each other.
LEMMA ToSetOfConcat ==
  ASSUME NEW S, NEW s \in Seq(S), NEW t \in Seq(S)
  PROVE  s \o t \in Seq(S) /\ ToSet(s \o t) = ToSet(s) \cup ToSet(t)
<1>1. s \o t \in Seq(S)
  OBVIOUS
<1>2. /\ DOMAIN s = 1..Len(s) /\ DOMAIN t = 1..Len(t)
      /\ DOMAIN (s \o t) = 1..Len(s) + Len(t)
      /\ Len(s) \in Nat /\ Len(t) \in Nat
      /\ \A i \in 1..Len(s) + Len(t):
           (s \o t)[i] = IF i <= Len(s) THEN s[i] ELSE t[i - Len(s)]
  OBVIOUS
<1>3. ASSUME NEW x \in ToSet(s \o t) PROVE x \in ToSet(s) \cup ToSet(t)
  <2>1. PICK i \in 1..Len(s) + Len(t): x = (s \o t)[i]
    BY <1>2 DEF ToSet
  <2>2. CASE i <= Len(s)
    BY <2>1, <2>2, <1>2 DEF ToSet
  <2>3. CASE ~(i <= Len(s))
    <3>1. i - Len(s) \in 1..Len(t) /\ x = t[i - Len(s)]
      BY <2>1, <2>3, <1>2
    <3>2. QED
      BY <3>1, <1>2 DEF ToSet
  <2>4. QED
    BY <2>2, <2>3
<1>4. ASSUME NEW x \in ToSet(s) PROVE x \in ToSet(s \o t)
  <2>1. PICK i \in 1..Len(s): x = s[i]
    BY <1>2 DEF ToSet
  <2>2. i \in 1..Len(s) + Len(t) /\ (s \o t)[i] = x
    BY <2>1, <1>2
  <2>3. QED
    BY <2>2, <1>2 DEF ToSet
<1>5. ASSUME NEW x \in ToSet(t) PROVE x \in ToSet(s \o t)
  <2>1. PICK i \in 1..Len(t): x = t[i]
    BY <1>2 DEF ToSet
  <2>2. /\ i + Len(s) \in 1..Len(s) + Len(t) /\ ~(i + Len(s) <= Len(s))
        /\ (i + Len(s)) - Len(s) = i
    BY <2>1, <1>2
  <2>3. (s \o t)[i + Len(s)] = x
    BY <2>2, <2>1, <1>2
  <2>4. QED
    BY <2>2, <2>3, <1>2 DEF ToSet
<1>6. QED
  BY <1>1, <1>3, <1>4, <1>5

\* A finite set in some order.
LEMMA SetInOrder ==
  ASSUME NEW S, IsFiniteSet(S)
  PROVE  SetToSeq(S) \in Seq(S) /\ ToSet(SetToSeq(S)) = S
<1> DEFINE n == Cardinality(S)
           s == SetToSeq(S)
<1>1. n \in Nat /\ ExistsBijection(1..n, S)
  BY FS_CardinalityType
<1>2. \E f \in [1..n -> S]: IsInjective(f)
  BY <1>1 DEF ExistsBijection, Bijection, Injection
<1>3. s \in [1..n -> S] /\ IsInjective(s)
  BY <1>2 DEF SetToSeq
<1>4. s \in Seq(S) /\ DOMAIN s = 1..n
  <2> HIDE DEF s
  <2>1. QED
    BY <1>1, <1>3
<1>5. IsFiniteSet(1..n) /\ Cardinality(1..n) = n
  BY <1>1, FS_Interval
<1>6. s \in Surjection(1..n, S)
  BY <1>3, <1>5, FS_Injection DEF Injection
<1>7. ToSet(s) = S
  <2> HIDE DEF s, n
  <2>1. QED
    BY <1>3, <1>4, <1>6 DEF ToSet, Surjection
<1>8. QED
  BY <1>4, <1>7

-----------------------------------------------------------------------------
(* The invariant *)

AllItems == UNION {Items(d): d \in Deliveries}

\* What the account did itself, but for its messages.
Own == {JobOf(i): i \in {k \in AllItems: k.by = "account" /\ k.kind # "message"}}

\* What a request may have to do: all of it may be queued.
Work == {i \in AllItems \cup {FallbackOf(c): c \in Openings}:
           JobsOf(i) \subseteq JobIds \ Own}

\* What requests and jobs are, between two steps.
Domains ==
  /\ connected \in BOOLEAN
  /\ edits \in 0..MaxEdits
  /\ meta \in [Deliveries -> {"due", "underway", "accepted", "refused"}]
  /\ pc \in [Handlers -> {"idle", "open", "loop", "fail"}]
  /\ at \in [Handlers -> Deliveries \cup {0}]
  /\ todo \in [Handlers -> Seq(Work)]
  /\ rows \in [Deliveries -> SUBSET {"PENDING", "PROCESSED", "FAILED"}]
  /\ job \in [JobIds -> {"absent", "waiting", "completed", "failed"}]
  /\ queued \cup missed \subseteq JobIds \ Own
  /\ ran \in [JobIds -> Nat] /\ failures \in [JobIds -> Nat]
  /\ faults \in 0..MaxFaults

\* A request that is under way has a delivery, and one that is not in its
\* loops has nothing left to do.
RequestsFit ==
  \A h \in Handlers:
    /\ pc[h] # "idle" => at[h] \in Deliveries
    /\ todo[h] # << >> => pc[h] \in {"loop", "fail"}

\* In the loops, what a delivery promises is queued, dropped or still to do.
LoopKeepsPromise ==
  \A h \in Handlers:
    pc[h] = "loop" =>
      Promised[at[h]] \subseteq
        queued \cup missed \cup UNION {JobsOf(i): i \in ToSet(todo[h])}

\* A job that may run, or may be queued again, has not run more often than it
\* was given up.
RunsFit ==
  \A j \in JobIds: ran[j] <= failures[j] + (IF job[j] = "completed" THEN 1 ELSE 0)

QueueInv ==
  /\ Domains /\ RequestsFit /\ LoopKeepsPromise /\ RunsFit
  /\ ProcessedMeansQueued

-----------------------------------------------------------------------------
(* Items and jobs *)

\* The jobs of an item are jobs.
LEMMA ItemsHaveJobs ==
  ASSUME NEW d \in Deliveries, NEW i \in Items(d)
  PROVE  i \in AllItems /\ JobsOf(i) \subseteq JobIds
BY DEF AllItems, JobIds

\* A fallback is not one of the account's own.
LEMMA FallbackIsNotOwn ==
  ASSUME NEW c
  PROVE  FallbackOf(c) \notin Own /\ JobsOf(FallbackOf(c)) = {FallbackOf(c)}
<1>1. ASSUME NEW k \in AllItems PROVE JobOf(k) # FallbackOf(c)
  <2>1. k.kind # "fallback"
    BY Batches DEF AllItems
  <2>2. JobOf(k).kind = k.kind /\ FallbackOf(c).kind = "fallback"
    BY DEF JobOf, FallbackOf
  <2>3. QED
    BY <2>1, <2>2
<1>2. FallbackOf(c) \notin Own
  BY <1>1 DEF Own
<1>3. JobsOf(FallbackOf(c)) = {FallbackOf(c)}
  BY DEF JobsOf, JobOf, FallbackOf
<1>4. QED
  BY <1>2, <1>3

\* What the parsers keep of a batch may be queued.
LEMMA KeptIsWork ==
  ASSUME NEW d \in Deliveries, NEW i \in Items(d),
         IsComment(i) \/ IsMessage(i) \/ IsPostback(i) \/ IsRead(i)
  PROVE  i \in Work
<1>1. i \in AllItems /\ JobsOf(i) \subseteq JobIds
  BY ItemsHaveJobs
<1>2. JobsOf(i) \cap Own = {}
  <2>1. CASE IsRead(i)
    <3>1. JobsOf(i) = {FallbackOf(c): c \in Openings}
      BY <2>1 DEF IsRead, JobsOf
    <3>2. QED
      BY <3>1, FallbackIsNotOwn
  <2>2. CASE ~IsRead(i)
    <3>1. i.by # "account" \/ i.kind = "message"
      BY <2>2 DEF IsComment, IsMessage, IsPostback
    <3>2. ASSUME NEW k \in AllItems, k.by = "account", k.kind # "message"
          PROVE  JobOf(i) # JobOf(k)
      <4>1. SUFFICES ASSUME JobOf(i) = JobOf(k) PROVE FALSE
        OBVIOUS
      <4>2. JobOf(i).kind = i.kind /\ JobOf(k).kind = k.kind
        BY DEF JobOf
      <4>3. PICK e \in Deliveries: k \in Items(e)
        BY DEF AllItems
      <4>4. i.by = k.by
        BY <4>1, <4>3, OneAuthor
      <4>5. QED
        BY <3>1, <3>2, <4>1, <4>2, <4>4
    <3>3. JobOf(i) \notin Own
      BY <3>2 DEF Own
    <3>4. JobsOf(i) = {JobOf(i)}
      BY <2>2 DEF JobsOf, IsRead, IsComment, IsMessage, IsPostback
    <3>5. QED
      BY <3>3, <3>4
  <2>3. QED
    BY <2>1, <2>2
<1>3. QED
  BY <1>1, <1>2 DEF Work

\* So is what the handler goes through.
LEMMA ParsedIsWork ==
  ASSUME NEW d \in Deliveries
  PROVE  Parsed[d] \in Seq(Work)
<1> DEFINE items == Body[d].items
           C == {i \in Items(d): IsComment(i)}
           M == {i \in Items(d): IsMessage(i)}
           P == {i \in Items(d): IsPostback(i)}
           R == {i \in Items(d): IsRead(i)}
<1>1. /\ C \subseteq Work /\ M \subseteq Work
      /\ P \subseteq Work /\ R \subseteq Work
  BY KeptIsWork
<1>2. items \in Seq(Items(d))
  BY Batches
<1>3. Parsed[d] = IF Body[d].object # "instagram" THEN << >>
                  ELSE Kept(items, C) \o Kept(items, M) \o Kept(items, P)
                         \o Kept(items, R)
  BY DEF Parsed
<1> HIDE DEF C, M, P, R, items
<1>4. /\ Kept(items, C) \in Seq(C) /\ Kept(items, M) \in Seq(M)
      /\ Kept(items, P) \in Seq(P) /\ Kept(items, R) \in Seq(R)
  BY <1>2, KeptIsASeq
<1>5. /\ Kept(items, C) \in Seq(Work) /\ Kept(items, M) \in Seq(Work)
      /\ Kept(items, P) \in Seq(Work) /\ Kept(items, R) \in Seq(Work)
  BY <1>1, <1>4, SeqMonotonic
<1>6. Kept(items, C) \o Kept(items, M) \in Seq(Work)
  BY <1>5, ToSetOfConcat
<1>7. Kept(items, C) \o Kept(items, M) \o Kept(items, P) \in Seq(Work)
  BY <1>5, <1>6, ToSetOfConcat
<1>8. Kept(items, C) \o Kept(items, M) \o Kept(items, P) \o Kept(items, R)
        \in Seq(Work)
  BY <1>5, <1>7, ToSetOfConcat
<1>9. QED
  BY <1>3, <1>8

-----------------------------------------------------------------------------
(* The steps of a request *)

\* An answer leaves the request idle.
LEMMA AnswerStep ==
  ASSUME QueueInv, NEW h \in Handlers, pc[h] # "idle",
         NEW outcome \in {"due", "accepted"}, Answer(h, outcome)
  PROVE  /\ meta' \in [Deliveries -> {"due", "underway", "accepted", "refused"}]
         /\ pc' \in [Handlers -> {"idle", "open", "loop", "fail"}]
         /\ at' \in [Handlers -> Deliveries \cup {0}]
         /\ todo' \in [Handlers -> Seq(Work)]
         /\ pc'[h] = "idle" /\ todo'[h] = << >>
         /\ \A k \in Handlers:
              k # h => pc'[k] = pc[k] /\ at'[k] = at[k] /\ todo'[k] = todo[k]
<1>1. at[h] \in Deliveries
  BY DEF QueueInv, RequestsFit
<1>2. meta' \in [Deliveries -> {"due", "underway", "accepted", "refused"}]
  BY <1>1 DEF QueueInv, Domains, Answer
<1>3. /\ pc' \in [Handlers -> {"idle", "open", "loop", "fail"}]
      /\ at' \in [Handlers -> Deliveries \cup {0}]
      /\ pc'[h] = "idle"
      /\ \A k \in Handlers: k # h => pc'[k] = pc[k] /\ at'[k] = at[k]
  BY DEF QueueInv, Domains, Answer, Goto
<1>4. << >> \in Seq(Work)
  OBVIOUS
<1>5. /\ todo' \in [Handlers -> Seq(Work)]
      /\ todo'[h] = << >>
      /\ \A k \in Handlers: k # h => todo'[k] = todo[k]
  BY <1>4, SMT DEF QueueInv, Domains, Answer
<1>6. QED
  BY <1>2, <1>3, <1>5

\* So the requests and their loops are as they should be.
LEMMA AnswerFits ==
  ASSUME QueueInv, NEW h \in Handlers, pc[h] # "idle",
         NEW outcome \in {"due", "accepted"}, Answer(h, outcome),
         UNCHANGED <<queued, missed>>
  PROVE  RequestsFit' /\ LoopKeepsPromise'
<1>1. RequestsFit'
  BY AnswerStep DEF QueueInv, RequestsFit
<1>2. LoopKeepsPromise'
  BY AnswerStep DEF QueueInv, LoopKeepsPromise
<1>3. QED
  BY <1>1, <1>2

LEMMA ReceiveStep ==
  ASSUME QueueInv, NEW h \in Handlers, NEW d \in Deliveries, Receive(h, d)
  PROVE  QueueInv'
<1>1. /\ meta' \in [Deliveries -> {"due", "underway", "accepted", "refused"}]
      /\ pc' \in [Handlers -> {"idle", "open", "loop", "fail"}]
      /\ at' \in [Handlers -> Deliveries \cup {0}]
  <2>1. CASE Body[d].signed
    <3>1. /\ meta' = [meta EXCEPT ![d] = "underway"]
          /\ pc' = [pc EXCEPT ![h] = "open"] /\ at' = [at EXCEPT ![h] = d]
      BY <2>1 DEF Receive, Goto
    <3>2. meta' \in [Deliveries -> {"due", "underway", "accepted", "refused"}]
      BY <3>1 DEF QueueInv, Domains
    <3>3. pc' \in [Handlers -> {"idle", "open", "loop", "fail"}]
      BY <3>1 DEF QueueInv, Domains
    <3>4. at' \in [Handlers -> Deliveries \cup {0}]
      BY <3>1 DEF QueueInv, Domains
    <3>5. QED
      BY <3>2, <3>3, <3>4
  <2>2. CASE ~Body[d].signed
    BY <2>2 DEF QueueInv, Domains, Receive, Goto
  <2>3. QED
    BY <2>1, <2>2
<1>2. \A k \in Handlers: pc'[k] = "loop" => pc[k] = "loop" /\ at'[k] = at[k]
  BY DEF QueueInv, Domains, Receive, Goto
<1>3. Domains'
  BY <1>1 DEF QueueInv, Domains, Receive, jobs
<1>4. RequestsFit'
  BY DEF QueueInv, Domains, RequestsFit, Receive, Goto
<1>5. LoopKeepsPromise'
  BY <1>2 DEF QueueInv, LoopKeepsPromise, Receive, jobs
<1>6. RunsFit' /\ ProcessedMeansQueued'
  BY DEF QueueInv, RunsFit, ProcessedMeansQueued, Receive, jobs
<1>7. QED
  BY <1>3, <1>4, <1>5, <1>6 DEF QueueInv

LEMMA FaultStep ==
  ASSUME faults \in 0..MaxFaults, NEW e, Fault(e)
  PROVE  faults' \in 0..MaxFaults
BY WebhookBounds DEF Fault

LEMMA OpenStep ==
  ASSUME QueueInv, NEW h \in Handlers, Open(h)
  PROVE  QueueInv'
<1>1. CASE todo' = [todo EXCEPT ![h] = Parsed[at[h]]] /\ Goto(h, "loop")
           /\ UNCHANGED <<meta, at, faults>>
  <2>1. at[h] \in Deliveries
    BY DEF QueueInv, RequestsFit, Open
  <2>2. Parsed[at[h]] \in Seq(Work)
    BY <2>1, ParsedIsWork
  <2>3. todo' \in [Handlers -> Seq(Work)] /\ todo'[h] = Parsed[at[h]]
        /\ \A k \in Handlers: k # h => todo'[k] = todo[k]
    BY <1>1, <2>2 DEF QueueInv, Domains
  <2>4. /\ pc' \in [Handlers -> {"idle", "open", "loop", "fail"}]
        /\ pc'[h] = "loop" /\ \A k \in Handlers: k # h => pc'[k] = pc[k]
    BY <1>1 DEF QueueInv, Domains, Goto
  <2>5. Domains'
    BY <1>1, <2>3, <2>4 DEF QueueInv, Domains, Open, jobs
  <2>6. RequestsFit'
    BY <1>1, <2>1, <2>3, <2>4 DEF QueueInv, RequestsFit
  <2>7. Promised[at[h]] = UNION {JobsOf(i): i \in ToSet(todo'[h])}
    BY <2>1, <2>3 DEF Promised
  <2>8. LoopKeepsPromise'
    BY <1>1, <2>3, <2>4, <2>7 DEF QueueInv, LoopKeepsPromise, Open, jobs
  <2>9. RunsFit' /\ ProcessedMeansQueued'
    BY DEF QueueInv, RunsFit, ProcessedMeansQueued, Open, jobs
  <2>10. QED
    BY <2>5, <2>6, <2>8, <2>9 DEF QueueInv
<1>2. CASE Fault("db") /\ Answer(h, "due")
  <2>1. pc[h] # "idle" /\ UNCHANGED <<queued, missed>>
    BY DEF Open, jobs
  <2>2. faults' \in 0..MaxFaults
    BY <1>2, FaultStep DEF QueueInv, Domains
  <2>3. Domains'
    BY <1>2, <2>1, <2>2, AnswerStep DEF QueueInv, Domains, Open, jobs
  <2>4. RequestsFit' /\ LoopKeepsPromise'
    BY <1>2, <2>1, AnswerFits
  <2>5. RunsFit' /\ ProcessedMeansQueued'
    BY DEF QueueInv, RunsFit, ProcessedMeansQueued, Open, jobs
  <2>6. QED
    BY <2>3, <2>4, <2>5 DEF QueueInv
<1>3. QED
  BY <1>1, <1>2 DEF Open

\* What is first is work, and is the only job it stands for unless it is a
\* read.
LEMMA FirstIsWork ==
  ASSUME QueueInv, NEW h \in Handlers, todo[h] # << >>
  PROVE  /\ Head(todo[h]) \in Work /\ Tail(todo[h]) \in Seq(Work)
         /\ ToSet(todo[h]) = {Head(todo[h])} \cup ToSet(Tail(todo[h]))
         /\ JobsOf(Head(todo[h])) \subseteq JobIds \ Own
         /\ Head(todo[h]).kind # "read"
              => JobsOf(Head(todo[h])) = {JobOf(Head(todo[h]))}
<1>1. todo[h] \in Seq(Work)
  BY DEF QueueInv, Domains
<1>2. /\ Head(todo[h]) \in Work /\ Tail(todo[h]) \in Seq(Work)
      /\ ToSet(todo[h]) = {Head(todo[h])} \cup ToSet(Tail(todo[h]))
  BY <1>1, HeadAndTail
<1>3. QED
  BY <1>2 DEF Work, JobsOf

\* Passing on from an item whose jobs are queued or dropped keeps the promise.
LEMMA PassStep ==
  ASSUME QueueInv, NEW h \in Handlers, todo[h] # << >>, pc[h] = "loop",
         Pass(h), UNCHANGED at,
         queued \subseteq queued', missed \subseteq missed',
         JobsOf(Head(todo[h])) \subseteq queued' \cup missed'
  PROVE  /\ todo' \in [Handlers -> Seq(Work)]
         /\ RequestsFit' /\ LoopKeepsPromise'
<1>1. Tail(todo[h]) \in Seq(Work)
  BY FirstIsWork
<1>2. /\ todo' \in [Handlers -> Seq(Work)] /\ todo'[h] = Tail(todo[h])
      /\ \A k \in Handlers: k # h => todo'[k] = todo[k]
  BY <1>1 DEF QueueInv, Domains, Pass
<1>3. RequestsFit'
  BY <1>2 DEF QueueInv, RequestsFit, Pass
<1>4. ASSUME NEW k \in Handlers, pc'[k] = "loop"
      PROVE  Promised[at'[k]] \subseteq
               queued' \cup missed' \cup UNION {JobsOf(i): i \in ToSet(todo'[k])}
  <2>1. Promised[at[k]] \subseteq
          queued \cup missed \cup UNION {JobsOf(i): i \in ToSet(todo[k])}
    BY <1>4 DEF QueueInv, LoopKeepsPromise, Pass
  <2>2. CASE k # h
    BY <2>1, <2>2, <1>2
  <2>3. CASE k = h
    <3>1. UNION {JobsOf(i): i \in ToSet(todo[h])} =
            JobsOf(Head(todo[h])) \cup UNION {JobsOf(i): i \in ToSet(todo'[h])}
      BY <1>2, FirstIsWork
    <3>2. QED
      BY <2>1, <2>3, <3>1
  <2>4. QED
    BY <2>2, <2>3
<1>5. LoopKeepsPromise'
  BY <1>4 DEF LoopKeepsPromise
<1>6. QED
  BY <1>2, <1>3, <1>5

\* Leaving the loops promises nothing.
LEMMA LeaveStep ==
  ASSUME QueueInv, NEW h \in Handlers, pc[h] = "loop", Goto(h, "fail"),
         UNCHANGED <<at, todo>>, queued \subseteq queued', missed \subseteq missed'
  PROVE  /\ pc' \in [Handlers -> {"idle", "open", "loop", "fail"}]
         /\ RequestsFit' /\ LoopKeepsPromise'
<1>1. /\ pc' \in [Handlers -> {"idle", "open", "loop", "fail"}]
      /\ pc'[h] = "fail" /\ \A k \in Handlers: k # h => pc'[k] = pc[k]
  BY DEF QueueInv, Domains, Goto
<1>2. RequestsFit'
  BY <1>1 DEF QueueInv, RequestsFit
<1>3. LoopKeepsPromise'
  BY <1>1 DEF QueueInv, LoopKeepsPromise
<1>4. QED
  BY <1>1, <1>2, <1>3

\* A job that is added is queued, or has been.
LEMMA AddStep ==
  ASSUME QueueInv, NEW j \in JobIds \ Own, Add(j), UNCHANGED <<missed, rows>>
  PROVE  /\ job' \in [JobIds -> {"absent", "waiting", "completed", "failed"}]
         /\ queued \subseteq queued' /\ j \in queued'
         /\ queued' \cup missed' \subseteq JobIds \ Own
         /\ RunsFit' /\ ProcessedMeansQueued'
<1>1. /\ job' \in [JobIds -> {"absent", "waiting", "completed", "failed"}]
      /\ \A k \in JobIds: job'[k] = "completed" <=> job[k] = "completed"
  <2>1. CASE job[j] = "absent"
    BY <2>1 DEF QueueInv, Domains, Add
  <2>2. CASE job[j] # "absent"
    BY <2>2 DEF QueueInv, Domains, Add
  <2>3. QED
    BY <2>1, <2>2
<1>2. /\ queued \subseteq queued' /\ j \in queued'
      /\ queued' \cup missed' \subseteq JobIds \ Own
  BY DEF QueueInv, Domains, Add
<1>3. RunsFit'
  BY <1>1 DEF QueueInv, RunsFit, Add
<1>4. ProcessedMeansQueued'
  BY <1>2 DEF QueueInv, ProcessedMeansQueued
<1>5. QED
  BY <1>1, <1>2, <1>3, <1>4

LEMMA DropStep ==
  ASSUME QueueInv, NEW h \in Handlers, DropMessage(h)
  PROVE  QueueInv'
<1> DEFINE i == Head(todo[h])
<1>1. /\ JobsOf(i) = {JobOf(i)} /\ JobOf(i) \in JobIds \ Own
  BY FirstIsWork DEF DropMessage
<1>2. /\ UNCHANGED <<connected, edits, meta, at, rows, job, queued, ran,
                     failures, faults>>
      /\ missed' = missed \cup {JobOf(i)} /\ Pass(h)
      /\ pc[h] = "loop" /\ todo[h] # << >> /\ UNCHANGED pc
  BY DEF DropMessage, jobs, Pass
<1>3. /\ todo' \in [Handlers -> Seq(Work)]
      /\ RequestsFit' /\ LoopKeepsPromise'
  BY <1>1, <1>2, PassStep
<1> HIDE DEF i
<1>4. Domains'
  BY <1>1, <1>2, <1>3 DEF QueueInv, Domains
<1>5. RunsFit' /\ ProcessedMeansQueued'
  BY <1>2 DEF QueueInv, RunsFit, ProcessedMeansQueued
<1>6. QED
  BY <1>3, <1>4, <1>5 DEF QueueInv

LEMMA QueryStep ==
  ASSUME QueueInv, NEW h \in Handlers, QueryFails(h)
  PROVE  QueueInv'
<1>1. /\ UNCHANGED <<connected, edits, meta, at, todo, rows, job, queued, ran,
                     failures, missed>>
      /\ pc[h] = "loop" /\ Goto(h, "fail") /\ faults' \in 0..MaxFaults
  BY FaultStep DEF QueryFails, QueueInv, Domains, jobs
<1>2. /\ pc' \in [Handlers -> {"idle", "open", "loop", "fail"}]
      /\ RequestsFit' /\ LoopKeepsPromise'
  BY <1>1, LeaveStep
<1>3. Domains'
  BY <1>1, <1>2 DEF QueueInv, Domains
<1>4. RunsFit' /\ ProcessedMeansQueued'
  BY <1>1 DEF QueueInv, RunsFit, ProcessedMeansQueued
<1>5. QED
  BY <1>2, <1>3, <1>4 DEF QueueInv

\* The fallbacks of a read are the jobs it stands for.
LEMMA ExpandStep ==
  ASSUME QueueInv, NEW h \in Handlers, ExpandRead(h)
  PROVE  QueueInv'
<1> DEFINE F == {FallbackOf(c): c \in Openings}
           i == Head(todo[h])
           rest == Tail(todo[h])
<1>1. /\ JobsOf(i) = F /\ F \subseteq JobIds \ Own /\ rest \in Seq(Work)
      /\ ToSet(todo[h]) = {i} \cup ToSet(rest)
  BY FirstIsWork DEF ExpandRead, JobsOf
<1>2. IsFiniteSet(F)
  <2> DEFINE f == [c \in Openings |-> FallbackOf(c)]
  <2>1. f \in Surjection(Openings, F)
    BY DEF Surjection
  <2>2. QED
    BY <2>1, FiniteOpenings, FS_Surjection
<1>3. \A x \in F: x \in Work /\ JobsOf(x) = {x}
  BY <1>1, FallbackIsNotOwn DEF Work
<1>4. SetToSeq(F) \in Seq(F) /\ ToSet(SetToSeq(F)) = F
  BY <1>2, SetInOrder
<1>5. /\ SetToSeq(F) \o rest \in Seq(Work)
      /\ ToSet(SetToSeq(F) \o rest) = F \cup ToSet(rest)
  <2>1. SetToSeq(F) \in Seq(Work)
    <3>1. F \subseteq Work
      BY <1>3
    <3>2. QED
      BY <3>1, <1>4, SeqMonotonic
  <2>2. ToSet(SetToSeq(F)) = F /\ rest \in Seq(Work)
    BY <1>1, <1>4
  <2> HIDE DEF F, rest
  <2>3. QED
    BY <2>1, <2>2, ToSetOfConcat
<1>6. /\ UNCHANGED <<connected, edits, meta, pc, at, rows, job, queued, ran,
                     failures, missed, faults>>
      /\ todo' = [todo EXCEPT ![h] = SetToSeq(F) \o rest]
      /\ pc[h] = "loop"
  BY DEF ExpandRead, jobs
<1> HIDE DEF F, i, rest
<1>7. /\ todo' \in [Handlers -> Seq(Work)] /\ todo'[h] = SetToSeq(F) \o rest
      /\ \A k \in Handlers: k # h => todo'[k] = todo[k]
  BY <1>5, <1>6 DEF QueueInv, Domains
<1>8. Domains'
  BY <1>6, <1>7 DEF QueueInv, Domains
<1>9. RequestsFit'
  BY <1>6, <1>7 DEF QueueInv, RequestsFit
<1>10. UNION {JobsOf(x): x \in ToSet(todo'[h])} =
         UNION {JobsOf(x): x \in ToSet(todo[h])}
  <2>1. UNION {JobsOf(x): x \in F} = F
    BY <1>3
  <2>2. UNION {JobsOf(x): x \in ToSet(todo'[h])} =
          F \cup UNION {JobsOf(x): x \in ToSet(rest)}
    BY <2>1, <1>5, <1>7
  <2>3. QED
    BY <2>2, <1>1
<1>11. LoopKeepsPromise'
  BY <1>6, <1>7, <1>10 DEF QueueInv, LoopKeepsPromise
<1>12. RunsFit' /\ ProcessedMeansQueued'
  BY <1>6 DEF QueueInv, RunsFit, ProcessedMeansQueued
<1>13. QED
  BY <1>8, <1>9, <1>11, <1>12 DEF QueueInv

LEMMA QueueStep ==
  ASSUME QueueInv, NEW h \in Handlers, QueueNext(h)
  PROVE  QueueInv'
<1> DEFINE i == Head(todo[h])
<1>1. /\ JobsOf(i) = {JobOf(i)} /\ JobOf(i) \in JobIds \ Own
  BY FirstIsWork DEF QueueNext
<1>2. /\ UNCHANGED <<connected, edits, meta, at, rows, missed>>
      /\ pc[h] = "loop" /\ todo[h] # << >>
  BY DEF QueueNext
<1>3. CASE Add(JobOf(i)) /\ Pass(h) /\ UNCHANGED faults
  <2>1. /\ job' \in [JobIds -> {"absent", "waiting", "completed", "failed"}]
        /\ queued \subseteq queued' /\ JobOf(i) \in queued'
        /\ queued' \cup missed' \subseteq JobIds \ Own
        /\ RunsFit' /\ ProcessedMeansQueued'
    BY <1>1, <1>2, <1>3, AddStep
  <2>2. UNCHANGED <<pc, ran, failures>>
    BY <1>3 DEF Add, Pass
  <2>3. /\ todo' \in [Handlers -> Seq(Work)]
        /\ RequestsFit' /\ LoopKeepsPromise'
    BY <1>1, <1>2, <1>3, <2>1, PassStep
  <2>4. Domains'
    BY <1>2, <1>3, <2>1, <2>2, <2>3 DEF QueueInv, Domains
  <2>5. QED
    BY <2>1, <2>3, <2>4 DEF QueueInv
<1>4. CASE Fault("redis") /\ Goto(h, "fail") /\ UNCHANGED <<jobs, todo>>
  <2>1. /\ UNCHANGED <<job, queued, ran, failures, todo>>
        /\ faults' \in 0..MaxFaults
    BY <1>4, FaultStep DEF QueueInv, Domains, jobs
  <2>2. /\ pc' \in [Handlers -> {"idle", "open", "loop", "fail"}]
        /\ RequestsFit' /\ LoopKeepsPromise'
    BY <1>2, <1>4, <2>1, LeaveStep
  <2>3. Domains'
    BY <1>2, <2>1, <2>2 DEF QueueInv, Domains
  <2>4. RunsFit' /\ ProcessedMeansQueued'
    BY <1>2, <2>1 DEF QueueInv, RunsFit, ProcessedMeansQueued
  <2>5. QED
    BY <2>2, <2>3, <2>4 DEF QueueInv
<1>5. CASE Fault("db") /\ Add(JobOf(i)) /\ Goto(h, "fail") /\ UNCHANGED todo
  <2>1. /\ job' \in [JobIds -> {"absent", "waiting", "completed", "failed"}]
        /\ queued \subseteq queued' /\ JobOf(i) \in queued'
        /\ queued' \cup missed' \subseteq JobIds \ Own
        /\ RunsFit' /\ ProcessedMeansQueued'
    BY <1>1, <1>2, <1>5, AddStep
  <2>2. UNCHANGED <<ran, failures>> /\ faults' \in 0..MaxFaults
    BY <1>5, FaultStep DEF Add, QueueInv, Domains
  <2>3. /\ pc' \in [Handlers -> {"idle", "open", "loop", "fail"}]
        /\ RequestsFit' /\ LoopKeepsPromise'
    BY <1>2, <1>5, <2>1, LeaveStep
  <2>4. Domains'
    BY <1>2, <1>5, <2>1, <2>2, <2>3 DEF QueueInv, Domains
  <2>5. QED
    BY <2>1, <2>3, <2>4 DEF QueueInv
<1>6. QED
  BY <1>3, <1>4, <1>5 DEF QueueNext

\* When nothing is left, what the delivery promises is queued or dropped.
LEMMA CloseStep ==
  ASSUME QueueInv, NEW h \in Handlers, Close(h)
  PROVE  QueueInv'
<1>1. /\ UNCHANGED <<connected, edits, job, queued, ran, failures, missed>>
      /\ pc[h] = "loop" /\ todo[h] = << >> /\ at[h] \in Deliveries
  BY DEF Close, jobs, QueueInv, RequestsFit
<1>2. RunsFit'
  BY <1>1 DEF QueueInv, RunsFit
<1>3. ASSUME LeaveRow(h, "PROCESSED"), NEW outcome \in {"due", "accepted"},
             Answer(h, outcome), faults' \in 0..MaxFaults
      PROVE  QueueInv'
  <2>1. Promised[at[h]] \subseteq queued \cup missed
    <3>1. ToSet(todo[h]) = {}
      BY <1>1 DEF ToSet
    <3>2. QED
      BY <3>1, <1>1 DEF QueueInv, LoopKeepsPromise
  <2>2. /\ rows' \in [Deliveries -> SUBSET {"PENDING", "PROCESSED", "FAILED"}]
        /\ \A d \in Deliveries: d # at[h] => rows'[d] = rows[d]
    BY <1>1, <1>3 DEF QueueInv, Domains, LeaveRow
  <2>3. ProcessedMeansQueued'
    BY <1>1, <2>1, <2>2 DEF QueueInv, ProcessedMeansQueued
  <2>4. Domains'
    BY <1>1, <1>3, <2>2, AnswerStep DEF QueueInv, Domains
  <2>5. RequestsFit' /\ LoopKeepsPromise'
    BY <1>1, <1>3, AnswerFits
  <2>6. QED
    BY <1>2, <2>3, <2>4, <2>5 DEF QueueInv
<1>4. CASE Fault("db") /\ Goto(h, "fail") /\ UNCHANGED <<rows, meta, at, todo>>
  <2>1. faults' \in 0..MaxFaults
    BY <1>4, FaultStep DEF QueueInv, Domains
  <2>2. /\ pc' \in [Handlers -> {"idle", "open", "loop", "fail"}]
        /\ RequestsFit' /\ LoopKeepsPromise'
    BY <1>1, <1>4, LeaveStep
  <2>3. Domains'
    BY <1>1, <1>4, <2>1, <2>2 DEF QueueInv, Domains
  <2>4. ProcessedMeansQueued'
    BY <1>1, <1>4 DEF QueueInv, ProcessedMeansQueued
  <2>5. QED
    BY <1>2, <2>2, <2>3, <2>4 DEF QueueInv
<1>5. QED
  BY <1>3, <1>4, FaultStep DEF Close, QueueInv, Domains

\* A request that fails or dies leaves a row that does not say PROCESSED.
LEMMA EndStep ==
  ASSUME QueueInv, NEW h \in Handlers, pc[h] # "idle",
         NEW state \in {"PENDING", "FAILED"}, LeaveRow(h, state),
         Answer(h, "due"), faults' \in 0..MaxFaults,
         UNCHANGED <<connected, edits, jobs, missed>>
  PROVE  QueueInv'
<1>1. /\ UNCHANGED <<connected, edits, job, queued, ran, failures, missed>>
      /\ at[h] \in Deliveries
  BY DEF jobs, QueueInv, RequestsFit
<1>2. /\ rows' \in [Deliveries -> SUBSET {"PENDING", "PROCESSED", "FAILED"}]
      /\ \A d \in Deliveries: "PROCESSED" \in rows'[d] => "PROCESSED" \in rows[d]
  BY <1>1 DEF QueueInv, Domains, LeaveRow
<1>3. RunsFit' /\ ProcessedMeansQueued'
  BY <1>1, <1>2 DEF QueueInv, RunsFit, ProcessedMeansQueued
<1>4. Domains'
  BY <1>1, <1>2, AnswerStep DEF QueueInv, Domains
<1>5. RequestsFit' /\ LoopKeepsPromise'
  BY <1>1, AnswerFits
<1>6. QED
  BY <1>3, <1>4, <1>5 DEF QueueInv

LEMMA FailStep ==
  ASSUME QueueInv, NEW h \in Handlers, Fail(h)
  PROVE  QueueInv'
<1>1. faults \in 0..MaxFaults
  BY DEF QueueInv, Domains
<1>2. CASE LeaveRow(h, "FAILED") /\ UNCHANGED faults
  BY <1>1, <1>2, EndStep DEF Fail
<1>3. CASE LeaveRow(h, "PENDING") /\ Fault("db")
  BY <1>1, <1>3, EndStep, FaultStep DEF Fail
<1>4. QED
  BY <1>2, <1>3 DEF Fail

LEMMA CrashStep ==
  ASSUME QueueInv, NEW h \in Handlers, Crash(h)
  PROVE  QueueInv'
<1>1. faults \in 0..MaxFaults
  BY DEF QueueInv, Domains
<1>2. QED
  BY <1>1, EndStep, FaultStep DEF Crash

-----------------------------------------------------------------------------
(* The steps of the queue *)

\* A step of a job leaves the requests, and what they promised, as they are.
LEMMA JobStep ==
  ASSUME QueueInv, NEW j \in JobIds, RunJob(j) \/ GiveUp(j) \/ Forget(j)
  PROVE  QueueInv'
<1>1. UNCHANGED <<connected, edits, meta, pc, at, todo, rows, queued, missed>>
  BY DEF RunJob, GiveUp, Forget, handler
<1>2. /\ job' \in [JobIds -> {"absent", "waiting", "completed", "failed"}]
      /\ ran' \in [JobIds -> Nat] /\ failures' \in [JobIds -> Nat]
      /\ faults' \in 0..MaxFaults
      /\ RunsFit'
  <2>1. CASE RunJob(j)
    <3>1. /\ job[j] = "waiting"
          /\ job' = [job EXCEPT ![j] = "completed"]
          /\ ran' = [ran EXCEPT ![j] = @ + 1] /\ UNCHANGED <<failures, faults>>
      BY <2>1 DEF RunJob
    <3>2. QED
      BY <3>1 DEF QueueInv, Domains, RunsFit
  <2>2. CASE GiveUp(j)
    <3>1. /\ job[j] = "waiting"
          /\ job' = [job EXCEPT ![j] = "failed"]
          /\ failures' = [failures EXCEPT ![j] = @ + 1] /\ UNCHANGED ran
          /\ faults' \in 0..MaxFaults
      BY <2>2, FaultStep DEF GiveUp, QueueInv, Domains
    <3>2. QED
      BY <3>1 DEF QueueInv, Domains, RunsFit
  <2>3. CASE Forget(j)
    <3>1. /\ job[j] = "failed"
          /\ job' = [job EXCEPT ![j] = "absent"]
          /\ UNCHANGED <<ran, failures, faults>>
      BY <2>3 DEF Forget
    <3>2. QED
      BY <3>1 DEF QueueInv, Domains, RunsFit
  <2>4. QED
    BY <2>1, <2>2, <2>3
<1>3. Domains'
  BY <1>1, <1>2 DEF QueueInv, Domains
<1>4. RequestsFit' /\ LoopKeepsPromise' /\ ProcessedMeansQueued'
  BY <1>1 DEF QueueInv, RequestsFit, LoopKeepsPromise, ProcessedMeansQueued
<1>5. QED
  BY <1>2, <1>3, <1>4 DEF QueueInv

LEMMA EditStep ==
  ASSUME QueueInv, EditAccount
  PROVE  QueueInv'
<1>1. /\ UNCHANGED <<meta, pc, at, todo, rows, job, queued, ran, failures,
                     missed, faults>>
      /\ connected' \in BOOLEAN /\ edits' \in 0..MaxEdits
  BY WebhookBounds DEF EditAccount, handler, jobs, QueueInv, Domains
<1>2. QED
  BY <1>1 DEF QueueInv, Domains, RequestsFit, LoopKeepsPromise, RunsFit,
              ProcessedMeansQueued

-----------------------------------------------------------------------------
(* The theorems *)

LEMMA QueueInit == Init => QueueInv
<1> SUFFICES ASSUME Init PROVE QueueInv
  OBVIOUS
<1>1. << >> \in Seq(Work) /\ 0 \in Nat
  OBVIOUS
<1>2. Domains
  <2>1. todo \in [Handlers -> Seq(Work)]
    BY <1>1 DEF Init
  <2>2. edits \in 0..MaxEdits /\ faults \in 0..MaxFaults
    BY WebhookBounds DEF Init
  <2>3. QED
    BY <1>1, <2>1, <2>2 DEF Init, Domains
<1>3. RequestsFit /\ LoopKeepsPromise /\ RunsFit /\ ProcessedMeansQueued
  BY DEF Init, RequestsFit, LoopKeepsPromise, RunsFit, ProcessedMeansQueued
<1>4. QED
  BY <1>2, <1>3 DEF QueueInv

LEMMA QueueNextStep == QueueInv /\ [Next]_vars => QueueInv'
<1> SUFFICES ASSUME QueueInv, [Next]_vars PROVE QueueInv'
  OBVIOUS
<1>1. ASSUME NEW h \in Handlers, NEW d \in Deliveries, Receive(h, d)
      PROVE  QueueInv'
  BY <1>1, ReceiveStep
<1>2. ASSUME NEW h \in Handlers, Handle(h) \/ QueryFails(h) \/ Crash(h)
      PROVE  QueueInv'
  BY <1>2, OpenStep, DropStep, ExpandStep, QueueStep, CloseStep, FailStep,
     QueryStep, CrashStep DEF Handle
<1>3. ASSUME NEW j \in JobIds, RunJob(j) \/ GiveUp(j) \/ Forget(j)
      PROVE  QueueInv'
  BY <1>3, JobStep
<1>4. CASE EditAccount
  BY <1>4, EditStep
<1>5. CASE UNCHANGED vars
  <2>1. UNCHANGED <<connected, edits, meta, pc, at, todo, rows, job, queued, ran,
                    failures, missed, faults>>
    BY <1>5 DEF vars, handler, jobs
  <2>2. QED
    BY <2>1 DEF QueueInv, Domains, RequestsFit, LoopKeepsPromise, RunsFit,
                ProcessedMeansQueued
<1>6. QED
  BY <1>1, <1>2, <1>3, <1>4, <1>5 DEF Next

\* The loops keep their promises, whatever fails, dies or comes twice.
THEOREM QueueInvariance == Spec => []QueueInv
<1>1. QED
  BY QueueInit, QueueNextStep, PTL DEF Spec

\* A row that says PROCESSED stands for a batch whose events were all queued,
\* an event runs its job once, and nothing of the account's own is queued.
THEOREM QueueIsKept == Spec => []QueueHolds
<1>1. QueueInv => QueueHolds
  <2> SUFFICES ASSUME QueueInv PROVE QueueHolds
    OBVIOUS
  <2>1. EventRunsOnce
    BY DEF QueueInv, Domains, RunsFit, EventRunsOnce
  <2>2. ASSUME NEW d \in Deliveries, NEW i \in Items(d),
               i.by = "account", i.kind # "message"
        PROVE  JobOf(i) \notin queued
    <3>1. JobOf(i) \in Own
      BY <2>2 DEF Own, AllItems
    <3>2. QED
      BY <3>1 DEF QueueInv, Domains
  <2>3. {ran[j] + failures[j]: j \in JobIds} \subseteq Nat
    BY DEF QueueInv, Domains
  <2>4. \A h \in Handlers: todo[h] # << >> => pc[h] \in {"loop", "fail"}
    BY DEF QueueInv, RequestsFit
  <2>5. TypeOK
    BY <2>2, <2>3, <2>4 DEF QueueInv, Domains, TypeOK
  <2>6. QED
    BY <2>1, <2>5 DEF QueueInv, QueueHolds
<1>2. QED
  BY <1>1, QueueInvariance, PTL
=============================================================================
