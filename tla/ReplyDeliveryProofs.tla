------------------------ MODULE ReplyDeliveryProofs ------------------------
(***************************************************************************)
(* Proofs about ReplyDelivery, for any drafts, workers, clicks and bounds: *)
(* crashes, database errors and closed gates at any step, but no lost job  *)
(* lock and no send slower than the sweep's threshold (Orderly).  The last *)
(* part, on the quota, holds without that exception.                       *)
(***************************************************************************)
EXTENDS ReplyDelivery, Counting

USE DEF Senders, Processes, Sending, Statuses, Places, InFlight, BeforeMeta,
        AtMeta, AfterFailure, Preparing, Settling, InCharge, MayHaveLeft

\* The empty database with every job waiting satisfies the invariant.
LEMMA InitInv == Init => IInv
  BY ProcessesDisjoint, NobodyIsNobody
  DEF Init, IInv, TypeOK, RowsOK, HandlersOK, PlacesFit, JobsFit, RunsFit,
      ApprovalsFit, ApprovalsAlone, FoundFits, FreshFits, UnsureFits

-----------------------------------------------------------------------------
(* A handler that ends *)

\* However a handler leaves its job, the control part of the invariant holds.
LEMMA ControlOfRest ==
  ASSUME HandlersOK, PlacesFit, JobsFit,
         NEW p \in Processes, on[p] \in Drafts, Rest(p),
         NEW state \in {"waiting", "finished"}, NEW n \in Nat, NEW k \in Nat,
         JobLeaves(p, state, n, k)
  PROVE  HandlersOK' /\ PlacesFit' /\ JobsFit'
<1>1. HandlersOK'
  <2>1. job' \in [Drafts -> [state : {"waiting", "active", "finished"},
                             holder : Workers \cup {NoWorker},
                             attempts : Nat, stalls : Nat]]
    BY DEF HandlersOK, JobLeaves
  <2>2. QED
    BY <2>1 DEF HandlersOK, Rest
<1>2. PlacesFit'
  BY ProcessesDisjoint, NobodyIsNobody DEF HandlersOK, PlacesFit, Rest
<1>3. JobsFit'
  BY ProcessesDisjoint, NobodyIsNobody
  DEF HandlersOK, PlacesFit, JobsFit, Rest, JobLeaves, OwnsJob
<1>4. QED
  BY <1>1, <1>2, <1>3

\* In particular when it returns ...
LEMMA ControlOfFinish ==
  ASSUME HandlersOK, PlacesFit, JobsFit,
         NEW p \in Processes, pc[p] \notin {"idle", "done"}, Finish(p)
  PROVE  HandlersOK' /\ PlacesFit' /\ JobsFit'
<1>1. on[p] \in Drafts
  BY DEF HandlersOK, PlacesFit
<1>2. job[on[p]].attempts \in Nat /\ job[on[p]].stalls \in Nat
  BY <1>1 DEF HandlersOK
<1>3. QED
  BY <1>1, <1>2, ControlOfRest DEF Finish

\* ... or throws ...
LEMMA ControlOfThrow ==
  ASSUME HandlersOK, PlacesFit, JobsFit,
         NEW p \in Processes, pc[p] \notin {"idle", "done"}, Throw(p)
  PROVE  HandlersOK' /\ PlacesFit' /\ JobsFit'
<1> DEFINE again == job[on[p]].attempts + 1 < MaxAttempts
           next == IF again THEN "waiting" ELSE "finished"
<1>1. on[p] \in Drafts
  BY DEF HandlersOK, PlacesFit
<1>2. job[on[p]].attempts + 1 \in Nat /\ job[on[p]].stalls \in Nat
  BY <1>1 DEF HandlersOK
<1>3. next \in {"waiting", "finished"}
  OBVIOUS
<1>4. Rest(p) /\ JobLeaves(p, next, job[on[p]].attempts + 1, job[on[p]].stalls)
  BY DEF Throw
<1> HIDE DEF next
<1>5. QED
  BY <1>1, <1>2, <1>3, <1>4, ControlOfRest

\* ... or dies.
LEMMA ControlOfCrash ==
  ASSUME HandlersOK, PlacesFit, JobsFit, NEW p \in Processes, Crash(p)
  PROVE  HandlersOK' /\ PlacesFit' /\ JobsFit'
<1> DEFINE next == IF job[on[p]].stalls < MaxStalls THEN "waiting" ELSE "finished"
<1>1. on[p] \in Drafts
  BY DEF HandlersOK, PlacesFit, Crash
<1>2. job[on[p]].attempts \in Nat /\ job[on[p]].stalls + 1 \in Nat
  BY <1>1 DEF HandlersOK
<1>3. next \in {"waiting", "finished"}
  OBVIOUS
<1>4. Rest(p) /\ JobLeaves(p, next, job[on[p]].attempts, job[on[p]].stalls + 1)
  BY DEF Crash
<1> HIDE DEF next
<1>5. QED
  BY <1>1, <1>2, <1>3, <1>4, ControlOfRest

\* A handler that ends without writing a row preserves what the invariant
\* says of rows: it only says more about fewer handlers.
LEMMA RowsOfRest ==
  ASSUME IInv, NEW p \in Processes, pc[p] \notin {"idle", "done"}, Rest(p),
         UNCHANGED <<status, warned, dms, found>>
  PROVE  /\ RunsFit' /\ ApprovalsFit' /\ ApprovalsAlone'
         /\ FoundFits' /\ FreshFits' /\ UnsureFits'
<1> USE NobodyIsNobody
    DEF IInv, TypeOK, HandlersOK, Rest
<1>1. RunsFit'
  BY DEF RunsFit
<1>2. ApprovalsFit' /\ ApprovalsAlone'
  BY DEF ApprovalsFit, ApprovalsAlone
<1>3. FoundFits' /\ FreshFits'
  BY DEF FoundFits, FreshFits
<1>4. UnsureFits'
  BY DEF UnsureFits
<1>5. QED
  BY <1>1, <1>2, <1>3, <1>4

\* A handler that ends without writing anything else preserves the invariant.
LEMMA EndsQuietly ==
  ASSUME IInv, NEW p \in Processes, pc[p] \notin {"idle", "done"},
         Finish(p) \/ Throw(p) \/ Crash(p),
         UNCHANGED <<status, warned, onThread, dms, used, found>>,
         mirrored' \in [Drafts -> BOOLEAN]
  PROVE  IInv'
<1>1. HandlersOK' /\ PlacesFit' /\ JobsFit'
  BY ControlOfFinish, ControlOfThrow, ControlOfCrash DEF IInv, TypeOK
<1>2. Rest(p)
  BY DEF Finish, Throw, Crash
<1>3. TypeOK'
  BY <1>1 DEF IInv, TypeOK, RowsOK
<1>4. QED
  BY <1>1, <1>2, <1>3, RowsOfRest DEF IInv

\* A step of a won claim that writes no row and forgets no DM that may have
\* left preserves the invariant.
LEMMA MovesInFlight ==
  ASSUME IInv, NEW p \in Senders, NEW place \in InFlight,
         pc[p] \in InFlight, pc[p] \in MayHaveLeft => place \in MayHaveLeft,
         Goto(p, place), TypeOK',
         UNCHANGED <<status, warned, dms, job, on, prev, note, found>>
  PROVE  IInv'
<1> USE ProcessesDisjoint, NobodyIsNobody
    DEF IInv, TypeOK, HandlersOK, Goto
<1>1. PlacesFit' /\ JobsFit'
  BY DEF PlacesFit, JobsFit
<1>2. RunsFit'
  BY DEF RunsFit
<1>3. ApprovalsFit' /\ ApprovalsAlone'
  BY DEF ApprovalsFit, ApprovalsAlone
<1>4. FoundFits' /\ FreshFits'
  BY DEF FoundFits, FreshFits
<1>5. UnsureFits'
  BY DEF UnsureFits
<1>6. QED
  BY <1>1, <1>2, <1>3, <1>4, <1>5

-----------------------------------------------------------------------------
(* One step per action *)

\* A step of a job run preserves the invariant.
LEMMA JobStepInv ==
  ASSUME IInv, NEW w \in Workers, JobStep(w)
  PROVE  IInv'
<1>1. CASE MirrorInbound(w)
  <2>1. CASE mirrored[on[w]]
    BY <1>1, <2>1, EndsQuietly
    DEF IInv, TypeOK, RowsOK, PlacesFit, MirrorInbound
  <2>2. CASE ~mirrored[on[w]]
    <3>1. TypeOK' /\ PlacesFit' /\ JobsFit'
      BY <1>1, <2>2, ProcessesDisjoint, NobodyIsNobody
      DEF IInv, TypeOK, RowsOK, HandlersOK, PlacesFit, JobsFit, MirrorInbound,
          Goto
    <3>2. RunsFit'
      BY <1>1, <2>2, ProcessesDisjoint, NobodyIsNobody
      DEF IInv, TypeOK, RowsOK, HandlersOK, PlacesFit, JobsFit, RunsFit,
          ApprovalsFit, FreshFits, FoundFits, MirrorInbound, Goto
    <3>3. ApprovalsFit' /\ ApprovalsAlone'
      BY <1>1, <2>2, ProcessesDisjoint, NobodyIsNobody
      DEF IInv, TypeOK, RowsOK, HandlersOK, PlacesFit, RunsFit, ApprovalsFit,
          ApprovalsAlone, FoundFits, MirrorInbound, Goto
    <3>4. FoundFits' /\ FreshFits'
      BY <1>1, <2>2, ProcessesDisjoint, NobodyIsNobody
      DEF IInv, TypeOK, RowsOK, HandlersOK, PlacesFit, RunsFit, ApprovalsFit,
          FoundFits, FreshFits, MirrorInbound, Goto
    <3>5. UnsureFits'
      BY <1>1, <2>2, ProcessesDisjoint, NobodyIsNobody
      DEF IInv, TypeOK, RowsOK, HandlersOK, PlacesFit, JobsFit, RunsFit,
          ApprovalsFit, ApprovalsAlone, FoundFits, UnsureFits, MirrorInbound,
          Goto
    <3>6. QED
      BY <3>1, <3>2, <3>3, <3>4, <3>5 DEF IInv
  <2>3. QED
    BY <1>1, <2>1, <2>2
    DEF MirrorInbound
<1>2. CASE CloseGate(w)
  <2>1. CASE UNCHANGED status
    BY <1>2, <2>1, EndsQuietly
    DEF IInv, TypeOK, RowsOK, PlacesFit, CloseGate, SetStatus
  <2>2. CASE SetStatus(on[w], "SKIPPED") /\ status[on[w]] = "NONE"
    <3>1. TypeOK' /\ PlacesFit' /\ JobsFit'
      <4>1. HandlersOK' /\ PlacesFit' /\ JobsFit'
        BY <1>2, <2>2, ControlOfFinish
        DEF IInv, TypeOK, HandlersOK, PlacesFit, JobsFit, CloseGate
      <4>2. RowsOK' /\ used' \in Nat /\ found' \subseteq Drafts
        BY <1>2, <2>2, ProcessesDisjoint, NobodyIsNobody
        DEF IInv, TypeOK, RowsOK, HandlersOK, PlacesFit, CloseGate, SetStatus
      <4>3. QED
        BY <4>1, <4>2 DEF TypeOK
    <3>2. RunsFit'
      BY <1>2, <2>2, ProcessesDisjoint, NobodyIsNobody
      DEF IInv, TypeOK, RowsOK, HandlersOK, PlacesFit, JobsFit, RunsFit,
          ApprovalsFit, FreshFits, FoundFits, CloseGate, SetStatus, Rest,
          Finish
    <3>3. ApprovalsFit' /\ ApprovalsAlone'
      BY <1>2, <2>2, ProcessesDisjoint, NobodyIsNobody
      DEF IInv, TypeOK, RowsOK, HandlersOK, PlacesFit, RunsFit, ApprovalsFit,
          ApprovalsAlone, FoundFits, CloseGate, SetStatus, Rest, Finish
    <3>4. FoundFits' /\ FreshFits'
      BY <1>2, <2>2, ProcessesDisjoint, NobodyIsNobody
      DEF IInv, TypeOK, RowsOK, HandlersOK, PlacesFit, RunsFit, ApprovalsFit,
          FoundFits, FreshFits, CloseGate, SetStatus, Rest, Finish
    <3>5. UnsureFits'
      BY <1>2, <2>2, ProcessesDisjoint, NobodyIsNobody
      DEF IInv, TypeOK, RowsOK, HandlersOK, PlacesFit, JobsFit, RunsFit,
          ApprovalsFit, ApprovalsAlone, FoundFits, UnsureFits, CloseGate,
          SetStatus, Rest, Finish
    <3>6. QED
      BY <3>1, <3>2, <3>3, <3>4, <3>5 DEF IInv
  <2>3. QED
    BY <1>2, <2>1, <2>2
    DEF CloseGate
<1>3. CASE FindDraft(w)
  <2>1. CASE Finish(w)
    BY <1>3, <2>1, EndsQuietly
    DEF IInv, TypeOK, RowsOK, PlacesFit, FindDraft, rowVars
  <2>2. CASE ~Finish(w)
    <3>1. TypeOK' /\ PlacesFit' /\ JobsFit'
      BY <1>3, <2>2, ProcessesDisjoint, NobodyIsNobody
      DEF IInv, TypeOK, RowsOK, HandlersOK, PlacesFit, JobsFit, FindDraft,
          Goto, rowVars
    <3>2. RunsFit'
      BY <1>3, <2>2, ProcessesDisjoint, NobodyIsNobody
      DEF IInv, TypeOK, RowsOK, HandlersOK, PlacesFit, JobsFit, RunsFit,
          ApprovalsFit, FreshFits, FoundFits, FindDraft, Goto, rowVars
    <3>3. ApprovalsFit' /\ ApprovalsAlone'
      BY <1>3, <2>2, ProcessesDisjoint, NobodyIsNobody
      DEF IInv, TypeOK, RowsOK, HandlersOK, PlacesFit, RunsFit, ApprovalsFit,
          ApprovalsAlone, FoundFits, FindDraft, Goto, rowVars
    <3>4. FoundFits' /\ FreshFits'
      BY <1>3, <2>2, ProcessesDisjoint, NobodyIsNobody
      DEF IInv, TypeOK, RowsOK, HandlersOK, PlacesFit, RunsFit, ApprovalsFit,
          FoundFits, FreshFits, FindDraft, Goto, rowVars
    <3>5. UnsureFits'
      BY <1>3, <2>2, ProcessesDisjoint, NobodyIsNobody
      DEF IInv, TypeOK, RowsOK, HandlersOK, PlacesFit, JobsFit, RunsFit,
          ApprovalsFit, ApprovalsAlone, FoundFits, UnsureFits, FindDraft, Goto,
          rowVars
    <3>6. QED
      BY <3>1, <3>2, <3>3, <3>4, <3>5 DEF IInv
  <2>3. QED
    BY <1>3, <2>1, <2>2
    DEF FindDraft
<1>4. CASE StoreDraft(w)
  <2>1. CASE status[on[w]] # "NONE"
    BY <1>4, <2>1, EndsQuietly
    DEF IInv, TypeOK, RowsOK, PlacesFit, StoreDraft, SetStatus
  <2>2. CASE status[on[w]] = "NONE"
    <3>1. TypeOK' /\ PlacesFit' /\ JobsFit'
      <4>0. /\ SetStatus(on[w], "PENDING") /\ Goto(w, "safety")
            /\ note' = [note EXCEPT ![w] = FALSE]
            /\ UNCHANGED <<warned, onThread, mirrored, dms, job, on, prev, made,
                           holding, used, found>>
        BY <1>4, <2>2 DEF StoreDraft
      <4>1. TypeOK'
        BY <1>4, <2>2, <4>0
        DEF IInv, TypeOK, RowsOK, HandlersOK, Goto, SetStatus
      <4>2. PlacesFit' /\ JobsFit'
        BY <1>4, <2>2, ProcessesDisjoint, NobodyIsNobody
        DEF IInv, TypeOK, HandlersOK, PlacesFit, JobsFit, StoreDraft, Goto,
            SetStatus
      <4>3. QED
        BY <4>1, <4>2
    <3>2. RunsFit'
      BY <1>4, <2>2, ProcessesDisjoint, NobodyIsNobody
      DEF IInv, TypeOK, RowsOK, HandlersOK, PlacesFit, JobsFit, RunsFit,
          ApprovalsFit, FreshFits, FoundFits, StoreDraft, Goto, SetStatus
    <3>3. ApprovalsFit' /\ ApprovalsAlone'
      BY <1>4, <2>2, ProcessesDisjoint, NobodyIsNobody
      DEF IInv, TypeOK, RowsOK, HandlersOK, PlacesFit, RunsFit, ApprovalsFit,
          ApprovalsAlone, FoundFits, StoreDraft, Goto, SetStatus
    <3>4. FoundFits' /\ FreshFits'
      BY <1>4, <2>2, ProcessesDisjoint, NobodyIsNobody
      DEF IInv, TypeOK, RowsOK, HandlersOK, PlacesFit, RunsFit, ApprovalsFit,
          FoundFits, FreshFits, StoreDraft, Goto, SetStatus
    <3>5. UnsureFits'
      BY <1>4, <2>2, ProcessesDisjoint, NobodyIsNobody
      DEF IInv, TypeOK, RowsOK, HandlersOK, PlacesFit, JobsFit, RunsFit,
          ApprovalsFit, ApprovalsAlone, FoundFits, UnsureFits, StoreDraft,
          Goto, SetStatus
    <3>6. QED
      BY <3>1, <3>2, <3>3, <3>4, <3>5 DEF IInv
  <2>3. QED
    BY <1>4, <2>1, <2>2
    DEF StoreDraft
<1>5. CASE GenerationFails(w)
  BY <1>5, EndsQuietly
  DEF IInv, TypeOK, RowsOK, PlacesFit, GenerationFails, rowVars
<1>6. CASE HoldForReview(w)
  <2>1. TypeOK' /\ PlacesFit' /\ JobsFit'
    <3>1. HandlersOK' /\ PlacesFit' /\ JobsFit'
      BY <1>6, ControlOfFinish
      DEF IInv, TypeOK, HandlersOK, PlacesFit, JobsFit, HoldForReview
    <3>2. RowsOK' /\ used' \in Nat /\ found' \subseteq Drafts
      BY <1>6, ProcessesDisjoint, NobodyIsNobody
      DEF IInv, TypeOK, RowsOK, HandlersOK, PlacesFit, HoldForReview, SetStatus
    <3>3. QED
      BY <3>1, <3>2 DEF TypeOK
  <2>2. RunsFit'
    BY <1>6, ProcessesDisjoint, NobodyIsNobody
    DEF IInv, TypeOK, RowsOK, HandlersOK, PlacesFit, JobsFit, RunsFit,
        ApprovalsFit, FreshFits, FoundFits, HoldForReview, SetStatus, Rest,
        Finish
  <2>3. ApprovalsFit' /\ ApprovalsAlone'
    BY <1>6, ProcessesDisjoint, NobodyIsNobody
    DEF IInv, TypeOK, RowsOK, HandlersOK, PlacesFit, RunsFit, ApprovalsFit,
        ApprovalsAlone, FoundFits, HoldForReview, SetStatus, Rest, Finish
  <2>4. FoundFits' /\ FreshFits'
    BY <1>6, ProcessesDisjoint, NobodyIsNobody
    DEF IInv, TypeOK, RowsOK, HandlersOK, PlacesFit, RunsFit, ApprovalsFit,
        FoundFits, FreshFits, HoldForReview, SetStatus, Rest, Finish
  <2>5. UnsureFits'
    BY <1>6, ProcessesDisjoint, NobodyIsNobody
    DEF IInv, TypeOK, RowsOK, HandlersOK, PlacesFit, JobsFit, RunsFit,
        ApprovalsFit, ApprovalsAlone, FoundFits, UnsureFits, HoldForReview,
        SetStatus, Rest, Finish
  <2>6. QED
    BY <2>1, <2>2, <2>3, <2>4, <2>5 DEF IInv
<1>7. CASE SupersedeLate(w)
  <2>1. TypeOK' /\ PlacesFit' /\ JobsFit'
    <3>1. HandlersOK' /\ PlacesFit' /\ JobsFit'
      BY <1>7, ControlOfFinish
      DEF IInv, TypeOK, HandlersOK, PlacesFit, JobsFit, SupersedeLate
    <3>2. RowsOK' /\ used' \in Nat /\ found' \subseteq Drafts
      BY <1>7, ProcessesDisjoint, NobodyIsNobody
      DEF IInv, TypeOK, RowsOK, HandlersOK, PlacesFit, SupersedeLate, SetStatus
    <3>3. QED
      BY <3>1, <3>2 DEF TypeOK
  <2>2. RunsFit'
    BY <1>7, ProcessesDisjoint, NobodyIsNobody
    DEF IInv, TypeOK, RowsOK, HandlersOK, PlacesFit, JobsFit, RunsFit,
        ApprovalsFit, FreshFits, FoundFits, SupersedeLate, SetStatus, Rest,
        Finish
  <2>3. ApprovalsFit' /\ ApprovalsAlone'
    BY <1>7, ProcessesDisjoint, NobodyIsNobody
    DEF IInv, TypeOK, RowsOK, HandlersOK, PlacesFit, RunsFit, ApprovalsFit,
        ApprovalsAlone, FoundFits, SupersedeLate, SetStatus, Rest, Finish
  <2>4. FoundFits' /\ FreshFits'
    BY <1>7, ProcessesDisjoint, NobodyIsNobody
    DEF IInv, TypeOK, RowsOK, HandlersOK, PlacesFit, RunsFit, ApprovalsFit,
        FoundFits, FreshFits, SupersedeLate, SetStatus, Rest, Finish
  <2>5. UnsureFits'
    BY <1>7, ProcessesDisjoint, NobodyIsNobody
    DEF IInv, TypeOK, RowsOK, HandlersOK, PlacesFit, JobsFit, RunsFit,
        ApprovalsFit, ApprovalsAlone, FoundFits, UnsureFits, SupersedeLate,
        SetStatus, Rest, Finish
  <2>6. QED
    BY <2>1, <2>2, <2>3, <2>4, <2>5 DEF IInv
<1>8. CASE PassSafety(w)
  <2>1. TypeOK' /\ PlacesFit' /\ JobsFit'
    BY <1>8, ProcessesDisjoint, NobodyIsNobody
    DEF IInv, TypeOK, RowsOK, HandlersOK, PlacesFit, JobsFit, PassSafety, Goto,
        rowVars
  <2>2. RunsFit'
    BY <1>8, ProcessesDisjoint, NobodyIsNobody
    DEF IInv, TypeOK, RowsOK, HandlersOK, PlacesFit, JobsFit, RunsFit,
        ApprovalsFit, FreshFits, FoundFits, PassSafety, Goto, rowVars
  <2>3. ApprovalsFit' /\ ApprovalsAlone'
    BY <1>8, ProcessesDisjoint, NobodyIsNobody
    DEF IInv, TypeOK, RowsOK, HandlersOK, PlacesFit, RunsFit, ApprovalsFit,
        ApprovalsAlone, FoundFits, PassSafety, Goto, rowVars
  <2>4. FoundFits' /\ FreshFits'
    BY <1>8, ProcessesDisjoint, NobodyIsNobody
    DEF IInv, TypeOK, RowsOK, HandlersOK, PlacesFit, RunsFit, ApprovalsFit,
        FoundFits, FreshFits, PassSafety, Goto, rowVars
  <2>5. UnsureFits'
    BY <1>8, ProcessesDisjoint, NobodyIsNobody
    DEF IInv, TypeOK, RowsOK, HandlersOK, PlacesFit, JobsFit, RunsFit,
        ApprovalsFit, ApprovalsAlone, FoundFits, UnsureFits, PassSafety, Goto,
        rowVars
  <2>6. QED
    BY <2>1, <2>2, <2>3, <2>4, <2>5 DEF IInv
<1>9. CASE HoldAfterLimit(w)
  <2>1. TypeOK' /\ PlacesFit' /\ JobsFit'
    <3>1. HandlersOK' /\ PlacesFit' /\ JobsFit'
      BY <1>9, ControlOfFinish
      DEF IInv, TypeOK, HandlersOK, PlacesFit, JobsFit, HoldAfterLimit
    <3>2. RowsOK' /\ used' \in Nat /\ found' \subseteq Drafts
      BY <1>9, ProcessesDisjoint, NobodyIsNobody
      DEF IInv, TypeOK, RowsOK, HandlersOK, PlacesFit, HoldAfterLimit,
          SetStatus
    <3>3. QED
      BY <3>1, <3>2 DEF TypeOK
  <2>2. RunsFit'
    BY <1>9, ProcessesDisjoint, NobodyIsNobody
    DEF IInv, TypeOK, RowsOK, HandlersOK, PlacesFit, JobsFit, RunsFit,
        ApprovalsFit, FreshFits, FoundFits, HoldAfterLimit, SetStatus, Rest,
        Finish
  <2>3. ApprovalsFit' /\ ApprovalsAlone'
    BY <1>9, ProcessesDisjoint, NobodyIsNobody
    DEF IInv, TypeOK, RowsOK, HandlersOK, PlacesFit, RunsFit, ApprovalsFit,
        ApprovalsAlone, FoundFits, HoldAfterLimit, SetStatus, Rest, Finish
  <2>4. FoundFits' /\ FreshFits'
    BY <1>9, ProcessesDisjoint, NobodyIsNobody
    DEF IInv, TypeOK, RowsOK, HandlersOK, PlacesFit, RunsFit, ApprovalsFit,
        FoundFits, FreshFits, HoldAfterLimit, SetStatus, Rest, Finish
  <2>5. UnsureFits'
    BY <1>9, ProcessesDisjoint, NobodyIsNobody
    DEF IInv, TypeOK, RowsOK, HandlersOK, PlacesFit, JobsFit, RunsFit,
        ApprovalsFit, ApprovalsAlone, FoundFits, UnsureFits, HoldAfterLimit,
        SetStatus, Rest, Finish
  <2>6. QED
    BY <2>1, <2>2, <2>3, <2>4, <2>5 DEF IInv
<1>10. CASE MarkFailed(w)
  <2>0a. on[w] \in Drafts /\ dms[on[w]] = 0
    BY <1>10, NobodyIsNobody
    DEF IInv, TypeOK, HandlersOK, PlacesFit, RunsFit, MarkFailed
  <2>1. TypeOK' /\ PlacesFit' /\ JobsFit'
    <3>1. TypeOK'
      <4>1. status' \in [Drafts -> Statuses]
        BY <1>10 DEF IInv, TypeOK, RowsOK, MarkFailed, SetStatus
      <4>2. QED
        BY <1>10, <4>1 DEF IInv, TypeOK, RowsOK, HandlersOK, MarkFailed, Goto
    <3>2. PlacesFit' /\ JobsFit'
      BY <1>10, <2>0a, ProcessesDisjoint, NobodyIsNobody
      DEF IInv, TypeOK, HandlersOK, PlacesFit, JobsFit, MarkFailed, Goto,
          SetStatus
    <3>3. QED
      BY <3>1, <3>2
  <2>2. RunsFit'
    BY <1>10, <2>0a, ProcessesDisjoint, NobodyIsNobody
    DEF IInv, TypeOK, RowsOK, HandlersOK, PlacesFit, JobsFit, RunsFit,
        ApprovalsFit, FreshFits, FoundFits, MarkFailed, Goto, SetStatus
  <2>3. ApprovalsFit' /\ ApprovalsAlone'
    BY <1>10, <2>0a, ProcessesDisjoint, NobodyIsNobody
    DEF IInv, TypeOK, RowsOK, HandlersOK, PlacesFit, RunsFit, ApprovalsFit,
        ApprovalsAlone, FoundFits, MarkFailed, Goto, SetStatus
  <2>4. FoundFits' /\ FreshFits'
    BY <1>10, <2>0a, ProcessesDisjoint, NobodyIsNobody
    DEF IInv, TypeOK, RowsOK, HandlersOK, PlacesFit, RunsFit, ApprovalsFit,
        FoundFits, FreshFits, MarkFailed, Goto, SetStatus
  <2>5. UnsureFits'
    BY <1>10, <2>0a, ProcessesDisjoint, NobodyIsNobody
    DEF IInv, TypeOK, RowsOK, HandlersOK, PlacesFit, JobsFit, RunsFit,
        ApprovalsFit, ApprovalsAlone, FoundFits, UnsureFits, MarkFailed, Goto,
        SetStatus
  <2>6. QED
    BY <2>1, <2>2, <2>3, <2>4, <2>5 DEF IInv
<1>11. CASE GiveBackJob(w)
  BY <1>11, EndsQuietly
  DEF IInv, TypeOK, RowsOK, PlacesFit, GiveBackJob, rowVars
<1>12. QED
  BY <1>1, <1>2, <1>3, <1>4, <1>5, <1>6, <1>7, <1>8, <1>9, <1>10, <1>11 DEF JobStep

\* A step of sendAiReply preserves the invariant, whoever runs it.
LEMMA SendStepInv ==
  ASSUME IInv, NEW p \in Senders, SendStep(p)
  PROVE  IInv'
<1>1. CASE ReadDraft(p)
  <2>1. TypeOK' /\ PlacesFit' /\ JobsFit'
    BY <1>1, ProcessesDisjoint, NobodyIsNobody
    DEF IInv, TypeOK, RowsOK, HandlersOK, PlacesFit, JobsFit, ReadDraft, Goto,
        rowVars
  <2>2. RunsFit'
    BY <1>1, ProcessesDisjoint, NobodyIsNobody
    DEF IInv, TypeOK, RowsOK, HandlersOK, PlacesFit, JobsFit, RunsFit,
        ApprovalsFit, FreshFits, FoundFits, ReadDraft, Goto, rowVars
  <2>3. ApprovalsFit' /\ ApprovalsAlone'
    BY <1>1, ProcessesDisjoint, NobodyIsNobody
    DEF IInv, TypeOK, RowsOK, HandlersOK, PlacesFit, RunsFit, ApprovalsFit,
        ApprovalsAlone, FoundFits, ReadDraft, Goto, rowVars
  <2>4. FoundFits' /\ FreshFits'
    BY <1>1, ProcessesDisjoint, NobodyIsNobody
    DEF IInv, TypeOK, RowsOK, HandlersOK, PlacesFit, RunsFit, ApprovalsFit,
        FoundFits, FreshFits, ReadDraft, Goto, rowVars
  <2>5. UnsureFits'
    BY <1>1, ProcessesDisjoint, NobodyIsNobody
    DEF IInv, TypeOK, RowsOK, HandlersOK, PlacesFit, JobsFit, RunsFit,
        ApprovalsFit, ApprovalsAlone, FoundFits, UnsureFits, ReadDraft, Goto,
        rowVars
  <2>6. QED
    BY <2>1, <2>2, <2>3, <2>4, <2>5 DEF IInv
<1>2. CASE RefuseEmpty(p)
  BY <1>2, EndsQuietly
  DEF IInv, TypeOK, RowsOK, PlacesFit, RefuseEmpty, rowVars
<1>3. CASE Claim(p)
  <2>1. TypeOK' /\ PlacesFit' /\ JobsFit'
    BY <1>3, ProcessesDisjoint, NobodyIsNobody
    DEF IInv, TypeOK, RowsOK, HandlersOK, PlacesFit, JobsFit, Claim, Goto,
        SetStatus, Claimable
  <2>2. RunsFit'
    BY <1>3, ProcessesDisjoint, NobodyIsNobody
    DEF IInv, TypeOK, RowsOK, HandlersOK, PlacesFit, JobsFit, RunsFit,
        ApprovalsFit, FreshFits, FoundFits, Claim, Goto, SetStatus, Claimable
  <2>3. ApprovalsFit' /\ ApprovalsAlone'
    BY <1>3, ProcessesDisjoint, NobodyIsNobody
    DEF IInv, TypeOK, RowsOK, HandlersOK, PlacesFit, RunsFit, ApprovalsFit,
        ApprovalsAlone, FoundFits, Claim, Goto, SetStatus, Claimable
  <2>4. FoundFits' /\ FreshFits'
    BY <1>3, ProcessesDisjoint, NobodyIsNobody
    DEF IInv, TypeOK, RowsOK, HandlersOK, PlacesFit, RunsFit, ApprovalsFit,
        FoundFits, FreshFits, Claim, Goto, SetStatus, Claimable
  <2>5. UnsureFits'
    BY <1>3, ProcessesDisjoint, NobodyIsNobody
    DEF IInv, TypeOK, RowsOK, HandlersOK, PlacesFit, JobsFit, RunsFit,
        ApprovalsFit, ApprovalsAlone, FoundFits, UnsureFits, Claim, Goto,
        SetStatus, Claimable
  <2>6. QED
    BY <2>1, <2>2, <2>3, <2>4, <2>5 DEF IInv
<1>4. CASE LoseClaim(p)
  BY <1>4, EndsQuietly
  DEF IInv, TypeOK, RowsOK, PlacesFit, LoseClaim, rowVars
<1>5. CASE ReserveQuota(p)
  <2>1. TypeOK'
    <3>1. used' = used + 1 \/ used' = used
      BY <1>5 DEF ReserveQuota
    <3>1a. used' \in Nat
      BY <3>1 DEF IInv, TypeOK
    <3>1b. holding' \in [Processes -> BOOLEAN]
      BY <1>5 DEF IInv, TypeOK, HandlersOK, ReserveQuota
    <3>2. pc' \in [Processes -> Places]
      BY <1>5 DEF IInv, TypeOK, HandlersOK, ReserveQuota, Goto
    <3>3. QED
      BY <1>5, <3>1a, <3>1b, <3>2
      DEF IInv, TypeOK, RowsOK, HandlersOK, ReserveQuota, rowVars
  <2>2. QED
    BY <1>5, <2>1, MovesInFlight
    DEF IInv, TypeOK, HandlersOK, ReserveQuota, Goto, rowVars
<1>6. CASE ReserveSlot(p)
  <2>1. TypeOK'
    BY <1>6
    DEF IInv, TypeOK, RowsOK, HandlersOK, ReserveSlot, Goto, rowVars
  <2>2. QED
    BY <1>6, <2>1, MovesInFlight
    DEF IInv, TypeOK, HandlersOK, ReserveSlot, Goto, rowVars
<1>7. CASE ReleaseQuota(p)
  <2>1. TypeOK'
    BY <1>7
    DEF IInv, TypeOK, RowsOK, HandlersOK, ReleaseQuota, Goto, rowVars
  <2>2. QED
    BY <1>7, <2>1, MovesInFlight
    DEF IInv, TypeOK, HandlersOK, ReleaseQuota, Goto, rowVars
<1>8. CASE RevertClaim(p)
  <2>1. CASE p \in Workers
    <3>1. TypeOK' /\ PlacesFit' /\ JobsFit'
      BY <1>8, <2>1, ProcessesDisjoint, NobodyIsNobody
      DEF IInv, TypeOK, RowsOK, HandlersOK, PlacesFit, JobsFit, RevertClaim,
          Goto
    <3>2. RunsFit'
      BY <1>8, <2>1, ProcessesDisjoint, NobodyIsNobody
      DEF IInv, TypeOK, RowsOK, HandlersOK, PlacesFit, JobsFit, RunsFit,
          ApprovalsFit, FreshFits, FoundFits, RevertClaim, Goto
    <3>3. ApprovalsFit' /\ ApprovalsAlone'
      BY <1>8, <2>1, ProcessesDisjoint, NobodyIsNobody
      DEF IInv, TypeOK, RowsOK, HandlersOK, PlacesFit, RunsFit, ApprovalsFit,
          ApprovalsAlone, FoundFits, RevertClaim, Goto
    <3>4. FoundFits' /\ FreshFits'
      BY <1>8, <2>1, ProcessesDisjoint, NobodyIsNobody
      DEF IInv, TypeOK, RowsOK, HandlersOK, PlacesFit, RunsFit, ApprovalsFit,
          FoundFits, FreshFits, RevertClaim, Goto
    <3>5. UnsureFits'
      BY <1>8, <2>1, ProcessesDisjoint, NobodyIsNobody
      DEF IInv, TypeOK, RowsOK, HandlersOK, PlacesFit, JobsFit, RunsFit,
          ApprovalsFit, ApprovalsAlone, FoundFits, UnsureFits, RevertClaim,
          Goto
    <3>6. QED
      BY <3>1, <3>2, <3>3, <3>4, <3>5 DEF IInv
  <2>2. CASE p \notin Workers
    <3>1. TypeOK' /\ PlacesFit' /\ JobsFit'
      <4>1. HandlersOK' /\ PlacesFit' /\ JobsFit'
        BY <1>8, <2>2, ControlOfFinish
        DEF IInv, TypeOK, HandlersOK, PlacesFit, JobsFit, RevertClaim
      <4>2. RowsOK' /\ used' \in Nat /\ found' \subseteq Drafts
        BY <1>8, <2>2, ProcessesDisjoint, NobodyIsNobody
        DEF IInv, TypeOK, RowsOK, HandlersOK, PlacesFit, RevertClaim, Goto
      <4>3. QED
        BY <4>1, <4>2 DEF TypeOK
    <3>2. RunsFit'
      BY <1>8, <2>2, ProcessesDisjoint, NobodyIsNobody
      DEF IInv, TypeOK, RowsOK, HandlersOK, PlacesFit, JobsFit, RunsFit,
          ApprovalsFit, FreshFits, FoundFits, RevertClaim, Goto, Rest, Finish
    <3>3. ApprovalsFit' /\ ApprovalsAlone'
      BY <1>8, <2>2, ProcessesDisjoint, NobodyIsNobody
      DEF IInv, TypeOK, RowsOK, HandlersOK, PlacesFit, RunsFit, ApprovalsFit,
          ApprovalsAlone, FoundFits, RevertClaim, Goto, Rest, Finish
    <3>4. FoundFits' /\ FreshFits'
      BY <1>8, <2>2, ProcessesDisjoint, NobodyIsNobody
      DEF IInv, TypeOK, RowsOK, HandlersOK, PlacesFit, RunsFit, ApprovalsFit,
          FoundFits, FreshFits, RevertClaim, Goto, Rest, Finish
    <3>5. UnsureFits'
      BY <1>8, <2>2, ProcessesDisjoint, NobodyIsNobody
      DEF IInv, TypeOK, RowsOK, HandlersOK, PlacesFit, JobsFit, RunsFit,
          ApprovalsFit, ApprovalsAlone, FoundFits, UnsureFits, RevertClaim,
          Goto, Rest, Finish
    <3>6. QED
      BY <3>1, <3>2, <3>3, <3>4, <3>5 DEF IInv
  <2>3. QED
    BY <1>8, <2>1, <2>2
    DEF RevertClaim
<1>9. CASE Accept(p)
  <2>1. TypeOK' /\ PlacesFit' /\ JobsFit'
    BY <1>9, ProcessesDisjoint, NobodyIsNobody
    DEF IInv, TypeOK, RowsOK, HandlersOK, PlacesFit, JobsFit, Accept, Goto,
        rowVars
  <2>2. RunsFit'
    BY <1>9, ProcessesDisjoint, NobodyIsNobody
    DEF IInv, TypeOK, RowsOK, HandlersOK, PlacesFit, JobsFit, RunsFit,
        ApprovalsFit, FreshFits, FoundFits, Accept, Goto, rowVars
  <2>3. ApprovalsFit' /\ ApprovalsAlone'
    BY <1>9, ProcessesDisjoint, NobodyIsNobody
    DEF IInv, TypeOK, RowsOK, HandlersOK, PlacesFit, RunsFit, ApprovalsFit,
        ApprovalsAlone, FoundFits, Accept, Goto, rowVars
  <2>4. FoundFits' /\ FreshFits'
    BY <1>9, ProcessesDisjoint, NobodyIsNobody
    DEF IInv, TypeOK, RowsOK, HandlersOK, PlacesFit, RunsFit, ApprovalsFit,
        FoundFits, FreshFits, Accept, Goto, rowVars
  <2>5. UnsureFits'
    BY <1>9, ProcessesDisjoint, NobodyIsNobody
    DEF IInv, TypeOK, RowsOK, HandlersOK, PlacesFit, JobsFit, RunsFit,
        ApprovalsFit, ApprovalsAlone, FoundFits, UnsureFits, Accept, Goto,
        rowVars
  <2>6. QED
    BY <2>1, <2>2, <2>3, <2>4, <2>5 DEF IInv
<1>10. CASE Reject(p)
  <2>1. TypeOK'
    BY <1>10
    DEF IInv, TypeOK, RowsOK, HandlersOK, Reject, Goto, rowVars
  <2>2. QED
    BY <1>10, <2>1, MovesInFlight
    DEF IInv, TypeOK, HandlersOK, Reject, Goto, rowVars
<1>11. CASE LoseAnswer(p)
  <2>1. TypeOK'
    BY <1>11
    DEF IInv, TypeOK, RowsOK, HandlersOK, LoseAnswer, Goto, rowVars
  <2>2. QED
    BY <1>11, <2>1, MovesInFlight
    DEF IInv, TypeOK, HandlersOK, LoseAnswer, Goto, rowVars
<1>12. CASE RecordOnThread(p)
  <2>1. TypeOK'
    BY <1>12
    DEF IInv, TypeOK, RowsOK, HandlersOK, RecordOnThread, Goto
  <2>2. QED
    BY <1>12, <2>1, MovesInFlight
    DEF IInv, TypeOK, HandlersOK, RecordOnThread, Goto
<1>13. CASE RecordSent(p)
  <2>1. TypeOK' /\ PlacesFit' /\ JobsFit'
    <3>1. HandlersOK' /\ PlacesFit' /\ JobsFit'
      BY <1>13, ControlOfFinish
      DEF IInv, TypeOK, HandlersOK, PlacesFit, JobsFit, RecordSent
    <3>2. RowsOK' /\ used' \in Nat /\ found' \subseteq Drafts
      BY <1>13, ProcessesDisjoint, NobodyIsNobody
      DEF IInv, TypeOK, RowsOK, HandlersOK, PlacesFit, RecordSent, SetStatus
    <3>3. QED
      BY <3>1, <3>2 DEF TypeOK
  <2>2. RunsFit'
    BY <1>13, ProcessesDisjoint, NobodyIsNobody
    DEF IInv, TypeOK, RowsOK, HandlersOK, PlacesFit, JobsFit, RunsFit,
        ApprovalsFit, FreshFits, FoundFits, RecordSent, SetStatus, Rest, Finish
  <2>3. ApprovalsFit' /\ ApprovalsAlone'
    BY <1>13, ProcessesDisjoint, NobodyIsNobody
    DEF IInv, TypeOK, RowsOK, HandlersOK, PlacesFit, RunsFit, ApprovalsFit,
        ApprovalsAlone, FoundFits, RecordSent, SetStatus, Rest, Finish
  <2>4. FoundFits' /\ FreshFits'
    BY <1>13, ProcessesDisjoint, NobodyIsNobody
    DEF IInv, TypeOK, RowsOK, HandlersOK, PlacesFit, RunsFit, ApprovalsFit,
        FoundFits, FreshFits, RecordSent, SetStatus, Rest, Finish
  <2>5. UnsureFits'
    BY <1>13, ProcessesDisjoint, NobodyIsNobody
    DEF IInv, TypeOK, RowsOK, HandlersOK, PlacesFit, JobsFit, RunsFit,
        ApprovalsFit, ApprovalsAlone, FoundFits, UnsureFits, RecordSent,
        SetStatus, Rest, Finish
  <2>6. QED
    BY <2>1, <2>2, <2>3, <2>4, <2>5 DEF IInv
<1>14. CASE UndoClaim(p)
  <2>1. CASE p \in Workers
    <3>0a. on[p] \in Drafts /\ dms[on[p]] = 0
      BY <1>14, <2>1, NobodyIsNobody
      DEF IInv, TypeOK, HandlersOK, PlacesFit, RunsFit, UndoClaim
    <3>1. TypeOK' /\ PlacesFit' /\ JobsFit'
      BY <1>14, <2>1, ProcessesDisjoint, NobodyIsNobody
      DEF IInv, TypeOK, RowsOK, HandlersOK, PlacesFit, JobsFit, UndoClaim,
          Goto, SetStatus
    <3>2. RunsFit'
      BY <1>14, <2>1, ProcessesDisjoint, NobodyIsNobody
      DEF IInv, TypeOK, RowsOK, HandlersOK, PlacesFit, JobsFit, RunsFit,
          ApprovalsFit, FreshFits, FoundFits, UndoClaim, Goto, SetStatus
    <3>3. ApprovalsFit' /\ ApprovalsAlone'
      BY <1>14, <2>1, ProcessesDisjoint, NobodyIsNobody
      DEF IInv, TypeOK, RowsOK, HandlersOK, PlacesFit, RunsFit, ApprovalsFit,
          ApprovalsAlone, FoundFits, UndoClaim, Goto, SetStatus
    <3>4. FoundFits' /\ FreshFits'
      BY <1>14, <2>1, <3>0a, ProcessesDisjoint, NobodyIsNobody
      DEF IInv, TypeOK, RowsOK, HandlersOK, PlacesFit, RunsFit, ApprovalsFit,
          FoundFits, FreshFits, UndoClaim, Goto, SetStatus
    <3>5. UnsureFits'
      BY <1>14, <2>1, <3>0a, ProcessesDisjoint, NobodyIsNobody
      DEF IInv, TypeOK, RowsOK, HandlersOK, PlacesFit, JobsFit, RunsFit,
          ApprovalsFit, ApprovalsAlone, FoundFits, UnsureFits, UndoClaim, Goto,
          SetStatus
    <3>6. QED
      BY <3>1, <3>2, <3>3, <3>4, <3>5 DEF IInv
  <2>2. CASE p \notin Workers
    <3>1. TypeOK' /\ PlacesFit' /\ JobsFit'
      <4>1. HandlersOK' /\ PlacesFit' /\ JobsFit'
        BY <1>14, <2>2, ControlOfFinish
        DEF IInv, TypeOK, HandlersOK, PlacesFit, JobsFit, UndoClaim
      <4>2. RowsOK' /\ used' \in Nat /\ found' \subseteq Drafts
        BY <1>14, <2>2, ProcessesDisjoint, NobodyIsNobody
        DEF IInv, TypeOK, RowsOK, HandlersOK, PlacesFit, UndoClaim, Goto,
            SetStatus
      <4>3. QED
        BY <4>1, <4>2 DEF TypeOK
    <3>2. RunsFit'
      BY <1>14, <2>2, ProcessesDisjoint, NobodyIsNobody
      DEF IInv, TypeOK, RowsOK, HandlersOK, PlacesFit, JobsFit, RunsFit,
          ApprovalsFit, FreshFits, FoundFits, UndoClaim, Goto, SetStatus, Rest,
          Finish
    <3>3. ApprovalsFit' /\ ApprovalsAlone'
      BY <1>14, <2>2, ProcessesDisjoint, NobodyIsNobody
      DEF IInv, TypeOK, RowsOK, HandlersOK, PlacesFit, RunsFit, ApprovalsFit,
          ApprovalsAlone, FoundFits, UndoClaim, Goto, SetStatus, Rest, Finish
    <3>4. FoundFits' /\ FreshFits'
      BY <1>14, <2>2, ProcessesDisjoint, NobodyIsNobody
      DEF IInv, TypeOK, RowsOK, HandlersOK, PlacesFit, RunsFit, ApprovalsFit,
          FoundFits, FreshFits, UndoClaim, Goto, SetStatus, Rest, Finish
    <3>5. UnsureFits'
      BY <1>14, <2>2, ProcessesDisjoint, NobodyIsNobody
      DEF IInv, TypeOK, RowsOK, HandlersOK, PlacesFit, JobsFit, RunsFit,
          ApprovalsFit, ApprovalsAlone, FoundFits, UnsureFits, UndoClaim, Goto,
          SetStatus, Rest, Finish
    <3>6. QED
      BY <3>1, <3>2, <3>3, <3>4, <3>5 DEF IInv
  <2>3. QED
    BY <1>14, <2>1, <2>2
    DEF UndoClaim
<1>15. CASE Quarantine(p)
  <2>1. TypeOK' /\ PlacesFit' /\ JobsFit'
    <3>1. HandlersOK' /\ PlacesFit' /\ JobsFit'
      BY <1>15, ControlOfFinish
      DEF IInv, TypeOK, HandlersOK, PlacesFit, JobsFit, Quarantine
    <3>2. RowsOK' /\ used' \in Nat /\ found' \subseteq Drafts
      BY <1>15, ProcessesDisjoint, NobodyIsNobody
      DEF IInv, TypeOK, RowsOK, HandlersOK, PlacesFit, Quarantine, SetStatus
    <3>3. QED
      BY <3>1, <3>2 DEF TypeOK
  <2>2. RunsFit'
    BY <1>15, ProcessesDisjoint, NobodyIsNobody
    DEF IInv, TypeOK, RowsOK, HandlersOK, PlacesFit, JobsFit, RunsFit,
        ApprovalsFit, FreshFits, FoundFits, Quarantine, SetStatus, Rest, Finish
  <2>3. ApprovalsFit' /\ ApprovalsAlone'
    BY <1>15, ProcessesDisjoint, NobodyIsNobody
    DEF IInv, TypeOK, RowsOK, HandlersOK, PlacesFit, RunsFit, ApprovalsFit,
        ApprovalsAlone, FoundFits, Quarantine, SetStatus, Rest, Finish
  <2>4. FoundFits' /\ FreshFits'
    BY <1>15, ProcessesDisjoint, NobodyIsNobody
    DEF IInv, TypeOK, RowsOK, HandlersOK, PlacesFit, RunsFit, ApprovalsFit,
        FoundFits, FreshFits, Quarantine, SetStatus, Rest, Finish
  <2>5. UnsureFits'
    BY <1>15, ProcessesDisjoint, NobodyIsNobody
    DEF IInv, TypeOK, RowsOK, HandlersOK, PlacesFit, JobsFit, RunsFit,
        ApprovalsFit, ApprovalsAlone, FoundFits, UnsureFits, Quarantine,
        SetStatus, Rest, Finish
  <2>6. QED
    BY <2>1, <2>2, <2>3, <2>4, <2>5 DEF IInv
<1>16. QED
  BY <1>1, <1>2, <1>3, <1>4, <1>5, <1>6, <1>7, <1>8, <1>9, <1>10, <1>11, <1>12,
      <1>13, <1>14, <1>15 DEF SendStep

\* A slot that takes a job preserves the invariant.
LEMMA TakeJobInv ==
  ASSUME IInv, NEW w \in Workers, NEW d \in Drafts, TakeJob(w, d)
  PROVE  IInv'
<1>1. TypeOK' /\ PlacesFit' /\ JobsFit'
  <2>1. TypeOK'
    <3>1. job[d] \in [state : {"waiting", "active", "finished"},
                     holder : Workers \cup {NoWorker},
                     attempts : Nat, stalls : Nat]
      BY DEF IInv, TypeOK, HandlersOK
    <3>2. job' = [job EXCEPT ![d] = [job[d] EXCEPT !.state = "active", !.holder = w]]
      BY <3>1 DEF TakeJob, IInv, TypeOK, HandlersOK
    <3>3. job' \in [Drafts -> [state : {"waiting", "active", "finished"},
                              holder : Workers \cup {NoWorker},
                              attempts : Nat, stalls : Nat]]
      BY <3>1, <3>2 DEF IInv, TypeOK, HandlersOK
    <3>4. QED
      BY <3>1, <3>3 DEF IInv, TypeOK, RowsOK, HandlersOK, TakeJob, Goto, rowVars
  <2>2. PlacesFit' /\ JobsFit'
    BY ProcessesDisjoint, NobodyIsNobody
    DEF IInv, TypeOK, HandlersOK, PlacesFit, JobsFit, TakeJob, Goto, rowVars
  <2>3. QED
    BY <2>1, <2>2
<1>2. RunsFit'
  BY ProcessesDisjoint, NobodyIsNobody
  DEF IInv, TypeOK, RowsOK, HandlersOK, PlacesFit, JobsFit, RunsFit,
      ApprovalsFit, FreshFits, FoundFits, TakeJob, Goto, rowVars
<1>3. ApprovalsFit' /\ ApprovalsAlone'
  BY ProcessesDisjoint, NobodyIsNobody
  DEF IInv, TypeOK, RowsOK, HandlersOK, PlacesFit, RunsFit, ApprovalsFit,
      ApprovalsAlone, FoundFits, TakeJob, Goto, rowVars
<1>4. FoundFits' /\ FreshFits'
  BY ProcessesDisjoint, NobodyIsNobody
  DEF IInv, TypeOK, RowsOK, HandlersOK, PlacesFit, RunsFit, ApprovalsFit,
      FoundFits, FreshFits, TakeJob, Goto, rowVars
<1>5. UnsureFits'
  BY ProcessesDisjoint, NobodyIsNobody
  DEF IInv, TypeOK, RowsOK, HandlersOK, PlacesFit, JobsFit, RunsFit,
      ApprovalsFit, ApprovalsAlone, FoundFits, UnsureFits, TakeJob, Goto,
      rowVars
<1>6. QED
  BY <1>1, <1>2, <1>3, <1>4, <1>5 DEF IInv

\* An approval that passes the status check preserves the invariant.
LEMMA ApproveInv ==
  ASSUME IInv, NEW a \in Approvals, NEW d \in Drafts, Approve(a, d)
  PROVE  IInv'
<1>1. TypeOK' /\ PlacesFit' /\ JobsFit'
  BY ProcessesDisjoint, NobodyIsNobody
  DEF IInv, TypeOK, RowsOK, HandlersOK, PlacesFit, JobsFit, Approve, Goto,
      rowVars
<1>2. RunsFit'
  BY ProcessesDisjoint, NobodyIsNobody
  DEF IInv, TypeOK, RowsOK, HandlersOK, PlacesFit, JobsFit, RunsFit,
      ApprovalsFit, FreshFits, FoundFits, Approve, Goto, rowVars
<1>3. ApprovalsFit' /\ ApprovalsAlone'
  BY ProcessesDisjoint, NobodyIsNobody
  DEF IInv, TypeOK, RowsOK, HandlersOK, PlacesFit, RunsFit, ApprovalsFit,
      ApprovalsAlone, FoundFits, Approve, Goto, rowVars
<1>4. FoundFits' /\ FreshFits'
  BY ProcessesDisjoint, NobodyIsNobody
  DEF IInv, TypeOK, RowsOK, HandlersOK, PlacesFit, RunsFit, ApprovalsFit,
      FoundFits, FreshFits, Approve, Goto, rowVars
<1>5. UnsureFits'
  BY ProcessesDisjoint, NobodyIsNobody
  DEF IInv, TypeOK, RowsOK, HandlersOK, PlacesFit, JobsFit, RunsFit,
      ApprovalsFit, ApprovalsAlone, FoundFits, UnsureFits, Approve, Goto,
      rowVars
<1>6. QED
  BY <1>1, <1>2, <1>3, <1>4, <1>5 DEF IInv

\* A dismissal that passes the status check preserves the invariant.
LEMMA DismissInv ==
  ASSUME IInv, NEW c \in Dismissals, NEW d \in Drafts, Dismiss(c, d)
  PROVE  IInv'
<1>1. TypeOK' /\ PlacesFit' /\ JobsFit'
  BY ProcessesDisjoint, NobodyIsNobody
  DEF IInv, TypeOK, RowsOK, HandlersOK, PlacesFit, JobsFit, Dismiss, Goto,
      rowVars
<1>2. RunsFit'
  BY ProcessesDisjoint, NobodyIsNobody
  DEF IInv, TypeOK, RowsOK, HandlersOK, PlacesFit, JobsFit, RunsFit,
      ApprovalsFit, FreshFits, FoundFits, Dismiss, Goto, rowVars
<1>3. ApprovalsFit' /\ ApprovalsAlone'
  BY ProcessesDisjoint, NobodyIsNobody
  DEF IInv, TypeOK, RowsOK, HandlersOK, PlacesFit, RunsFit, ApprovalsFit,
      ApprovalsAlone, FoundFits, Dismiss, Goto, rowVars
<1>4. FoundFits' /\ FreshFits'
  BY ProcessesDisjoint, NobodyIsNobody
  DEF IInv, TypeOK, RowsOK, HandlersOK, PlacesFit, RunsFit, ApprovalsFit,
      FoundFits, FreshFits, Dismiss, Goto, rowVars
<1>5. UnsureFits'
  BY ProcessesDisjoint, NobodyIsNobody
  DEF IInv, TypeOK, RowsOK, HandlersOK, PlacesFit, JobsFit, RunsFit,
      ApprovalsFit, ApprovalsAlone, FoundFits, UnsureFits, Dismiss, Goto,
      rowVars
<1>6. QED
  BY <1>1, <1>2, <1>3, <1>4, <1>5 DEF IInv

\* The unconditional write of a dismissal preserves the invariant.
LEMMA WriteDismissedInv ==
  ASSUME IInv, NEW c \in Dismissals, WriteDismissed(c)
  PROVE  IInv'
<1>1. TypeOK' /\ PlacesFit' /\ JobsFit'
  <2>1. HandlersOK' /\ PlacesFit' /\ JobsFit'
    BY ControlOfFinish
    DEF IInv, TypeOK, HandlersOK, PlacesFit, JobsFit, WriteDismissed
  <2>2. RowsOK' /\ used' \in Nat /\ found' \subseteq Drafts
    BY ProcessesDisjoint, NobodyIsNobody
    DEF IInv, TypeOK, RowsOK, HandlersOK, PlacesFit, WriteDismissed, SetStatus
  <2>3. QED
    BY <2>1, <2>2 DEF TypeOK
<1>2. RunsFit'
  BY ProcessesDisjoint, NobodyIsNobody
  DEF IInv, TypeOK, RowsOK, HandlersOK, PlacesFit, JobsFit, RunsFit,
      ApprovalsFit, FreshFits, FoundFits, WriteDismissed, SetStatus, Rest,
      Finish
<1>3. ApprovalsFit' /\ ApprovalsAlone'
  BY ProcessesDisjoint, NobodyIsNobody
  DEF IInv, TypeOK, RowsOK, HandlersOK, PlacesFit, RunsFit, ApprovalsFit,
      ApprovalsAlone, FoundFits, WriteDismissed, SetStatus, Rest, Finish
<1>4. FoundFits' /\ FreshFits'
  BY ProcessesDisjoint, NobodyIsNobody
  DEF IInv, TypeOK, RowsOK, HandlersOK, PlacesFit, RunsFit, ApprovalsFit,
      FoundFits, FreshFits, WriteDismissed, SetStatus, Rest, Finish
<1>5. UnsureFits'
  BY ProcessesDisjoint, NobodyIsNobody
  DEF IInv, TypeOK, RowsOK, HandlersOK, PlacesFit, JobsFit, RunsFit,
      ApprovalsFit, ApprovalsAlone, FoundFits, UnsureFits, WriteDismissed,
      SetStatus, Rest, Finish
<1>6. QED
  BY <1>1, <1>2, <1>3, <1>4, <1>5 DEF IInv

\* A database error preserves the invariant.
LEMMA DatabaseFailsInv ==
  ASSUME IInv, NEW p \in Processes, DatabaseFails(p)
  PROVE  IInv'
  BY EndsQuietly
  DEF IInv, TypeOK, RowsOK, PlacesFit, DatabaseFails, rowVars, DbPlaces

\* The death of a handler preserves the invariant.
LEMMA CrashInv ==
  ASSUME IInv, NEW p \in Processes, Crash(p)
  PROVE  IInv'
  BY EndsQuietly
  DEF IInv, TypeOK, RowsOK, PlacesFit, Crash, rowVars

\* The sweep's read preserves the invariant: what it finds nobody is sending.
LEMMA FindInterruptedInv ==
  ASSUME IInv, Orderly, NEW d \in Drafts, FindInterrupted(d)
  PROVE  IInv'
<1>1. TypeOK' /\ PlacesFit' /\ JobsFit'
  BY ProcessesDisjoint, NobodyIsNobody
  DEF IInv, TypeOK, RowsOK, HandlersOK, PlacesFit, JobsFit, FindInterrupted,
      rowVars, procVars, Busy, Orderly
<1>2. RunsFit'
  BY ProcessesDisjoint, NobodyIsNobody
  DEF IInv, TypeOK, RowsOK, HandlersOK, PlacesFit, JobsFit, RunsFit,
      ApprovalsFit, FreshFits, FoundFits, FindInterrupted, rowVars, procVars,
      Busy, Orderly
<1>3. ApprovalsFit' /\ ApprovalsAlone'
  BY ProcessesDisjoint, NobodyIsNobody
  DEF IInv, TypeOK, RowsOK, HandlersOK, PlacesFit, RunsFit, ApprovalsFit,
      ApprovalsAlone, FoundFits, FindInterrupted, rowVars, procVars, Busy,
      Orderly
<1>4. FoundFits' /\ FreshFits'
  BY ProcessesDisjoint, NobodyIsNobody
  DEF IInv, TypeOK, RowsOK, HandlersOK, PlacesFit, RunsFit, ApprovalsFit,
      FoundFits, FreshFits, FindInterrupted, rowVars, procVars, Busy, Orderly
<1>5. UnsureFits'
  BY ProcessesDisjoint, NobodyIsNobody
  DEF IInv, TypeOK, RowsOK, HandlersOK, PlacesFit, JobsFit, RunsFit,
      ApprovalsFit, ApprovalsAlone, FoundFits, UnsureFits, FindInterrupted,
      rowVars, procVars, Busy, Orderly
<1>6. QED
  BY <1>1, <1>2, <1>3, <1>4, <1>5 DEF IInv

\* The sweep's write preserves the invariant.
LEMMA QuarantineFoundInv ==
  ASSUME IInv, NEW d \in Drafts, QuarantineFound(d)
  PROVE  IInv'
<1>1. TypeOK' /\ PlacesFit' /\ JobsFit'
  BY ProcessesDisjoint, NobodyIsNobody
  DEF IInv, TypeOK, RowsOK, HandlersOK, PlacesFit, JobsFit, QuarantineFound,
      SetStatus, procVars
<1>2. RunsFit'
  BY ProcessesDisjoint, NobodyIsNobody
  DEF IInv, TypeOK, RowsOK, HandlersOK, PlacesFit, JobsFit, RunsFit,
      ApprovalsFit, FreshFits, FoundFits, QuarantineFound, SetStatus, procVars
<1>3. ApprovalsFit' /\ ApprovalsAlone'
  BY ProcessesDisjoint, NobodyIsNobody
  DEF IInv, TypeOK, RowsOK, HandlersOK, PlacesFit, RunsFit, ApprovalsFit,
      ApprovalsAlone, FoundFits, QuarantineFound, SetStatus, procVars
<1>4. FoundFits' /\ FreshFits'
  BY ProcessesDisjoint, NobodyIsNobody
  DEF IInv, TypeOK, RowsOK, HandlersOK, PlacesFit, RunsFit, ApprovalsFit,
      FoundFits, FreshFits, QuarantineFound, SetStatus, procVars
<1>5. UnsureFits'
  BY ProcessesDisjoint, NobodyIsNobody
  DEF IInv, TypeOK, RowsOK, HandlersOK, PlacesFit, JobsFit, RunsFit,
      ApprovalsFit, ApprovalsAlone, FoundFits, UnsureFits, QuarantineFound,
      SetStatus, procVars
<1>6. QED
  BY <1>1, <1>2, <1>3, <1>4, <1>5 DEF IInv

\* Without lost locks there is no other step; IInv is inductive.
LEMMA NextInv == ASSUME IInv, Orderly, [Next]_vars PROVE IInv'
<1>1. ASSUME NEW w \in Workers, WorkerStep(w) PROVE IInv'
  BY <1>1, JobStepInv, SendStepInv, TakeJobInv DEF WorkerStep, TakeAnyJob
<1>2. ASSUME NEW a \in Approvals, (\E d \in Drafts: Approve(a, d)) \/ SendStep(a)
      PROVE  IInv'
  BY <1>2, ApproveInv, SendStepInv
<1>3. ASSUME NEW c \in Dismissals,
             (\E d \in Drafts: Dismiss(c, d)) \/ WriteDismissed(c)
      PROVE  IInv'
  BY <1>3, DismissInv, WriteDismissedInv
<1>4. ASSUME NEW p \in Processes, DatabaseFails(p) \/ Crash(p) PROVE IInv'
  BY <1>4, DatabaseFailsInv, CrashInv
<1>5. ASSUME NEW d \in Drafts, Stall(d) \/ Sweep(d) PROVE IInv'
  BY <1>5, FindInterruptedInv, QuarantineFoundInv DEF Stall, Sweep, Orderly
<1>6. CASE UNCHANGED vars
  BY <1>6
  DEF vars, rowVars, procVars, IInv, TypeOK, RowsOK, HandlersOK, PlacesFit,
      JobsFit, RunsFit, ApprovalsFit, ApprovalsAlone, FoundFits, FreshFits,
      UnsureFits
<1>7. QED
  BY <1>1, <1>2, <1>3, <1>4, <1>5, <1>6 DEF Next

-----------------------------------------------------------------------------
(* The theorems *)

\* The inductive invariant holds of every orderly behaviour.
THEOREM Invariance == ASSUME Orderly PROVE Spec => []IInv
<1>1. Init => IInv
  BY InitInv
<1>2. IInv /\ [Next]_vars => IInv'
  BY NextInv
<1>3. QED
  BY <1>1, <1>2, PTL DEF Spec

\* The columns, the jobs and the handlers' locals keep their types.
THEOREM TypeCorrect == ASSUME Orderly PROVE Spec => []TypeOK
<1>1. IInv => TypeOK
  BY DEF IInv
<1>2. QED
  BY <1>1, Invariance, PTL

\* The claim of sendAiReply admits one sender per draft: two runs are kept
\* apart by the job's lock, a run and an approval by PENDING, two approvals
\* by the conditional update.
THEOREM OneSenderHolds == ASSUME Orderly PROVE Spec => []OneSender
<1>1. ASSUME IInv, NEW d \in Drafts, NEW p \in Senders, NEW q \in Senders,
             Sending(p, d), Sending(q, d)
      PROVE  p = q
  <2>1. CASE p \in Workers /\ q \in Workers
    BY <1>1, <2>1 DEF IInv, JobsFit
  <2>2. CASE p \in Workers /\ q \in Approvals
    BY <1>1, <2>2 DEF IInv, RunsFit
  <2>3. CASE p \in Approvals /\ q \in Workers
    BY <1>1, <2>3 DEF IInv, RunsFit
  <2>4. CASE p \in Approvals /\ q \in Approvals
    BY <1>1, <2>4 DEF IInv, ApprovalsAlone
  <2>5. QED
    BY <2>1, <2>2, <2>3, <2>4
<1>2. IInv => OneSender
  BY <1>1 DEF OneSender
<1>3. QED
  BY <1>2, Invariance, PTL

\* A draft that may be in the thread already can only be claimed with the
\* warning on it.
THEOREM UnsureIsWarnedHolds == ASSUME Orderly PROVE Spec => []UnsureIsWarned
<1>1. IInv => UnsureIsWarned
  BY DEF IInv, UnsureFits, UnsureIsWarned, Claimable
<1>2. QED
  BY <1>1, Invariance, PTL

\* A job run only sends a draft that never left and was never quarantined.
THEOREM AutoSendsOnceHolds == ASSUME Orderly PROVE Spec => AutoSendsOnce
<1> DEFINE Fresh == \A w \in Workers: \A d \in Drafts:
                      on[w] = d /\ pc[w] = "send" => dms[d] = 0 /\ ~warned[d]
<1>1. IInv => Fresh
  BY DEF IInv, RunsFit
<1>2. Fresh => \A w \in Workers: \A d \in Drafts:
                 on[w] = d /\ pc[w] = "send" /\ pc'[w] = "accepted"
                   => dms[d] = 0 /\ ~warned[d]
  OBVIOUS
<1> HIDE DEF Fresh
<1>3. QED
  BY <1>1, <1>2, Invariance, PTL DEF AutoSendsOnce

\* A step that leaves both variables of Outbox alone is a stutter there.
LEMMA Stutters == dms' = dms /\ warned' = warned => [Out!Next]_(Out!vars)
  BY DEF Out!vars

\* A run in charge writes back the warning it read, which is none.
LEMMA NoteIsCurrent ==
  ASSUME IInv, NEW w \in Workers, pc[w] \in {"safety", "hold"},
         warned' = [warned EXCEPT ![on[w]] = note[w]]
  PROVE  warned' = warned
<1>1. on[w] \in Drafts
  BY DEF IInv, TypeOK, HandlersOK, PlacesFit
<1>2. warned[on[w]] = FALSE /\ note[w] = FALSE
  BY <1>1 DEF IInv, TypeOK, RowsOK, HandlersOK, RunsFit
<1>3. QED
  BY <1>1, <1>2 DEF IInv, TypeOK, RowsOK

\* A DM that leaves is the first copy, or its draft carries the warning.
LEMMA AcceptDelivers ==
  ASSUME IInv, NEW p \in Senders, Accept(p) PROVE [Out!Next]_(Out!vars)
<1>1. on[p] \in Drafts
  BY DEF IInv, TypeOK, HandlersOK, PlacesFit, Accept
<1>2. dms[on[p]] = 0 \/ warned[on[p]]
  BY <1>1 DEF IInv, TypeOK, RowsOK, UnsureFits, Accept
<1>3. Out!Deliver(on[p])
  BY <1>1, <1>2 DEF Out!Deliver, Accept, rowVars
<1>4. QED
  BY <1>1, <1>3 DEF Out!Next

\* Setting the warning is a Flag.
LEMMA WarningFlags ==
  ASSUME NEW d \in Drafts, warned' = [warned EXCEPT ![d] = TRUE], dms' = dms
  PROVE  [Out!Next]_(Out!vars)
  BY DEF Out!Next, Out!Flag

\* Every step of a job run or of sendAiReply maps to a step of Outbox.
LEMMA WorkerStepMaps ==
  ASSUME IInv, NEW w \in Workers, JobStep(w) \/ TakeAnyJob(w)
  PROVE  [Out!Next]_(Out!vars)
<1>1. CASE HoldForReview(w) \/ SupersedeLate(w) \/ HoldAfterLimit(w)
  BY <1>1, NoteIsCurrent, Stutters
  DEF HoldForReview, SupersedeLate, HoldAfterLimit
<1>2. CASE ~(HoldForReview(w) \/ SupersedeLate(w) \/ HoldAfterLimit(w))
  <2>1. dms' = dms /\ warned' = warned
    BY <1>2
    DEF JobStep, TakeAnyJob, TakeJob, MirrorInbound, CloseGate, FindDraft,
        StoreDraft, GenerationFails, PassSafety, MarkFailed, GiveBackJob,
        rowVars
  <2>2. QED
    BY <2>1, Stutters
<1>3. QED
  BY <1>1, <1>2

LEMMA SendStepMaps ==
  ASSUME IInv, NEW p \in Senders, SendStep(p) PROVE [Out!Next]_(Out!vars)
<1>1. CASE Accept(p)
  BY <1>1, AcceptDelivers
<1>2. CASE Quarantine(p)
  <2>1. on[p] \in Drafts
    BY <1>2 DEF IInv, TypeOK, HandlersOK, PlacesFit, Quarantine
  <2>2. QED
    BY <1>2, <2>1, WarningFlags DEF Quarantine
<1>3. CASE ~(Accept(p) \/ Quarantine(p))
  <2>1. dms' = dms /\ warned' = warned
    BY <1>3
    DEF SendStep, ReadDraft, RefuseEmpty, Claim, LoseClaim, ReserveQuota,
        ReserveSlot, ReleaseQuota, RevertClaim, Reject, LoseAnswer,
        RecordOnThread, RecordSent, UndoClaim, rowVars
  <2>2. QED
    BY <2>1, Stutters
<1>4. QED
  BY <1>1, <1>2, <1>3

\* Every step of the system maps to a step of Outbox or to a stutter.
LEMMA StepMaps == ASSUME IInv, [Next]_vars PROVE [Out!Next]_(Out!vars)
<1>1. ASSUME NEW w \in Workers, WorkerStep(w) PROVE [Out!Next]_(Out!vars)
  BY <1>1, WorkerStepMaps, SendStepMaps DEF WorkerStep
<1>2. ASSUME NEW a \in Approvals, (\E d \in Drafts: Approve(a, d)) \/ SendStep(a)
      PROVE  [Out!Next]_(Out!vars)
  <2>1. ASSUME NEW d \in Drafts, Approve(a, d) PROVE dms' = dms /\ warned' = warned
    BY <2>1 DEF Approve, rowVars
  <2>2. QED
    BY <1>2, <2>1, SendStepMaps, Stutters
<1>3. ASSUME NEW c \in Dismissals,
             (\E d \in Drafts: Dismiss(c, d)) \/ WriteDismissed(c)
      PROVE  [Out!Next]_(Out!vars)
  <2>1. dms' = dms /\ warned' = warned
    BY <1>3 DEF Dismiss, WriteDismissed, rowVars
  <2>2. QED
    BY <2>1, Stutters
<1>4. ASSUME NEW p \in Processes, DatabaseFails(p) \/ Crash(p)
      PROVE  [Out!Next]_(Out!vars)
  <2>1. dms' = dms /\ warned' = warned
    BY <1>4 DEF DatabaseFails, Crash, rowVars
  <2>2. QED
    BY <2>1, Stutters
<1>5. ASSUME NEW d \in Drafts, Stall(d) \/ Sweep(d) PROVE [Out!Next]_(Out!vars)
  <2>1. CASE QuarantineFound(d)
    BY <2>1, WarningFlags DEF QuarantineFound
  <2>2. CASE Stall(d) \/ FindInterrupted(d)
    BY <2>2, Stutters DEF Stall, FindInterrupted, rowVars
  <2>3. QED
    BY <1>5, <2>1, <2>2 DEF Sweep
<1>6. CASE UNCHANGED vars
  BY <1>6, Stutters DEF vars, rowVars
<1>7. QED
  BY <1>1, <1>2, <1>3, <1>4, <1>5, <1>6 DEF Next

\* The send path implements Outbox.
THEOREM ImplementsOutbox == ASSUME Orderly PROVE Spec => OutboxSpec
<1>1. Init => Out!Init
  BY DEF Init, Out!Init
<1>2. IInv /\ [Next]_vars => [Out!Next]_(Out!vars)
  BY StepMaps
<1>3. QED
  BY <1>1, <1>2, Invariance, PTL DEF Spec, OutboxSpec, Out!Spec

-----------------------------------------------------------------------------
(***************************************************************************)
(* The quota, with whatever may go wrong: also with stalled jobs and slow  *)
(* sends, which let two runs deliver one draft.  A row may become SENT     *)
(* twice, or again by a restored status; so the units are counted against  *)
(* the drafts that are SENT or that some sender would restore to SENT.     *)
(***************************************************************************)
HIDE DEF Senders, Processes, Sending, Statuses, Places, InFlight, BeforeMeta,
         AtMeta, AfterFailure, Preparing, Settling, InCharge, MayHaveLeft

\* Places of a sender that has a unit of the quota reserved.
HoldingPlaces == {"slot", "release", "send", "accepted", "recorded", "rejected",
                  "lost"}

Recorded ==
  {d \in Drafts: \/ status[d] = "SENT"
                 \/ \E p \in Senders: on[p] = d /\ prev[p] = "SENT"}

Domains ==
  /\ DOMAIN status = Drafts
  /\ DOMAIN pc = Processes /\ DOMAIN on = Processes /\ DOMAIN prev = Processes
  /\ holding \in [Processes -> BOOLEAN]

\* A process at rest has no status to restore, and who is past the
\* reservation holds its unit.
HoldingFits ==
  /\ \A p \in Processes: pc[p] = "idle" => prev[p] # "SENT"
  /\ \A p \in Senders: pc[p] \in HoldingPlaces => holding[p] = TRUE

\* Who holds a unit.
Holders == {p \in Senders: holding[p]}

UnitsCover ==
  /\ used \in 0..Limit
  /\ Cardinality(Recorded) + Cardinality(Holders) <= used

UnitsInv == Domains /\ HoldingFits /\ UnitsCover

LEMMA SendersAreFinite ==
  /\ IsFiniteSet(Senders) /\ Senders \subseteq Processes
  /\ IsFiniteSet(Recorded) /\ Cardinality(Recorded) \in Nat
  /\ IsFiniteSet(Holders) /\ Cardinality(Holders) \in Nat
<1>1. IsFiniteSet(Senders)
  BY FinitelyMany, FS_Union DEF Senders
<1>2. IsFiniteSet(Recorded)
  BY FinitelyMany, FS_Subset DEF Recorded
<1>3. IsFiniteSet(Holders)
  BY <1>1, FS_Subset DEF Holders
<1>4. QED
  BY <1>1, <1>2, <1>3, FS_CardinalityType DEF Processes

LEMMA UnitsInit == Init => UnitsInv
<1> SUFFICES ASSUME Init PROVE UnitsInv
  OBVIOUS
<1>1. Domains /\ HoldingFits
  BY DEF Init, Domains, HoldingFits, HoldingPlaces, Senders, Processes
<1>2. Recorded = {}
  BY DEF Init, Recorded, Senders, Processes
<1>3. Holders = {}
  BY DEF Init, Holders, Senders, Processes
<1>4. Cardinality(Recorded) = 0 /\ Cardinality(Holders) = 0
  BY <1>2, <1>3, FS_EmptySet
<1>5. UnitsCover
  BY <1>4, BoundsAreNat DEF Init, UnitsCover
<1>6. QED
  BY <1>1, <1>5 DEF UnitsInv

\* A step that records no further draft as sent and takes no unit.
LEMMA UnitsShrink ==
  ASSUME UnitsInv, Recorded' \subseteq Recorded, used' = used,
         Holders' \subseteq Holders
  PROVE  UnitsCover'
<1>1. Cardinality(Recorded') <= Cardinality(Recorded) /\ Cardinality(Recorded') \in Nat
  BY SendersAreFinite, FS_Subset, FS_CardinalityType
<1>2. Cardinality(Holders') <= Cardinality(Holders) /\ Cardinality(Holders') \in Nat
  BY SendersAreFinite, FS_Subset, FS_CardinalityType
<1>3. QED
  BY <1>1, <1>2, SendersAreFinite, BoundsAreNat DEF UnitsInv, UnitsCover

\* A handler that ends, its row written or not, but not SENT.
LEMMA UnitsOfRest ==
  ASSUME UnitsInv, NEW p \in Processes, Rest(p), used' = used,
         \/ status' = status
         \/ \E s: s # "SENT" /\ SetStatus(on[p], s)
  PROVE  UnitsInv'
<1> USE DEF UnitsInv, Domains, HoldingFits
<1>1. /\ pc'[p] \in {"idle", "done"} /\ prev'[p] = "NONE" /\ holding'[p] = FALSE
      /\ \A q \in Processes: q # p =>
           /\ pc'[q] = pc[q] /\ on'[q] = on[q] /\ prev'[q] = prev[q]
           /\ holding'[q] = holding[q]
  BY DEF Rest
<1>2. Domains'
  BY DEF Rest, SetStatus
<1>3. HoldingFits'
  BY <1>1, SendersAreFinite DEF HoldingPlaces
<1>4. \A d \in Drafts: status'[d] = "SENT" => status[d] = "SENT"
  BY DEF SetStatus
<1>5. Recorded' \subseteq Recorded
  BY <1>1, <1>4, SendersAreFinite DEF Recorded
<1>6. Holders' \subseteq Holders
  BY <1>1, SendersAreFinite DEF Holders
<1>7. UnitsCover'
  BY <1>5, <1>6, UnitsShrink
<1>8. QED
  BY <1>2, <1>3, <1>7

\* A handler that goes on without taking a unit.
LEMMA UnitsOfMove ==
  ASSUME UnitsInv, NEW p \in Processes, NEW place, Goto(p, place),
         place # "idle", place \in HoldingPlaces => pc[p] \in HoldingPlaces,
         UNCHANGED <<on, prev, holding, used>>,
         \/ status' = status
         \/ \E s: s # "SENT" /\ SetStatus(on[p], s)
  PROVE  UnitsInv'
<1> USE DEF UnitsInv, Domains, HoldingFits
<1>1. pc'[p] = place /\ \A q \in Processes: q # p => pc'[q] = pc[q]
  BY DEF Goto
<1>2. Domains'
  BY DEF Goto, SetStatus
<1>3. HoldingFits'
  BY <1>1, SendersAreFinite
<1>4. \A d \in Drafts: status'[d] = "SENT" => status[d] = "SENT"
  BY DEF SetStatus
<1>5. Recorded' \subseteq Recorded
  BY <1>4 DEF Recorded
<1>6. UnitsCover'
  BY <1>5, UnitsShrink DEF Holders
<1>7. QED
  BY <1>2, <1>3, <1>6

\* Nothing of it changes.
LEMMA UnitsUnchanged ==
  ASSUME UnitsInv, UNCHANGED <<status, pc, on, prev, holding, used>>
  PROVE  UnitsInv'
<1>1. Recorded' = Recorded /\ Holders' = Holders
  BY DEF Recorded, Holders
<1>2. QED
  BY <1>1 DEF UnitsInv, Domains, HoldingFits, UnitsCover

\* A job run takes no unit before or after its send.
LEMMA UnitsOfJob ==
  ASSUME UnitsInv, NEW w \in Workers, JobStep(w)
  PROVE  UnitsInv'
<1>1. w \in Processes
  BY DEF Processes, Senders
<1> USE DEF HoldingPlaces
<1>2. CASE MirrorInbound(w) \/ FindDraft(w) \/ StoreDraft(w)
  <2>1. \/ Rest(w) /\ UNCHANGED <<status, used>>
        \/ /\ \E place \in {"gates", "generate", "safety"}: Goto(w, place)
           /\ UNCHANGED <<on, prev, holding, used>>
           /\ status' = status \/ SetStatus(on[w], "PENDING")
    BY <1>2 DEF MirrorInbound, FindDraft, StoreDraft, Finish, rowVars
  <2>2. QED
    BY <1>1, <2>1, UnitsOfRest, UnitsOfMove
<1>3. CASE \/ CloseGate(w) \/ GenerationFails(w) \/ HoldForReview(w)
           \/ SupersedeLate(w) \/ HoldAfterLimit(w) \/ GiveBackJob(w)
  <2>1. /\ Rest(w) /\ used' = used
        /\ \/ status' = status
           \/ \E s \in {"SKIPPED", "HELD"}: SetStatus(on[w], s)
    BY <1>3 DEF CloseGate, GenerationFails, HoldForReview, SupersedeLate,
                HoldAfterLimit, GiveBackJob, Finish, Throw, rowVars
  <2>2. QED
    BY <1>1, <2>1, UnitsOfRest
<1>4. CASE PassSafety(w) \/ MarkFailed(w)
  <2>1. /\ Goto(w, "read") \/ Goto(w, "throw")
        /\ UNCHANGED <<on, prev, holding, used>>
        /\ status' = status \/ SetStatus(on[w], "FAILED")
    BY <1>4 DEF PassSafety, MarkFailed, rowVars
  <2>2. QED
    BY <1>1, <2>1, UnitsOfMove
<1>5. QED
  BY <1>2, <1>3, <1>4 DEF JobStep

\* A unit is taken below the limit only, ...
LEMMA UnitsOfReserve ==
  ASSUME UnitsInv, NEW p \in Senders, ReserveQuota(p)
  PROVE  UnitsInv'
<1> USE DEF UnitsInv, Domains, HoldingFits, HoldingPlaces
<1>1. CASE used >= Limit
  <2>1. Goto(p, "revert") /\ UNCHANGED <<status, on, prev, holding, used>>
    BY <1>1, BoundsAreNat DEF ReserveQuota, rowVars, UnitsCover
  <2>2. p \in Processes
    BY SendersAreFinite
  <2> HIDE DEF UnitsInv, Domains, HoldingFits
  <2>3. QED
    BY <2>1, <2>2, UnitsOfMove
<1>2. CASE used < Limit
  <2>1. /\ used' = used + 1 /\ UNCHANGED <<status, on, prev>>
        /\ holding' = [holding EXCEPT ![p] = TRUE]
        /\ pc' = [pc EXCEPT ![p] = "slot"]
    BY <1>2 DEF ReserveQuota, Goto, rowVars
  <2>2. Domains'
    BY <2>1
  <2>3. HoldingFits'
    BY <2>1, SendersAreFinite
  <2>4. Recorded' = Recorded
    BY <2>1 DEF Recorded
  <2>5. Holders' \subseteq Holders \cup {p}
    BY <2>1, SendersAreFinite DEF Holders
  <2>6. /\ Cardinality(Holders') <= Cardinality(Holders) + 1
        /\ Cardinality(Holders') \in Nat
    BY <2>5, SendersAreFinite, OneMore
  <2>7. UnitsCover'
    BY <1>2, <2>1, <2>4, <2>6, SendersAreFinite, BoundsAreNat DEF UnitsCover
  <2>8. QED
    BY <2>2, <2>3, <2>7
<1>3. used \in Nat /\ Limit \in Nat
  BY BoundsAreNat DEF UnitsCover
<1> HIDE DEF UnitsInv
<1>4. QED
  BY <1>1, <1>2, <1>3

\* ... given back by who holds it, ...
LEMMA UnitsOfRelease ==
  ASSUME UnitsInv, NEW p \in Senders, ReleaseQuota(p)
  PROVE  UnitsInv'
<1> USE DEF UnitsInv, Domains, HoldingFits, HoldingPlaces
<1>1. PICK place \in {"revert", "undo", "quarantine"}: pc' = [pc EXCEPT ![p] = place]
  BY DEF ReleaseQuota, Goto
<1>2. /\ UNCHANGED <<status, on, prev>>
      /\ holding' = [holding EXCEPT ![p] = FALSE]
      /\ holding[p] = TRUE
      /\ used' = IF used > 0 THEN used - 1 ELSE 0
  BY DEF ReleaseQuota, rowVars
<1>3. Domains'
  BY <1>1, <1>2
<1>4. HoldingFits'
  BY <1>1, <1>2, SendersAreFinite
<1>5. Recorded' = Recorded
  BY <1>2 DEF Recorded
<1>6. p \in Holders /\ Holders' \subseteq Holders \ {p}
  BY <1>2, SendersAreFinite DEF Holders
<1>7. /\ Cardinality(Holders') <= Cardinality(Holders) - 1
      /\ Cardinality(Holders') \in Nat
  BY <1>6, SendersAreFinite, OneLess
<1>8. UnitsCover'
  BY <1>2, <1>5, <1>7, SendersAreFinite, BoundsAreNat DEF UnitsCover
<1>9. QED
  BY <1>3, <1>4, <1>8

\* ... or spent on the row that becomes SENT, ...
LEMMA UnitsOfRecord ==
  ASSUME UnitsInv, NEW p \in Senders, RecordSent(p)
  PROVE  UnitsInv'
<1> USE DEF UnitsInv, Domains, HoldingFits, HoldingPlaces
<1>1. /\ pc[p] = "recorded" /\ holding[p] = TRUE /\ used' = used
      /\ status' = [status EXCEPT ![on[p]] = "SENT"] /\ Rest(p)
  BY DEF RecordSent, SetStatus, Finish
<1>2. /\ pc'[p] \in {"idle", "done"} /\ prev'[p] = "NONE" /\ holding'[p] = FALSE
      /\ \A q \in Processes: q # p =>
           /\ pc'[q] = pc[q] /\ on'[q] = on[q] /\ prev'[q] = prev[q]
           /\ holding'[q] = holding[q]
  BY <1>1, SendersAreFinite DEF Rest
<1>3. Domains'
  BY <1>1 DEF Rest
<1>4. HoldingFits'
  BY <1>2, SendersAreFinite
<1>5. Recorded' \subseteq Recorded \cup {on[p]}
  BY <1>1, <1>2, SendersAreFinite DEF Recorded
<1>6. /\ Cardinality(Recorded') <= Cardinality(Recorded) + 1
      /\ Cardinality(Recorded') \in Nat
  BY <1>5, SendersAreFinite, OneMore
<1>7. /\ Cardinality(Holders') <= Cardinality(Holders) - 1
      /\ Cardinality(Holders') \in Nat
  <2>1. p \in Holders /\ Holders' \subseteq Holders \ {p}
    BY <1>1, <1>2, SendersAreFinite DEF Holders
  <2>2. QED
    BY <2>1, SendersAreFinite, OneLess
<1>8. UnitsCover'
  BY <1>1, <1>6, <1>7, SendersAreFinite, BoundsAreNat DEF UnitsCover
<1>9. QED
  BY <1>3, <1>4, <1>8

\* ... or restored to it.
LEMMA UnitsOfRestore ==
  ASSUME UnitsInv, NEW p \in Senders, RevertClaim(p) \/ UndoClaim(p)
  PROVE  UnitsInv'
<1> USE DEF UnitsInv, Domains, HoldingFits, HoldingPlaces
<1>1. /\ used' = used
      /\ status' = status \/ status' = [status EXCEPT ![on[p]] = prev[p]]
      /\ \/ Rest(p)
         \/ /\ \E place \in {"hold", "failed"}: Goto(p, place)
            /\ UNCHANGED <<on, prev, holding>>
  BY DEF RevertClaim, UndoClaim, Finish, SetStatus
<1>2. /\ \A q \in Processes: q # p =>
           /\ pc'[q] = pc[q] /\ on'[q] = on[q] /\ prev'[q] = prev[q]
           /\ holding'[q] = holding[q]
      /\ pc'[p] \in {"idle", "done", "hold", "failed"}
      /\ pc'[p] = "idle" => prev'[p] # "SENT"
      /\ prev'[p] = "SENT" => on'[p] = on[p] /\ prev[p] = "SENT"
      /\ holding'[p] = FALSE \/ holding'[p] = holding[p]
  BY <1>1, SendersAreFinite DEF Rest, Goto
<1>3. Domains'
  BY <1>1, SendersAreFinite DEF Rest, Goto
<1>4. HoldingFits'
  BY <1>2, SendersAreFinite
<1>5. Recorded' \subseteq Recorded
  BY <1>1, <1>2, SendersAreFinite DEF Recorded
<1>6. Holders' \subseteq Holders
  BY <1>2, SendersAreFinite DEF Holders
<1>7. QED
  BY <1>1, <1>3, <1>4, <1>5, <1>6, UnitsShrink

\* So every step keeps the units.
LEMMA UnitsOfSend ==
  ASSUME UnitsInv, NEW p \in Senders, SendStep(p)
  PROVE  UnitsInv'
<1>1. p \in Processes
  BY SendersAreFinite
<1>2. CASE ReadDraft(p)
  <2> USE DEF UnitsInv, Domains, HoldingFits, HoldingPlaces
  <2>1. /\ pc' = [pc EXCEPT ![p] = "claim"]
        /\ prev' = [prev EXCEPT ![p] = status[on[p]]]
        /\ UNCHANGED <<status, on, holding, used>>
    BY <1>2 DEF ReadDraft, Goto, rowVars
  <2>2. Domains'
    BY <2>1
  <2>3. HoldingFits'
    BY <1>1, <2>1, SendersAreFinite
  <2>4. Recorded' \subseteq Recorded /\ Holders' = Holders
    BY <1>1, <2>1 DEF Recorded, Holders
  <2>5. QED
    BY <2>1, <2>2, <2>3, <2>4, UnitsShrink
<1>3. CASE RefuseEmpty(p) \/ LoseClaim(p) \/ Quarantine(p)
  <2>1. /\ Rest(p) /\ used' = used
        /\ status' = status \/ SetStatus(on[p], "HELD")
    BY <1>3 DEF RefuseEmpty, LoseClaim, Quarantine, Finish, rowVars
  <2>2. QED
    BY <1>1, <2>1, UnitsOfRest
<1>4. CASE Claim(p)
  <2>1. /\ SetStatus(on[p], "SENDING") /\ Goto(p, "quota")
        /\ UNCHANGED <<on, prev, holding, used>>
    BY <1>4 DEF Claim
  <2>2. QED
    BY <1>1, <2>1, UnitsOfMove DEF HoldingPlaces
<1>5. CASE ReserveSlot(p) \/ Accept(p) \/ Reject(p) \/ LoseAnswer(p)
             \/ RecordOnThread(p)
  <2>1. /\ \E place \in {"send", "release", "accepted", "rejected", "lost",
                          "recorded"}: Goto(p, place)
        /\ pc[p] \in {"slot", "send", "accepted", "recorded"}
        /\ UNCHANGED <<status, on, prev, holding, used>>
    BY <1>5 DEF ReserveSlot, Accept, Reject, LoseAnswer, RecordOnThread, rowVars
  <2>2. QED
    BY <1>1, <2>1, UnitsOfMove DEF HoldingPlaces
<1>6. QED
  BY <1>2, <1>3, <1>4, <1>5, UnitsOfReserve, UnitsOfRelease, UnitsOfRecord,
     UnitsOfRestore DEF SendStep

\* A process at rest begins with a draft.
LEMMA UnitsOfStart ==
  ASSUME UnitsInv, NEW p \in Processes, NEW d, pc[p] = "idle",
         on' = [on EXCEPT ![p] = d], NEW place, Goto(p, place),
         place \notin HoldingPlaces \cup {"idle"},
         UNCHANGED <<status, prev, holding, used>>
  PROVE  UnitsInv'
<1> USE DEF UnitsInv, Domains, HoldingFits
<1>1. /\ on'[p] = d /\ pc'[p] = place
      /\ \A q \in Processes: q # p => on'[q] = on[q] /\ pc'[q] = pc[q]
  BY DEF Goto
<1>2. Domains'
  BY DEF Goto
<1>3. HoldingFits'
  BY <1>1, SendersAreFinite
<1>4. Recorded' \subseteq Recorded /\ Holders' = Holders
  BY <1>1, SendersAreFinite DEF Recorded, Holders
<1>5. QED
  BY <1>2, <1>3, <1>4, UnitsShrink

LEMMA UnitsNext == UnitsInv /\ [Next]_vars => UnitsInv'
<1> SUFFICES ASSUME UnitsInv, [Next]_vars PROVE UnitsInv'
  OBVIOUS
<1>1. ASSUME NEW w \in Workers, WorkerStep(w) PROVE UnitsInv'
  <2>1. w \in Senders /\ w \in Processes
    BY DEF Senders, Processes
  <2>2. ASSUME NEW d \in Drafts, TakeJob(w, d) PROVE UnitsInv'
    <3>1. /\ pc[w] = "idle" /\ on' = [on EXCEPT ![w] = d]
          /\ Goto(w, "gates") \/ Goto(w, "begin")
          /\ UNCHANGED <<status, prev, holding, used>>
      BY <2>2 DEF TakeJob, rowVars
    <3>2. QED
      BY <2>1, <3>1, UnitsOfStart DEF HoldingPlaces
  <2>3. QED
    BY <1>1, <2>1, <2>2, UnitsOfJob, UnitsOfSend DEF WorkerStep, TakeAnyJob
<1>2. ASSUME NEW a \in Approvals, (\E d \in Drafts: Approve(a, d)) \/ SendStep(a)
      PROVE  UnitsInv'
  <2>1. a \in Senders /\ a \in Processes
    BY DEF Senders, Processes
  <2>2. ASSUME NEW d \in Drafts, Approve(a, d) PROVE UnitsInv'
    BY <2>1, <2>2, UnitsOfStart DEF Approve, rowVars, HoldingPlaces
  <2>3. QED
    BY <1>2, <2>1, <2>2, UnitsOfSend
<1>3. ASSUME NEW c \in Dismissals,
             (\E d \in Drafts: Dismiss(c, d)) \/ WriteDismissed(c)
      PROVE  UnitsInv'
  <2>1. c \in Processes
    BY DEF Processes
  <2>2. ASSUME NEW d \in Drafts, Dismiss(c, d) PROVE UnitsInv'
    BY <2>1, <2>2, UnitsOfStart DEF Dismiss, rowVars, HoldingPlaces
  <2>3. CASE WriteDismissed(c)
    BY <2>1, <2>3, UnitsOfRest DEF WriteDismissed, Finish
  <2>4. QED
    BY <1>3, <2>2, <2>3
<1>4. ASSUME NEW p \in Processes, DatabaseFails(p) \/ Crash(p) PROVE UnitsInv'
  <2>1. Rest(p) /\ UNCHANGED <<status, used>>
    BY <1>4 DEF DatabaseFails, Crash, Throw, Finish, rowVars
  <2>2. QED
    BY <2>1, UnitsOfRest
<1>5. ASSUME NEW d \in Drafts, QuarantineFound(d) PROVE UnitsInv'
  <2>1. /\ status' = [status EXCEPT ![d] = "HELD"]
        /\ UNCHANGED <<pc, on, prev, holding, used>>
    BY <1>5 DEF QuarantineFound, SetStatus, procVars
  <2>2. Domains' /\ HoldingFits'
    BY <2>1 DEF UnitsInv, Domains, HoldingFits
  <2>3. Recorded' \subseteq Recorded /\ Holders' = Holders
    BY <2>1 DEF UnitsInv, Domains, Recorded, Holders
  <2>4. QED
    BY <2>1, <2>2, <2>3, UnitsShrink DEF UnitsInv
<1>6. CASE UNCHANGED vars \/ \E d \in Drafts: Stall(d) \/ FindInterrupted(d)
  <2>1. UNCHANGED <<status, pc, on, prev, holding, used>>
    BY <1>6 DEF vars, Stall, FindInterrupted, rowVars, procVars
  <2>2. QED
    BY <2>1, UnitsUnchanged
<1>7. QED
  BY <1>1, <1>2, <1>3, <1>4, <1>5, <1>6 DEF Next, Sweep

\* For any drafts, slots, clicks and limit, and whatever goes wrong (jobs that
\* lose their lock and sends that outlive the sweep's threshold included): the
\* monthly counter covers every draft recorded as sent and every reservation
\* a sender still holds, and never passes the limit.
THEOREM QuotaCovers == Spec => []QuotaCoversSends
<1>1. UnitsInv => QuotaCoversSends
  <2> SUFFICES ASSUME UnitsInv PROVE QuotaCoversSends
    OBVIOUS
  <2> DEFINE Sent == {d \in Drafts: status[d] = "SENT"}
  <2>1. Sent \subseteq Recorded
    BY DEF Recorded
  <2>2. Cardinality(Sent) <= Cardinality(Recorded) /\ Cardinality(Sent) \in Nat
    BY <2>1, SendersAreFinite, FS_Subset, FS_CardinalityType
  <2> HIDE DEF Sent
  <2>3. Cardinality(Sent) + Cardinality(Holders) <= used /\ used <= Limit
    BY <2>2, SendersAreFinite, BoundsAreNat DEF UnitsInv, UnitsCover
  <2>4. QED
    BY <2>3 DEF QuotaCoversSends, Sent, Holders
<1>2. QED
  BY <1>1, UnitsInit, UnitsNext, PTL DEF Spec
=============================================================================
