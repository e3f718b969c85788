-------------------------- MODULE MCReplyDelivery --------------------------
(***************************************************************************)
(* Small instances of ReplyDelivery.  One inbound reply and one nudge are  *)
(* enough: two drafts share nothing but the quota and the worker slots.    *)
(* A behaviour shows one nudge, or a reply and a nudge that compete for    *)
(* the last unit of the quota, while the other stays where it begins.      *)
(***************************************************************************)
EXTENDS ReplyDelivery, TLC

CONSTANT Rivals  \* the drafts that compete for the quota

VARIABLES
  part,  \* which of the two this behaviour shows
  qStatus, qWarned, qOnThread, qMirrored, qDms, qJob, qPc, qOn, qPrev, qNote,
  qMade, qHolding, qUsed, qFound

\* A job that loses its lock is given up, while its run goes on.
Q == INSTANCE ReplyDelivery WITH
  Drafts <- Rivals, Dismissals <- {}, MaxAttempts <- 2, MaxStalls <- 0,
  Limit <- 1, Events <- {"crash", "stall", "db", "gate"},
  status <- qStatus, warned <- qWarned, onThread <- qOnThread,
  mirrored <- qMirrored, dms <- qDms, job <- qJob, pc <- qPc, on <- qOn,
  prev <- qPrev, note <- qNote, made <- qMade, holding <- qHolding,
  used <- qUsed, found <- qFound

quotaVars ==
  <<qStatus, qWarned, qOnThread, qMirrored, qDms, qJob, qPc, qOn, qPrev, qNote,
    qMade, qHolding, qUsed, qFound>>

\* Slots are alike, and so are clicks.
Symmetry == Permutations(Workers) \cup Permutations(Approvals)

MCInit == part \in {"nudge", "quota"} /\ Init /\ Q!Init

MCNext ==
  /\ UNCHANGED part
  /\ \/ part = "nudge" /\ UNCHANGED quotaVars /\ Next
     \/ part = "quota" /\ UNCHANGED vars /\ Q!Next

MCSpec == MCInit /\ [][MCNext]_<<part, vars, quotaVars>>

\* The last unit goes to one of the drafts that compete for it, whatever fails,
\* dies or loses its lock meanwhile.
QuotaHolds == Q!QuotaCoversSends
=============================================================================
