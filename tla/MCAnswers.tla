------------------------------ MODULE MCAnswers -----------------------------
(***************************************************************************)
(* What the worker sends in answer, over retries: the link to one who taps *)
(* an opening DM, and the DM and public reply to a comment.  A behaviour   *)
(* shows the link, the comment, or the comment where a token may turn out  *)
(* unreadable, while the others stay where they begin.                     *)
(***************************************************************************)
EXTENDS Reveal

CONSTANTS Slot, Idle  \* the worker's one slot for comments, idle without a job

VARIABLES
  part,  \* which of the three this behaviour shows
  cLog, cDms, cPosts, cJob, cPc, cOn, cAt, cPrior, cArrived, cUsed, cSlots,
  cListed, cFaults

\* One comment and two campaigns, runs of it one after the other.
C == INSTANCE CommentWorker WITH
  NumCampaigns <- 2, NumComments <- 1, Public <- {2}, Linked <- {1},
  Workers <- {Slot}, NoJob <- Idle, MaxAttempts <- 3, MaxStalls <- 1,
  MaxRequeues <- 1, MaxPolls <- 1, MaxPerSweep <- 1, Limit <- 2, SlotLimit <- 1,
  MaxFaults <- 3, Events <- {"reject", "redis"},
  log <- cLog, dms <- cDms, posts <- cPosts, job <- cJob, pc <- cPc, on <- cOn,
  at <- cAt, prior <- cPrior, arrived <- cArrived, used <- cUsed,
  slots <- cSlots, listed <- cListed, faults <- cFaults

\* The same with tokens that turn out unreadable.
T == INSTANCE CommentWorker WITH
  NumCampaigns <- 2, NumComments <- 1, Public <- {2}, Linked <- {1},
  Workers <- {Slot}, NoJob <- Idle, MaxAttempts <- 3, MaxStalls <- 1,
  MaxRequeues <- 1, MaxPolls <- 1, MaxPerSweep <- 1, Limit <- 2, SlotLimit <- 1,
  MaxFaults <- 2, Events <- {"reject", "redis", "token"},
  log <- cLog, dms <- cDms, posts <- cPosts, job <- cJob, pc <- cPc, on <- cOn,
  at <- cAt, prior <- cPrior, arrived <- cArrived, used <- cUsed,
  slots <- cSlots, listed <- cListed, faults <- cFaults

commentVars ==
  <<cLog, cDms, cPosts, cJob, cPc, cOn, cAt, cPrior, cArrived, cUsed, cSlots,
    cListed, cFaults>>

MCInit ==
  /\ part \in {"link", "comment", "token"}
  /\ Init /\ C!Init
  /\ part = "link" \/ campaign = [checks |-> FALSE, gated |-> FALSE,
                                  linked |-> FALSE, followUp |-> FALSE]
  /\ part = "link" \/ ~follows

MCNext ==
  /\ UNCHANGED part
  /\ \/ part = "link" /\ UNCHANGED commentVars /\ Next
     \/ part = "comment" /\ UNCHANGED vars /\ C!Next
     \/ part = "token" /\ UNCHANGED vars /\ T!Next

\* The link under the fairness of Reveal; of the comment only what may not be.
MCSpec ==
  /\ MCInit
  /\ [][MCNext]_<<part, vars, commentVars>>
  /\ \A w \in Workers: WF_vars(part = "link" /\ Run(w))
  /\ \A j \in JobIds: SF_vars(part = "link" /\ \E w \in Workers: TakeJob(w, j))

\* Where runs of a comment do not overlap and no outcome is lost: one DM, one
\* reply, and an exact quota, as far as the tokens can be read.
AnswersHold ==
  /\ part = "comment" => C!AnswersHold
  /\ part = "token" => T!AnswersHold

\* What an unreadable token may take, and that nothing else takes it.
SentGivesWay == [][part = "token" => T!OnlyTokensTake]_commentVars
=============================================================================
