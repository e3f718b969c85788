----------------------------- MODULE MCResolves -----------------------------
(***************************************************************************)
(* What has begun comes to an end: the events of a batch that Meta sends   *)
(* are queued, and a nudge whose handlers may die does not stay in         *)
(* between.  A behaviour shows one of the two, while the other stays where *)
(* it begins.                                                              *)
(***************************************************************************)
EXTENDS Webhook

CONSTANTS Nudge, Slots, Click, Dismissal, NoDraft, NoWorker

VARIABLES
  part,  \* which of the two this behaviour shows
  dmStatus, dmWarned, dmOnThread, dmMirrored, dmDms, dmJob, dmPc, dmOn,
  dmPrev, dmNote, dmMade, dmHolding, dmUsed, dmFound

D == INSTANCE ReplyDelivery WITH
  Drafts <- {Nudge}, Nudges <- {Nudge}, Workers <- Slots,
  Approvals <- {Click}, Dismissals <- {Dismissal}, NoDraft <- NoDraft,
  NoWorker <- NoWorker, MaxAttempts <- 2, MaxStalls <- 1, Limit <- 2,
  Events <- {"crash"},
  status <- dmStatus, warned <- dmWarned, onThread <- dmOnThread,
  mirrored <- dmMirrored, dms <- dmDms, job <- dmJob, pc <- dmPc, on <- dmOn,
  prev <- dmPrev, note <- dmNote, made <- dmMade, holding <- dmHolding,
  used <- dmUsed, found <- dmFound

dmVars ==
  <<dmStatus, dmWarned, dmOnThread, dmMirrored, dmDms, dmJob, dmPc, dmOn, dmPrev,
    dmNote, dmMade, dmHolding, dmUsed, dmFound>>

Item(kind, by, to, whole, id) ==
  [kind |-> kind, by |-> by, to |-> to, whole |-> whole, id |-> id]

\* Two batches that share a comment and have an item of every kind, some of
\* them the account's own, and a third with a wrong signature.
MCBody ==
  << [signed |-> TRUE, object |-> "instagram",
      items |-> << Item("message", "account", "user", TRUE, 1),
                   Item("comment", "user", "account", TRUE, 1),
                   Item("comment", "account", "account", TRUE, 2) >>],
     [signed |-> TRUE, object |-> "instagram",
      items |-> << Item("read", "user", "account", TRUE, 1),
                   Item("comment", "user", "account", TRUE, 1),
                   Item("postback", "user", "account", TRUE, 1),
                   Item("message", "user", "account", FALSE, 2) >>],
     [signed |-> FALSE, object |-> "instagram",
      items |-> << Item("comment", "user", "account", TRUE, 3) >>] >>

MCInit ==
  /\ part \in {"webhook", "delivery"}
  /\ Init /\ D!Init
  /\ part = "webhook" \/ connected

MCNext ==
  /\ UNCHANGED part
  /\ \/ part = "webhook" /\ UNCHANGED dmVars /\ Next
     \/ part = "delivery" /\ UNCHANGED vars /\ D!Next

\* Each part, where it is the one that moves, under its own fairness.
MCSpec ==
  /\ MCInit
  /\ [][MCNext]_<<part, vars, dmVars>>
  /\ \A d \in Deliveries:
       SF_vars(part = "webhook" /\ \E h \in Handlers: Receive(h, d))
  /\ \A h \in Handlers: WF_vars(part = "webhook" /\ Handle(h))
  /\ \A w \in Slots: WF_dmVars(part = "delivery" /\ D!WorkerStep(w))
  /\ WF_dmVars(part = "delivery" /\ D!SendStep(Click))
  /\ WF_dmVars(part = "delivery" /\ D!FindInterrupted(Nudge))
  /\ WF_dmVars(part = "delivery" /\ D!QuarantineFound(Nudge))

\* The deliveries of a behaviour that does not show the webhook never begin.
EventsAreQueued == part = "webhook" => EventIsQueued
\* No claim of a draft lasts for ever, and no stored nudge stays undecided.
DraftsResolve == D!DraftsResolve
=============================================================================
