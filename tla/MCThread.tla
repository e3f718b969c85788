------------------------------ MODULE MCThread ------------------------------
(***************************************************************************)
(* What a thread comes to: its messages are mirrored and answered, and the *)
(* inbox page shows the one that is open.  A behaviour shows the setter or *)
(* the page, while the other stays where it begins.                        *)
(***************************************************************************)
EXTENDS SetterInbox, TLC

VARIABLES
  part,  \* which of the two this behaviour shows
  screenAccount, screenOpen, screenList, screenView, screenLoading,
  screenLists, screenPages, screenFlying, screenSending, screenBusy,
  screenHeld, screenLast, screenShown, screenEdits, screenActed, screenClicks

P == INSTANCE InboxPage WITH
  Accounts <- {"a", "b"}, Threads <- {"t1", "t2", "t3"},
  AccountOf <- ("t1" :> "a" @@ "t2" :> "a" @@ "t3" :> "b"), None <- "none",
  MaxClicks <- 2, MaxFlying <- 3, MaxDrafts <- 1,
  account <- screenAccount, open <- screenOpen, list <- screenList,
  view <- screenView, loading <- screenLoading, lists <- screenLists,
  pages <- screenPages, flying <- screenFlying, sending <- screenSending,
  busy <- screenBusy, held <- screenHeld, last <- screenLast,
  shown <- screenShown, edits <- screenEdits, acted <- screenActed,
  clicks <- screenClicks

screenVars ==
  <<screenAccount, screenOpen, screenList, screenView, screenLoading,
    screenLists, screenPages, screenFlying, screenSending, screenBusy,
    screenHeld, screenLast, screenShown, screenEdits, screenActed,
    screenClicks>>

MCInit ==
  /\ part \in {"setter", "page"}
  /\ Init /\ P!Init
  /\ part = "setter" \/ mode = "AUTO"
  /\ part = "page" \/ screenAccount = "a"

MCNext ==
  /\ UNCHANGED part
  /\ \/ part = "setter" /\ UNCHANGED screenVars /\ Next
     \/ part = "page" /\ UNCHANGED vars /\ P!Next

\* Each part, where it is the one that moves, under its own fairness.
MCSpec ==
  /\ MCInit
  /\ [][MCNext]_<<part, vars, screenVars>>
  /\ \A m \in Mids: WF_vars(part = "setter" /\ "lost" \notin Events /\ Deliver(m))
  /\ \A m \in Mids: WF_vars(part = "setter" /\ \E w \in Workers: TakeJob(w, m))
  /\ \A w \in Workers: WF_vars(part = "setter" /\ Run(w))
  /\ WF_vars(part = "setter" /\ Sweep)
  /\ \A kind \in {"list", "thread"}: SF_screenVars(part = "page" /\ P!Poll(kind))
  /\ SF_screenVars(part = "page" /\ \E r \in screenFlying:
                    P!Current(r) /\ P!ListArrives(r))
  /\ SF_screenVars(part = "page" /\ \E r \in screenFlying:
                    P!Current(r) /\ P!ThreadArrives(r))
  /\ \A k \in P!Kinds: WF_screenVars(part = "page" /\ \E r \in screenFlying:
                    r.kind = k /\ ~P!Current(r) /\ P!Ends(r))

\* Where it is shown, the page comes to show what is open.
ScreenSettles == part = "page" => P!ScreenSettles
=============================================================================
