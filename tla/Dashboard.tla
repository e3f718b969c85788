------------------------------ MODULE Dashboard ------------------------------
(***************************************************************************)
(* The pages of the dashboard: the inbox, the setter's settings and        *)
(* drafts, the form of a campaign, the list of campaigns; and the thread   *)
(* whose switches the inbox has.  They share nothing but the server.       *)
(***************************************************************************)
EXTENDS InboxPage

CONSTANTS
  Replies, ReplyOwner,                       \* the setter's drafts, and their accounts
  First, Posts, PostOwner, MaxRows, MaxSaves, FormClicks,  \* of the form
  Owners, All, MaxMade,                      \* of the list
  MaxWrites, Acks, Wordless, PageSize, Slots, MaxPatches, Events \* of the thread

VARIABLES
  setterAccount, setterForm, setterLoading, setterSaving, setterSaveState,
  setterFeed, setterBusy, setterFlying, setterConfig, setterStatus,
  setterSends, setterLost, setterDropped, setterClicks, setterHasty,
  formPlace, formForm, formAsked, formSaves, formStored, formCampaigns,
  formRows, formStaged, formSkipped, formDoubtful, formClicks,
  listCampaigns, listPage, listAccount, listShown, listLoading, listThumbs,
  listMedia, listFlying, listMuddled, listClicks,
  threadThread, threadMirror, threadLastIn, threadLastOut, threadTakeover,
  threadMode, threadJob, threadArmed, threadRow, threadPc, threadOn,
  threadSnap, threadSent, threadSweep, threadBurst, threadQuiet,
  threadPatches

S == INSTANCE SetterPage WITH
  OwnerOf <- ReplyOwner, Nobody <- None,
  account <- setterAccount, form <- setterForm, loading <- setterLoading,
  saving <- setterSaving, saveState <- setterSaveState, feed <- setterFeed,
  busy <- setterBusy, flying <- setterFlying, config <- setterConfig,
  status <- setterStatus, sends <- setterSends, lost <- setterLost,
  dropped <- setterDropped, clicks <- setterClicks, hasty <- setterHasty

B == INSTANCE CampaignForm WITH
  OwnerOf <- PostOwner, MaxClicks <- FormClicks,
  place <- formPlace, form <- formForm, asked <- formAsked,
  saves <- formSaves, stored <- formStored, campaigns <- formCampaigns,
  rows <- formRows, staged <- formStaged, skipped <- formSkipped,
  doubtful <- formDoubtful, clicks <- formClicks

L == INSTANCE CampaignList WITH
  AccountOf <- Owners,
  campaigns <- listCampaigns, page <- listPage, account <- listAccount,
  shown <- listShown, loading <- listLoading, thumbs <- listThumbs,
  media <- listMedia, flying <- listFlying, muddled <- listMuddled,
  clicks <- listClicks

I == INSTANCE SetterInbox WITH
  Workers <- Slots,
  thread <- threadThread, mirror <- threadMirror, lastIn <- threadLastIn,
  lastOut <- threadLastOut, takeover <- threadTakeover, mode <- threadMode,
  job <- threadJob, armed <- threadArmed, row <- threadRow, pc <- threadPc,
  on <- threadOn, snap <- threadSnap, sent <- threadSent,
  sweep <- threadSweep, burst <- threadBurst, quiet <- threadQuiet,
  patches <- threadPatches

ASSUME DashboardBounds ==
  /\ S!DraftsHaveAccounts /\ S!NobodyIsNobody /\ S!PageBounds
  /\ B!FormBounds /\ L!ListBounds
  /\ MaxWrites \in Nat /\ MaxPatches \in Nat
  /\ Acks \subseteq I!Mids /\ Wordless \subseteq I!Mids /\ PageSize \in Nat \ {0}
  /\ Events \subseteq I!AllEvents

setterVars ==
  <<setterAccount, setterForm, setterLoading, setterSaving, setterSaveState,
    setterFeed, setterBusy, setterFlying, setterConfig, setterStatus,
    setterSends, setterLost, setterDropped, setterClicks, setterHasty>>
formVars ==
  <<formPlace, formForm, formAsked, formSaves, formStored, formCampaigns,
    formRows, formStaged, formSkipped, formDoubtful, formClicks>>
listVars ==
  <<listCampaigns, listPage, listAccount, listShown, listLoading, listThumbs,
    listMedia, listFlying, listMuddled, listClicks>>

threadVars ==
  <<threadThread, threadMirror, threadLastIn, threadLastOut, threadTakeover,
    threadMode, threadJob, threadArmed, threadRow, threadPc, threadOn,
    threadSnap, threadSent, threadSweep, threadBurst, threadQuiet,
    threadPatches>>

-----------------------------------------------------------------------------
(* The properties of the parts, as their modules state them *)

\* Every variable of every part has its type.
TypesOK == TypeOK /\ S!TypeOK /\ B!TypeOK /\ L!TypeOK

\* What the page saves, says and sends is what its owner chose.
SetterHolds == S!SetterHolds
\* Each row of an import makes one campaign, of a post of its own account.
FormHolds == B!FormHolds
\* An edit that touches no field of a campaign changes none, nor another's.
EditKeepsFields == B!EditKeepsFields
\* The list shows the campaigns and the pictures that are there.
ListHolds == L!ListHolds
\* Nothing new is answered after a recorded takeover.
ThreadHolds == I!ThreadHolds
=============================================================================
