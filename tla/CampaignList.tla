---------------------------- MODULE CampaignList ----------------------------
(***************************************************************************)
(* The list of campaigns and the page of a single one, in one browser tab. *)
(* Both switch a campaign on and off, and the list deletes and duplicates  *)
(* campaigns: the screen is changed when an answer comes, as if the server *)
(* had done what was asked.  An answer may come late, in another order, or *)
(* refuse.                                                                 *)
(***************************************************************************)
EXTENDS Naturals, FiniteSets, Sequences

CONSTANTS
  Accounts,   \* connected Instagram accounts
  AccountOf,  \* AccountOf[c]: the account of a campaign that is there from the start
  All,        \* the choice of all accounts
  MaxMade,    \* bound on campaigns
  MaxFlying,  \* bound on requests under way
  MaxClicks   \* bound on what the owner does

ListBounds ==
  /\ {MaxMade, MaxFlying, MaxClicks} \subseteq Nat
  /\ \A c \in DOMAIN AccountOf : AccountOf[c] \in Accounts
  /\ All \notin Accounts

VARIABLES
  campaigns,  \* the Automation rows; a deleted one is Gone, one still to come Unmade
  page,       \* 0 for the list, c for the page of campaign c
  account,    \* selectedAccountId
  shown,      \* shown[c]: the campaign as the screen has it, or Gone
  loading,    \* loading
  thumbs,     \* accounts whose thumbnails are there
  media,      \* lists of accounts whose thumbnails are asked for
  flying,     \* requests under way
  muddled,    \* an answer was stale, refused or of another account (observation)
  clicks

screen == <<page, account, shown, loading>>
pictures == <<thumbs, media>>
vars == <<campaigns, screen, pictures, flying, muddled, clicks>>

Ids == 1..MaxMade
Gone == [account |-> All, active |-> FALSE]
Unmade == [account |-> All, active |-> TRUE]
Row(a, active) == [account |-> a, active |-> active]
Kept == {c \in Ids : campaigns[c].account # All}
View(a) == [c \in Ids |-> IF c \in Kept /\ a \in {All, campaigns[c].account} THEN campaigns[c] ELSE Gone]
On(list) == {list[c].account : c \in {c \in Ids : list[c] # Gone}}

Click == clicks < MaxClicks /\ clicks' = clicks + 1
List(a) == [kind |-> "list", account |-> a, rows |-> <<>>]
Change(kind, c, active) ==
  [kind |-> kind, id |-> c, active |-> active, account |-> account, state |-> "sent",
   owner |-> shown[c].account, ours |-> TRUE, number |-> Cardinality(flying)]
Changes == {f \in flying : f.kind # "list"}
Fly(requests) ==
  /\ Cardinality(requests) <= MaxFlying
  /\ flying' = requests

Init ==
  /\ campaigns = [c \in Ids |-> IF c \in DOMAIN AccountOf THEN Row(AccountOf[c], TRUE) ELSE Unmade]
  /\ page = 0 /\ account = All /\ loading = TRUE
  /\ shown = [c \in Ids |-> Gone]
  /\ thumbs = {} /\ media = {}
  /\ flying = {List(All)}
  /\ muddled = FALSE
  /\ clicks = 0

-----------------------------------------------------------------------------
(* What the screen holds *)

\* A slip: the thumbnails of the former list are not cancelled.
PicturesOfAny(list, cached) ==
  /\ media' = IF list = shown \/ On(list) = {} THEN media ELSE media \cup {On(list)}
  /\ thumbs' = IF cached /\ list # shown /\ On(list) # {} THEN On(list) ELSE thumbs

\* The effect of a new list: thumbnails of the accounts on it, at once if they are
\* cached; those asked for the former list are cancelled.
Pictures(list, cached) ==
  /\ media' = IF list = shown THEN media ELSE {On(list)} \ {{}}
  /\ thumbs' = IF cached /\ list # shown /\ On(list) # {} THEN On(list) ELSE thumbs

\* The thumbnails arrive, without those of accounts whose load failed.
PicturesArrive(accounts) ==
  /\ \E asked \in media :
       /\ accounts \subseteq asked
       /\ media' = media \ {asked}
       /\ thumbs' = accounts
  /\ UNCHANGED <<campaigns, screen, flying, muddled, clicks>>

\* A page is left: what it asked for is answered to nobody.
Leave == {[f EXCEPT !.ours = FALSE] : f \in Changes}

\* The page of a campaign opens, or the list; each loads the list of campaigns.
GoTo(c) ==
  /\ Click /\ page # c
  /\ c # 0 => page = 0 /\ ~ loading /\ shown[c] # Gone
  /\ page' = c /\ account' = All /\ loading' = TRUE
  /\ shown' = [d \in Ids |-> Gone]
  /\ media' = {} /\ thumbs' = {}
  /\ Fly(Leave \cup {List(All)})
  /\ muddled' = FALSE
  /\ UNCHANGED campaigns

\* handleAccountChange, and fetchAutomations of the account.
HandleAccountChange(a) ==
  /\ Click /\ page = 0 /\ ~ loading /\ a # account
  /\ account' = a /\ loading' = TRUE
  /\ Fly(flying \cup {List(a)})
  /\ UNCHANGED <<campaigns, page, shown, pictures, muddled>>

\* GET automations reads the rows; its answer may come much later.
Read(f) ==
  /\ f \in flying /\ f.kind = "list" /\ f.rows = <<>>
  /\ flying' = (flying \ {f}) \cup {[f EXCEPT !.rows = View(f.account)]}
  /\ UNCHANGED <<campaigns, screen, pictures, muddled, clicks>>

\* The list arrives, whichever account is selected by then.  The page of a campaign
\* takes that campaign from it.
Listed(f, cached) ==
  /\ f \in flying /\ f.kind = "list" /\ f.rows # <<>>
  /\ LET list == [c \in Ids |-> IF page \in {0, c} THEN f.rows[c] ELSE Gone] IN
       shown' = list /\ Pictures(list, cached)
  /\ loading' = FALSE
  /\ flying' = flying \ {f}
  /\ muddled' = (f.account # account \/ f.rows # View(account) \/ Changes # {})
  /\ UNCHANGED <<campaigns, page, account, clicks>>

\* The list does not arrive: the screen keeps what it had.
Unlisted(f) ==
  /\ f \in flying /\ f.kind = "list"
  /\ loading' = FALSE
  /\ flying' = flying \ {f}
  /\ muddled' = TRUE
  /\ UNCHANGED <<campaigns, page, account, shown, pictures, clicks>>

-----------------------------------------------------------------------------
(* Changes *)

Conflicts(c, active) == \E f \in Changes : f.id = c /\ f.active # active

\* toggleActive: what the screen showed at the click is reversed.  The button of the
\* campaign's own page is disabled until the answer.
ToggleActive(c) ==
  /\ Click /\ ~ loading /\ shown[c] # Gone
  /\ page # 0 => ~ \E f \in Changes : f.ours
  /\ Fly(flying \cup {Change("toggle", c, ~ shown[c].active)})
  /\ muddled' = (muddled \/ Conflicts(c, ~ shown[c].active))
  /\ UNCHANGED <<campaigns, screen, pictures>>

\* deleteAutomation, once confirmed, and duplicateAutomation.
DeleteOrDuplicate(c, kind) ==
  /\ Click /\ page = 0 /\ ~ loading /\ shown[c] # Gone
  /\ Fly(flying \cup {Change(kind, c, shown[c].active)})
  /\ UNCHANGED <<campaigns, screen, pictures, muddled>>

\* PATCH, DELETE and POST automations, as Campaigns has them; a campaign that is gone
\* is refused, and so may any request be.
Handle(f) ==
  /\ f \in Changes /\ f.state = "sent"
  /\ \/ /\ \/ /\ f.kind = "toggle" /\ f.id \in Kept
              /\ campaigns' = [campaigns EXCEPT ![f.id].active = f.active]
           \/ /\ f.kind = "delete" /\ f.id \in Kept
              /\ campaigns' = [campaigns EXCEPT ![f.id] = Gone]
           \/ /\ f.kind = "duplicate" /\ campaigns[MaxMade] = Unmade
              /\ campaigns' = [campaigns EXCEPT ![MaxMade] = Row(f.owner, FALSE)]
        /\ flying' = (flying \ {f}) \cup {[f EXCEPT !.state = "done"]}
        /\ muddled' = (muddled \/ ~ f.ours)
     \/ /\ flying' = (flying \ {f}) \cup {[f EXCEPT !.state = "refused"]}
        /\ muddled' = (muddled \/ f.kind # "duplicate")
        /\ UNCHANGED campaigns
  /\ UNCHANGED <<screen, pictures, clicks>>

\* A slip: what is shown by now is reversed.
Reversed(f) ==
  [c \in Ids |-> IF c # f.id \/ shown[c] = Gone THEN shown[c]
                 ELSE [shown[c] EXCEPT !.active = ~ @]]

\* The screen as the request wanted it.
Applied(f) ==
  [c \in Ids |-> IF c # f.id \/ shown[c] = Gone THEN shown[c]
                 ELSE IF f.kind = "delete" THEN Gone ELSE [shown[c] EXCEPT !.active = f.active]]

\* The answer of a switch or a deletion, which is not looked at.
Answered(f, cached) ==
  /\ f \in Changes /\ f.state # "sent" /\ f.kind \in {"toggle", "delete"} /\ f.ours
  /\ shown' = Applied(f)
  /\ Pictures(Applied(f), cached)
  /\ flying' = flying \ {f}
  /\ UNCHANGED <<campaigns, page, account, loading, muddled, clicks>>

\* The answer of a duplication: the list is loaded again, of the account of the click.
Duplicated(f) ==
  /\ f \in Changes /\ f.state # "sent" /\ f.kind = "duplicate" /\ f.ours
  /\ flying' = (flying \ {f}) \cup (IF f.state = "done" THEN {List(f.account)} ELSE {})
  /\ UNCHANGED <<campaigns, screen, pictures, muddled, clicks>>

\* An answer is lost, or there is nobody to take it.
Unanswered(f) ==
  /\ f \in Changes /\ f.state # "sent"
  /\ flying' = flying \ {f}
  /\ muddled' = (muddled \/ f.ours)
  /\ UNCHANGED <<campaigns, screen, pictures, clicks>>

Next ==
  \/ \E c \in 0..MaxMade : GoTo(c)
  \/ \E a \in Accounts \cup {All} : HandleAccountChange(a)
  \/ \E c \in Ids : ToggleActive(c) \/ \E kind \in {"delete", "duplicate"} : DeleteOrDuplicate(c, kind)
  \/ \E f \in flying :
       \/ Read(f) \/ Unlisted(f) \/ Handle(f) \/ Duplicated(f) \/ Unanswered(f)
       \/ \E cached \in BOOLEAN : Listed(f, cached) \/ Answered(f, cached)
  \/ \E accounts \in SUBSET Accounts : PicturesArrive(accounts)

Spec == Init /\ [][Next]_vars

-----------------------------------------------------------------------------
(* Properties *)

\* Every variable has its type.
TypeOK ==
  /\ page \in 0..MaxMade /\ account \in Accounts \cup {All}
  /\ \A c \in Ids : {campaigns[c].account, shown[c].account} \subseteq Accounts \cup {All}
  /\ thumbs \subseteq Accounts

\* Once everything is answered the screen shows the campaigns as they are, although
\* each answer is applied alone and without a look at it: unless one was refused,
\* lost, read too early or of another account, or a switch crossed its opposite.
ShownIsTrue ==
  flying = {} /\ ~ muddled =>
    \A c \in Ids : page \in {0, c} => shown[c] = View(account)[c]

\* The thumbnails on a list are of its own accounts, though they are loaded apart from
\* it and the list may have changed since they were asked for.
PicturesAreOfList == media = {} /\ On(shown) # {} => thumbs \subseteq On(shown)

\* The list shows the campaigns and the pictures that are there.
ListHolds == ShownIsTrue /\ PicturesAreOfList
=============================================================================
