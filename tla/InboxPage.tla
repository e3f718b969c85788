----------------------------- MODULE InboxPage -----------------------------
(***************************************************************************)
(* The dashboard's inbox in one browser tab: the account and the thread    *)
(* that are open, the conversation list and the messages painted, the      *)
(* session cache, the held draft of each thread and the reply being        *)
(* written.  Requests are answered in any order, or not at all, and an     *)
(* answer acts on whatever the tab shows by then: no handler looks whether *)
(* the account or the thread it asked for is still the one on screen.      *)
(*                                                                         *)
(* A thread stands for its messages, an account for its list, a draft for  *)
(* its text: what matters is whose data is shown where.                    *)
(***************************************************************************)
EXTENDS Naturals, FiniteSets

CONSTANTS
  Accounts,    \* connected Instagram accounts
  Threads,     \* conversations
  AccountOf,   \* AccountOf[t]: the account a conversation belongs to
  None,        \* no account, no thread
  MaxClicks,   \* bound on what the owner does
  MaxFlying,   \* bound on requests under way
  MaxDrafts    \* bound on the drafts the setter holds in all

ASSUME ThreadsHaveAccounts == AccountOf \in [Threads -> Accounts]
ASSUME NoneIsNone == None \notin Accounts \cup Threads
ASSUME BoundsAreNat == {MaxClicks, MaxFlying, MaxDrafts} \subseteq Nat

VARIABLES
  account,    \* selectedAccountId
  open,       \* activeId
  list,       \* the account whose conversations are painted, or None
  view,       \* the thread whose messages are painted, or None
  loading,    \* threadLoading
  lists,      \* lists[a]: the session cache under convCacheKey(a)
  pages,      \* pages[t]: the session cache under msgCacheKey(t)
  flying,     \* requests under way
  sending,    \* the thread handleSend was called in, or None
  busy,       \* aiBusy
  held,       \* held[t]: the number of the draft the server holds, 0 for none
  last,       \* how many drafts there have been
  shown,      \* shown[t]: the draft of aiStates, 0 for none
  edits,      \* draftEdits: the threads and drafts typed over
  acted,      \* the last approval sent: its draft, and the draft its text was
              \* written over (observation)
  clicks      \* what the owner has done so far

shownVars == <<account, open, list, view, loading>>
cacheVars == <<lists, pages>>
draftVars == <<held, last, shown, edits, acted, busy>>
vars == <<shownVars, cacheVars, flying, sending, draftVars, clicks>>

\* The conversation found in the list painted: nothing when it is not there.
Active == IF open # None /\ AccountOf[open] = list THEN open ELSE None

\* The conversations the list offers.
Painted == {t \in Threads : AccountOf[t] = list}

\* Requests: of the list, a thread, the drafts; a send and the thread loaded
\* after it; the fate of a draft; a switch of the thread.
Request(kind, a, t, silent) ==
  [kind |-> kind, account |-> a, thread |-> t, draft |-> 0, silent |-> silent]
Kinds == {"list", "thread", "states", "send", "reload", "act", "mode"}

Fly(requests) ==
  /\ Cardinality(flying \cup requests) <= MaxFlying
  /\ flying' = flying \cup requests
Click == clicks < MaxClicks /\ clicks' = clicks + 1

Init ==
  /\ account \in Accounts
  /\ open = None /\ list = None /\ view = None /\ loading = FALSE
  /\ lists = [a \in Accounts |-> None]
  /\ pages = [t \in Threads |-> None]
  /\ flying = {Request("list", account, None, TRUE), Request("states", account, None, TRUE)}
  /\ sending = None
  /\ busy = FALSE
  /\ held = [t \in Threads |-> 0]
  /\ last = 0
  /\ shown = [t \in Threads |-> 0]
  /\ edits = {} /\ acted = [draft |-> 0, text |-> 0]
  /\ clicks = 0

-----------------------------------------------------------------------------
(* The owner *)

\* The effects of a new account: the thread is closed, the cached list is
\* painted if there is one, and the list and the drafts are asked for.  The
\* effect of the thread runs once more, for the old thread: loadMessages is new.
SelectAccount(a) ==
  LET again == IF open = None THEN {}
                              ELSE {Request("thread", a, open, pages[open] # None)}
  IN
  /\ Click /\ a # account
  /\ account' = a
  /\ open' = None
  /\ list' = lists[a]
  /\ IF open = None THEN view' = None /\ UNCHANGED loading
                    ELSE view' = pages[open] /\ loading' = (pages[open] = None)
  /\ Fly(again \cup {Request("list", a, None, TRUE),
                     Request("states", a, None, TRUE)})
  /\ UNCHANGED <<cacheVars, sending, draftVars>>

\* openConversation, and the effect of a new activeId.
OpenConversation(t) ==
  /\ Click /\ t \in Painted
  /\ open' = t
  /\ view' = pages[t]
  /\ loading' = (pages[t] = None)
  /\ IF t = open THEN UNCHANGED flying
                 ELSE Fly({Request("thread", account, t, pages[t] # None)})
  /\ UNCHANGED <<account, list, cacheVars, sending, draftVars>>

Back ==
  /\ Click /\ Active # None
  /\ open' = None
  /\ UNCHANGED <<account, list, view, loading, cacheVars, flying, sending, draftVars>>

\* handleSend up to the request: the reply is painted before it is sent.
HandleSend ==
  /\ Click /\ Active # None /\ sending = None
  /\ sending' = Active
  /\ Fly({Request("send", account, Active, TRUE)})
  /\ UNCHANGED <<account, open, list, view, loading, cacheVars, draftVars>>

\* The owner types over the draft that is shown to him.
EditDraft ==
  /\ Click /\ Active # None /\ shown[Active] # 0
  /\ edits' = edits \cup {[thread |-> Active, draft |-> shown[Active]]}
  /\ UNCHANGED <<shownVars, cacheVars, flying, sending, busy, held, last, shown, acted>>

\* actOnDraft up to the request; an approval carries the edit, if there is one.
Act(action, edit) ==
  LET d == shown[Active] IN
  /\ Click /\ Active # None /\ d # 0 /\ ~ busy
  /\ busy' = TRUE
  /\ Fly({[Request("act", account, Active, TRUE) EXCEPT !.draft = d]})
  /\ acted' = IF action = "dismiss" THEN acted
               ELSE [draft |-> d, text |-> IF edit = {} THEN d
                                           ELSE (CHOOSE e \in edit : TRUE).draft]
  /\ UNCHANGED <<shownVars, cacheVars, sending, held, last, shown, edits>>

\* A slip: edits are kept per contact.
ActOnDraftByContact(action) == Act(action, {e \in edits : e.thread = Active})

ActOnDraft(action) ==
  Act(action, {e \in edits : e.thread = Active /\ e.draft = shown[Active]})

\* setThreadMode: the row itself is the business of its handler.
SetThreadMode ==
  /\ Click /\ Active # None /\ ~ busy
  /\ busy' = TRUE
  /\ Fly({Request("mode", account, Active, TRUE)})
  /\ UNCHANGED <<shownVars, cacheVars, sending, held, last, shown, edits, acted>>

-----------------------------------------------------------------------------
(* The intervals, of the account and the thread that are open *)

Poll(kind) ==
  LET r == Request(kind, account, IF kind = "thread" THEN open ELSE None, TRUE) IN
  /\ kind = "thread" => open # None
  /\ r \notin flying /\ Fly({r})
  /\ UNCHANGED <<shownVars, cacheVars, sending, draftVars, clicks>>

-----------------------------------------------------------------------------
(* Answers, in any order *)

\* The routes act through the account of the request, and Graph refuses them a
\* thread of another: the one that reads it, ...
Readable(r) == AccountOf[r.thread] = r.account

\* ... the one that sends into it.
Sendable(r) == AccountOf[r.thread] = r.account

\* The newest held draft of every thread of the account.
HeldDrafts(a) == [t \in Threads |-> IF AccountOf[t] = a THEN held[t] ELSE 0]

\* What follows a request: the list, when the thread of a send is loaded.
Land(r, kinds) ==
  /\ r \in flying /\ r.kind \in kinds
  /\ flying' = (flying \ {r}) \cup (IF r.kind = "reload"
                                      THEN {Request("list", r.account, None, TRUE)} ELSE {})
  /\ sending' = IF r.kind \in {"reload", "send"} THEN None ELSE sending

\* loadConversations after its await.
ListArrives(r) ==
  /\ Land(r, {"list"})
  /\ list' = r.account
  /\ lists' = [lists EXCEPT ![r.account] = r.account]
  /\ UNCHANGED <<account, open, view, loading, pages, draftVars, clicks>>

\* A slip: the cache is written under the thread that is open by now.
ThreadArrivesAtOpen(r) ==
  /\ Land(r, {"thread", "reload"}) /\ Readable(r)
  /\ view' = r.thread
  /\ pages' = IF open = None THEN pages ELSE [pages EXCEPT ![open] = r.thread]
  /\ loading' = (loading /\ r.silent)
  /\ UNCHANGED <<account, open, list, lists, draftVars, clicks>>

\* loadMessages after its await; Graph refuses a thread of another account.
ThreadArrives(r) ==
  /\ Land(r, {"thread", "reload"}) /\ Readable(r)
  /\ view' = r.thread
  /\ pages' = [pages EXCEPT ![r.thread] = r.thread]
  /\ loading' = (loading /\ r.silent)
  /\ UNCHANGED <<account, open, list, lists, draftVars, clicks>>

\* loadAiStates after its await: the drafts of that account replace all.
StatesArrive(r) ==
  /\ Land(r, {"states"})
  /\ shown' = HeldDrafts(r.account)
  /\ UNCHANGED <<shownVars, cacheVars, held, last, edits, acted, busy, clicks>>

\* handleSend after a success: it waits for the thread of the send.
Sent(r) ==
  /\ r \in flying /\ r.kind = "send" /\ Sendable(r)
  /\ flying' = (flying \ {r}) \cup {Request("reload", r.account, r.thread, TRUE)}
  /\ UNCHANGED <<shownVars, cacheVars, sending, draftVars, clicks>>

\* handleSend after a refusal: the optimistic message goes, the text comes back.
Refused(r) ==
  /\ Land(r, {"send"})
  /\ UNCHANGED <<account, open, list, view, loading, cacheVars, draftVars, clicks>>

\* actOnDraft after a success: the edit is dropped, drafts and thread reloaded.
\* The server has decided the draft and holds it no longer.
Acted(r) ==
  /\ r \in flying /\ r.kind = "act"
  /\ edits' = edits \ {[thread |-> r.thread, draft |-> r.draft]}
  /\ held' = [held EXCEPT ![r.thread] = IF @ = r.draft THEN 0 ELSE @]
  /\ flying' = (flying \ {r}) \cup {Request("thread", r.account, r.thread, TRUE),
                                    Request("states", r.account, None, TRUE)}
  /\ busy' = FALSE
  /\ UNCHANGED <<shownVars, cacheVars, sending, last, shown, acted, clicks>>

\* setThreadMode after a success.
ModeSet(r) ==
  /\ r \in flying /\ r.kind = "mode"
  /\ flying' = (flying \ {r}) \cup {Request("states", r.account, None, TRUE)}
  /\ busy' = FALSE
  /\ UNCHANGED <<shownVars, cacheVars, sending, held, last, shown, edits, acted, clicks>>

\* A slip: a refused switch leaves the page busy.
FailsBusy(r) ==
  /\ Land(r, Kinds \ {"send"})
  /\ loading' = (loading /\ (r.kind # "thread" \/ r.silent))
  /\ UNCHANGED <<account, open, list, view, cacheVars, draftVars, clicks>>

\* A request fails, or Graph refuses it: what is shown stays.
Fails(r) ==
  /\ Land(r, Kinds \ {"send"})
  /\ loading' = (loading /\ (r.kind # "thread" \/ r.silent))
  /\ busy' = (busy /\ r.kind \notin {"act", "mode"})
  /\ UNCHANGED <<account, open, list, view, cacheVars,
                 held, last, shown, edits, acted, clicks>>

\* The setter holds one more draft in a thread, in place of the last.
NewDraft(t) ==
  /\ last < MaxDrafts
  /\ last' = last + 1
  /\ held' = [held EXCEPT ![t] = last + 1]
  /\ UNCHANGED <<shownVars, cacheVars, flying, sending, shown, edits, acted, busy, clicks>>

Ends(r) ==
  \/ ListArrives(r) \/ ThreadArrives(r) \/ StatesArrive(r) \/ Sent(r) \/ Refused(r)
  \/ Acted(r) \/ ModeSet(r) \/ Fails(r)

Next ==
  \/ \E a \in Accounts : SelectAccount(a)
  \/ \E t \in Threads : OpenConversation(t) \/ NewDraft(t)
  \/ Back \/ HandleSend \/ EditDraft \/ SetThreadMode
  \/ \E action \in {"approve", "dismiss"} : ActOnDraft(action)
  \/ \E kind \in {"list", "thread", "states"} : Poll(kind)
  \/ \E r \in flying : Ends(r)

Spec == Init /\ [][Next]_vars

\* Requests of the tab's present, that a poll asks for again and again.
Current(r) == r.kind \in {"list", "thread"} /\ r.account = account
              /\ (r.kind = "thread" => r.thread = open)

\* The intervals fire; every other request ends, and a poll repeated for ever is
\* once answered.  The owner is not made to click.
Fairness ==
  /\ \A kind \in {"list", "thread"} : SF_vars(Poll(kind))
  /\ SF_vars(\E r \in flying : Current(r) /\ ListArrives(r))
  /\ SF_vars(\E r \in flying : Current(r) /\ ThreadArrives(r))
  /\ \A k \in Kinds : WF_vars(\E r \in flying : r.kind = k /\ ~ Current(r) /\ Ends(r))
FairSpec == Spec /\ Fairness

-----------------------------------------------------------------------------
(* Properties *)

\* Every variable has its type.
TypeOK ==
  /\ account \in Accounts
  /\ {open, view, sending} \subseteq Threads \cup {None}
  /\ list \in Accounts \cup {None}
  /\ \A r \in flying : r.kind \in Kinds /\ r.account \in Accounts
  /\ \A t \in Threads : held[t] <= last /\ shown[t] <= last

\* Whatever order the answers come in and wherever the owner has gone by then,
\* what is cached under a thread or an account is its own.
CachesAreTrue ==
  /\ \A a \in Accounts : lists[a] \in {None, a}
  /\ \A t \in Threads : pages[t] \in {None, t}

\* An approval never carries the text the owner wrote over another draft, though
\* a poll puts a new draft in the same place while he writes.
ApprovedTextIsItsOwn == acted.text = acted.draft

\* An answer of another thread or account may be painted over the open one, but
\* not for good: once the owner stops, the tab shows what is open, no reply is
\* left unconfirmed and nothing is left busy.
ScreenSettles ==
  <>[](list = account /\ (Active # None => view = Active) /\ sending = None /\ ~ busy)

\* Nothing of one thread or draft is kept, or sent, as another's.
InboxHolds == CachesAreTrue /\ ApprovedTextIsItsOwn
=============================================================================
